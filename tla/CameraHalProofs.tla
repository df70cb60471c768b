-------------------------- MODULE CameraHalProofs --------------------------
(***************************************************************************)
(* What CameraHal promises for any number of binder threads, requests,     *)
(* calls and buffers: the remaining steps of a capture, flush,             *)
(* configure_streams and close keep the invariant of CameraHalStepProofs,  *)
(* and the theorems follow from it.                                        *)
(***************************************************************************)
EXTENDS CameraHalStepProofs

\* On to the next buffer with locals of the same frame.
LEMMA Advances ==
  ASSUME NEW t \in Threads, NEW x \in Locals, Advance(t, x)
  PROVE  \E y \in Locals, l \in {"cap_done", "cap_buf"} :
           /\ y.frame = x.frame /\ y.captured = x.captured /\ y.written = x.written
           /\ loc' = [loc EXCEPT ![t] = y] /\ pc' = [pc EXCEPT ![t] = l]
<1> DEFINE y == [x EXCEPT !.idx = x.idx + 1, !.retries = 0, !.held = -1]
           l == IF Still(t) THEN "cap_done" ELSE "cap_buf"
<1>1. loc' = [loc EXCEPT ![t] = y] BY DEF Advance
<1>2. pc' = [pc EXCEPT ![t] = l] BY DEF Advance, Goto
<1>3. x.idx + 1 \in Nat /\ 0 \in Nat /\ -1 \in Int BY DEF Locals
<1>4. y \in Locals /\ y.frame = x.frame /\ y.captured = x.captured /\ y.written = x.written BY <1>3 DEF Locals
<1>5. l \in {"cap_done", "cap_buf"} OBVIOUS
<1> HIDE DEF y, l
<1> QED BY <1>1, <1>2, <1>4, <1>5

\* A capture goes on without a buffer in hand, and the pipeline is as it was.
LEMMA GoesOnWithout ==
  ASSUME DeviceInv, NEW t \in Threads, pc[t] \in CaptureSteps, pc[t] # "cap_proc",
         NEW l \in CaptureSteps, l # "cap_proc", NEW x \in Locals,
         x.frame = loc[t].frame, ~ x.captured => x.written = {},
         pc' = [pc EXCEPT ![t] = l], loc' = [loc EXCEPT ![t] = x],
         UNCHANGED <<dev, pipe, lock, next, calls, tracker, marked, ret, msgs, result>>
  PROVE  DeviceInv'
<1> USE DEF DeviceInv
<1>1. lock = t /\ dev \in Device /\ dev # NoDev BY AloneInCapture
<1>2. ControlInv' /\ LocalsInv' /\ AnswerInv' /\ TrackerInv' BY <1>1, CaptureGoesOn
<1>3. \A u \in Threads : pc[u] # "cap_proc"
  <2>1. \A u \in Threads \ {t} : pc[u] # "cap_proc" BY AloneInCapture DEF CaptureSteps
  <2> QED BY <2>1
<1>4. pipe = NoPipe \/ (pipe # NoPipe /\ PipeOK(pipe)) BY DEF PipeInv
<1>5. ~Faults /\ pipe # NoPipe /\ pipe.mState = "STREAMING" => AllQueued(pipe) BY <1>3, AllBack
<1>6. /\ pipe' = NoPipe \/ (pipe # NoPipe /\ PipeOK(pipe'))
      /\ ~Faults /\ pipe' # NoPipe /\ pipe'.mState = "STREAMING" => AllQueued(pipe')
  <2>1. pipe' = pipe OBVIOUS
  <2> QED BY <1>4, <1>5, <2>1
<1>7. PipeInv' BY <1>1, <1>6, PipeWithout
<1> QED BY <1>2, <1>7

\* A buffer is skipped, or a frame asked for.
LEMMA BufStep == ASSUME DeviceInv, NEW t \in Threads, CaptureBuf(t) PROVE DeviceInv'
<1> DEFINE x == [loc[t] EXCEPT !.hasBlobOutput = loc[t].hasBlobOutput \/ IsBlob(t)]
<1>1. /\ pc[t] = "cap_buf"
      /\ UNCHANGED <<dev, pipe, lock, next, calls, tracker, marked, ret, msgs, result>>
  BY DEF CaptureBuf, callVars
<1>2. pc[t] \in CaptureSteps /\ pc[t] \in Capturing /\ pc[t] # "cap_proc" BY <1>1 DEF CaptureSteps, Capturing
<1>3. loc[t] \in Locals /\ (~ loc[t].captured => loc[t].written = {}) BY <1>2 DEF DeviceInv, LocalsInv
<1>4. x \in Locals /\ x.frame = loc[t].frame /\ x.captured = loc[t].captured /\ x.written = loc[t].written
  BY <1>3 DEF Locals
<1>5. CASE Goto(t, "cap_still") /\ UNCHANGED loc
  <2>1. pc' = [pc EXCEPT ![t] = "cap_still"] /\ loc' = [loc EXCEPT ![t] = loc[t]] BY <1>5 DEF Goto, DeviceInv, LocalsInv
  <2>2. "cap_still" \in CaptureSteps BY DEF CaptureSteps
  <2> QED BY <1>1, <1>2, <1>3, <2>1, <2>2, GoesOnWithout
<1>6. CASE Advance(t, x)
  <2> HIDE DEF x
  <2>1. PICK y \in Locals, l \in {"cap_done", "cap_buf"} :
           /\ y.frame = x.frame /\ y.captured = x.captured /\ y.written = x.written
           /\ loc' = [loc EXCEPT ![t] = y] /\ pc' = [pc EXCEPT ![t] = l]
    BY <1>4, <1>6, Advances
  <2>2. l \in CaptureSteps /\ l # "cap_proc" BY DEF CaptureSteps
  <2> QED BY <1>1, <1>2, <1>3, <1>4, <2>1, <2>2, GoesOnWithout
<1>7. CASE loc' = [loc EXCEPT ![t] = x] /\ Goto(t, "cap_poll")
  <2> HIDE DEF x
  <2>1. pc' = [pc EXCEPT ![t] = "cap_poll"] BY <1>7 DEF Goto
  <2>2. "cap_poll" \in CaptureSteps BY DEF CaptureSteps
  <2> QED BY <1>1, <1>2, <1>3, <1>4, <1>7, <2>1, <2>2, GoesOnWithout
<1> QED BY <1>5, <1>6, <1>7 DEF CaptureBuf

\* The extra JPEG is tried, or the request is over.
LEMMA StillStep == ASSUME DeviceInv, NEW t \in Threads, CaptureStill(t) PROVE DeviceInv'
<1>1. /\ pc[t] = "cap_still"
      /\ UNCHANGED <<dev, pipe, lock, next, calls, tracker, marked, ret, msgs, result>>
  BY DEF CaptureStill, callVars
<1>2. pc[t] \in CaptureSteps /\ pc[t] \in Capturing /\ pc[t] # "cap_proc" BY <1>1 DEF CaptureSteps, Capturing
<1>3. loc[t] \in Locals /\ (~ loc[t].captured => loc[t].written = {}) BY <1>2 DEF DeviceInv, LocalsInv
<1>4. CASE Goto(t, "cap_done") /\ UNCHANGED loc
  <2>1. pc' = [pc EXCEPT ![t] = "cap_done"] /\ loc' = [loc EXCEPT ![t] = loc[t]] BY <1>4 DEF Goto, DeviceInv, LocalsInv
  <2>2. "cap_done" \in CaptureSteps BY DEF CaptureSteps
  <2> QED BY <1>1, <1>2, <1>3, <2>1, <2>2, GoesOnWithout
<1>5. CASE loc' = [loc EXCEPT ![t].idx = Len(Bufs(t)) + 1] /\ Goto(t, "cap_poll")
  <2> DEFINE x == [loc[t] EXCEPT !.idx = Len(Bufs(t)) + 1]
  <2>1. Bufs(t) \in Seq({"RGBA", "YCBCR", "BLOB"}) BY <1>3 DEF Locals, Request, Bufs
  <2>2. Len(Bufs(t)) + 1 \in Nat BY <2>1
  <2>3. x \in Locals /\ x.frame = loc[t].frame /\ x.captured = loc[t].captured /\ x.written = loc[t].written
    BY <1>3, <2>2 DEF Locals
  <2>4. loc' = [loc EXCEPT ![t] = x] BY <1>5 DEF DeviceInv, LocalsInv
  <2> HIDE DEF x
  <2>5. pc' = [pc EXCEPT ![t] = "cap_poll"] /\ "cap_poll" \in CaptureSteps BY <1>5 DEF Goto, CaptureSteps
  <2> QED BY <1>1, <1>2, <1>3, <2>3, <2>4, <2>5, GoesOnWithout
<1> QED BY <1>4, <1>5 DEF CaptureStill

\* A filled buffer is taken from the driver: it is now with the capture.
LEMMA TakeStep ==
  ASSUME DeviceInv, NEW t \in Threads, pc[t] = "cap_poll", pipe.mState = "STREAMING", NEW b \in pipe.queued,
         pipe' = Dequeue(pipe, b), loc' = [loc EXCEPT ![t].held = b], Goto(t, "cap_proc"),
         UNCHANGED <<dev, lock, next, calls, tracker, marked, ret, msgs, result>>
  PROVE  DeviceInv'
<1> USE DEF DeviceInv
<1>1. pc[t] \in CaptureSteps /\ pc[t] \in Capturing /\ "cap_proc" \in CaptureSteps BY DEF CaptureSteps, Capturing
<1>2. loc[t] \in Locals /\ (~ loc[t].captured => loc[t].written = {}) BY <1>1 DEF LocalsInv
<1>3. lock = t /\ dev \in Device /\ dev # NoDev BY <1>1, AloneInCapture
<1>40. pipe # NoPipe BY DEF NoPipe
<1>4. pipe # NoPipe /\ PipeOK(pipe) BY <1>40 DEF PipeInv
<1>5. pipe \in Pipeline /\ b \in Buffers BY <1>4 DEF PipeOK, Pipeline
<1> DEFINE x == [loc[t] EXCEPT !.held = b]
<1>6. x \in Locals /\ x.frame = loc[t].frame /\ x.captured = loc[t].captured /\ x.written = loc[t].written /\ x.held = b
  <2>1. b \in Int BY <1>5 DEF Buffers
  <2> QED BY <1>2, <2>1 DEF Locals
<1>7. loc' = [loc EXCEPT ![t] = x] BY DEF LocalsInv
<1> HIDE DEF x
<1>8. pc' = [pc EXCEPT ![t] = "cap_proc"] BY DEF Goto
<1>90. ~ x.captured => x.written = {} BY <1>2, <1>6
<1>91. dev' \in Device /\ dev' # NoDev /\ dev'.closing = dev.closing BY <1>3
<1>9. ControlInv' /\ LocalsInv' /\ AnswerInv' /\ TrackerInv'
  BY <1>1, <1>6, <1>7, <1>8, <1>90, <1>91, CaptureGoesOn
<1>10. pipe' \in Pipeline BY <1>5 DEF Dequeue, Pipeline
<1>11. /\ pipe'.mState = pipe.mState /\ pipe'.mFd = pipe.mFd /\ pipe'.mStreaming = pipe.mStreaming
       /\ pipe'.mapped = pipe.mapped /\ pipe'.mBufferCount = pipe.mBufferCount /\ pipe'.queued = pipe.queued \ {b}
  BY <1>5 DEF Dequeue, Pipeline
<1>12. PipeOK(pipe') BY <1>4, <1>10, <1>11 DEF PipeOK
<1>13. \A u \in Threads \ {t} : pc[u] # "cap_proc" /\ pc'[u] # "cap_proc" BY <1>3, <1>8, OnlyReader
<1>14. ~Faults => AllQueued(pipe) BY <1>4, <1>13, AllBack
<1>15. pc'[t] = "cap_proc" /\ loc'[t].held = b BY <1>6, <1>7, <1>8 DEF ControlInv, LocalsInv
<1>16. b \in pipe.mapped BY <1>4 DEF PipeOK
<1>17. PipeInv'
  <2>1. dev'.streams_configured /\ dev'.size # 0 BY <1>3, <1>4 DEF PipeInv
  <2>2. pipe' # NoPipe BY <1>10 DEF Pipeline, NoPipe
  <2>3. \A u \in Threads : pc'[u] = "cap_proc" =>
           pipe' # NoPipe /\ pipe'.mState = "STREAMING" /\ loc'[u].held \in pipe'.mapped \ pipe'.queued
    BY <1>11, <1>13, <1>15, <1>16, <2>2
  <2>4. ~Faults => \A c \in pipe'.mapped : c \in pipe'.queued \/ (pc'[t] = "cap_proc" /\ loc'[t].held = c)
    BY <1>4, <1>11, <1>14, <1>15 DEF AllQueued, PipeOK
  <2>5. ~Faults => \A c \in pipe'.mapped : c \in pipe'.queued \/ \E u \in Threads : pc'[u] = "cap_proc" /\ loc'[u].held = c
    BY <2>4
  <2> QED BY <1>12, <2>1, <2>3, <2>5, Zenon DEF PipeInv
<1> QED BY <1>9, <1>17

\* One round of the poll loop.
LEMMA PollStep == ASSUME DeviceInv, NEW t \in Threads, CapturePoll(t) PROVE DeviceInv'
<1>1. pc[t] = "cap_poll" /\ UNCHANGED <<dev, next, calls, msgs, result>> BY DEF CapturePoll
<1>2. /\ pc[t] \in CaptureSteps /\ pc[t] \in Capturing /\ pc[t] # "cap_proc" /\ "cap_done" \in CaptureSteps
      /\ "cap_buf" \in CaptureSteps
  BY <1>1 DEF CaptureSteps, Capturing
<1>3. loc[t] \in Locals /\ (~ loc[t].captured => loc[t].written = {}) BY <1>2 DEF DeviceInv, LocalsInv
<1>4. CASE loc' = [loc EXCEPT ![t].retries = @ + 1] /\ UNCHANGED <<pc, tracker, marked, lock, ret, pipe>>
  <2> DEFINE x == [loc[t] EXCEPT !.retries = loc[t].retries + 1]
  <2>1. loc[t].retries + 1 \in Nat BY <1>3 DEF Locals
  <2>2. x \in Locals /\ x.frame = loc[t].frame /\ x.captured = loc[t].captured /\ x.written = loc[t].written
    BY <1>3, <2>1 DEF Locals
  <2>3. loc' = [loc EXCEPT ![t] = x] BY <1>4 DEF DeviceInv, LocalsInv
  <2> HIDE DEF x
  <2>4. pc' = [pc EXCEPT ![t] = pc[t]] BY <1>4 DEF DeviceInv, ControlInv
  <2>5. ~ x.captured => x.written = {} BY <1>3, <2>2
  <2>6. UNCHANGED <<dev, pipe, lock, next, calls, tracker, marked, ret, msgs, result>> BY <1>1, <1>4
  <2> QED BY <1>2, <2>2, <2>3, <2>4, <2>5, <2>6, GoesOnWithout
<1>5. CASE Advance(t, loc[t]) /\ UNCHANGED <<tracker, marked, lock, ret, pipe>>
  <2>1. PICK y \in Locals, l \in {"cap_done", "cap_buf"} :
           /\ y.frame = loc[t].frame /\ y.captured = loc[t].captured /\ y.written = loc[t].written
           /\ loc' = [loc EXCEPT ![t] = y] /\ pc' = [pc EXCEPT ![t] = l]
    BY <1>3, <1>5, Advances
  <2> QED BY <1>1, <1>2, <1>3, <1>5, <2>1, GoesOnWithout
<1>6. CASE ReturnTracked(t, "EAGAIN") /\ UNCHANGED pipe
  <2> USE DEF DeviceInv
  <2>1. lock = t /\ dev \in Device /\ dev # NoDev BY <1>2, AloneInCapture
  <2>2. ControlInv' /\ LocalsInv' /\ TrackerInv' BY <1>1, <1>2, <1>6, <2>1, CaptureLeaves
  <2>3. AnswerInv' BY <1>1, <1>2, <1>6, ErrorAnswer DEF ReturnTracked, Return, Returns
  <2>4. pc' = [pc EXCEPT ![t] = "idle"] BY <1>6 DEF ReturnTracked, Return, Goto
  <2>5. \A u \in Threads : pc[u] # "cap_proc"
    <3>1. \A u \in Threads \ {t} : pc[u] # "cap_proc" BY <1>2, AloneInCapture DEF CaptureSteps
    <3> QED BY <1>2, <3>1
  <2>6. ~Faults /\ pipe # NoPipe /\ pipe.mState = "STREAMING" => AllQueued(pipe) BY <2>5, AllBack
  <2>7. pipe = NoPipe \/ PipeOK(pipe) BY DEF PipeInv
  <2>8. PipeInv' BY <1>1, <1>2, <1>6, <2>1, <2>4, <2>6, <2>7, PipeWithout
  <2> QED BY <2>2, <2>3, <2>8
<1>7. ASSUME pipe.mState = "STREAMING", NEW b \in pipe.queued, pipe' = Dequeue(pipe, b),
             loc' = [loc EXCEPT ![t].held = b], Goto(t, "cap_proc"), UNCHANGED <<tracker, marked, lock, ret>>
      PROVE  DeviceInv'
  BY <1>1, <1>7, TakeStep
<1> QED BY <1>4, <1>5, <1>6, <1>7 DEF CapturePoll, CaptureAgain

\* The buffer is read and queued again, or lost to a fault.
LEMMA ProcStep == ASSUME DeviceInv, NEW t \in Threads, CaptureProc(t) PROVE DeviceInv'
<1> USE DEF DeviceInv
<1> DEFINE w == IF Still(t) THEN loc[t].written ELSE loc[t].written \cup {loc[t].idx}
           x == [loc[t] EXCEPT !.captured = TRUE, !.written = w]
<1>1. /\ pc[t] = "cap_proc"
      /\ UNCHANGED <<dev, tracker, marked, lock, next, calls, ret, msgs, result>>
  BY DEF CaptureProc, callVars
<1>2. pc[t] \in CaptureSteps /\ pc[t] \in Capturing BY <1>1 DEF CaptureSteps, Capturing
<1>3. loc[t] \in Locals /\ (~ loc[t].captured => loc[t].written = {}) BY <1>2 DEF LocalsInv
<1>4. lock = t /\ dev \in Device /\ dev # NoDev BY <1>2, AloneInCapture
<1>5. pipe # NoPipe /\ PipeOK(pipe) /\ pipe.mState = "STREAMING" /\ loc[t].held \in pipe.mapped \ pipe.queued
  BY <1>1 DEF PipeInv
<1>6. x \in Locals /\ x.frame = loc[t].frame /\ x.captured
  <2>1. w \in SUBSET Nat /\ TRUE \in BOOLEAN BY <1>3 DEF Locals
  <2> HIDE DEF w
  <2> QED BY <1>3, <2>1 DEF Locals
<1>7. PICK z \in {loc[t], x} : Advance(t, z) BY DEF CaptureProc
<1> HIDE DEF x, w
<1>8. z \in Locals /\ z.frame = loc[t].frame /\ (~ z.captured => z.written = {}) BY <1>3, <1>6
<1>9. PICK y \in Locals, l \in {"cap_done", "cap_buf"} :
           /\ y.frame = z.frame /\ y.captured = z.captured /\ y.written = z.written
           /\ loc' = [loc EXCEPT ![t] = y] /\ pc' = [pc EXCEPT ![t] = l]
  BY <1>7, <1>8, Advances
<1>10. l \in CaptureSteps /\ l # "cap_proc" BY DEF CaptureSteps
<1>11. y.frame = loc[t].frame /\ (~ y.captured => y.written = {}) BY <1>8, <1>9
<1>12. dev' \in Device /\ dev' # NoDev /\ dev'.closing = dev.closing BY <1>1, <1>4
<1>13. ControlInv' /\ LocalsInv' /\ AnswerInv' /\ TrackerInv'
  BY <1>1, <1>2, <1>9, <1>10, <1>11, <1>12, CaptureGoesOn
<1>14. pipe \in Pipeline BY <1>5 DEF PipeOK
<1>15. \A b \in pipe.mapped : ~Faults => b \in pipe.queued \/ b = loc[t].held
  <2>1. \A u \in Threads : pc[u] = "cap_proc" => u = t BY <1>2, AloneInCapture DEF CaptureSteps
  <2> QED BY <1>5, <2>1 DEF PipeInv
<1>16. loc[t].held < pipe.mBufferCount
  <2>1. pipe.mBufferCount \in Int BY <1>14 DEF Pipeline
  <2>2. loc[t].held \in 0 .. pipe.mBufferCount - 1 BY <1>5 DEF PipeOK, FirstBuffers
  <2> QED BY <2>1, <2>2
<1>17. CASE pipe' = Requeue(pipe, loc[t].held)
  <2>1. pipe.queued \cup {loc[t].held} \in SUBSET Buffers BY <1>5, <1>14 DEF Pipeline
  <2>2. pipe' \in Pipeline BY <1>14, <1>17, <2>1 DEF Requeue, Pipeline
  <2>3. /\ pipe'.mState = pipe.mState /\ pipe'.mFd = pipe.mFd /\ pipe'.mStreaming = pipe.mStreaming
        /\ pipe'.mapped = pipe.mapped /\ pipe'.mBufferCount = pipe.mBufferCount
        /\ pipe'.queued = pipe.queued \cup {loc[t].held}
    BY <1>14, <1>17 DEF Requeue, Pipeline
  <2>4. PipeOK(pipe') BY <1>5, <2>2, <2>3 DEF PipeOK
  <2>5. ~Faults => AllQueued(pipe') BY <1>5, <1>15, <2>3 DEF AllQueued, PipeOK
  <2>6. PipeInv' BY <1>1, <1>2, <1>4, <1>5, <1>9, <1>10, <2>4, <2>5, PipeWithout
  <2> QED BY <1>13, <2>6
<1>18. CASE Faults /\ UNCHANGED pipe
  <2>1. PipeOK(pipe') BY <1>5, <1>18
  <2>2. PipeInv' BY <1>1, <1>2, <1>4, <1>5, <1>9, <1>10, <1>18, <2>1, PipeWithout
  <2> QED BY <1>13, <2>2
<1>19. loc[t].held \in Int /\ pipe.mBufferCount \in Int BY <1>3, <1>14 DEF Locals, Pipeline
<1>20. Faults \/ ~ loc[t].held >= pipe.mBufferCount BY <1>16, <1>19
<1> QED BY <1>17, <1>18, <1>20 DEF CaptureProc

\* One element after another.
LEMMA TwoElements == ASSUME NEW a, NEW b PROVE <<a>> \o <<b>> = <<a, b>>
<1> DEFINE c == <<a>> \o <<b>>
<1>1. <<a>> \in Seq({a, b}) /\ <<b>> \in Seq({a, b}) OBVIOUS
<1>2. c \in Seq({a, b}) /\ Len(c) = 2 /\ c[1] = a /\ c[2] = b BY <1>1
<1> HIDE DEF c
<1>3. c = <<a, b>> BY <1>2
<1> QED BY <1>3 DEF c

\* The callbacks of a request that was not flushed.
LEMMA AnswerIs ==
  ASSUME NEW t
  PROVE  <<>> \o Answer(t, FALSE) = <<IF loc[t].captured THEN "SHUTTER" ELSE "ERROR_DEVICE", "RESULT">>
<1>1. CASE loc[t].captured
  <2>1. Answer(t, FALSE) = <<"SHUTTER">> \o <<>> \o <<"RESULT">> BY <1>1 DEF Answer
  <2>2. <<"SHUTTER">> \o <<>> = <<"SHUTTER">> OBVIOUS
  <2>3. <<"SHUTTER">> \o <<"RESULT">> = <<"SHUTTER", "RESULT">> BY TwoElements
  <2>4. <<>> \o <<"SHUTTER", "RESULT">> = <<"SHUTTER", "RESULT">> OBVIOUS
  <2> QED BY <1>1, <2>1, <2>2, <2>3, <2>4, Zenon
<1>2. CASE ~ loc[t].captured
  <2>1. Answer(t, FALSE) = <<>> \o <<"ERROR_DEVICE">> \o <<"RESULT">> BY <1>2 DEF Answer
  <2>2. <<>> \o <<"ERROR_DEVICE">> = <<"ERROR_DEVICE">> OBVIOUS
  <2>3. <<"ERROR_DEVICE">> \o <<"RESULT">> = <<"ERROR_DEVICE", "RESULT">> BY TwoElements
  <2>4. <<>> \o <<"ERROR_DEVICE", "RESULT">> = <<"ERROR_DEVICE", "RESULT">> OBVIOUS
  <2> QED BY <1>2, <2>1, <2>2, <2>3, <2>4, Zenon
<1> QED BY <1>1, <1>2

\* The callbacks are made, and the frame is answered.
LEMMA DoneStep == ASSUME DeviceInv, NEW t \in Threads, CaptureDone(t) PROVE DeviceInv'
<1> USE DEF DeviceInv
<1>1. /\ pc[t] = "cap_done" /\ ReturnTracked(t, "OK") /\ UNCHANGED <<dev, pipe, next, calls>>
      /\ ret' = [ret EXCEPT ![Frame(t)] = "OK"] /\ pc' = [pc EXCEPT ![t] = "idle"]
  BY DEF CaptureDone, ReturnTracked, Return, Goto
<1>2. pc[t] \in CaptureSteps /\ pc[t] \in Capturing BY <1>1 DEF CaptureSteps, Capturing
<1>3. loc[t] \in Locals /\ (~ loc[t].captured => loc[t].written = {}) /\ ret[Frame(t)] = "none" /\ Frame(t) < next
  BY <1>2 DEF LocalsInv, Frame
<1>4. lock = t /\ dev \in Device /\ dev # NoDev BY <1>2, AloneInCapture
<1>5. ControlInv' /\ LocalsInv' /\ TrackerInv' BY <1>1, <1>2, <1>4, CaptureLeaves
<1>6. PipeInv'
  <2>1. \A u \in Threads : pc[u] # "cap_proc"
    <3>1. \A u \in Threads \ {t} : pc[u] # "cap_proc" BY <1>2, AloneInCapture DEF CaptureSteps
    <3> QED BY <1>1, <3>1
  <2>2. ~Faults /\ pipe # NoPipe /\ pipe.mState = "STREAMING" => AllQueued(pipe) BY <2>1, AllBack
  <2>3. pipe = NoPipe \/ PipeOK(pipe) BY DEF PipeInv
  <2> QED BY <1>1, <1>2, <1>4, <2>2, <2>3, PipeWithout
<1>7. AnswerInv'
  <2> DEFINE R == [ok |-> loc[t].captured, written |-> loc[t].written, count |-> Len(Bufs(t))]
             M == <<IF loc[t].captured THEN "SHUTTER" ELSE "ERROR_DEVICE", "RESULT">>
  <2>1. Frame(t) \in Frames /\ Frame(t) \notin marked
    <3>1. loc[t].frame \in Frames BY <1>3 DEF Locals
    <3> QED BY <3>1 DEF Frame, TrackerInv
  <2>2. msgs[Frame(t)] = <<>> BY <1>3, <2>1 DEF AnswerInv, AnsweredTruly, AnsweredOnce
  <2>3. msgs' = [msgs EXCEPT ![Frame(t)] = M]
    <3>1. msgs' = [msgs EXCEPT ![Frame(t)] = msgs[Frame(t)] \o Answer(t, FALSE)] BY <2>1 DEF CaptureDone, Answer
    <3> QED BY <2>2, <3>1, AnswerIs
  <2>4. loc[t].captured \in BOOLEAN /\ loc[t].written \in SUBSET Nat BY <1>3 DEF Locals
  <2>5. result' = [result EXCEPT ![Frame(t)] = R] BY <2>1, <2>4 DEF CaptureDone
  <2>6. Bufs(t) \in Seq({"RGBA", "YCBCR", "BLOB"}) BY <1>3 DEF Locals, Request, Bufs
  <2>7. R \in [ok : BOOLEAN, written : SUBSET Nat, count : Nat]
    <3>1. Len(Bufs(t)) \in Nat BY <2>6
    <3> QED BY <2>4, <3>1
  <2>8. M \in Seq(Callbacks) BY DEF Callbacks
  <2>9. R.ok = loc[t].captured /\ R.written = loc[t].written OBVIOUS
  <2> HIDE DEF R, M
  <2>10. /\ ret' \in [Frames -> Returns] /\ msgs' \in [Frames -> Seq(Callbacks)]
         /\ result' \in [Frames -> [ok : BOOLEAN, written : SUBSET Nat, count : Nat]]
    <3>1. ret' \in [Frames -> Returns] BY <1>1 DEF AnswerInv, Returns
    <3>2. msgs' \in [Frames -> Seq(Callbacks)] BY <2>3, <2>8 DEF AnswerInv
    <3>3. result' \in [Frames -> [ok : BOOLEAN, written : SUBSET Nat, count : Nat]] BY <2>5, <2>7 DEF AnswerInv
    <3> QED BY <3>1, <3>2, <3>3
  <2>11. /\ ret'[Frame(t)] = "OK" /\ msgs'[Frame(t)] = M /\ result'[Frame(t)] = R
         /\ \A f \in Frames \ {Frame(t)} : ret'[f] = ret[f] /\ msgs'[f] = msgs[f] /\ result'[f] = result[f]
    BY <1>1, <2>1, <2>3, <2>5 DEF AnswerInv
  <2>12. \A f \in Frames : f >= next' => ret'[f] = "none"
    <3>1. Frame(t) \in Int /\ next \in Int BY <2>1 DEF Frames, ControlInv
    <3>2. \A f \in Frames : f >= next => f # Frame(t) BY <1>3, <3>1 DEF Frames
    <3> QED BY <1>1, <2>11, <3>2 DEF AnswerInv
  <2>13. AnsweredOnce'
    <3>1. M = <<IF result'[Frame(t)].ok THEN "SHUTTER" ELSE "ERROR_DEVICE", "RESULT">> BY <2>9, <2>11 DEF M
    <3> QED BY <2>11, <3>1 DEF AnswerInv, AnsweredTruly, AnsweredOnce
  <2>14. ErrorMeansNothingWritten'
    BY <1>3, <2>9, <2>11 DEF AnswerInv, AnsweredTruly, ErrorMeansNothingWritten
  <2> QED BY <2>10, <2>12, <2>13, <2>14 DEF AnswerInv, AnsweredTruly
<1> QED BY <1>5, <1>6, <1>7

\* flush stops the stream while no capture runs.
LEMMA FlushStep == ASSUME DeviceInv, NEW t \in Threads, Flush(t) PROVE DeviceInv'
<1> USE DEF DeviceInv
<1>1. /\ pc[t] = "flush_lock" /\ lock = "none" /\ pc' = [pc EXCEPT ![t] = "idle"] /\ tracker' = {} /\ marked' = {}
      /\ pipe' = IF pipe # NoPipe /\ dev.streams_configured THEN stopStreaming(pipe) ELSE pipe
      /\ UNCHANGED <<dev, lock, loc, next, calls, ret, msgs, result>>
  BY DEF Flush, Goto, callVars
<1>2. pc[t] \notin CaptureSteps /\ "idle" \notin Capturing BY <1>1 DEF CaptureSteps, Capturing
<1>3. ControlInv' BY <1>1, <1>2, ControlMoves DEF ControlInv
<1>4. LocalsInv' /\ AnswerInv'
  <2>1. \A u \in Threads : pc'[u] \in Capturing => pc[u] \in Capturing BY <1>1, <1>2 DEF ControlInv
  <2> QED BY <1>1, <2>1, RequestsKept
<1>5. PipeInv'
  <2>1. \A u \in Threads : pc[u] # "cap_proc" BY <1>1, CameraAssumption DEF ControlInv, CaptureSteps
  <2>2. \A u \in Threads : pc'[u] # "cap_proc" BY <1>1, <2>1 DEF ControlInv
  <2>3. CASE pipe = NoPipe
    <3>1. pipe' = NoPipe BY <1>1, <2>3
    <3> QED BY <2>2, <3>1 DEF PipeInv
  <2>4. CASE pipe # NoPipe /\ pipe' = stopStreaming(pipe)
    <3>1. PipeOK(pipe') /\ pipe'.mState # "STREAMING" BY <2>4, StopKeeps DEF PipeInv
    <3>2. dev' # NoDev => dev'.streams_configured /\ dev'.size # 0 BY <1>1, <2>4 DEF PipeInv
    <3> QED BY <2>2, <3>1, <3>2 DEF PipeInv
  <2>5. CASE pipe # NoPipe /\ pipe' = pipe
    <3>1. ~Faults /\ pipe.mState = "STREAMING" => \A b \in pipe.mapped : b \in pipe.queued BY <2>1, <2>5 DEF PipeInv
    <3>2. PipeOK(pipe) /\ (dev # NoDev => dev.streams_configured /\ dev.size # 0) BY <2>5 DEF PipeInv
    <3> QED BY <1>1, <2>2, <2>5, <3>1, <3>2 DEF PipeInv
  <2> QED BY <1>1, <2>3, <2>4, <2>5
<1>6. TrackerInv' BY <1>1 DEF TrackerInv
<1> QED BY <1>3, <1>4, <1>5, <1>6

\* The pipeline of the new configuration, or none; the old one when it streams in the same size.
LEMMA ConfigureStep == ASSUME DeviceInv, NEW t \in Threads, Configure(t) PROVE DeviceInv'
<1> USE DEF DeviceInv
<1>1. /\ pc[t] = "config_lock" /\ lock = "none" /\ dev.open /\ pc' = [pc EXCEPT ![t] = "idle"]
      /\ UNCHANGED <<lock, loc, next, calls, ret, result>>
  BY DEF Configure, Goto
<1>2. dev \in Device /\ tracker = {} /\ marked = {} BY <1>1 DEF ControlInv, NoDev, TrackerInv
<1>3. PICK c \in Configs :
       LET d == [dev EXCEPT !.blob = blobStream(c) # 0]
       IN CASE Rejected(c) -> UNCHANGED <<dev, pipe, tracker, marked, msgs>>
            [] ~ Rejected(c) /\ SameStreaming(d, pipe, c) ->
                 dev' = d /\ UNCHANGED <<pipe, tracker, marked, msgs>>
            [] OTHER ->
                 /\ pipe' \in BuildPipeline
                 /\ dev' = Commit(d, pipe', c)
                 /\ tracker' = {} /\ marked' = {}
                 /\ msgs' = [f \in Frames |-> IF f \in tracker THEN Append(msgs[f], "RESULT") ELSE msgs[f]]
  BY DEF Configure
<1> DEFINE d == [dev EXCEPT !.blob = blobStream(c) # 0]
<1>4. d \in Device /\ d.closing = dev.closing /\ d.streams_configured = dev.streams_configured /\ d.size = dev.size
  <2>1. (blobStream(c) # 0) \in BOOLEAN OBVIOUS
  <2> QED BY <1>2, <2>1 DEF Device
<1>5. \/ UNCHANGED <<dev, pipe, tracker, marked, msgs>>
      \/ dev' = d /\ UNCHANGED <<pipe, tracker, marked, msgs>>
      \/ /\ ~ Rejected(c) /\ pipe' \in BuildPipeline /\ dev' = Commit(d, pipe', c) /\ tracker' = {} /\ marked' = {}
         /\ msgs' = [f \in Frames |-> IF f \in tracker THEN Append(msgs[f], "RESULT") ELSE msgs[f]]
  BY <1>3
<1> HIDE DEF d
<1>6. tracker' = {} /\ marked' = {} /\ msgs' = msgs
  <2>1. msgs = [f \in Frames |-> msgs[f]] BY DEF AnswerInv
  <2> QED BY <1>2, <1>5, <2>1
<1>7. \A u \in Threads : pc[u] # "cap_proc" BY <1>1, CameraAssumption DEF ControlInv, CaptureSteps
<1>8. \A u \in Threads : pc'[u] # "cap_proc" BY <1>1, <1>7 DEF ControlInv
<1>9. dev' \in Device /\ dev'.closing = dev.closing /\ PipeInv'
  <2>0. \A e \in Device : e # NoDev BY DEF Device, NoDev
  <2>1. CASE dev' \in {dev, d} /\ pipe' = pipe
    <3>1. /\ dev' \in Device /\ dev'.closing = dev.closing /\ dev'.streams_configured = dev.streams_configured
          /\ dev'.size = dev.size
      BY <1>2, <1>4, <2>1
    <3>2. dev # NoDev BY <1>2, <2>0
    <3>3. PipeInv' BY <1>1, <1>7, <1>8, <2>1, <3>1, <3>2, PipeKept
    <3> QED BY <3>1, <3>3
  <2>2. CASE ~ Rejected(c) /\ pipe' \in BuildPipeline /\ dev' = Commit(d, pipe', c)
    <3>1. pipe' = NoPipe \/ (PipeOK(pipe') /\ pipe'.mState = "STREAMING" /\ AllQueued(pipe'))
      BY <2>2, BuiltIsSound
    <3>2. CASE pipe' = NoPipe
      <4>1. dev' = d BY <2>2, <3>2 DEF Commit
      <4> QED BY <1>4, <1>8, <3>2, <4>1 DEF PipeInv
    <3>3. CASE pipe' # NoPipe
      <4> DEFINE s == c[pipelineStream(c)]
      <4>1. c \in Seq(Stream) /\ pipelineStream(c) \in DOMAIN c BY <2>2, CameraAssumption
      <4>2. s \in Stream /\ s.size # 0 BY <2>2, <4>1 DEF Rejected
      <4>3. s.size \in Nat BY <4>2 DEF Stream
      <4>4. dev' = [d EXCEPT !.size = s.size, !.streams_configured = TRUE, !.af_trigger = "IDLE",
                             !.af_trigger_handled = FALSE, !.af_auto_scanned = FALSE]
        BY <2>2, <3>3 DEF Commit
      <4>5. s.size # 0 BY <4>2
      <4> HIDE DEF s
      <4>6. "IDLE" \in Triggers BY DEF Triggers
      <4>7. dev' \in Device BY <1>4, <4>3, <4>4, <4>6 DEF Device
      <4>8. dev'.closing = dev.closing /\ dev'.streams_configured /\ dev'.size # 0 BY <1>4, <4>4, <4>5 DEF Device
      <4>9. pipe'.mapped = pipe'.queued BY <3>1, <3>3 DEF PipeOK, AllQueued
      <4>10. PipeInv' BY <1>8, <3>1, <3>3, <4>8, <4>9 DEF PipeInv
      <4> QED BY <4>7, <4>8, <4>10
    <3> QED BY <3>2, <3>3
  <2> QED BY <1>5, <2>1, <2>2
<1>10. ControlInv'
  <2>1. \A u \in Threads : pc'[u] = IF u = t THEN "idle" ELSE pc[u] BY <1>1 DEF ControlInv
  <2>2. "idle" \notin CaptureSteps /\ "config_lock" \notin CaptureSteps /\ "idle" \notin Closing /\ "config_lock" \notin Closing
    BY DEF CaptureSteps, Closing
  <2>3. \A u \in Threads : /\ pc'[u] \in CaptureSteps <=> pc[u] \in CaptureSteps
                           /\ pc'[u] \in Closing => pc[u] \in Closing
                           /\ pc'[u] = "close_free" => pc[u] = "close_free"
    BY <1>1, <2>1, <2>2 DEF Closing
  <2>4. dev' # NoDev /\ dev # NoDev BY <1>2, <1>9 DEF Device, NoDev
  <2>5. pc' \in [Threads -> CaptureSteps \cup CallSteps \cup {"idle", "crashed"}] BY <1>1 DEF ControlInv
  <2> QED BY <1>1, <1>9, <2>3, <2>4, <2>5 DEF ControlInv
<1>11. LocalsInv' /\ AnswerInv'
  <2>1. "idle" \notin Capturing BY DEF Capturing, CaptureSteps
  <2>2. \A u \in Threads : pc'[u] \in Capturing => pc[u] \in Capturing BY <1>1, <2>1 DEF ControlInv
  <2> QED BY <1>1, <1>6, <2>2, RequestsKept
<1>12. TrackerInv' BY <1>1, <1>6 DEF TrackerInv
<1> QED BY <1>9, <1>10, <1>11, <1>12

\* close marks the device, tears down once no capture runs, and deletes it.
LEMMA CloseSteps ==
  ASSUME DeviceInv, NEW t \in Threads, CallClose(t) \/ CloseTeardown(t) \/ CloseFree(t)
  PROVE  DeviceInv'
<1> USE DEF DeviceInv
<1>1. CASE CallClose(t)
  <2>1. /\ pc[t] = "idle" /\ dev.open /\ ~ dev.closing /\ calls < MaxCalls /\ calls' = calls + 1
        /\ pc' = [pc EXCEPT ![t] = "close_lock"] /\ dev' = [dev EXCEPT !.closing = TRUE]
        /\ UNCHANGED <<pipe, tracker, marked, lock, loc, next, ret, msgs, result>>
    BY <1>1 DEF CallClose, Call, Goto
  <2>2. dev \in Device /\ dev # NoDev BY <2>1 DEF ControlInv, NoDev
  <2>3. dev' \in Device /\ dev' # NoDev /\ dev'.closing /\ dev'.streams_configured = dev.streams_configured /\ dev'.size = dev.size
    BY <2>1, <2>2 DEF Device, NoDev
  <2>4. \A u \in Threads : pc'[u] = IF u = t THEN "close_lock" ELSE pc[u] BY <2>1 DEF ControlInv
  <2>5. /\ "close_lock" \in CallSteps /\ "close_lock" \in Closing
        /\ "close_lock" \notin Capturing /\ "close_lock" \notin CaptureSteps /\ "idle" \notin CaptureSteps
    BY DEF CallSteps, Closing, Capturing, CaptureSteps
  <2>6. ControlInv'
    <3>1. \A u \in Threads : pc[u] \notin Closing BY <2>1 DEF ControlInv
    <3>2. \A u \in Threads : pc'[u] \in Closing => u = t BY <2>4, <3>1
    <3>3. \A u \in Threads : pc'[u] # "close_free" BY <2>4, <3>1 DEF Closing
    <3>4. \A u \in Threads : pc'[u] \in CaptureSteps <=> pc[u] \in CaptureSteps BY <2>1, <2>4, <2>5
    <3>5. pc' \in [Threads -> CaptureSteps \cup CallSteps \cup {"idle", "crashed"}] BY <2>1, <2>5 DEF ControlInv
    <3>6. calls' \in 0 .. MaxCalls BY <2>1, CameraAssumption DEF ControlInv
    <3> QED BY <2>1, <2>3, <3>2, <3>3, <3>4, <3>5, <3>6 DEF ControlInv
  <2>7. LocalsInv' /\ AnswerInv'
    <3>1. \A u \in Threads : pc'[u] \in Capturing => pc[u] \in Capturing BY <2>4, <2>5
    <3> QED BY <2>1, <3>1, RequestsKept
  <2>8. PipeInv'
    <3>1. \A u \in Threads : pc'[u] = "cap_proc" <=> pc[u] = "cap_proc" BY <2>1, <2>4
    <3> QED BY <2>1, <2>2, <2>3, <3>1, PipeKept
  <2> QED BY <2>1, <2>6, <2>7, <2>8 DEF TrackerInv
<1>2. CASE CloseTeardown(t)
  <2>1. /\ pc[t] = "close_lock" /\ lock = "none" /\ pipe' = NoPipe /\ tracker' = {} /\ marked' = {}
        /\ pc' = [pc EXCEPT ![t] = "close_free"]
        /\ UNCHANGED <<dev, lock, loc, next, calls, ret, msgs, result>>
    BY <1>2 DEF CloseTeardown, Goto, callVars
  <2>2. \A u \in Threads : pc'[u] = IF u = t THEN "close_free" ELSE pc[u] BY <2>1 DEF ControlInv
  <2>3. /\ "close_free" \in CallSteps /\ "close_free" \in Closing /\ "close_lock" \in Closing
        /\ "close_free" \notin Capturing /\ "close_free" \notin CaptureSteps /\ "close_lock" \notin CaptureSteps
    BY DEF CallSteps, Closing, Capturing, CaptureSteps
  <2>4. ControlInv'
    <3>1. \A u \in Threads : pc'[u] \in Closing => pc[u] \in Closing BY <2>1, <2>2, <2>3
    <3>2. \A u \in Threads : pc'[u] \in CaptureSteps <=> pc[u] \in CaptureSteps BY <2>1, <2>2, <2>3
    <3>3. pc' \in [Threads -> CaptureSteps \cup CallSteps \cup {"idle", "crashed"}] BY <2>1, <2>3 DEF ControlInv
    <3> QED BY <2>1, <3>1, <3>2, <3>3 DEF ControlInv
  <2>5. LocalsInv' /\ AnswerInv'
    <3>1. \A u \in Threads : pc'[u] \in Capturing => pc[u] \in Capturing BY <2>2, <2>3
    <3> QED BY <2>1, <3>1, RequestsKept
  <2>6. PipeInv'
    <3>1. \A u \in Threads : pc[u] # "cap_proc" BY <2>1, CameraAssumption DEF ControlInv, CaptureSteps
    <3>2. \A u \in Threads : pc'[u] # "cap_proc" BY <2>2, <3>1
    <3> QED BY <2>1, <3>2 DEF PipeInv
  <2> QED BY <2>1, <2>4, <2>5, <2>6 DEF TrackerInv
<1>3. CASE CloseFree(t)
  <2>1. /\ pc[t] = "close_free" /\ dev' = NoDev /\ pc' = [pc EXCEPT ![t] = "idle"]
        /\ UNCHANGED <<pipe, tracker, marked, lock, loc, next, calls, ret, msgs, result>>
    BY <1>3 DEF CloseFree, Goto, callVars
  <2>2. \A u \in Threads : pc'[u] = IF u = t THEN "idle" ELSE pc[u] BY <2>1 DEF ControlInv
  <2>3. /\ "close_free" \in Closing /\ "idle" \notin Closing /\ "idle" \notin Capturing
        /\ "close_free" \notin CaptureSteps /\ "idle" \notin CaptureSteps
    BY DEF Closing, Capturing, CaptureSteps
  <2>4. ControlInv'
    <3>1. \A u \in Threads : pc'[u] \notin Closing /\ pc'[u] # "close_free"
      <4>1. \A u \in Threads : pc[u] \in Closing => u = t BY <2>1, <2>3 DEF ControlInv
      <4> QED BY <2>2, <2>3, <4>1
    <3>2. \A u \in Threads : pc'[u] \in CaptureSteps <=> pc[u] \in CaptureSteps BY <2>1, <2>2, <2>3
    <3>3. pc' \in [Threads -> CaptureSteps \cup CallSteps \cup {"idle", "crashed"}] BY <2>1 DEF ControlInv
    <3>4. lock = "none" BY <2>1 DEF ControlInv
    <3> QED BY <2>1, <3>1, <3>2, <3>3, <3>4 DEF ControlInv
  <2>5. LocalsInv' /\ AnswerInv'
    <3>1. \A u \in Threads : pc'[u] \in Capturing => pc[u] \in Capturing BY <2>2, <2>3
    <3> QED BY <2>1, <3>1, RequestsKept
  <2>6. PipeInv'
    <3>1. \A u \in Threads : pc'[u] = "cap_proc" <=> pc[u] = "cap_proc" BY <2>1, <2>2
    <3> QED BY <2>1, <3>1, PipeKept
  <2> QED BY <2>1, <2>4, <2>5, <2>6 DEF TrackerInv
<1> QED BY <1>1, <1>2, <1>3

\* Every step keeps the invariant.
LEMMA DeviceStep == DeviceInv /\ [Next]_vars => DeviceInv'
<1> SUFFICES ASSUME DeviceInv, [Next]_vars PROVE DeviceInv' OBVIOUS
<1>1. CASE openCamera \/ initialize BY <1>1, OpenSteps
<1>2. ASSUME NEW t \in Threads, CallCapture(t) PROVE DeviceInv' BY <1>2, CallCaptureStep
<1>3. ASSUME NEW t \in Threads, CallFlush(t) \/ CallConfigure(t) \/ TouchFreed(t) PROVE DeviceInv' BY <1>3, WaitSteps
<1>4. ASSUME NEW t \in Threads, CallClose(t) \/ CloseTeardown(t) \/ CloseFree(t) PROVE DeviceInv' BY <1>4, CloseSteps
<1>5. ASSUME NEW t \in Threads, CaptureEnter(t) PROVE DeviceInv' BY <1>5, EnterStep
<1>6. ASSUME NEW t \in Threads, CaptureAf(t) PROVE DeviceInv' BY <1>6, AfStep
<1>7. ASSUME NEW t \in Threads, CaptureCheck(t) PROVE DeviceInv' BY <1>7, CheckStep
<1>8. ASSUME NEW t \in Threads, CaptureBuf(t) PROVE DeviceInv' BY <1>8, BufStep
<1>9. ASSUME NEW t \in Threads, CaptureStill(t) PROVE DeviceInv' BY <1>9, StillStep
<1>10. ASSUME NEW t \in Threads, CapturePoll(t) PROVE DeviceInv' BY <1>10, PollStep
<1>11. ASSUME NEW t \in Threads, CaptureProc(t) PROVE DeviceInv' BY <1>11, ProcStep
<1>12. ASSUME NEW t \in Threads, CaptureDone(t) PROVE DeviceInv' BY <1>12, DoneStep
<1>13. ASSUME NEW t \in Threads, Flush(t) PROVE DeviceInv' BY <1>13, FlushStep
<1>14. ASSUME NEW t \in Threads, Configure(t) PROVE DeviceInv' BY <1>14, ConfigureStep
<1>15. CASE UNCHANGED vars
  <2>1. UNCHANGED <<dev, pipe, tracker, marked, lock, pc, loc, next, calls, ret, msgs, result>> BY <1>15 DEF vars
  <2>2. LocalsInv' /\ AnswerInv' BY <2>1, RequestsKept DEF DeviceInv
  <2>3. ControlInv' BY <2>1 DEF DeviceInv, ControlInv
  <2>4. PipeInv' BY <2>1 DEF DeviceInv, PipeInv
  <2> QED BY <2>1, <2>2, <2>3, <2>4 DEF DeviceInv, TrackerInv
<1> QED
  BY <1>1, <1>2, <1>3, <1>4, <1>5, <1>6, <1>7, <1>8, <1>9, <1>10, <1>11, <1>12, <1>13, <1>14, <1>15
  DEF Next, Run

\* The invariant holds in every reachable state.
LEMMA DeviceAlways == Spec => []DeviceInv
BY CameraInitial, DeviceStep, PTL DEF Spec

\* What the invariant says of the device, the tracker and the buffers.
LEMMA DeviceInvGives == DeviceInv => DeviceSound /\ TrackerExact /\ AnsweredTruly /\ BuffersReturned
<1> SUFFICES ASSUME DeviceInv PROVE DeviceSound /\ TrackerExact /\ AnsweredTruly /\ BuffersReturned OBVIOUS
<1> USE DEF DeviceInv
<1>1. \A t \in Threads : pc[t] \in Capturing => Frame(t) \in Frames
  <2> SUFFICES ASSUME NEW t \in Threads, pc[t] \in Capturing PROVE loc[t].frame \in Frames BY DEF Frame
  <2>1. loc[t] \in Locals BY DEF LocalsInv
  <2> QED BY <2>1 DEF Locals
<1>2. TrackerExact
  <2>1. CASE lock = "none"
    <3>1. \A u \in Threads : pc[u] \notin CaptureSteps BY <2>1, CameraAssumption DEF ControlInv
    <3> QED BY <2>1, <3>1 DEF TrackerExact, TrackerInv
  <2>2. CASE lock # "none"
    <3>1. lock \in Threads /\ \A u \in Threads : pc[u] \in CaptureSteps <=> u = lock BY <2>2 DEF ControlInv
    <3> QED BY <2>2, <3>1 DEF TrackerExact, TrackerInv, Frame
  <2> QED BY <2>1, <2>2
<1>3. TypeOK
  <2>1. dev.open \in BOOLEAN
    <3>1. dev = NoDev => dev.open = FALSE BY DEF NoDev
    <3>2. dev \in Device => dev.open = TRUE BY DEF Device
    <3> QED BY <3>1, <3>2, Zenon DEF ControlInv
  <2>2. pipe = NoPipe \/ pipe \in Pipeline BY DEF PipeInv, PipeOK
  <2>3. marked \subseteq tracker /\ tracker \subseteq Frames BY <1>1, <1>2, Steps DEF TrackerExact
  <2>4. \A t \in Threads : pc[t] \in CaptureSteps \cup {"cap_lock"} => Frame(t) \in Frames BY <1>1 DEF Capturing
  <2> QED BY <2>1, <2>2, <2>3, <2>4 DEF TypeOK, ControlInv
<1>4. PipelineSound
  <2> SUFFICES ASSUME pipe # NoPipe
               PROVE  /\ pipe.mFd /\ pipe.mState # "CLOSED"
                      /\ pipe.mState = "STREAMING" <=> pipe.mStreaming
                      /\ pipe.mapped = FirstBuffers(pipe.mBufferCount)
                      /\ pipe.queued \subseteq pipe.mapped
                      /\ \A t \in Threads : pc[t] = "cap_proc" =>
                           loc[t].held \in pipe.mapped \ pipe.queued /\ pipe.mStreaming
    BY DEF PipelineSound
  <2>1. PipeOK(pipe) BY DEF PipeInv
  <2>2. pipe.mFd /\ pipe.mState # "CLOSED" BY <2>1 DEF PipeOK
  <2>3. pipe.mState = "STREAMING" <=> pipe.mStreaming BY <2>1, Zenon DEF PipeOK
  <2>4. pipe.mapped = FirstBuffers(pipe.mBufferCount) /\ pipe.queued \subseteq pipe.mapped BY <2>1 DEF PipeOK
  <2>5. \A t \in Threads : pc[t] = "cap_proc" => loc[t].held \in pipe.mapped \ pipe.queued /\ pipe.mStreaming
    BY <2>3 DEF PipeInv
  <2> QED BY <2>2, <2>3, <2>4, <2>5
<1>5. CommittedTogether BY DEF CommittedTogether, PipeInv, NoDev
<1>6. BuffersReturned
  <2> SUFFICES ASSUME ~Faults, lock = "none", pipe # NoPipe, pipe.mState = "STREAMING" PROVE AllQueued(pipe)
    BY DEF BuffersReturned, AllQueued
  <2>1. \A u \in Threads : pc[u] # "cap_proc" BY CameraAssumption DEF ControlInv, CaptureSteps
  <2> QED BY <2>1, AllBack
<1> QED BY <1>2, <1>3, <1>4, <1>5, <1>6 DEF DeviceSound, AnswerInv

\* Whatever the framework calls, in whatever order and on however many threads, the device is
\* well-typed, its pipeline is sound and runs the configuration that was committed
\* (configure_streams, process_capture_request, flush, close).
THEOREM DeviceSoundThm == Spec => []DeviceSound
BY DeviceAlways, DeviceInvGives, PTL

\* InFlightTracker never holds a frame other than that of the capture that runs: no early return
\* of process_capture_request leaves one behind, for any number of requests.
THEOREM TrackerExactThm == Spec => []TrackerExact
BY DeviceAlways, DeviceInvGives, PTL

\* Every request that returns 0 has had one notification and one result, every other none, and an
\* error result never follows a written buffer (process_capture_request), for any list of buffers.
THEOREM AnsweredTrulyThm == Spec => []AnsweredTruly
BY DeviceAlways, DeviceInvGives, PTL

\* When QBUF does not fail and memory does not fault, every buffer is back with the driver when a
\* capture has ended (captureFrame), for any number of buffers.
THEOREM BuffersReturnedThm == Spec => []BuffersReturned
BY DeviceAlways, DeviceInvGives, PTL

\* pipelineLock: while a capture runs no other call changes the pipeline.
THEOREM PipelineExclusiveThm == Spec => PipelineExclusive
<1>1. DeviceInv /\ [Next]_vars => [lock # "none" /\ pipe' # pipe => pc'[lock] # pc[lock]]_vars
  <2> SUFFICES ASSUME DeviceInv, Next, lock # "none", pipe' # pipe PROVE pc'[lock] # pc[lock]
    BY DEF vars
  <2>1. lock \in Threads /\ pc[lock] \in CaptureSteps BY DEF DeviceInv, ControlInv
  <2>2. ~ openCamera BY <2>1 DEF openCamera, AllIdle, CaptureSteps
  <2>3. PICK t \in Threads : CaptureAf(t) \/ CaptureCheck(t) \/ CapturePoll(t) \/ CaptureProc(t)
    BY <2>2 DEF Next, Run, initialize, CallCapture, CallFlush, CallConfigure, CallClose, CaptureEnter, CaptureBuf,
                CaptureStill, CaptureDone, Flush, Configure, CloseTeardown, CloseFree, TouchFreed
  <2>4. pc[t] \in CaptureSteps
    BY <2>3 DEF CaptureAf, CaptureCheck, CapturePoll, CaptureProc, CaptureSteps
  <2>5. t = lock BY <2>4 DEF DeviceInv, ControlInv
  <2>6. CASE CaptureAf(t) BY <2>5, <2>6 DEF CaptureAf, Goto, DeviceInv, ControlInv
  <2>7. CASE CaptureCheck(t)
    <3>1. pc[t] = "cap_check" /\ \E l \in {"idle", "cap_buf", "cap_still"} : pc' = [pc EXCEPT ![t] = l]
      BY <2>7 DEF CaptureCheck, ReturnTracked, Return, Goto
    <3> QED BY <2>5, <3>1 DEF DeviceInv, ControlInv
  <2>8. CASE CapturePoll(t)
    <3>1. pc[t] = "cap_poll" /\ pc' = [pc EXCEPT ![t] = "cap_proc"]
      BY <2>8 DEF CapturePoll, CaptureAgain, Goto
    <3> QED BY <2>5, <3>1 DEF DeviceInv, ControlInv
  <2>9. CASE CaptureProc(t)
    <3>1. pc[t] = "cap_proc" /\ \E l \in {"cap_done", "cap_buf"} : pc' = [pc EXCEPT ![t] = l]
      BY <2>9 DEF CaptureProc, Advance, Goto
    <3> QED BY <2>5, <3>1 DEF DeviceInv, ControlInv
  <2> QED BY <2>3, <2>6, <2>7, <2>8, <2>9
<1> QED BY <1>1, DeviceAlways, PTL DEF Spec, PipelineExclusive
=============================================================================
