------------------------ MODULE CameraHalStepProofs ------------------------
(***************************************************************************)
(* The inductive invariant of CameraHal and the lemmas its steps rest on.  *)
(* The invariant has five parts: who holds the lock and who closes the     *)
(* device (ControlInv), the pipeline and where its buffers are (PipeInv),  *)
(* the frames that captures own (LocalsInv), the answers given so far      *)
(* (AnswerInv) and the tracker (TrackerInv).  The steps of a capture up to *)
(* its first buffer are here.                                              *)
(***************************************************************************)
EXTENDS CameraHal, TLAPS

\* A pipeline that the device keeps.
PipeOK(p) ==
  /\ p \in Pipeline
  /\ p.mFd = TRUE /\ p.mState \in {"OPENED", "STREAMING"}
  /\ p.mStreaming = (p.mState = "STREAMING")
  /\ p.mapped = FirstBuffers(p.mBufferCount)
  /\ p.queued \subseteq p.mapped

\* Every mapped buffer is with the driver.
AllQueued(p) == p.queued = FirstBuffers(p.mBufferCount)

\* The first n buffers are buffers.
LEMMA FirstAreBuffers == \A n \in 0 .. ReqCount : FirstBuffers(n) \in SUBSET Buffers
BY PipelineAssumption DEF FirstBuffers, Buffers

\* startStreaming keeps a sound pipeline, also when it fails half way; when it succeeds every
\* buffer is queued.
LEMMA StartKeeps ==
  ASSUME NEW p, PipeOK(p), NEW o \in startStreaming(p)
  PROVE  /\ PipeOK(o.p)
         /\ o.ret = "OK" => o.p.mState = "STREAMING" /\ AllQueued(o.p)
         /\ o.ret # "OK" => o.p.mState = p.mState
<1>1. CASE p.mState # "OPENED" BY <1>1 DEF startStreaming, Outcome
<1>2. CASE p.mState = "OPENED"
  <2>1. p \in Pipeline /\ p.queued \subseteq FirstBuffers(p.mBufferCount) BY DEF PipeOK
  <2>2. p.mBufferCount \in 0 .. ReqCount BY <2>1 DEF Pipeline
  <2>3. FirstBuffers(p.mBufferCount) \in SUBSET Buffers BY <2>2, FirstAreBuffers
  <2> DEFINE all == [p EXCEPT !.queued = @ \cup FirstBuffers(p.mBufferCount)]
  <2>4. CASE o \in {Outcome("EIO", [p EXCEPT !.queued = @ \cup FirstBuffers(n)]) : n \in 0 .. p.mBufferCount}
    <3>1. PICK n \in 0 .. p.mBufferCount : o = Outcome("EIO", [p EXCEPT !.queued = p.queued \cup FirstBuffers(n)])
      BY <2>4
    <3>2. p.queued \cup FirstBuffers(n) \subseteq FirstBuffers(p.mBufferCount)
      BY <2>1, <2>2, PipelineAssumption DEF FirstBuffers
    <3>3. o.ret = "EIO" /\ o.p = [p EXCEPT !.queued = p.queued \cup FirstBuffers(n)] BY <3>1 DEF Outcome
    <3>4. o.p \in Pipeline BY <2>1, <2>3, <3>2, <3>3 DEF Pipeline
    <3>5. /\ o.p.mState = p.mState /\ o.p.mFd = p.mFd /\ o.p.mStreaming = p.mStreaming
          /\ o.p.mapped = p.mapped /\ o.p.mBufferCount = p.mBufferCount
          /\ o.p.queued = p.queued \cup FirstBuffers(n)
      BY <2>1, <3>3 DEF Pipeline
    <3> QED BY <3>2, <3>3, <3>4, <3>5 DEF PipeOK
  <2>5. CASE o = Outcome("OK", [all EXCEPT !.mStreaming = TRUE, !.mState = "STREAMING"])
    <3>1. o.ret = "OK" /\ o.p = [p EXCEPT !.queued = FirstBuffers(p.mBufferCount), !.mStreaming = TRUE, !.mState = "STREAMING"]
      BY <2>1, <2>5 DEF Outcome, Pipeline
    <3>2. o.p \in Pipeline BY <2>1, <2>3, <3>1 DEF Pipeline
    <3>3. /\ o.p.mState = "STREAMING" /\ o.p.mStreaming = TRUE /\ o.p.mFd = p.mFd
          /\ o.p.mBufferCount = p.mBufferCount /\ o.p.mapped = p.mapped
          /\ o.p.queued = FirstBuffers(p.mBufferCount)
      BY <2>1, <3>1 DEF Pipeline
    <3> QED BY <3>1, <3>2, <3>3 DEF PipeOK, AllQueued
  <2>6. \/ o \in {Outcome("EIO", [p EXCEPT !.queued = @ \cup FirstBuffers(n)]) : n \in 0 .. p.mBufferCount}
        \/ o = Outcome("OK", [all EXCEPT !.mStreaming = TRUE, !.mState = "STREAMING"])
    BY <1>2 DEF startStreaming
  <2> HIDE DEF all
  <2> QED BY <2>4, <2>5, <2>6
<1> QED BY <1>1, <1>2

\* stopStreaming leaves a sound pipeline that does not stream.
LEMMA StopKeeps ==
  ASSUME NEW p, PipeOK(p)
  PROVE  PipeOK(stopStreaming(p)) /\ stopStreaming(p).mState # "STREAMING"
<1>1. CASE ~p.mStreaming BY <1>1 DEF PipeOK, stopStreaming
<1>2. CASE p.mStreaming
  <2>1. stopStreaming(p) = [p EXCEPT !.mState = "OPENED", !.mStreaming = FALSE, !.queued = {}, !.mapped = {},
                                     !.mBufferCount = 0]
    BY <1>2 DEF stopStreaming
  <2>2. p \in Pipeline /\ p.mFd = TRUE BY DEF PipeOK
  <2>3. 0 \in 0 .. ReqCount /\ {} \in SUBSET Buffers BY PipelineAssumption
  <2>4. stopStreaming(p) \in Pipeline BY <2>1, <2>2, <2>3 DEF Pipeline
  <2>5. LET q == stopStreaming(p) IN
        q.mState = "OPENED" /\ q.mStreaming = FALSE /\ q.queued = {} /\ q.mapped = {} /\ q.mBufferCount = 0 /\ q.mFd = TRUE
    BY <2>1, <2>2 DEF Pipeline
  <2>6. FirstBuffers(0) = {} BY DEF FirstBuffers
  <2> QED BY <2>4, <2>5, <2>6 DEF PipeOK
<1> QED BY <1>1, <1>2

\* The focus scan and its cancellation keep a sound pipeline and whether it streams; without
\* failures also the buffers that the driver has.
LEMMA CancelKeeps ==
  ASSUME NEW p, PipeOK(p)
  PROVE  /\ PipeOK(cancelAf(p)) /\ cancelAf(p).mState = p.mState
         /\ cancelAf(p).queued = p.queued /\ cancelAf(p).mBufferCount = p.mBufferCount
<1>1. p \in Pipeline BY DEF PipeOK
<1>2. cancelAf(p) \in Pipeline BY <1>1 DEF cancelAf, Pipeline
<1>3. LET q == cancelAf(p) IN
      /\ q.mState = p.mState /\ q.mFd = p.mFd /\ q.mStreaming = p.mStreaming
      /\ q.mapped = p.mapped /\ q.mBufferCount = p.mBufferCount /\ q.queued = p.queued
  BY <1>1 DEF cancelAf, Pipeline
<1> QED BY <1>2, <1>3 DEF PipeOK

\* A focus sweep keeps the pipeline, and the buffers too unless QBUF fails.
LEMMA ScanKeeps ==
  ASSUME NEW p, PipeOK(p), NEW q \in startAfScan(p)
  PROVE  /\ PipeOK(q) /\ q.mState = p.mState /\ q.mBufferCount = p.mBufferCount
         /\ ~Faults => q.queued = p.queued
<1>1. p \in Pipeline BY DEF PipeOK
<1>2. PICK a \in {0, 2, 3}, Q \in SUBSET p.queued :
        q = [p EXCEPT !.mAfState = a, !.queued = Q] /\ (~Faults => Q = p.queued)
  <2>1. CASE p.mState # "STREAMING"
    <3>1. q = [p EXCEPT !.mAfState = 0] BY <2>1 DEF startAfScan
    <3>2. q = [p EXCEPT !.mAfState = 0, !.queued = p.queued] BY <1>1, <3>1 DEF Pipeline
    <3> QED BY <3>2
  <2>2. CASE p.mState = "STREAMING"
    <3>1. PICK e \in {2, 3} \X (IF Faults THEN SUBSET p.queued ELSE {p.queued}) :
            q = [p EXCEPT !.mAfState = e[1], !.queued = e[2]]
      BY <2>2 DEF startAfScan
    <3>2. e[1] \in {2, 3} /\ e[2] \in SUBSET p.queued /\ (~Faults => e[2] = p.queued) BY <3>1
    <3> QED BY <3>1, <3>2
  <2> QED BY <2>1, <2>2
<1>3. Q \in SUBSET Buffers /\ a \in 0 .. 3 BY <1>1, <1>2 DEF Pipeline
<1>4. q \in Pipeline BY <1>1, <1>2, <1>3 DEF Pipeline
<1>5. /\ q.mState = p.mState /\ q.mFd = p.mFd /\ q.mStreaming = p.mStreaming
      /\ q.mapped = p.mapped /\ q.mBufferCount = p.mBufferCount /\ q.queued = Q
  BY <1>1, <1>2 DEF Pipeline
<1> QED BY <1>2, <1>4, <1>5 DEF PipeOK

\* A pipeline that configure_streams built is sound, streams, and has all its buffers queued.
LEMMA BuiltIsSound ==
  ASSUME NEW q \in BuildPipeline
  PROVE  q = NoPipe \/ (PipeOK(q) /\ q.mState = "STREAMING" /\ AllQueued(q))
<1>1. PICK s : /\ s \in UNION {IF c.ret = "OK" THEN startStreaming(c.p) ELSE {c} :
                       c \in UNION {IF o.ret = "OK" THEN configure(o.p) ELSE {o} : o \in open(NewPipeline)}}
               /\ q = IF s.ret = "OK" THEN s.p ELSE NoPipe
  BY DEF BuildPipeline
<1>2. PICK c \in UNION {IF o.ret = "OK" THEN configure(o.p) ELSE {o} : o \in open(NewPipeline)} :
        s \in IF c.ret = "OK" THEN startStreaming(c.p) ELSE {c}
  BY <1>1
<1>3. PICK o \in open(NewPipeline) : c \in IF o.ret = "OK" THEN configure(o.p) ELSE {o}
  BY <1>2
<1>4. CASE s.ret # "OK" BY <1>1, <1>4
<1>5. CASE s.ret = "OK"
  <2>1. c.ret = "OK" /\ s \in startStreaming(c.p) BY <1>2, <1>5
  <2>2. o.ret = "OK" /\ c \in configure(o.p) BY <1>3, <2>1
  <2>3. NewPipeline.mState = "CLOSED" BY DEF NewPipeline
  <2>4. o.p = [mState |-> "OPENED", mFd |-> TRUE, mStreaming |-> FALSE, mBufferCount |-> 0, mapped |-> {},
               granted |-> 0, queued |-> {}, mAfState |-> 0]
    <3>1. o = Outcome("OK", [NewPipeline EXCEPT !.mState = "OPENED", !.mFd = TRUE])
      BY <2>2, <2>3 DEF open, Outcome
    <3> QED BY <3>1 DEF Outcome, NewPipeline
  <2>5. 0 \in 0 .. ReqCount /\ {} \in SUBSET Buffers BY PipelineAssumption
  <2>6. o.p \in Pipeline BY <2>4, <2>5 DEF Pipeline
  <2>7. o.p.mState = "OPENED" /\ o.p.mFd = TRUE /\ o.p.mStreaming = FALSE /\ o.p.queued = {}
    BY <2>4
  <2>8. c \in {Outcome("OK", [[o.p EXCEPT !.granted = n] EXCEPT !.mapped = FirstBuffers(n), !.mBufferCount = n]) :
                 n \in 2 .. ReqCount}
    <3> DEFINE Granted(n) == [o.p EXCEPT !.granted = n]
               Mapped(n) == [Granted(n) EXCEPT !.mapped = FirstBuffers(n), !.mBufferCount = n]
               Unmapped(n) == [Granted(n) EXCEPT !.mapped = {}, !.mBufferCount = 0]
    <3>1. configure(o.p) = {Outcome("EIO", o.p)}
            \cup {Outcome("ENOMEM", Granted(n)) : n \in 0 .. 1}
            \cup {Outcome("ENOMEM", Unmapped(n)) : n \in 2 .. ReqCount}
            \cup {Outcome("EIO", Mapped(n)) : n \in 2 .. ReqCount}
            \cup {Outcome("OK", Mapped(n)) : n \in 2 .. ReqCount}
      BY <2>7 DEF configure
    <3>2. \A r, x : Outcome(r, x).ret = r BY DEF Outcome
    <3> HIDE DEF Granted, Mapped, Unmapped
    <3>3. c \in {Outcome("OK", Mapped(n)) : n \in 2 .. ReqCount}
      BY <2>1, <2>2, <3>1, <3>2
    <3> QED BY <3>3 DEF Mapped, Granted
  <2>9. PICK n \in 2 .. ReqCount :
          c = Outcome("OK", [[o.p EXCEPT !.granted = n] EXCEPT !.mapped = FirstBuffers(n), !.mBufferCount = n])
    BY <2>8
  <2>10. c.p = [o.p EXCEPT !.granted = n, !.mapped = FirstBuffers(n), !.mBufferCount = n]
    BY <2>6, <2>9 DEF Outcome, Pipeline
  <2>11. n \in 0 .. ReqCount /\ FirstBuffers(n) \in SUBSET Buffers BY PipelineAssumption, FirstAreBuffers
  <2>12. c.p \in Pipeline BY <2>6, <2>10, <2>11 DEF Pipeline
  <2>13. c.p.mState = "OPENED" /\ c.p.mFd = TRUE /\ c.p.mStreaming = FALSE /\ c.p.queued = {}
         /\ c.p.mapped = FirstBuffers(n) /\ c.p.mBufferCount = n
    BY <2>6, <2>7, <2>10 DEF Pipeline
  <2>14. PipeOK(c.p) BY <2>12, <2>13 DEF PipeOK
  <2> QED BY <1>1, <1>5, <2>1, <2>14, StartKeeps
<1> QED BY <1>4, <1>5

Device == [open : {TRUE}, is_initialized : BOOLEAN, streams_configured : BOOLEAN, size : Nat, blob : BOOLEAN,
           closing : BOOLEAN, af_mode : BOOLEAN, af_trigger : Triggers, af_trigger_handled : BOOLEAN,
           af_auto_scanned : BOOLEAN]
Locals == [frame : Frames, req : Request, idx : Nat, retries : Nat, held : Int, captured : BOOLEAN,
           written : SUBSET Nat, hasBlobOutput : BOOLEAN]

Returns == {"none", "OK", "ENOSYS", "EINVAL", "EAGAIN", "ENODEV"}
Callbacks == {"SHUTTER", "ERROR_DEVICE", "RESULT"}

Capturing == CaptureSteps \cup {"cap_lock"}
Closing == {"close_lock", "close_free"}

\* Who is where: the lock belongs to the capture that runs, a capture that runs has its device, and
\* one thread at most closes it, with the device marked and no capture once it has torn down.
ControlInv ==
  /\ dev = NoDev \/ dev \in Device
  /\ pc \in [Threads -> CaptureSteps \cup CallSteps \cup {"idle", "crashed"}]
  /\ lock \in Threads \cup {"none"}
  /\ next \in 1 .. MaxFrames + 1 /\ calls \in 0 .. MaxCalls
  /\ \A t \in Threads : lock = t <=> pc[t] \in CaptureSteps
  /\ lock # "none" => dev # NoDev
  /\ \A t \in Threads : pc[t] \in Closing => dev # NoDev /\ dev.closing
  /\ \A t \in Threads : pc[t] = "close_free" => lock = "none"
  /\ \A t, u \in Threads : pc[t] \in Closing /\ pc[u] \in Closing => t = u

\* The pipeline is sound, runs a committed configuration, and a buffer is with the driver or with
\* the capture that reads it.
PipeInv ==
  /\ pipe = NoPipe \/ PipeOK(pipe)
  /\ pipe # NoPipe /\ dev # NoDev => dev.streams_configured /\ dev.size # 0
  /\ \A t \in Threads : pc[t] = "cap_proc" =>
       pipe # NoPipe /\ pipe.mState = "STREAMING" /\ loc[t].held \in pipe.mapped \ pipe.queued
  /\ ~Faults /\ pipe # NoPipe /\ pipe.mState = "STREAMING" =>
       \A b \in pipe.mapped : b \in pipe.queued \/ \E t \in Threads : pc[t] = "cap_proc" /\ loc[t].held = b

\* Every frame number is handed out once and belongs to one thread until it is answered.
LocalsInv ==
  /\ loc \in [Threads -> Locals \cup {NoCall}]
  /\ \A t \in Threads : pc[t] \in Capturing =>
       /\ loc[t] \in Locals /\ loc[t].frame < next /\ ret[loc[t].frame] = "none"
       /\ ~loc[t].captured => loc[t].written = {}
  /\ \A t, u \in Threads : pc[t] \in Capturing /\ pc[u] \in Capturing /\ t # u => loc[t].frame # loc[u].frame
AnswerInv ==
  /\ ret \in [Frames -> Returns]
  /\ msgs \in [Frames -> Seq(Callbacks)]
  /\ result \in [Frames -> [ok : BOOLEAN, written : SUBSET Nat, count : Nat]]
  /\ \A f \in Frames : f >= next => ret[f] = "none"
  /\ AnsweredTruly
TrackerInv == marked = {} /\ tracker = IF lock = "none" THEN {} ELSE {loc[lock].frame}

DeviceInv == ControlInv /\ PipeInv /\ LocalsInv /\ AnswerInv /\ TrackerInv

\* The steps inside a capture are steps of a capture.
LEMMA Steps ==
  /\ CaptureSteps \cap CallSteps = {} /\ "idle" \notin CaptureSteps \cup CallSteps
  /\ "crashed" \notin CaptureSteps \cup CallSteps
  /\ "cap_lock" \notin CaptureSteps /\ "cap_lock" \in CallSteps /\ Closing \subseteq CallSteps \ {"cap_lock"}
  /\ CaptureSteps \subseteq Capturing
BY DEF CaptureSteps, CallSteps, Closing, Capturing

\* At the start there is no device and no call.
LEMMA CameraInitial == Init => DeviceInv
<1> SUFFICES ASSUME Init PROVE DeviceInv OBVIOUS
<1>1. ControlInv
  <2>1. dev = NoDev /\ lock = "none" /\ next = 1 /\ calls = 0 /\ pc = [t \in Threads |-> "idle"] BY DEF Init
  <2>2. next \in 1 .. MaxFrames + 1 /\ calls \in 0 .. MaxCalls BY <2>1, CameraAssumption
  <2>3. \A t \in Threads : pc[t] = "idle" /\ lock # t BY <2>1, CameraAssumption
  <2>4. "idle" \notin CaptureSteps /\ "idle" \notin Closing /\ "idle" # "close_free" BY DEF CaptureSteps, Closing
  <2>5. pc \in [Threads -> CaptureSteps \cup CallSteps \cup {"idle", "crashed"}] BY <2>1
  <2> QED BY <2>1, <2>2, <2>3, <2>4, <2>5, Zenon DEF ControlInv
<1>2. PipeInv
  <2>1. pipe = NoPipe /\ \A t \in Threads : pc[t] = "idle" BY DEF Init
  <2> QED BY <2>1, Zenon DEF PipeInv
<1>3. LocalsInv BY DEF Init, LocalsInv, Capturing, CaptureSteps
<1>4. AnswerInv
  <2>1. NoResult \in [ok : BOOLEAN, written : SUBSET Nat, count : Nat] BY DEF NoResult
  <2>2. <<>> \in Seq(Callbacks) OBVIOUS
  <2>3. AnsweredTruly BY DEF Init, AnsweredTruly, AnsweredOnce, ErrorMeansNothingWritten
  <2>41. ret = [f \in Frames |-> "none"] BY DEF Init
  <2>42. ret \in [Frames -> Returns] BY <2>41 DEF Returns
  <2>4. ret \in [Frames -> Returns] /\ \A f \in Frames : ret[f] = "none" BY <2>41, <2>42
  <2>5. msgs \in [Frames -> Seq(Callbacks)] BY <2>2 DEF Init
  <2>6. result \in [Frames -> [ok : BOOLEAN, written : SUBSET Nat, count : Nat]] BY <2>1 DEF Init
  <2> QED BY <2>3, <2>4, <2>5, <2>6 DEF AnswerInv
<1>5. TrackerInv BY DEF Init, TrackerInv
<1> QED BY <1>1, <1>2, <1>3, <1>4, <1>5 DEF DeviceInv

----------------------------------------------------------------------------
\* Steps that leave the locals and the answers alone, and bring no thread into a capture.
LEMMA RequestsKept ==
  ASSUME LocalsInv, AnswerInv, UNCHANGED <<loc, ret, msgs, result, next>>,
         \A u \in Threads : pc'[u] \in Capturing => pc[u] \in Capturing
  PROVE  LocalsInv' /\ AnswerInv'
<1>1. LocalsInv' BY DEF LocalsInv
<1>2. AnswerInv' BY DEF AnswerInv, AnsweredTruly, AnsweredOnce, ErrorMeansNothingWritten
<1> QED BY <1>1, <1>2

\* Steps that leave the pipeline alone, and its configuration, and the capture that reads a buffer.
LEMMA PipeKept ==
  ASSUME PipeInv, pipe' = pipe, loc' = loc,
         dev' = NoDev \/ (dev # NoDev /\ dev'.streams_configured = dev.streams_configured /\ dev'.size = dev.size),
         \A u \in Threads : pc'[u] = "cap_proc" <=> pc[u] = "cap_proc"
  PROVE  PipeInv'
BY DEF PipeInv

\* A thread moves between places outside of captures and of close.
LEMMA ControlMoves ==
  ASSUME ControlInv, NEW t \in Threads, NEW l \in (CallSteps \ Closing) \cup {"idle", "crashed"},
         pc[t] \notin CaptureSteps, pc' = [pc EXCEPT ![t] = l], lock' = lock,
         dev' = dev, next' \in 1 .. MaxFrames + 1, calls' \in 0 .. MaxCalls
  PROVE  ControlInv'
<1>1. l \notin CaptureSteps /\ l \notin Closing /\ l # "close_free" BY Steps DEF Closing
<1>2. \A u \in Threads : pc'[u] = IF u = t THEN l ELSE pc[u] BY DEF ControlInv
<1>3. pc' \in [Threads -> CaptureSteps \cup CallSteps \cup {"idle", "crashed"}] BY DEF ControlInv
<1>4. \A u \in Threads : lock' = u <=> pc'[u] \in CaptureSteps BY <1>1, <1>2 DEF ControlInv
<1> QED BY <1>1, <1>2, <1>3, <1>4 DEF ControlInv

\* initialize and openCamera.
LEMMA OpenSteps == DeviceInv /\ (openCamera \/ initialize) => DeviceInv'
<1> SUFFICES ASSUME DeviceInv, openCamera \/ initialize PROVE DeviceInv' OBVIOUS
<1>1. CASE openCamera
  <2>1. NewDev \in Device /\ NewDev # NoDev BY DEF NewDev, Device, NoDev, Triggers
  <2>2. \A t \in Threads : pc[t] = "idle" BY <1>1 DEF openCamera, AllIdle
  <2>3. ControlInv' BY <1>1, <2>1, <2>2, Steps DEF openCamera, DeviceInv, ControlInv, callVars
  <2>4. PipeInv' BY <1>1, <2>2 DEF openCamera, PipeInv, callVars
  <2>5. LocalsInv' /\ AnswerInv' BY <1>1, RequestsKept DEF openCamera, DeviceInv, callVars
  <2> QED BY <1>1, <2>3, <2>4, <2>5 DEF openCamera, DeviceInv, TrackerInv
<1>2. CASE initialize
  <2>1. dev \in Device /\ dev # NoDev BY <1>2 DEF initialize, DeviceInv, ControlInv, NoDev
  <2>2. dev' \in Device /\ dev' # NoDev /\ dev'.closing = dev.closing
        /\ dev'.streams_configured = dev.streams_configured /\ dev'.size = dev.size
    BY <1>2, <2>1 DEF initialize, Device, NoDev
  <2>3. ControlInv' BY <1>2, <2>1, <2>2 DEF initialize, DeviceInv, ControlInv, callVars
  <2>4. PipeInv' BY <1>2, <2>1, <2>2, PipeKept DEF initialize, DeviceInv, callVars
  <2>5. LocalsInv' /\ AnswerInv' BY <1>2, RequestsKept DEF initialize, DeviceInv, callVars
  <2> QED BY <1>2, <2>3, <2>4, <2>5 DEF initialize, DeviceInv, TrackerInv
<1> QED BY <1>1, <1>2

\* A thread that waited for the lock of a deleted device, and the calls of flush and
\* configure_streams before they have the lock.
LEMMA WaitSteps ==
  ASSUME DeviceInv, NEW t \in Threads, TouchFreed(t) \/ CallFlush(t) \/ CallConfigure(t)
  PROVE  DeviceInv'
<1>1. PICK l \in {"crashed", "flush_lock", "config_lock"} : pc' = [pc EXCEPT ![t] = l]
  BY DEF TouchFreed, CallFlush, CallConfigure, Call, Goto
<1>2. /\ pc[t] \notin CaptureSteps
      /\ UNCHANGED <<dev, pipe, tracker, marked, lock, loc, next, ret, msgs, result>>
  BY DEF TouchFreed, CallFlush, CallConfigure, Call, callVars, CaptureSteps
<1>3. calls' \in 0 .. MaxCalls
  BY CameraAssumption DEF TouchFreed, CallFlush, CallConfigure, Call, callVars, DeviceInv, ControlInv
<1>4. l \in (CallSteps \ Closing) \cup {"idle", "crashed"} /\ l \notin Capturing /\ l # "cap_proc"
  BY DEF CallSteps, Closing, Capturing, CaptureSteps
<1>5. ControlInv' BY <1>1, <1>2, <1>3, <1>4, ControlMoves DEF DeviceInv, ControlInv
<1>6. \A u \in Threads : pc'[u] = IF u = t THEN l ELSE pc[u] BY <1>1 DEF DeviceInv, ControlInv
<1>7. LocalsInv' /\ AnswerInv' BY <1>2, <1>4, <1>6, RequestsKept DEF DeviceInv
<1>8. PipeInv'
  <2>1. pc[t] # "cap_proc" BY <1>2 DEF CaptureSteps
  <2>2. \A u \in Threads : pc'[u] = "cap_proc" <=> pc[u] = "cap_proc" BY <1>4, <1>6, <2>1
  <2> QED BY <1>2, <2>2, PipeKept DEF DeviceInv
<1> QED BY <1>2, <1>5, <1>7, <1>8 DEF DeviceInv, TrackerInv

\* A thread inside a capture holds the lock and is the only one there.
LEMMA AloneInCapture ==
  ASSUME ControlInv, NEW t \in Threads, pc[t] \in CaptureSteps
  PROVE  /\ lock = t /\ dev \in Device /\ dev # NoDev
         /\ \A u \in Threads \ {t} : pc[u] \notin CaptureSteps
         /\ \A u \in Threads : pc[u] # "close_free"
<1>1. lock = t /\ t # "none" BY CameraAssumption DEF ControlInv
<1> QED BY <1>1 DEF ControlInv

\* A capture takes a step and goes on: its frame stays its own.
LEMMA CaptureGoesOn ==
  ASSUME DeviceInv, NEW t \in Threads, pc[t] \in CaptureSteps, NEW l \in CaptureSteps, NEW x \in Locals,
         x.frame = loc[t].frame, ~ x.captured => x.written = {},
         pc' = [pc EXCEPT ![t] = l], loc' = [loc EXCEPT ![t] = x],
         dev' \in Device, dev' # NoDev, dev'.closing = dev.closing,
         UNCHANGED <<lock, next, calls, tracker, marked, ret, msgs, result>>
  PROVE  ControlInv' /\ LocalsInv' /\ AnswerInv' /\ TrackerInv'
<1> USE DEF DeviceInv
<1>1. lock = t /\ \A u \in Threads : pc[u] # "close_free" BY AloneInCapture
<1>2. \A u \in Threads : pc'[u] = IF u = t THEN l ELSE pc[u] BY DEF ControlInv
<1>3. l \notin Closing /\ l \in Capturing /\ pc[t] \in Capturing BY Steps DEF Capturing
<1>4. ControlInv'
  <2>1. pc' \in [Threads -> CaptureSteps \cup CallSteps \cup {"idle", "crashed"}] BY DEF ControlInv
  <2>2. \A u \in Threads : lock' = u <=> pc'[u] \in CaptureSteps BY <1>2 DEF ControlInv
  <2>3. \A u \in Threads : pc'[u] \in Closing => pc[u] \in Closing BY <1>2, <1>3
  <2>4. \A u \in Threads : pc'[u] # "close_free" BY <1>1, <1>2, <1>3 DEF Closing
  <2> QED BY <2>1, <2>2, <2>3, <2>4 DEF ControlInv
<1>5. \A u \in Threads : loc'[u] = IF u = t THEN x ELSE loc[u] BY DEF LocalsInv
<1>6. LocalsInv'
  <2>1. loc' \in [Threads -> Locals \cup {NoCall}] BY DEF LocalsInv
  <2>2. \A u \in Threads : pc'[u] \in Capturing => pc[u] \in Capturing BY <1>2, <1>3
  <2>3. \A u \in Threads : loc'[u].frame = loc[u].frame BY <1>5
  <2>4. \A u \in Threads : pc'[u] \in Capturing => loc'[u] \in Locals /\ (~ loc'[u].captured => loc'[u].written = {})
    BY <1>5, <2>2 DEF LocalsInv
  <2> QED BY <2>1, <2>2, <2>3, <2>4 DEF LocalsInv
<1>7. AnswerInv' BY DEF AnswerInv, AnsweredTruly, AnsweredOnce, ErrorMeansNothingWritten
<1>8. TrackerInv' BY <1>1, <1>5 DEF TrackerInv
<1> QED BY <1>4, <1>6, <1>7, <1>8

\* A capture that returns gives up the lock, its frame and its place in the tracker.
LEMMA CaptureLeaves ==
  ASSUME DeviceInv, NEW t \in Threads, pc[t] \in Capturing, lock \in {t, "none"}, NEW r,
         ReturnTracked(t, r), UNCHANGED <<dev, next, calls>>
  PROVE  ControlInv' /\ LocalsInv' /\ TrackerInv'
<1> USE DEF DeviceInv, ReturnTracked, Return, Goto
<1>2. \A u \in Threads : pc'[u] = IF u = t THEN "idle" ELSE pc[u] BY DEF ControlInv
<1>3. "idle" \notin Closing \cup Capturing \cup CaptureSteps BY DEF Closing, Capturing, CaptureSteps
<1>4. ControlInv'
  <2>1. pc' \in [Threads -> CaptureSteps \cup CallSteps \cup {"idle", "crashed"}] BY DEF ControlInv
  <2>0. \A u \in Threads : pc[u] \in CaptureSteps => u = t BY CameraAssumption DEF ControlInv
  <2>2. \A u \in Threads : pc'[u] \notin CaptureSteps BY <1>2, <1>3, <2>0
  <2>3. \A u \in Threads : pc'[u] \in Closing => pc[u] \in Closing BY <1>2, <1>3
  <2>4. \A u \in Threads : lock' = u <=> pc'[u] \in CaptureSteps BY <2>2, CameraAssumption
  <2> QED BY <2>1, <2>3, <2>4 DEF ControlInv
<1>5. \A u \in Threads : loc'[u] = IF u = t THEN NoCall ELSE loc[u] BY DEF LocalsInv
<1>6. LocalsInv'
  <2>1. loc' \in [Threads -> Locals \cup {NoCall}] BY DEF LocalsInv
  <2>2. \A u \in Threads : pc'[u] \in Capturing => u # t /\ pc[u] \in Capturing /\ loc'[u] = loc[u]
    BY <1>2, <1>3, <1>5
  <2>3. loc[t] \in Locals /\ loc[t].frame \in Frames BY DEF LocalsInv, Locals
  <2>4. \A u \in Threads : pc'[u] \in Capturing => loc[u].frame # loc[t].frame BY <2>2 DEF LocalsInv
  <2>5. \A u \in Threads : pc'[u] \in Capturing => loc[u] \in Locals /\ loc[u].frame \in Frames
    BY <2>2 DEF LocalsInv, Locals
  <2>6. \A u \in Threads : pc'[u] \in Capturing => ret'[loc[u].frame] = "none"
    BY <2>2, <2>4, <2>5 DEF LocalsInv, AnswerInv, Frame
  <2> QED BY <2>1, <2>2, <2>5, <2>6 DEF LocalsInv
<1>7. TrackerInv'
  <2>1. lock' = "none" /\ tracker' = tracker \ {loc[t].frame} /\ marked' = marked \ {loc[t].frame} BY DEF remove, Frame
  <2>2. tracker \subseteq {loc[t].frame} /\ marked = {} BY DEF TrackerInv
  <2> QED BY <2>1, <2>2 DEF TrackerInv
<1> QED BY <1>4, <1>6, <1>7

\* A request that returns an error, or has not returned, has no callback.
LEMMA ErrorAnswer ==
  ASSUME DeviceInv, NEW t \in Threads, pc[t] \in Capturing, NEW r \in Returns, r # "OK",
         ret' = [ret EXCEPT ![Frame(t)] = r], UNCHANGED <<next, msgs, result>>
  PROVE  AnswerInv'
<1> USE DEF DeviceInv
<1>1. Frame(t) \in Frames /\ Frame(t) < next /\ ret[Frame(t)] = "none" BY DEF LocalsInv, Locals, Frame
<1>2. ret' \in [Frames -> Returns] BY <1>1 DEF AnswerInv
<1>3. \A f \in Frames : ret'[f] = IF f = Frame(t) THEN r ELSE ret[f] BY <1>1 DEF AnswerInv
<1>4. \A f \in Frames : ret'[f] = "OK" <=> ret[f] = "OK" BY <1>1, <1>3
<1>5. AnsweredTruly' BY <1>4 DEF AnswerInv, AnsweredTruly, AnsweredOnce, ErrorMeansNothingWritten
<1>6. \A f \in Frames : f >= next => f # Frame(t)
  <2>1. Frame(t) \in Int /\ next \in Int BY <1>1 DEF Frames, ControlInv
  <2> QED BY <1>1, <2>1 DEF Frames
<1> QED BY <1>2, <1>3, <1>5, <1>6 DEF AnswerInv

\* No other thread reads a buffer, before or after a step of the thread that may.
LEMMA OnlyReader ==
  ASSUME ControlInv, NEW t \in Threads, lock \in {t, "none"}, NEW l, pc' = [pc EXCEPT ![t] = l]
  PROVE  \A u \in Threads \ {t} : pc[u] # "cap_proc" /\ pc'[u] # "cap_proc"
<1>1. \A u \in Threads \ {t} : pc[u] \notin CaptureSteps BY CameraAssumption DEF ControlInv
<1>2. "cap_proc" \in CaptureSteps BY DEF CaptureSteps
<1> QED BY <1>1, <1>2 DEF ControlInv

\* A new request gets the next frame number.
LEMMA CallCaptureStep == ASSUME DeviceInv, NEW t \in Threads, CallCapture(t) PROVE DeviceInv'
<1> USE DEF DeviceInv
<1>1. /\ pc' = [pc EXCEPT ![t] = "cap_lock"] /\ pc[t] = "idle"
      /\ next \in Frames /\ next' = next + 1
      /\ UNCHANGED <<dev, pipe, tracker, marked, lock, calls, ret, msgs, result>>
  BY CameraAssumption DEF CallCapture, Goto, ControlInv, Frames
<1>2. PICK r \in Requests :
        loc' = [loc EXCEPT ![t] = [frame |-> next, req |-> r, idx |-> 1, retries |-> 0, held |-> -1,
                                   captured |-> FALSE, written |-> {}, hasBlobOutput |-> FALSE]]
  BY DEF CallCapture
<1> DEFINE x == [frame |-> next, req |-> r, idx |-> 1, retries |-> 0, held |-> -1,
                 captured |-> FALSE, written |-> {}, hasBlobOutput |-> FALSE]
<1>3. x \in Locals /\ x.frame = next /\ x.written = {}
  <2>1. r \in Request BY CameraAssumption
  <2>2. 1 \in Nat /\ 0 \in Nat /\ -1 \in Int /\ {} \in SUBSET Nat OBVIOUS
  <2> QED BY <1>1, <2>1, <2>2 DEF Locals
<1>20. loc' = [loc EXCEPT ![t] = x] BY <1>2
<1> HIDE DEF x
<1>4. \A u \in Threads : /\ pc'[u] = IF u = t THEN "cap_lock" ELSE pc[u]
                         /\ loc'[u] = IF u = t THEN x ELSE loc[u]
  BY <1>1, <1>20 DEF ControlInv, LocalsInv
<1>5. ControlInv'
  <2>1. next' \in 1 .. MaxFrames + 1 BY <1>1, CameraAssumption DEF Frames
  <2>2. "cap_lock" \in (CallSteps \ Closing) \cup {"idle", "crashed"} /\ pc[t] \notin CaptureSteps
    BY <1>1, Steps
  <2> QED BY <1>1, <2>1, <2>2, ControlMoves DEF ControlInv
<1>6. "cap_lock" \notin CaptureSteps /\ "idle" \notin CaptureSteps /\ "cap_proc" \in CaptureSteps BY DEF CaptureSteps
<1>7. PipeInv'
  <2>1. \A u \in Threads : pc'[u] = "cap_proc" => u # t BY <1>4
  <2>2. \A u \in Threads : pc[u] = "cap_proc" => u # t BY <1>1
  <2>3. \A u \in Threads : u # t => pc'[u] = pc[u] /\ loc'[u] = loc[u] BY <1>4
  <2> QED BY <1>1, <2>1, <2>2, <2>3 DEF PipeInv
<1>8. LocalsInv'
  <2>1. loc' \in [Threads -> Locals \cup {NoCall}] BY <1>20, <1>3 DEF LocalsInv
  <2>2. \A u \in Threads \ {t} : pc'[u] \in Capturing =>
          /\ pc[u] \in Capturing /\ loc'[u] = loc[u] /\ loc[u] \in Locals
          /\ loc[u].frame < next /\ loc[u].frame \in Int /\ ret[loc[u].frame] = "none"
          /\ ~ loc[u].captured => loc[u].written = {}
    BY <1>4 DEF LocalsInv, Locals, Frames
  <2>3. next \in Int BY DEF ControlInv
  <2>4. ret[next] = "none" BY <1>1, <2>3 DEF AnswerInv
  <2>5. \A u \in Threads \ {t} : pc'[u] \in Capturing => loc'[u].frame # next /\ loc'[u].frame < next'
    BY <1>1, <2>2, <2>3
  <2>6. loc'[t] = x /\ x.frame < next'
    <3>1. loc'[t] = x BY <1>4
    <3>2. next < next' BY <1>1, <2>3
    <3> QED BY <1>3, <3>1, <3>2
  <2>7. \A u \in Threads : pc'[u] \in Capturing =>
          /\ loc'[u] \in Locals /\ loc'[u].frame < next' /\ ret'[loc'[u].frame] = "none"
          /\ ~ loc'[u].captured => loc'[u].written = {}
    BY <1>1, <1>3, <2>2, <2>4, <2>5, <2>6
  <2>8. \A u, v \in Threads : pc'[u] \in Capturing /\ pc'[v] \in Capturing /\ u # v => loc'[u].frame # loc'[v].frame
    BY <1>3, <2>2, <2>5, <2>6 DEF LocalsInv
  <2> QED BY <2>1, <2>7, <2>8 DEF LocalsInv
<1>9. AnswerInv'
  <2>1. \A f \in Frames : f >= next' => f >= next BY <1>1 DEF Frames
  <2> QED BY <1>1, <2>1 DEF AnswerInv, AnsweredTruly, AnsweredOnce, ErrorMeansNothingWritten
<1>10. TrackerInv'
  <2>1. lock # "none" => lock \in Threads /\ lock # t BY <1>1, <1>6 DEF ControlInv
  <2> QED BY <1>1, <1>4, <2>1 DEF TrackerInv
<1> QED BY <1>5, <1>7, <1>8, <1>9, <1>10

\* The request has the lock: it is refused, or tracked.
LEMMA EnterStep == ASSUME DeviceInv, NEW t \in Threads, CaptureEnter(t) PROVE DeviceInv'
<1> USE DEF DeviceInv
<1>1. /\ pc[t] = "cap_lock" /\ lock = "none" /\ dev \in Device /\ dev # NoDev
      /\ UNCHANGED <<dev, pipe, next, calls, msgs, result>>
      /\ pc[t] \in Capturing /\ pc[t] \notin CaptureSteps
  BY Steps DEF CaptureEnter, ControlInv, NoDev, Capturing
<1>2. CASE EntryError(t) # "none"
  <2>1. ReturnTracked(t, EntryError(t)) BY <1>2 DEF CaptureEnter
  <2>2. EntryError(t) \in {"ENOSYS", "EINVAL", "EAGAIN"} BY <1>2 DEF EntryError
  <2>3. ControlInv' /\ LocalsInv' /\ TrackerInv' BY <1>1, <2>1, CaptureLeaves
  <2>4. AnswerInv' BY <1>1, <2>1, <2>2, ErrorAnswer DEF ReturnTracked, Return, Returns
  <2>5. PipeInv'
    <3>1. pc' = [pc EXCEPT ![t] = "idle"] /\ loc' = [loc EXCEPT ![t] = NoCall]
      BY <2>1 DEF ReturnTracked, Return, Goto
    <3>2. \A u \in Threads \ {t} : pc[u] # "cap_proc" /\ pc'[u] # "cap_proc" BY <1>1, <3>1, OnlyReader
    <3>3. pc[t] # "cap_proc" /\ pc'[t] # "cap_proc" BY <1>1, <3>1 DEF ControlInv
    <3> QED BY <1>1, <3>2, <3>3 DEF PipeInv
  <2> QED BY <2>3, <2>4, <2>5
<1>3. CASE EntryError(t) = "none"
  <2>1. /\ tracker' = tracker \cup {Frame(t)} /\ lock' = t
        /\ pc' = [pc EXCEPT ![t] = "cap_af"] /\ UNCHANGED <<marked, loc, ret>>
    BY <1>3 DEF CaptureEnter, Goto
  <2>2. ~ dev.closing BY <1>3 DEF EntryError
  <2>3. \A u \in Threads : pc[u] \notin Closing BY <2>2 DEF ControlInv
  <2>4. \A u \in Threads : pc[u] \notin CaptureSteps BY <1>1, CameraAssumption DEF ControlInv
  <2>5. \A u \in Threads : pc'[u] = IF u = t THEN "cap_af" ELSE pc[u] BY <2>1 DEF ControlInv
  <2>6. "cap_af" \in CaptureSteps /\ "cap_af" \notin Closing BY DEF CaptureSteps, Closing
  <2>7. \A u \in Threads : pc'[u] \notin Closing /\ pc'[u] # "close_free" BY <2>3, <2>5, <2>6 DEF Closing
  <2>8. ControlInv'
    <3>1. pc' \in [Threads -> CaptureSteps \cup CallSteps \cup {"idle", "crashed"}] BY <2>1, <2>6 DEF ControlInv
    <3>2. \A u \in Threads : lock' = u <=> pc'[u] \in CaptureSteps BY <2>1, <2>4, <2>5, <2>6
    <3> QED BY <1>1, <2>1, <2>7, <3>1, <3>2 DEF ControlInv
  <2>9. LocalsInv' /\ AnswerInv'
    <3>1. \A u \in Threads : pc'[u] \in Capturing => pc[u] \in Capturing BY <1>1, <2>5
    <3> QED BY <1>1, <2>1, <3>1, RequestsKept
  <2>10. PipeInv'
    <3>1. \A u \in Threads : pc'[u] = "cap_proc" <=> pc[u] = "cap_proc" BY <1>1, <2>5
    <3> QED BY <1>1, <2>1, <3>1, PipeKept
  <2>11. TrackerInv' BY <1>1, <2>1, CameraAssumption DEF TrackerInv, Frame
  <2> QED BY <2>8, <2>9, <2>10, <2>11
<1> QED BY <1>2, <1>3

\* While nobody reads a buffer, every buffer is with the driver.
LEMMA AllBack ==
  ASSUME PipeInv, \A u \in Threads : pc[u] # "cap_proc", ~Faults, pipe # NoPipe, pipe.mState = "STREAMING"
  PROVE  AllQueued(pipe)
BY DEF PipeInv, PipeOK, AllQueued

\* A capture step that ends without a buffer in hand.
LEMMA PipeWithout ==
  ASSUME ControlInv, PipeInv, NEW t \in Threads, pc[t] \in CaptureSteps, NEW l, l # "cap_proc",
         pc' = [pc EXCEPT ![t] = l],
         dev' # NoDev, dev'.streams_configured = dev.streams_configured, dev'.size = dev.size,
         pipe' = NoPipe \/ (pipe # NoPipe /\ PipeOK(pipe')),
         ~Faults /\ pipe' # NoPipe /\ pipe'.mState = "STREAMING" => AllQueued(pipe')
  PROVE  PipeInv'
<1>1. dev # NoDev /\ lock = t BY AloneInCapture
<1>2. \A u \in Threads : pc'[u] # "cap_proc"
  <2>1. \A u \in Threads \ {t} : pc'[u] # "cap_proc" BY <1>1, OnlyReader
  <2> QED BY <2>1 DEF ControlInv
<1>3. pipe' # NoPipe => dev'.streams_configured /\ dev'.size # 0 BY <1>1 DEF PipeInv
<1> QED BY <1>2, <1>3 DEF PipeInv, PipeOK, AllQueued

\* The settings and the trigger branches change the focus flags and nothing else of the device.
LEMMA FocusFlags ==
  ASSUME NEW d \in Device, NEW s, s = NoSettings \/ (s.af_mode \in BOOLEAN /\ s.af_trigger \in Triggers), NEW p,
         NEW e \in {AfSettings(d, s), AfTrigger(AfSettings(d, s), p).d}
  PROVE  /\ e \in Device /\ e # NoDev /\ e.closing = d.closing
         /\ e.streams_configured = d.streams_configured /\ e.size = d.size
<1> DEFINE f == AfSettings(d, s)
<1>1. f \in Device /\ f.closing = d.closing /\ f.streams_configured = d.streams_configured /\ f.size = d.size
  <2>1. CASE ~ s.present BY <2>1 DEF AfSettings
  <2>2. CASE s.present
    <3>1. s.af_mode \in BOOLEAN /\ s.af_trigger \in Triggers BY <2>2 DEF NoSettings
    <3>2. f = [d EXCEPT !.af_mode = s.af_mode, !.af_trigger = s.af_trigger] BY <2>2 DEF AfSettings
    <3>3. f \in Device BY <3>1, <3>2 DEF Device
    <3> QED BY <3>2, <3>3 DEF Device
  <2> QED BY <2>1, <2>2
<1> HIDE DEF f
<1> DEFINE g == AfTrigger(f, p).d
<1>2. PICK a \in BOOLEAN, h \in BOOLEAN : g = f \/ g = [f EXCEPT !.af_auto_scanned = a, !.af_trigger_handled = h] \/ g = [f EXCEPT !.af_auto_scanned = a]
  BY DEF AfTrigger
<1>3. g \in Device /\ g.closing = f.closing /\ g.streams_configured = f.streams_configured /\ g.size = f.size
  <2> HIDE DEF g
  <2>1. CASE g = f BY <1>1, <2>1
  <2>2. CASE g = [f EXCEPT !.af_auto_scanned = a, !.af_trigger_handled = h] BY <1>1, <2>2 DEF Device
  <2>3. CASE g = [f EXCEPT !.af_auto_scanned = a] BY <1>1, <2>3 DEF Device
  <2> QED BY <1>2, <2>1, <2>2, <2>3
<1> HIDE DEF g
<1>4. e = f \/ e = g BY DEF f, g
<1>5. \A x \in Device : x # NoDev BY DEF Device, NoDev
<1> QED BY <1>1, <1>3, <1>4, <1>5

\* Whatever the trigger asks for, the pipeline stays sound and keeps its buffers.
LEMMA FocusPipes ==
  ASSUME NEW d, NEW p, PipeOK(p), NEW q \in AfTrigger(d, p).ps
  PROVE  /\ PipeOK(q) /\ q.mState = p.mState /\ q.mBufferCount = p.mBufferCount
         /\ ~Faults => q.queued = p.queued
<1>1. q \in startAfScan(p) \/ q = cancelAf(p) \/ q = p BY DEF AfTrigger
<1> QED BY <1>1, ScanKeeps, CancelKeeps

\* The focus handling before the capture.
LEMMA AfStep == ASSUME DeviceInv, NEW t \in Threads, CaptureAf(t) PROVE DeviceInv'
<1> USE DEF DeviceInv
<1> DEFINE d == AfSettings(dev, Settings(t))
           a == AfTrigger(d, pipe)
<1>1. /\ pc[t] = "cap_af" /\ pc' = [pc EXCEPT ![t] = "cap_check"]
      /\ UNCHANGED <<tracker, marked, lock, loc, next, calls, ret, msgs, result>>
  BY DEF CaptureAf, Goto, callVars
<1>2. pc[t] \in CaptureSteps /\ "cap_check" \in CaptureSteps /\ pc[t] \in Capturing BY <1>1 DEF CaptureSteps, Capturing
<1>3. lock = t /\ dev \in Device /\ dev # NoDev BY <1>2, AloneInCapture
<1>4. loc[t] \in Locals /\ (~ loc[t].captured => loc[t].written = {}) BY <1>2 DEF LocalsInv
<1>5. Settings(t) = NoSettings \/ (Settings(t).af_mode \in BOOLEAN /\ Settings(t).af_trigger \in Triggers)
  BY <1>4 DEF Locals, Request, Settings
<1>6. dev' \in {d, a.d} BY DEF CaptureAf
<1>7. /\ dev' \in Device /\ dev' # NoDev /\ dev'.closing = dev.closing
      /\ dev'.streams_configured = dev.streams_configured /\ dev'.size = dev.size
  <2> HIDE DEF Settings
  <2> QED BY <1>3, <1>5, <1>6, FocusFlags
<1>8. loc' = [loc EXCEPT ![t] = loc[t]] BY <1>1 DEF LocalsInv
<1>9. ControlInv' /\ LocalsInv' /\ AnswerInv' /\ TrackerInv'
  BY <1>1, <1>2, <1>4, <1>7, <1>8, CaptureGoesOn
<1>10. \A u \in Threads : pc[u] # "cap_proc"
  <2>1. \A u \in Threads \ {t} : pc[u] # "cap_proc" BY <1>1, <1>3, OnlyReader
  <2> QED BY <1>1, <2>1
<1>11. pipe' = pipe \/ (pipe # NoPipe /\ \E p \in a.ps : pipe' = p \/ pipe' \in startAfScan(p))
  BY DEF CaptureAf
<1>12. \/ pipe' = pipe
       \/ /\ pipe # NoPipe /\ PipeOK(pipe') /\ pipe'.mState = pipe.mState
          /\ pipe'.mBufferCount = pipe.mBufferCount /\ (~Faults => pipe'.queued = pipe.queued)
  <2>1. CASE pipe' = pipe BY <2>1
  <2>2. CASE pipe # NoPipe /\ \E p \in a.ps : pipe' = p \/ pipe' \in startAfScan(p)
    <3>1. PICK p \in a.ps : pipe' = p \/ pipe' \in startAfScan(p) BY <2>2
    <3>2. PipeOK(pipe) BY <2>2 DEF PipeInv
    <3>3. /\ PipeOK(p) /\ p.mState = pipe.mState /\ p.mBufferCount = pipe.mBufferCount
          /\ ~Faults => p.queued = pipe.queued
      BY <3>1, <3>2, FocusPipes
    <3> QED BY <2>2, <3>1, <3>3, ScanKeeps
  <2> QED BY <1>11, <2>1, <2>2
<1>13. PipeInv'
  <2>1. pipe' = NoPipe \/ (pipe # NoPipe /\ PipeOK(pipe')) BY <1>12 DEF PipeInv
  <2>2. ~Faults /\ pipe' # NoPipe /\ pipe'.mState = "STREAMING" => AllQueued(pipe')
    BY <1>10, <1>12, AllBack DEF AllQueued
  <2> QED BY <1>1, <1>2, <1>7, <2>1, <2>2, PipeWithout
<1> QED BY <1>9, <1>13

\* closing is looked at again, and an OPENED pipeline started.
LEMMA CheckStep == ASSUME DeviceInv, NEW t \in Threads, CaptureCheck(t) PROVE DeviceInv'
<1> USE DEF DeviceInv
<1>1. pc[t] = "cap_check" /\ UNCHANGED <<dev, next, calls, msgs, result>> BY DEF CaptureCheck
<1>2. pc[t] \in CaptureSteps /\ pc[t] \in Capturing BY <1>1 DEF CaptureSteps, Capturing
<1>3. lock = t /\ dev \in Device /\ dev # NoDev BY <1>2, AloneInCapture
<1>4. loc[t] \in Locals /\ (~ loc[t].captured => loc[t].written = {}) BY <1>2 DEF LocalsInv
<1>5. \A u \in Threads : pc[u] # "cap_proc"
  <2>1. \A u \in Threads \ {t} : pc[u] # "cap_proc" BY <1>2, AloneInCapture DEF CaptureSteps
  <2> QED BY <1>1, <2>1
<1>6. pipe' = pipe => /\ pipe' = NoPipe \/ (pipe # NoPipe /\ PipeOK(pipe'))
                      /\ ~Faults /\ pipe' # NoPipe /\ pipe'.mState = "STREAMING" => AllQueued(pipe')
  <2> SUFFICES ASSUME pipe' = pipe
               PROVE  /\ pipe = NoPipe \/ (pipe # NoPipe /\ PipeOK(pipe))
                      /\ ~Faults /\ pipe # NoPipe /\ pipe.mState = "STREAMING" => AllQueued(pipe)
    OBVIOUS
  <2> QED BY <1>5, AllBack DEF PipeInv
<1>7. ASSUME NEW r \in {"ENOSYS", "ENODEV"}, ReturnTracked(t, r),
             pipe' = NoPipe \/ (pipe # NoPipe /\ PipeOK(pipe')),
             ~Faults /\ pipe' # NoPipe /\ pipe'.mState = "STREAMING" => AllQueued(pipe')
      PROVE  DeviceInv'
  <2>1. ControlInv' /\ LocalsInv' /\ TrackerInv' BY <1>1, <1>2, <1>3, <1>7, CaptureLeaves
  <2>2. AnswerInv' BY <1>1, <1>2, <1>7, ErrorAnswer DEF ReturnTracked, Return, Returns
  <2>3. pc' = [pc EXCEPT ![t] = "idle"] BY <1>7 DEF ReturnTracked, Return, Goto
  <2>4. PipeInv' BY <1>1, <1>2, <1>3, <1>7, <2>3, PipeWithout
  <2> QED BY <2>1, <2>2, <2>4
<1>8. ASSUME NEW l \in {"cap_buf", "cap_still"}, Goto(t, l), UNCHANGED <<tracker, marked, ret, lock, loc>>,
             pipe' = NoPipe \/ (pipe # NoPipe /\ PipeOK(pipe')),
             ~Faults /\ pipe' # NoPipe /\ pipe'.mState = "STREAMING" => AllQueued(pipe')
      PROVE  DeviceInv'
  <2>1. pc' = [pc EXCEPT ![t] = l] /\ loc' = [loc EXCEPT ![t] = loc[t]] BY <1>8 DEF Goto, LocalsInv
  <2>2. l \in CaptureSteps /\ l # "cap_proc" BY DEF CaptureSteps
  <2>3. ControlInv' /\ LocalsInv' /\ AnswerInv' /\ TrackerInv'
    BY <1>1, <1>2, <1>3, <1>4, <1>8, <2>1, <2>2, CaptureGoesOn
  <2>4. PipeInv' BY <1>1, <1>2, <1>3, <1>8, <2>1, <2>2, PipeWithout
  <2> QED BY <2>3, <2>4
<1>9. CASE ReturnTracked(t, "ENOSYS") /\ UNCHANGED pipe BY <1>6, <1>7, <1>9
<1>10. CASE Goto(t, "cap_still") /\ UNCHANGED <<pipe, tracker, marked, ret, lock, loc>> BY <1>6, <1>8, <1>10
<1>11. ASSUME pipe # NoPipe,
              NEW o \in IF pipe.mState = "OPENED" THEN startStreaming(pipe) ELSE {Outcome("OK", pipe)},
              pipe' = o.p,
              IF o.ret # "OK"
              THEN ReturnTracked(t, "ENODEV")
              ELSE /\ \E l \in {"cap_buf", "cap_still"} : Goto(t, l)
                   /\ UNCHANGED <<tracker, marked, ret, lock, loc>>
       PROVE  DeviceInv'
  <2>1. PipeOK(pipe) BY <1>11 DEF PipeInv
  <2>2. /\ pipe' = NoPipe \/ (pipe # NoPipe /\ PipeOK(pipe'))
        /\ ~Faults /\ pipe' # NoPipe /\ pipe'.mState = "STREAMING" => AllQueued(pipe')
    <3>1. CASE pipe.mState = "OPENED"
      <4>1. o \in startStreaming(pipe) BY <3>1
      <4>2. /\ PipeOK(o.p) /\ (o.ret = "OK" => AllQueued(o.p))
            /\ o.ret # "OK" => o.p.mState = "OPENED"
        BY <2>1, <3>1, <4>1, StartKeeps
      <4> QED BY <1>11, <4>2
    <3>2. CASE pipe.mState # "OPENED"
      <4>1. pipe' = pipe BY <1>11, <3>2 DEF Outcome
      <4> QED BY <4>1, <1>6
    <3> QED BY <3>1, <3>2
  <2>3. CASE o.ret # "OK" BY <1>7, <1>11, <2>2, <2>3
  <2>4. CASE o.ret = "OK" BY <1>8, <1>11, <2>2, <2>4
  <2> QED BY <2>3, <2>4
<1> QED BY <1>9, <1>10, <1>11 DEF CaptureCheck
=============================================================================
