----------------------------- MODULE CameraHal -----------------------------
(***************************************************************************)
(* src/camera/MochaCameraHAL.cpp: one camera device, called by the         *)
(* framework on several binder threads.  pipelineLock is held over the     *)
(* whole of process_capture_request, configure_streams and flush, and by   *)
(* close until it deletes the lock.  configure_streams, flush and the      *)
(* locked part of close are one step each; a capture is many, because      *)
(* closing is set, and callers queue up, without the lock.                 *)
(***************************************************************************)
EXTENDS CameraPipeline, StreamConfig

CONSTANTS
  Threads,      \* the binder threads
  MaxFrames,    \* bound on the requests the framework submits
  MaxCalls,     \* bound on its calls of configure_streams, flush and close
  Requests,     \* the requests it may submit: [bufs, settings]
  Configs,      \* the stream lists it may configure; each that is not
                \* rejected has an output stream other than BLOB
  MaxRetries,   \* max_retries of captureFrame (6)
  QuietClose    \* TRUE: close is only called while no other call is outstanding

NoSettings == [present |-> FALSE]
Triggers == {"IDLE", "START", "CANCEL"}
Request == [bufs : Seq({"RGBA", "YCBCR", "BLOB"}),
            settings : {NoSettings} \cup [present : {TRUE}, af_mode : BOOLEAN, af_trigger : Triggers, still : BOOLEAN]]
Stream == [output : BOOLEAN, format : StreamFormats, size : Nat]

ASSUME CameraAssumption ==
  /\ IsFiniteSet(Threads) /\ "none" \notin Threads
  /\ MaxFrames \in Nat /\ MaxCalls \in Nat /\ MaxRetries \in Nat \ {0} /\ QuietClose \in BOOLEAN
  /\ Requests \subseteq Request
  /\ \A c \in Configs : c \in Seq(Stream) /\ (Rejected(c) \/ pipelineStream(c) \in DOMAIN c)

Frames == 1 .. MaxFrames
NoDev == [open |-> FALSE]
NoPipe == [mState |-> "NULL"]
NoResult == [ok |-> FALSE, written |-> {}, count |-> 0]
NoCall == [frame |-> 0]

VARIABLES
  dev,        \* mocha_camera_device_t, NoDev when deleted
  pipe,       \* dev->pipeline
  tracker,    \* InFlightTracker: the frames in flight
  marked,     \* those of them that are marked as error
  lock,       \* holder of pipelineLock or "none"
  pc,         \* pc[t]: where thread t is
  loc,        \* loc[t]: the locals of its process_capture_request
  next,       \* the next frame number
  calls,      \* the other calls made so far
  ret,        \* ret[f]: what process_capture_request returned for frame f
  msgs,       \* msgs[f]: callbacks made for frame f, in order
  result,     \* result[f]: the buffers of its capture result
  usedFreed   \* a thread went on with the deleted device

vars == <<dev, pipe, tracker, marked, lock, pc, loc, next, calls, ret, msgs, result, usedFreed>>
callVars == <<next, calls, ret, msgs, result>>

\* openCamera and camera_device_init.
NewDev == [open |-> TRUE, is_initialized |-> FALSE, streams_configured |-> FALSE,
           size |-> 0, blob |-> FALSE, closing |-> FALSE, af_mode |-> TRUE,
           af_trigger |-> "IDLE", af_trigger_handled |-> FALSE, af_auto_scanned |-> FALSE]

Init == /\ dev = NoDev /\ pipe = NoPipe
        /\ tracker = {} /\ marked = {}
        /\ lock = "none"
        /\ pc = [t \in Threads |-> "idle"]
        /\ loc = [t \in Threads |-> NoCall]
        /\ next = 1 /\ calls = 0
        /\ ret = [f \in Frames |-> "none"]
        /\ msgs = [f \in Frames |-> <<>>]
        /\ result = [f \in Frames |-> NoResult]
        /\ usedFreed = FALSE

AllIdle == \A t \in Threads : pc[t] = "idle"
Goto(t, l) == pc' = [pc EXCEPT ![t] = l]

\* The framework opens the camera again once every call on the old device is over.
openCamera == /\ dev = NoDev /\ AllIdle
              /\ dev' = NewDev /\ pipe' = NoPipe
              /\ UNCHANGED <<tracker, marked, lock, pc, loc, callVars, usedFreed>>

\* camera_device_initialize takes no lock.
initialize == /\ dev.open /\ ~ dev.is_initialized /\ ~ dev.closing
              /\ dev' = [dev EXCEPT !.is_initialized = TRUE]
              /\ UNCHANGED <<pipe, tracker, marked, lock, pc, loc, callVars, usedFreed>>

\* A thread that waits for pipelineLock while the device is deleted goes on
\* with freed memory.
TouchFreed(t) == /\ pc[t] \in {"cap_lock", "flush_lock", "config_lock"}
                 /\ ~ dev.open
                 /\ usedFreed' = TRUE
                 /\ Goto(t, "crashed")
                 /\ UNCHANGED <<dev, pipe, tracker, marked, lock, loc, callVars>>

-----------------------------------------------------------------------------
(* camera_device_process_capture_request *)

CallCapture(t) ==
  /\ pc[t] = "idle" /\ dev.open /\ ~ dev.closing /\ next <= MaxFrames
  /\ \E r \in Requests :
       loc' = [loc EXCEPT ![t] = [frame |-> next, req |-> r, idx |-> 1, retries |-> 0,
                                  held |-> -1, captured |-> FALSE, written |-> {},
                                  hasBlobOutput |-> FALSE]]
  /\ next' = next + 1
  /\ Goto(t, "cap_lock")
  /\ UNCHANGED <<dev, pipe, tracker, marked, lock, calls, ret, msgs, result, usedFreed>>

Bufs(t) == loc[t].req.bufs
Settings(t) == loc[t].req.settings
Frame(t) == loc[t].frame

\* InFlightTracker::remove.
remove(f) == tracker' = tracker \ {f} /\ marked' = marked \ {f}

\* process_capture_request returns r and gives the lock back.
Return(t, r) == /\ ret' = [ret EXCEPT ![Frame(t)] = r]
                /\ lock' = "none"
                /\ loc' = [loc EXCEPT ![t] = NoCall]
                /\ Goto(t, "idle")

\* Mutant: an early return leaves the request in the tracker.
ReturnTrackedKeep(t, r) == Return(t, r) /\ UNCHANGED <<tracker, marked>>

\* An early return after the request was added to the tracker.
ReturnTracked(t, r) == Return(t, r) /\ remove(Frame(t))

\* The checks made under the lock before the request is tracked, in order.
EntryError(t) ==
  CASE dev.closing \/ ~ dev.is_initialized -> "ENOSYS"
    [] ~ dev.closing /\ dev.is_initialized /\ Len(Bufs(t)) < 1 -> "EINVAL"
    [] ~ dev.closing /\ dev.is_initialized /\ Len(Bufs(t)) >= 1 /\ Frame(t) \in marked -> "EAGAIN"
    [] OTHER -> "none"

CaptureEnter(t) ==
  /\ pc[t] = "cap_lock" /\ lock = "none" /\ dev.open
  /\ IF EntryError(t) # "none"
     THEN ReturnTracked(t, EntryError(t))
     ELSE /\ tracker' = tracker \cup {Frame(t)}
          /\ lock' = t
          /\ Goto(t, "cap_af")
          /\ UNCHANGED <<marked, loc, ret>>
  /\ UNCHANGED <<dev, pipe, next, calls, msgs, result, usedFreed>>

\* What the request's settings leave in the device; without settings the
\* values of the previous request stay.
AfSettings(d, s) == IF s.present
                    THEN [d EXCEPT !.af_mode = s.af_mode, !.af_trigger = s.af_trigger]
                    ELSE d

\* The trigger branches: the flags, the pipelines that may result, and whether
\* a scan ran.
AfTrigger(d, p) ==
  CASE d.af_trigger = "START" /\ ~ d.af_trigger_handled ->
         [d |-> [d EXCEPT !.af_auto_scanned = TRUE, !.af_trigger_handled = TRUE],
          ps |-> startAfScan(p), scan |-> TRUE]
    [] d.af_trigger = "CANCEL" ->
         [d |-> [d EXCEPT !.af_auto_scanned = FALSE, !.af_trigger_handled = FALSE],
          ps |-> {cancelAf(p)}, scan |-> FALSE]
    [] (d.af_trigger = "IDLE" \/ (d.af_trigger = "START" /\ d.af_trigger_handled))
         /\ ~ d.af_auto_scanned ->
         [d |-> [d EXCEPT !.af_auto_scanned = TRUE], ps |-> startAfScan(p), scan |-> TRUE]
    [] OTHER -> [d |-> d, ps |-> {p}, scan |-> FALSE]

wantsBlob(t) == \E i \in DOMAIN Bufs(t) : Bufs(t)[i] = "BLOB"

\* Trigger handling, then a rescan before a still picture when the last scan
\* is older than three seconds.
CaptureAf(t) ==
  LET d == AfSettings(dev, Settings(t))
      a == AfTrigger(d, pipe)
  IN /\ pc[t] = "cap_af"
     /\ IF pipe # NoPipe /\ d.af_mode
        THEN /\ dev' = a.d
             /\ \E p \in a.ps, stale \in BOOLEAN :
                  IF stale /\ wantsBlob(t) /\ ~ a.scan
                  THEN pipe' \in startAfScan(p)
                  ELSE pipe' = p
        ELSE dev' = d /\ UNCHANGED pipe
     /\ Goto(t, "cap_check")
     /\ UNCHANGED <<tracker, marked, lock, loc, callVars, usedFreed>>

\* closing is looked at again; an OPENED pipeline is started; without a
\* pipeline or the gralloc module no output buffer is filled.
CaptureCheck(t) ==
  /\ pc[t] = "cap_check"
  /\ \/ /\ dev.closing
        /\ ReturnTracked(t, "ENOSYS")
        /\ UNCHANGED pipe
     \/ /\ ~ dev.closing /\ pipe # NoPipe /\ dev.streams_configured
        /\ \E o \in IF pipe.mState = "OPENED" THEN startStreaming(pipe)
                                              ELSE {Outcome("OK", pipe)} :
             /\ pipe' = o.p
             /\ IF o.ret # "OK"
                THEN ReturnTracked(t, "ENODEV")
                ELSE /\ \E l \in {"cap_buf", "cap_still"} : Goto(t, l)
                     /\ UNCHANGED <<tracker, marked, ret, lock, loc>>
     \/ /\ ~ dev.closing /\ (pipe = NoPipe \/ ~ dev.streams_configured)
        /\ Goto(t, "cap_still")
        /\ UNCHANGED <<pipe, tracker, marked, ret, lock, loc>>
  /\ UNCHANGED <<dev, next, calls, msgs, result, usedFreed>>

-----------------------------------------------------------------------------
(* The output buffers, and CameraPipeline::captureFrame for each of them.  The
   JPEG made for a STILL_CAPTURE request without a BLOB buffer comes last and
   is numbered Len(Bufs(t)) + 1.                                             *)

Still(t) == loc[t].idx = Len(Bufs(t)) + 1
IsBlob(t) == IF Still(t) THEN TRUE ELSE Bufs(t)[loc[t].idx] = "BLOB"

\* On to the next buffer, or past the extra JPEG; l are the locals.
Advance(t, l) == /\ loc' = [loc EXCEPT ![t] = [l EXCEPT !.idx = @ + 1, !.retries = 0, !.held = -1]]
                 /\ Goto(t, IF Still(t) THEN "cap_done" ELSE "cap_buf")

\* Mutant: frameCaptured is reset for every buffer.
CaptureBufResets(t) ==
  /\ pc[t] = "cap_buf"
  /\ loc' = [loc EXCEPT ![t].captured = Still(t) /\ @]
  /\ Goto(t, IF Still(t) THEN "cap_still" ELSE "cap_poll")
  /\ UNCHANGED <<dev, pipe, tracker, marked, lock, callVars, usedFreed>>

\* The buffer is skipped (null handle, no memory, gralloc lock fails or
\* faults), or captureFrame is called for it.
CaptureBuf(t) ==
  /\ pc[t] = "cap_buf"
  /\ LET l == [loc[t] EXCEPT !.hasBlobOutput = @ \/ IsBlob(t)]
     IN \/ /\ Still(t)
           /\ Goto(t, "cap_still")
           /\ UNCHANGED loc
        \/ /\ ~ Still(t)
           /\ Advance(t, l)
        \/ /\ ~ Still(t)
           /\ loc' = [loc EXCEPT ![t] = l]
           /\ Goto(t, "cap_poll")
  /\ UNCHANGED <<dev, pipe, tracker, marked, lock, callVars, usedFreed>>

\* The extra JPEG is only tried when the request asks for a still picture, a
\* BLOB stream is configured and no BLOB buffer came with the request.
CaptureStill(t) ==
  LET wanted == /\ ~ loc[t].hasBlobOutput /\ dev.blob
                /\ Settings(t).present /\ Settings(t).still
                /\ pipe # NoPipe
  IN /\ pc[t] = "cap_still"
     /\ \/ /\ wanted
           /\ loc' = [loc EXCEPT ![t].idx = Len(Bufs(t)) + 1]
           /\ Goto(t, "cap_poll")
        \/ /\ Goto(t, "cap_done")
           /\ UNCHANGED loc
     /\ UNCHANGED <<dev, pipe, tracker, marked, lock, callVars, usedFreed>>

\* captureFrame fails with EAGAIN: the request ends without any callback,
\* except for the extra JPEG.
CaptureAgain(t) ==
  IF Still(t) THEN Advance(t, loc[t]) /\ UNCHANGED <<tracker, marked, lock, ret>>
              ELSE ReturnTracked(t, "EAGAIN")

\* Mutant: the retry is not counted.
CapturePollForever(t) ==
  /\ pc[t] = "cap_poll"
  /\ \/ UNCHANGED <<loc, pc, tracker, marked, lock, ret, pipe>>
     \/ /\ \E b \in pipe.queued :
             /\ pipe' = Dequeue(pipe, b)
             /\ loc' = [loc EXCEPT ![t].held = b]
        /\ Goto(t, "cap_proc")
        /\ UNCHANGED <<tracker, marked, lock, ret>>
  /\ UNCHANGED <<dev, next, calls, msgs, result, usedFreed>>

\* One round of the poll loop: a timeout is retried until MaxRetries; poll
\* without POLLIN and DQBUF may report EAGAIN; any other error, or a pipeline
\* that does not stream, gives up on this buffer; or a filled buffer is taken.
CapturePoll(t) ==
  /\ pc[t] = "cap_poll"
  /\ \/ /\ pipe.mState = "STREAMING" /\ loc[t].retries + 1 < MaxRetries
        /\ loc' = [loc EXCEPT ![t].retries = @ + 1]
        /\ UNCHANGED <<pc, tracker, marked, lock, ret, pipe>>
     \/ /\ pipe.mState = "STREAMING"
        /\ CaptureAgain(t)
        /\ UNCHANGED pipe
     \/ /\ Advance(t, loc[t])
        /\ UNCHANGED <<tracker, marked, lock, ret, pipe>>
     \/ /\ pipe.mState = "STREAMING"
        /\ \E b \in pipe.queued :
             /\ pipe' = Dequeue(pipe, b)
             /\ loc' = [loc EXCEPT ![t].held = b]
        /\ Goto(t, "cap_proc")
        /\ UNCHANGED <<tracker, marked, lock, ret>>
  /\ UNCHANGED <<dev, next, calls, msgs, result, usedFreed>>

\* The frame is converted into the output and its buffer queued again.  A JPEG
\* may then fail to encode; a fault in the guarded conversion jumps past QBUF.
CaptureProc(t) ==
  LET l == loc[t]
      written == [l EXCEPT !.captured = TRUE,
                           !.written = IF Still(t) THEN @ ELSE @ \cup {l.idx}]
  IN /\ pc[t] = "cap_proc"
     /\ \/ /\ l.held < pipe.mBufferCount
           /\ pipe' = Requeue(pipe, l.held)
           /\ Advance(t, written)
        \/ /\ l.held < pipe.mBufferCount /\ IsBlob(t)
           /\ pipe' = Requeue(pipe, l.held)
           /\ Advance(t, l)
        \/ /\ Faults \/ l.held >= pipe.mBufferCount
           /\ Advance(t, l)
           /\ UNCHANGED pipe
     /\ UNCHANGED <<dev, tracker, marked, lock, callVars, usedFreed>>

\* The callbacks of a request that ran to its end.
Answer(t, flushed) ==
  (IF loc[t].captured THEN <<"SHUTTER">> ELSE <<>>)
  \o (IF ~ flushed /\ ~ loc[t].captured THEN <<"ERROR_DEVICE">> ELSE <<>>)
  \o <<"RESULT">>

\* frameFlushed, SHUTTER, the status of every buffer, the error notification
\* and the result.
CaptureDone(t) ==
  LET flushed == Frame(t) \in marked
  IN /\ pc[t] = "cap_done"
     /\ msgs' = [msgs EXCEPT ![Frame(t)] = @ \o Answer(t, flushed)]
     /\ result' = [result EXCEPT ![Frame(t)] =
                     [ok |-> loc[t].captured /\ ~ flushed, written |-> loc[t].written,
                      count |-> Len(Bufs(t))]]
     /\ ReturnTracked(t, "OK")
     /\ UNCHANGED <<dev, pipe, next, calls, usedFreed>>

-----------------------------------------------------------------------------
(* flush, configure_streams and close *)

Call(t, l) == /\ pc[t] = "idle" /\ dev.open /\ ~ dev.closing /\ calls < MaxCalls
              /\ calls' = calls + 1
              /\ Goto(t, l)

CallFlush(t) == /\ Call(t, "flush_lock")
                /\ UNCHANGED <<dev, pipe, tracker, marked, lock, loc, next, ret, msgs, result, usedFreed>>

\* Mutant: flush does not wait for the capture that is running.
FlushUnlocked(t) ==
  /\ pc[t] = "flush_lock" /\ dev.open
  /\ pipe' = IF pipe # NoPipe /\ dev.streams_configured THEN stopStreaming(pipe) ELSE pipe
  /\ tracker' = {} /\ marked' = {}
  /\ Goto(t, "idle")
  /\ UNCHANGED <<dev, lock, loc, callVars, usedFreed>>

\* Streaming stops; what is in flight is marked as error, and drained.
Flush(t) ==
  /\ pc[t] = "flush_lock" /\ lock = "none" /\ dev.open
  /\ pipe' = IF pipe # NoPipe /\ dev.streams_configured THEN stopStreaming(pipe) ELSE pipe
  /\ tracker' = {} /\ marked' = {}
  /\ Goto(t, "idle")
  /\ UNCHANGED <<dev, lock, loc, callVars, usedFreed>>

CallConfigure(t) ==
  /\ Call(t, "config_lock")
  /\ UNCHANGED <<dev, pipe, tracker, marked, lock, loc, next, ret, msgs, result, usedFreed>>

\* A new pipeline is opened, configured and started; on any failure it is
\* closed and deleted.
BuildPipeline ==
  {IF s.ret = "OK" THEN s.p ELSE NoPipe :
     s \in UNION {IF c.ret = "OK" THEN startStreaming(c.p) ELSE {c} :
             c \in UNION {IF o.ret = "OK" THEN configure(o.p) ELSE {o} :
                     o \in open(NewPipeline)}}}

\* "no-op reinit": a streaming pipeline of the same size stays as it is.
SameStreaming(d, p, c) == /\ d.size = c[pipelineStream(c)].size /\ d.streams_configured
                          /\ p # NoPipe /\ p.mState = "STREAMING"

\* The device after a reconfiguration that ended with pipeline q.
Commit(d, q, c) ==
  IF q = NoPipe THEN d
  ELSE [d EXCEPT !.size = c[pipelineStream(c)].size, !.streams_configured = TRUE,
                 !.af_trigger = "IDLE", !.af_trigger_handled = FALSE, !.af_auto_scanned = FALSE]

\* The BLOB stream is noted first.  What is still in flight when the pipeline
\* is replaced is drained with an empty result.
Configure(t) ==
  /\ pc[t] = "config_lock" /\ lock = "none" /\ dev.open
  /\ \E c \in Configs :
       LET d == [dev EXCEPT !.blob = blobStream(c) # 0]
       IN CASE Rejected(c) -> UNCHANGED <<dev, pipe, tracker, marked, msgs>>
            [] ~ Rejected(c) /\ SameStreaming(d, pipe, c) ->
                 dev' = d /\ UNCHANGED <<pipe, tracker, marked, msgs>>
            [] OTHER ->
                 /\ pipe' \in BuildPipeline
                 /\ dev' = Commit(d, pipe', c)
                 /\ tracker' = {} /\ marked' = {}
                 /\ msgs' = [f \in Frames |-> IF f \in tracker THEN Append(msgs[f], "RESULT")
                                              ELSE msgs[f]]
  /\ Goto(t, "idle")
  /\ UNCHANGED <<lock, loc, next, calls, ret, result, usedFreed>>

\* closing is set before the lock is taken.
CallClose(t) ==
  /\ Call(t, "close_lock")
  /\ QuietClose => AllIdle
  /\ dev' = [dev EXCEPT !.closing = TRUE]
  /\ UNCHANGED <<pipe, tracker, marked, lock, loc, next, ret, msgs, result, usedFreed>>

\* Mutant: close does not wait for the lock.
CloseUnlocked(t) ==
  /\ pc[t] = "close_lock"
  /\ pipe' = NoPipe /\ tracker' = {} /\ marked' = {}
  /\ Goto(t, "close_free")
  /\ UNCHANGED <<dev, lock, loc, callVars, usedFreed>>

\* The tracker and the pipeline go while the lock is held.
CloseTeardown(t) ==
  /\ pc[t] = "close_lock" /\ lock = "none"
  /\ pipe' = NoPipe /\ tracker' = {} /\ marked' = {}
  /\ Goto(t, "close_free")
  /\ UNCHANGED <<dev, lock, loc, callVars, usedFreed>>

\* The lock and the device are deleted after it has been released.
CloseFree(t) ==
  /\ pc[t] = "close_free"
  /\ dev' = NoDev
  /\ Goto(t, "idle")
  /\ UNCHANGED <<pipe, tracker, marked, lock, loc, callVars, usedFreed>>

-----------------------------------------------------------------------------
\* The steps of thread t once it has been called.
Run(t) == \/ CaptureEnter(t) \/ CaptureAf(t) \/ CaptureCheck(t) \/ CaptureBuf(t)
          \/ CaptureStill(t) \/ CapturePoll(t) \/ CaptureProc(t) \/ CaptureDone(t)
          \/ Flush(t) \/ Configure(t) \/ CloseTeardown(t) \/ CloseFree(t)
          \/ TouchFreed(t)

Next == \/ openCamera \/ initialize
        \/ \E t \in Threads : \/ CallCapture(t) \/ CallFlush(t) \/ CallConfigure(t)
                              \/ CallClose(t) \/ Run(t)

Spec == Init /\ [][Next]_vars
LiveSpec == Spec /\ \A t \in Threads : WF_vars(Run(t))

-----------------------------------------------------------------------------
(* Properties *)

CaptureSteps == {"cap_af", "cap_check", "cap_buf", "cap_still", "cap_poll", "cap_proc", "cap_done"}
CallSteps == {"cap_lock", "flush_lock", "config_lock", "close_lock", "close_free"}

\* Every variable keeps its type, the lock is held exactly by the thread that
\* is inside a capture, and only a thread in a capture has locals.
TypeOK ==
  /\ dev.open \in BOOLEAN
  /\ pipe = NoPipe \/ pipe \in Pipeline
  /\ marked \subseteq tracker /\ tracker \subseteq Frames
  /\ pc \in [Threads -> CaptureSteps \cup CallSteps \cup {"idle", "crashed"}]
  /\ lock \in Threads \cup {"none"}
  /\ \A t \in Threads : /\ lock = t <=> pc[t] \in CaptureSteps
                        /\ pc[t] \in CaptureSteps \cup {"cap_lock"} => Frame(t) \in Frames
  /\ next \in 1 .. MaxFrames + 1 /\ calls \in 0 .. MaxCalls

\* CameraPipeline.cpp, configure/startStreaming/stopStreaming/close: a pipeline
\* the device keeps is open, never CLOSED; mStreaming and mState agree;
\* the first mBufferCount buffers and no others are mapped; what the driver may
\* fill is mapped, streams and is not the buffer a capture is reading.
PipelineSound ==
  pipe # NoPipe =>
    /\ pipe.mFd /\ pipe.mState # "CLOSED"
    /\ pipe.mState = "STREAMING" <=> pipe.mStreaming
    /\ pipe.mapped = FirstBuffers(pipe.mBufferCount)
    /\ pipe.queued \subseteq pipe.mapped
    /\ \A t \in Threads : pc[t] = "cap_proc" =>
         loc[t].held \in pipe.mapped \ pipe.queued /\ pipe.mStreaming

\* configure_streams (1013-1042) and the restart in process_capture_request
\* (1485-1496): the device never holds a pipeline without having committed the
\* configuration it runs.
CommittedTogether == pipe # NoPipe /\ dev.open /\ ~ dev.closing =>
                       dev.streams_configured /\ dev.size # 0

\* InFlightTracker: the tracker holds the frame of the capture that runs and
\* nothing else, so no early return of process_capture_request leaves a request
\* behind and no frame is ever found marked.
TrackerExact ==
  /\ marked = {}
  /\ tracker = {Frame(t) : t \in {u \in Threads : pc[u] \in CaptureSteps}}

\* process_capture_request (1708-1794): a request that returns 0 has had exactly
\* one notification and then one result; a request that returns an error, and
\* one that has not returned, has had no callback at all.
AnsweredOnce ==
  \A f \in Frames :
    IF ret[f] = "OK" THEN msgs[f] = <<IF result[f].ok THEN "SHUTTER" ELSE "ERROR_DEVICE", "RESULT">>
                     ELSE msgs[f] = <<>>

\* The result says OK only if some buffer, or the extra JPEG of a
\* STILL_CAPTURE request, was really captured (1739-1740), and an error result
\* never follows a buffer that was written.
ErrorMeansNothingWritten ==
  \A f \in Frames : ret[f] = "OK" /\ ~ result[f].ok => result[f].written = {}

\* pipelineLock (250-256): while a capture runs, the pipeline changes only by
\* that capture's own steps; flush, configure_streams and close wait for it.
PipelineExclusive ==
  [][lock # "none" /\ pipe' # pipe => pc'[lock] # pc[lock]]_vars

\* Without faults and QBUF failures every buffer the driver got at STREAMON is
\* with the driver again whenever no capture is running (884, 1122).
BuffersReturned ==
  ~ Faults /\ lock = "none" /\ pipe # NoPipe /\ pipe.mState = "STREAMING" =>
    pipe.queued = FirstBuffers(pipe.mBufferCount)

\* Every call of the framework returns, or has hit the deleted device.
CallsReturn == \A t \in Threads : pc[t] # "idle" ~> pc[t] \in {"idle", "crashed"}

\* camera_device_close (796-797), "Wait for any in-flight
\* process_capture_request to finish before tearing the pipeline down
\* (use-after-free ...)": no call goes on with the deleted device.
NoUseAfterFree == ~ usedFreed

\* CameraPipeline::startStreaming (488), "Re-request buffers (idempotent: reuses
\* existing if count matches)": a pipeline that streams has buffers to fill.
StreamsWithBuffers ==
  pipe # NoPipe /\ pipe.mState = "STREAMING" => pipe.mBufferCount > 0

\* The device between any two steps: well-typed, with a sound pipeline, which runs
\* the configuration that was committed (configure_streams, startStreaming, stopStreaming).
DeviceSound == TypeOK /\ PipelineSound /\ CommittedTogether

\* Every request is answered once, and by what was done for it (process_capture_request).
AnsweredTruly == AnsweredOnce /\ ErrorMeansNothingWritten
=============================================================================
