--------------------------- MODULE CameraPipeline ---------------------------
(***************************************************************************)
(* src/camera/CameraPipeline.cpp: the V4L2 streaming state machine that    *)
(* the camera HAL owns.  A pipeline is a record of the fields that decide  *)
(* its behaviour, together with what the driver knows of its buffers.      *)
(* A method that may fail at an ioctl is the set of its outcomes: what it  *)
(* returns and the pipeline it leaves behind.                              *)
(***************************************************************************)
EXTENDS Integers, FiniteSets

CONSTANTS
  ReqCount,   \* how many buffers configure() asks the driver for (4)
  Faults      \* TRUE: QBUF may fail, and memory of the framework may fault

ASSUME PipelineAssumption == ReqCount \in Nat /\ ReqCount >= 2 /\ Faults \in BOOLEAN

Buffers == 0 .. ReqCount - 1
FirstBuffers(n) == 0 .. n - 1

Pipeline == [mState : {"CLOSED", "OPENED", "STREAMING"},
             mFd : BOOLEAN,               \* the device node is open
             mStreaming : BOOLEAN,
             mBufferCount : 0 .. ReqCount,
             mapped : SUBSET Buffers,     \* mBuffers[i].start is not null
             granted : 0 .. ReqCount,     \* buffers that VIDIOC_REQBUFS allocated
             queued : SUBSET Buffers,     \* buffers the driver may fill
             mAfState : 0 .. 3]           \* inactive, moving, locked, failed

NewPipeline == [mState |-> "CLOSED", mFd |-> FALSE, mStreaming |-> FALSE,
                mBufferCount |-> 0, mapped |-> {}, granted |-> 0, queued |-> {},
                mAfState |-> 0]

Outcome(ret, p) == [ret |-> ret, p |-> p]

\* The node is missing, or does not capture and stream; otherwise OPENED.
open(p) ==
  IF p.mState # "CLOSED"
  THEN {Outcome("EBUSY", p)}
  ELSE {Outcome("ENODEV", p), Outcome("OK", [p EXCEPT !.mState = "OPENED", !.mFd = TRUE])}

\* Mutant: the mappings survive STREAMOFF.
stopStreamingKeepMapped(p) ==
  IF ~ p.mStreaming THEN p
  ELSE [p EXCEPT !.mState = "OPENED", !.mStreaming = FALSE, !.queued = {},
                 !.mBufferCount = 0]

\* STREAMOFF takes every buffer from the driver; the mappings go, and with
\* them mBufferCount, but the driver keeps what REQBUFS allocated.
stopStreaming(p) ==
  IF ~ p.mStreaming THEN p
  ELSE [p EXCEPT !.mState = "OPENED", !.mStreaming = FALSE, !.queued = {},
                 !.mapped = {}, !.mBufferCount = 0]

\* Closing the node releases the driver's buffers too.
close(p) ==
  [stopStreaming(p) EXCEPT !.mapped = @ \ FirstBuffers(stopStreaming(p).mBufferCount),
                           !.mBufferCount = 0, !.granted = 0, !.queued = {},
                           !.mFd = FALSE, !.mState = "CLOSED"]

\* S_FMT or REQBUFS fail; fewer than two buffers are granted; QUERYBUF or mmap
\* fail for one of them; the ISP stages cannot be set up; or all is well.
configure(p) ==
  CASE p.mState = "STREAMING" -> {Outcome("EBUSY", p)}
    [] p.mState # "STREAMING" /\ ~ p.mFd -> {Outcome("ENODEV", p)}
    [] OTHER ->
         LET Granted(n) == [p EXCEPT !.granted = n]
             Mapped(n) == [Granted(n) EXCEPT !.mapped = FirstBuffers(n), !.mBufferCount = n]
             Unmapped(n) == [Granted(n) EXCEPT !.mapped = {}, !.mBufferCount = 0]
         IN {Outcome("EIO", p)}
            \cup {Outcome("ENOMEM", Granted(n)) : n \in 0 .. 1}
            \cup {Outcome("ENOMEM", Unmapped(n)) : n \in 2 .. ReqCount}
            \cup {Outcome("EIO", Mapped(n)) : n \in 2 .. ReqCount}
            \cup {Outcome("OK", Mapped(n)) : n \in 2 .. ReqCount}

\* Every mapped buffer is queued, then STREAMON.  The driver refuses to queue
\* a buffer twice, and to stream when it has allocated none.
startStreaming(p) ==
  IF p.mState # "OPENED"
  THEN {Outcome("EINVAL", p)}
  ELSE LET all == [p EXCEPT !.queued = @ \cup FirstBuffers(p.mBufferCount)]
       IN {Outcome("EIO", [p EXCEPT !.queued = @ \cup FirstBuffers(n)]) :
             n \in 0 .. p.mBufferCount}
          \cup (IF p.granted > 0 /\ p.queued \cap FirstBuffers(p.mBufferCount) = {}
                THEN {Outcome("OK", [all EXCEPT !.mStreaming = TRUE, !.mState = "STREAMING"])}
                ELSE {})

\* DQBUF hands buffer b to the program.
Dequeue(p, b) == [p EXCEPT !.queued = @ \ {b}]

\* Mutant: the buffer is not given back.
RequeueForgotten(p, b) == p

\* QBUF gives it back.
Requeue(p, b) == [p EXCEPT !.queued = @ \cup {b}]

\* startAfScan: without streaming it only resets the state.  Otherwise it
\* sweeps the lens and captures a frame at every position (AutoFocus has the
\* sweep); what remains is locked or failed, and every frame whose QBUF failed
\* has lost its buffer.
startAfScan(p) ==
  IF p.mState # "STREAMING" THEN {[p EXCEPT !.mAfState = 0]}
  ELSE {[p EXCEPT !.mAfState = e[1], !.queued = e[2]] :
          e \in {2, 3} \X (IF Faults THEN SUBSET p.queued ELSE {p.queued})}

cancelAf(p) == [p EXCEPT !.mAfState = 0]
=============================================================================
