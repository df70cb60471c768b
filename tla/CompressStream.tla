--------------------------- MODULE CompressStream ---------------------------
(***************************************************************************)
(* Compressed playback, src/audio/audio_hw.c: the audio server's playback  *)
(* thread calls the stream, and the stream's async thread                  *)
(* (out_compress_async_fn) waits for space or drains on its behalf and     *)
(* calls back.  A request goes through async_common.mode, under            *)
(* async_common.mutex and its condition variable.  out->common.lock is     *)
(* only taken by the playback thread, so its sections are single steps;    *)
(* the async thread writes started without it.                             *)
(***************************************************************************)
EXTENDS Integers

CONSTANT MaxRequests      \* bound on the requests the async thread is given

ASSUME CompressAssumption == MaxRequests \in Nat \ {0}

Modes == {"NONE", "POLL", "EARLY_DRAIN", "FULL_DRAIN"}
Drains == {"EARLY_DRAIN", "FULL_DRAIN"}

VARIABLES
  compress, started, paused, use_async,  \* of struct stream_out_compress
  exit, mode, stream,                    \* of async_common_t
  pc,        \* where the playback thread is
  apc,       \* where the async thread is
  work,      \* the mode it took
  out,       \* whether it read the stream's address when it started
  accepted,  \* requests that signal_async_thread accepted
  called     \* callbacks made

handle == <<compress, started, paused, use_async>>
async == <<exit, mode, stream>>
thread == <<apc, work, out>>
compressVars == <<handle, async, pc, thread, accepted, called>>

\* do_init_out_compress has opened the device to learn its buffer size.
CompressInit ==
  /\ compress = TRUE /\ started = FALSE /\ paused = FALSE /\ use_async = FALSE
  /\ exit = FALSE /\ mode = "NONE" /\ stream = FALSE
  /\ pc = "idle"
  /\ apc = "none" /\ work = "NONE" /\ out = FALSE
  /\ accepted = 0 /\ called = 0

-----------------------------------------------------------------------------
(* The playback thread.                                                    *)

\* A paused stream keeps its device.
do_standby_compress_l ==
  /\ compress' = (compress /\ paused)
  /\ started' = (started /\ ~ (compress /\ ~ paused))

out_compress_standby ==
  /\ pc = "idle"
  /\ do_standby_compress_l
  /\ UNCHANGED <<paused, use_async, async, pc, thread, accepted, called>>

\* The async thread is created, and only then told its stream.
out_set_callback ==
  /\ pc = "idle" /\ ~ use_async
  /\ exit' = FALSE
  /\ apc' = "start"
  /\ pc' = "created"
  /\ UNCHANGED <<handle, mode, stream, work, out, accepted, called>>

CallbackSet ==
  /\ pc = "created"
  /\ stream' = TRUE /\ use_async' = TRUE
  /\ pc' = "idle"
  /\ UNCHANGED <<compress, started, paused, exit, mode, thread, accepted, called>>

\* Mutant: a request overwrites the one that is pending.
SignalOverwrites(m) ==
  /\ accepted < MaxRequests
  /\ mode' = m /\ accepted' = accepted + 1
  /\ apc' = IF apc = "wait" THEN "woken" ELSE apc

\* Refused with EBUSY while a request is pending; otherwise a thread that
\* waits is woken, and one that does not wait yet is not.
signal_async_thread(m) ==
  /\ accepted < MaxRequests
  /\ IF mode # "NONE" THEN UNCHANGED <<mode, accepted, apc>>
     ELSE /\ mode' = m /\ accepted' = accepted + 1
          /\ apc' = IF apc = "wait" THEN "woken" ELSE apc

\* open_output_compress (its failure changes nothing), then compress_write,
\* which may fail, take everything ("full") or only a part.
out_compress_write ==
  /\ pc = "idle"
  /\ compress' = TRUE
  /\ pc' \in {"idle", "full", "part"}
  /\ UNCHANGED <<started, paused, use_async, async, thread, accepted, called>>

\* start_output_compress unless it runs already; a failure closes the device.
WriteStart ==
  /\ pc \in {"full", "part"}
  /\ LET goOn == IF pc = "part" /\ use_async THEN "signal" ELSE "idle"
     IN \/ started /\ pc' = goOn /\ UNCHANGED <<compress, started>>
        \/ ~ started /\ started' = TRUE /\ pc' = goOn /\ UNCHANGED compress
        \/ ~ started /\ do_standby_compress_l /\ pc' = "idle"
  /\ UNCHANGED <<paused, use_async, async, thread, accepted, called>>

WriteSignal ==
  /\ pc = "signal"
  /\ signal_async_thread("POLL")
  /\ pc' = "idle"
  /\ UNCHANGED <<handle, exit, stream, work, out, called>>

out_compress_pause ==
  /\ pc = "idle" /\ ~ paused /\ compress
  /\ paused' = TRUE
  /\ UNCHANGED <<compress, started, use_async, async, pc, thread, accepted, called>>

out_compress_resume ==
  /\ pc = "idle" /\ paused /\ compress
  /\ paused' = FALSE
  /\ UNCHANGED <<compress, started, use_async, async, pc, thread, accepted, called>>

\* Without a callback the drain is done here, on the open device; an early
\* one returns at once when compress_next_track fails.
out_compress_drain(m) ==
  /\ pc = "idle"
  /\ IF use_async THEN signal_async_thread(m) /\ UNCHANGED started
     ELSE /\ compress
          /\ started' \in IF m = "EARLY_DRAIN" THEN {started, FALSE} ELSE {FALSE}
          /\ UNCHANGED <<mode, accepted, apc>>
  /\ UNCHANGED <<compress, paused, use_async, exit, stream, pc, work, out, called>>

out_compress_flush ==
  /\ pc = "idle" /\ compress /\ started
  /\ paused' = FALSE /\ started' = FALSE
  /\ UNCHANGED <<compress, use_async, async, pc, thread, accepted, called>>

\* out_compress_close: standby, then the async thread is told to exit.
out_compress_close ==
  /\ pc = "idle"
  /\ paused' = FALSE
  /\ compress' = FALSE /\ started' = (started /\ ~ compress)
  /\ pc' = IF use_async THEN "exit" ELSE "freed"
  /\ UNCHANGED <<use_async, async, thread, accepted, called>>

CloseSignal ==
  /\ pc = "exit"
  /\ exit' = TRUE
  /\ apc' = IF apc = "wait" THEN "woken" ELSE apc
  /\ pc' = "join"
  /\ UNCHANGED <<handle, mode, stream, work, out, accepted, called>>

\* pthread_join, release_stream and free.
CloseJoin ==
  /\ pc = "join" /\ apc = "gone"
  /\ pc' = "freed"
  /\ UNCHANGED <<handle, async, thread, accepted, called>>

-----------------------------------------------------------------------------
(* out_compress_async_fn.                                                  *)

AsyncStart ==
  /\ apc = "start"
  /\ out' = stream
  /\ apc' = "test"
  /\ UNCHANGED <<handle, async, pc, work, accepted, called>>

\* while (!pW->exit), without the mutex.
AsyncTest ==
  /\ apc = "test"
  /\ apc' = IF exit THEN "gone" ELSE "lock"
  /\ UNCHANGED <<handle, async, pc, work, out, accepted, called>>

\* The mutex, and pthread_cond_wait at once, whatever mode and exit say.
AsyncWait ==
  /\ apc = "lock"
  /\ apc' = "wait"
  /\ UNCHANGED <<handle, async, pc, work, out, accepted, called>>

SpuriousWakeup ==
  /\ apc = "wait"
  /\ apc' = "woken"
  /\ UNCHANGED <<handle, async, pc, work, out, accepted, called>>

\* Mutex held again: exit, or take the request.
AsyncTake ==
  /\ apc = "woken"
  /\ IF exit THEN apc' = "gone" /\ UNCHANGED <<mode, work>>
     ELSE /\ apc' = IF mode = "NONE" THEN "test" ELSE "work"
          /\ work' = mode /\ mode' = "NONE"
  /\ UNCHANGED <<handle, exit, stream, pc, out, accepted, called>>

\* compress_wait or the drain is called on out->compress, without the lock.
AsyncWork ==
  /\ apc = "work" /\ out /\ compress
  /\ apc' = "busy"
  /\ UNCHANGED <<handle, async, pc, work, out, accepted, called>>

\* It returns; a drain resets started, still without the lock.
AsyncDone ==
  /\ apc = "busy" /\ pc # "crashed"
  /\ started' = (started /\ work \notin Drains)
  /\ apc' = "callback"
  /\ UNCHANGED <<compress, paused, use_async, async, pc, work, out, accepted, called>>

\* A thread that started before its stream was set, or that finds the device
\* in standby, reads through a null pointer; one whose device is closed while
\* it waits uses freed memory.  The process dies, or in the last case may.
AsyncCrash ==
  /\ pc \notin {"freed", "crashed"}
  /\ \/ apc = "work" /\ ~ (out /\ compress)
     \/ apc = "busy" /\ ~ compress
  /\ pc' = "crashed"
  /\ UNCHANGED <<handle, async, thread, accepted, called>>

AsyncCallback ==
  /\ apc = "callback"
  /\ called' = called + 1
  /\ work' = "NONE"
  /\ apc' = "test"
  /\ UNCHANGED <<handle, async, pc, out, accepted>>

-----------------------------------------------------------------------------
Playback ==
  \/ out_compress_standby
  \/ out_set_callback \/ CallbackSet
  \/ out_compress_write \/ WriteStart \/ WriteSignal
  \/ out_compress_pause \/ out_compress_resume
  \/ \E m \in Drains : out_compress_drain(m)
  \/ out_compress_flush
  \/ out_compress_close \/ CloseSignal \/ CloseJoin

Async == \/ AsyncStart \/ AsyncTest \/ AsyncWait \/ AsyncTake
         \/ AsyncWork \/ AsyncDone \/ AsyncCrash \/ AsyncCallback

Terminated == pc \in {"freed", "crashed"} /\ UNCHANGED compressVars

CompressNext == Playback \/ Async \/ SpuriousWakeup \/ Terminated

CompressSpec == CompressInit /\ [][CompressNext]_compressVars

\* Both threads run on inside their calls; nothing makes the audio server
\* call, or a condition variable wake spuriously.
CompressFairSpec ==
  /\ CompressSpec
  /\ WF_compressVars(CloseSignal) /\ WF_compressVars(CloseJoin)
  /\ WF_compressVars(CallbackSet \/ WriteStart \/ WriteSignal)
  /\ WF_compressVars(Async)

-----------------------------------------------------------------------------
(* Properties.                                                             *)

\* The variables keep their types.
CompressTypeOK ==
  /\ compress \in BOOLEAN /\ started \in BOOLEAN /\ paused \in BOOLEAN /\ use_async \in BOOLEAN
  /\ exit \in BOOLEAN /\ mode \in Modes /\ stream \in BOOLEAN
  /\ pc \in {"idle", "created", "full", "part", "signal", "exit", "join", "freed", "crashed"}
  /\ apc \in {"none", "start", "test", "lock", "wait", "woken", "work", "busy", "callback", "gone"}
  /\ work \in Modes /\ out \in BOOLEAN
  /\ accepted \in 0 .. MaxRequests /\ called \in 0 .. MaxRequests

\* A stream that says it is started or paused has its device open, at every
\* point where another thread may take its lock: the render position is asked
\* of out->compress whenever started is set.
RunningMeansOpen == started \/ paused => compress

Busy(b) == IF b THEN 1 ELSE 0

\* Every request that signal_async_thread accepts is served once: it is
\* pending, being worked on, or its callback was made; a refused one is none
\* of these.  mode holds one request, and EBUSY protects it.
RequestsServedOnce ==
  accepted = called + Busy(mode # "NONE") + Busy(apc \in {"work", "busy", "callback"})

\* The stream is freed only after its async thread has gone.
FreedAfterThread == pc = "freed" => apc \in {"none", "gone"}

\* do_close_out_common: "Signal the async thread to stop and exit", then
\* "Wait for thread to exit".  The close returns.
CloseReturns == (pc = "join") ~> (pc \in {"freed", "crashed"})

\* A compressed stream and its async thread: requests are served once, and the thread
\* meets the device and the handle in a state it can work on.
CompressSound == CompressTypeOK /\ RunningMeansOpen /\ RequestsServedOnce /\ FreedAfterThread
=============================================================================
