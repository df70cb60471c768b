---------------------------- MODULE CaptureStream ----------------------------
(* Reading from an input stream of the audio HAL (src/audio/audio_hw.c):       *)
(* from a PCM device directly or through a resampler, or from a compressed     *)
(* device, directly or through the decoder of shortened data.  in->common.lock *)
(* is held for the whole of a read, so that standby, a change of source and    *)
(* closing only happen between reads.  Frames and bytes are counted.           *)
EXTENDS Integers

CONSTANTS Fragment,     \* frames of one hardware read of the resampler
          ReadSize,     \* frames or bytes of one read of AudioFlinger
          Blocks,       \* sizes of the blocks that the decoder puts out
          AccumSize,    \* accumulator_buf_size
          Elapsed,      \* times since the last read, in ns
          Tick          \* stands for 1 << 19 ns

VARIABLES in,      \* the stream: kind, standby, handle, resampled, channels, coded, stamped
          rsp,     \* the resampler: frames_in, and done, the frames handed out of its buffer
          acc,     \* the accumulator: avail, p, and used, the bytes of it that were handed out
          rd,      \* the read in progress: pc and left, the frames or bytes still wanted
          slept,   \* the last delay, or 0
          dead,    \* why the process died, or "no"
          skipped  \* ghost: the resampler was handed frames out of order

captureVars == <<in, rsp, acc, rd, slept, dead, skipped>>

Closed == [kind |-> "none", standby |-> TRUE, handle |-> "none", resampled |-> FALSE,
           channels |-> 1, coded |-> FALSE, stamped |-> FALSE]
NoRead == [pc |-> "idle", left |-> 0]
EmptyRsp == [frames_in |-> 0, done |-> 0]
EmptyAcc == [avail |-> 0, p |-> 0, used |-> 0]
CaptureInit == /\ in = Closed /\ rsp = EmptyRsp /\ acc = EmptyAcc /\ rd = NoRead
               /\ slept = 0 /\ dead = "no" /\ skipped = FALSE

Between == dead = "no" /\ rd.pc = "idle"

\* A stream gets a hardware stream with its input source, which cannot change while it
\* is active.  The rate and the kind of data decide what stands between it and the device.
change_input_source_locked ==
  /\ Between /\ in.standby
  /\ \E k \in {"pcm", "compress"}, c \in {1, 2}, r \in BOOLEAN :
       in' = [in EXCEPT !.kind = k, !.channels = c,
                        !.resampled = r /\ k = "pcm", !.coded = r /\ k = "compress"]
  /\ UNCHANGED <<rsp, acc, rd, slept, dead, skipped>>

----------------------------------------------------------------------------
\* What do_in_realtime_delay sleeps when interval units of Tick ns should have passed.
RealtimeDelay(interval, elapsed) ==
  IF interval > elapsed \div Tick THEN interval * Tick - elapsed ELSE 0
Delay(size) == \E e \in Elapsed : slept' = IF in.stamped THEN RealtimeDelay(size, e) ELSE 0

\* The end of in_pcm_read: an error or no data becomes silence, paced as if it had been
\* captured; data from a compressed device is paced at a quarter of that.
Finish(got) ==
  /\ rd' = NoRead /\ in' = [in EXCEPT !.stamped = TRUE]
  /\ IF got = 0 THEN Delay(ReadSize)
     ELSE IF in.kind = "compress" THEN Delay(ReadSize \div 4)
     ELSE slept' = 0

\* in_pcm_read without a source or without a route.
ReadSilence ==
  /\ Between /\ Finish(0)
  /\ UNCHANGED <<rsp, acc, dead, skipped>>

\* start_pcm_input_stream and do_open_pcm_input; a failure leaves standby.
StartPcm ==
  /\ Between /\ in.kind = "pcm" /\ in.standby
  /\ \/ /\ in' = [in EXCEPT !.standby = FALSE, !.handle = "open"]
        /\ rsp' = EmptyRsp /\ rd' = [pc |-> "pcm", left |-> ReadSize]
        /\ UNCHANGED slept
     \/ Finish(0) /\ UNCHANGED rsp
  /\ UNCHANGED <<acc, dead, skipped>>

\* start_compress_pcm_input_stream.  When compress_open fails the result is errno, which
\* is positive: it passes for success, and compress_set_max_poll_wait gets NULL.
StartCompress ==
  /\ Between /\ in.kind = "compress" /\ in.standby
  /\ \/ /\ in' = [in EXCEPT !.standby = FALSE, !.handle = "open"]
        /\ acc' = EmptyAcc /\ rd' = [pc |-> "compress", left |-> ReadSize]
        /\ UNCHANGED dead
     \/ dead' = "null handle" /\ UNCHANGED <<in, acc, rd>>
  /\ UNCHANGED <<rsp, slept, skipped>>

\* A read of a stream that is running already.
ReadMore ==
  /\ Between /\ ~in.standby
  /\ rd' = [pc |-> in.kind, left |-> ReadSize]
  /\ UNCHANGED <<in, rsp, acc, slept, dead, skipped>>

\* A direct read of the PCM or the compressed device: any non-negative result of
\* pcm_readi counts as the whole buffer.
ReadDirect ==
  /\ rd.pc \in {"pcm", "compress"} /\ ~in.resampled /\ ~in.coded
  /\ \E got \in {0, ReadSize} : Finish(got)
  /\ UNCHANGED <<rsp, acc, dead, skipped>>

----------------------------------------------------------------------------
\* get_next_buffer and release_buffer.  The buffer holds what pcm_readi returns for
\* in_buffer_size bytes, and in_buffer_frames says how much of it is used: for more than
\* one channel that is less, and the offset in samples is not an offset in frames.
FramesRead == Fragment * in.channels
Offset == (Fragment - rsp.frames_in) \div in.channels

\* Mutant: the frames are not taken from frames_in.
ReleasedNothing(r, n) == [r EXCEPT !.done = @ + n]

release_buffer(r, n) == [frames_in |-> r.frames_in - n, done |-> r.done + n]

get_next_buffer ==
  /\ rd.pc = "pcm" /\ in.resampled /\ rsp.frames_in = 0 /\ rd.left > 0
  /\ \/ /\ rsp' = [frames_in |-> Fragment, done |-> 0]
        /\ skipped' = (skipped \/ rsp.done \notin {0, FramesRead})
        /\ UNCHANGED <<in, rd, slept>>
     \/ /\ Finish(0)                                   \* pcm_readi failed
        /\ UNCHANGED <<rsp, skipped>>
  /\ UNCHANGED <<acc, dead>>

Resample ==
  /\ rd.pc = "pcm" /\ in.resampled /\ rsp.frames_in > 0 /\ rd.left > 0
  /\ LET n == IF rd.left > rsp.frames_in THEN rsp.frames_in ELSE rd.left IN
     /\ rsp' = release_buffer(rsp, n)
     /\ rd' = [rd EXCEPT !.left = @ - n]
     /\ skipped' = (skipped \/ Offset # rsp.done)
  /\ UNCHANGED <<in, acc, slept, dead>>
ResampledAll ==
  /\ rd.pc = "pcm" /\ in.resampled /\ rd.left = 0
  /\ Finish(ReadSize)
  /\ UNCHANGED <<rsp, acc, dead, skipped>>

----------------------------------------------------------------------------
\* in_unshorten_read: first what the last read left over,
TakenFromAccumulator(n) == [avail |-> acc.avail - n, p |-> acc.p + n, used |-> acc.used + n]
FromAccumulator ==
  /\ rd.pc = "compress" /\ in.coded /\ acc.avail > 0 /\ rd.left = ReadSize
  /\ LET n == IF acc.avail > rd.left THEN rd.left ELSE acc.avail IN
     /\ acc' = TakenFromAccumulator(n)
     /\ rd' = [rd EXCEPT !.left = @ - n]
  /\ UNCHANGED <<in, rsp, slept, dead, skipped>>

\* then blocks from the decoder; the rest of the last one is kept, as far as it fits.
\* What does not fit is lost, and what follows it comes too early.
Kept(n) == IF n > AccumSize THEN AccumSize ELSE n
Unshorten ==
  /\ rd.pc = "compress" /\ in.coded /\ rd.left > 0 /\ (acc.avail = 0 \/ rd.left < ReadSize)
  /\ \E len \in Blocks :
       IF len <= rd.left
       THEN rd' = [rd EXCEPT !.left = @ - len] /\ UNCHANGED acc
       ELSE /\ rd' = [rd EXCEPT !.left = 0]
            /\ acc' = [avail |-> Kept(len - rd.left), p |-> 0, used |-> 0]
  /\ UNCHANGED <<in, rsp, slept, dead, skipped>>

\* No more input, corrupt data, or enough: what there is, is returned.
UnshortenDone ==
  /\ rd.pc = "compress" /\ in.coded
  /\ Finish(ReadSize - rd.left)
  /\ UNCHANGED <<rsp, acc, dead, skipped>>

----------------------------------------------------------------------------
\* do_in_pcm_standby and do_in_compress_pcm_standby.
Standby(s) == [s EXCEPT !.handle = "none", !.standby = TRUE]
in_pcm_standby ==
  /\ Between /\ in.kind # "none"
  /\ in' = Standby(in)
  /\ rsp' = IF in.kind = "pcm" THEN EmptyRsp ELSE rsp
  /\ acc' = IF in.kind = "compress" /\ ~in.standby THEN EmptyAcc ELSE acc
  /\ skipped' = FALSE
  /\ UNCHANGED <<rd, slept, dead>>

\* do_close_in_pcm: a compressed device is closed, and closed again by standby when the
\* stream was active.
do_close_in_pcm ==
  /\ Between /\ in.kind # "none"
  /\ IF in.kind = "compress" /\ ~in.standby
     THEN dead' = "closed twice" /\ UNCHANGED <<in, rsp, acc>>
     ELSE in' = Closed /\ rsp' = EmptyRsp /\ acc' = EmptyAcc /\ UNCHANGED dead
  /\ skipped' = FALSE
  /\ UNCHANGED <<rd, slept>>

\* audioserver is started again.
ServerRestarts ==
  /\ dead # "no"
  /\ in' = Closed /\ rsp' = EmptyRsp /\ acc' = EmptyAcc /\ rd' = NoRead
  /\ slept' = 0 /\ dead' = "no" /\ skipped' = FALSE

CaptureNext ==
  \/ change_input_source_locked \/ ReadSilence \/ StartPcm \/ StartCompress \/ ReadMore \/ ReadDirect
  \/ get_next_buffer \/ Resample \/ ResampledAll
  \/ FromAccumulator \/ Unshorten \/ UnshortenDone
  \/ in_pcm_standby \/ do_close_in_pcm \/ ServerRestarts

----------------------------------------------------------------------------
\* The device is open exactly while the stream is out of standby, through failures to
\* open it, standby and changes of source, so that no read or standby uses NULL.
OpenWhileActive == dead = "no" => (in.handle = "open" <=> ~in.standby)

\* A mono stream's resampler gets every captured frame once and in order, over any split
\* of its requests.  With two channels in_resampler_init counts frames twice and half of
\* what was read is never used.
ResampledInOrder == in.channels = 1 /\ in.handle = "open" => ~skipped

\* The decoder's leftover is handed out from where the last read stopped, and never more
\* than the accumulator holds.
AccumulatorInOrder == acc.p = acc.used /\ acc.p + acc.avail <= AccumSize

\* nanosleep is never asked for a negative time: when the time since the last read is
\* shorter in whole units than it should be, it is shorter in nanoseconds too.
DelayNotNegative == slept >= 0

\* in_read: from an open device, every captured frame or byte once and in order, at the
\* pace of real time.
CaptureSound == OpenWhileActive /\ ResampledInOrder /\ AccumulatorInOrder /\ DelayNotNegative
=============================================================================
