-------------------------------- MODULE Pcm --------------------------------
(* A PCM handle of tinyalsa (src/tinyalsa/src/pcm.c): opening and closing,    *)
(* the read/write transfers with their restart after an xrun, the memory-     *)
(* mapped transfers with the pointers that SYNC_PTR exchanges with the        *)
(* driver, and the driver underneath (external).  One client thread uses the  *)
(* handle; the hardware and power management run beside it.                   *)
EXTENDS PcmRing

CONSTANTS StartThreshold,     \* start_threshold of the configuration, 0 for none
          PcmStopIn,          \* stop_threshold of a capture stream
          PcmCounts           \* frames a client asks for

VARIABLES pcm,    \* the handle: struct pcm
          kern,   \* the driver: its state, hw_ptr and appl_ptr
          appl_ptr, \* the process's application pointer, in mmap_control
          xfer,   \* the call in progress, and what the last one returned
          ring,   \* ghost: the frame in each slot of the buffer
          track   \* ghost: frames pending, failures since a fault, mappings

pcmVars == <<pcm, kern, appl_ptr, xfer, ring, track>>

NoPcm   == [ready |-> FALSE, exists |-> FALSE, mmap |-> FALSE, in |-> FALSE, sync |-> FALSE,
            norestart |-> FALSE, running |-> FALSE, prepared |-> FALSE, buf |-> "none"]
PcmIdle == [at |-> "idle", want |-> 0, off |-> 0, base |-> 0, avail |-> 0, chunk |-> 0, ret |-> 0]
NoFrame == -1
NewTrack   == [fill |-> 0, fails |-> 0, early |-> FALSE, clean |-> TRUE, maps |-> 0]
EmptyRing   == [i \in 0..(buffer_size - 1) |-> NoFrame]

PcmInit == /\ pcm = NoPcm /\ kern = [st |-> "OPEN", hw |-> 0, appl |-> 0] /\ appl_ptr = 0
           /\ xfer = PcmIdle /\ ring = EmptyRing /\ track = NewTrack

start_threshold == IF StartThreshold # 0 THEN StartThreshold
                   ELSE IF pcm.in THEN 1 ELSE (PeriodCount * PeriodSize) \div 2
stop_threshold  == IF pcm.in THEN PcmStopIn ELSE buffer_size

\* Where status and control could be mapped there is no sync_ptr, and the process
\* sees the driver's own words.
SeenAppl == IF pcm.sync THEN appl_ptr ELSE kern.appl
pcm_mmap_avail(hw, appl) == IF pcm.in THEN pcm_mmap_capture_avail(hw, appl)
                            ELSE pcm_mmap_playback_avail(hw, appl)

PcmAt(a) == xfer.at = a
\* A call that ends with result r.  A failed transfer counts against the last fault.
Return(r) == /\ xfer' = [PcmIdle EXCEPT !.ret = r]
             /\ track' = [track EXCEPT !.fails = IF r < 0 /\ @ < 3 /\ xfer.at \notin {"idle", "startcall"}
                                                 THEN @ + 1 ELSE @]

----------------------------------------------------------------------------
(* Opening and closing *)

pcm_open(mmap, in, norestart, sync) ==
  /\ ~pcm.exists
  /\ pcm' = [NoPcm EXCEPT !.ready = TRUE, !.exists = TRUE, !.mmap = mmap, !.in = in,
                          !.norestart = norestart, !.sync = sync, !.buf = IF mmap THEN "mapped" ELSE "none"]
  /\ kern' = [kern EXCEPT !.st = "SETUP"]
  /\ track' = [track EXCEPT !.maps = IF mmap THEN @ + 1 ELSE @]
  /\ UNCHANGED <<appl_ptr, xfer, ring>>

\* The error paths: the handle stays, for the client to close.  Behind the label
\* fail the buffer is unmapped; behind fail_close it is left to pcm_close.
pcm_open_fails(mmap, stage) ==
  /\ ~pcm.exists
  /\ stage # "early" => mmap
  /\ pcm' = [NoPcm EXCEPT !.exists = TRUE, !.mmap = mmap,
                          !.buf = CASE stage = "sw_params" -> "mapped"
                                    [] stage = "status" -> "stale"
                                    [] OTHER -> "none"]
  /\ track' = [track EXCEPT !.maps = IF stage = "sw_params" THEN @ + 1 ELSE @]
  /\ UNCHANGED <<kern, appl_ptr, xfer, ring>>

\* pcm_close unmaps by the flags alone, whether the handle became ready or not.
Unmaps == pcm.mmap

pcm_close ==
  /\ pcm.exists /\ PcmAt("idle")
  /\ pcm' = NoPcm
  /\ kern' = [st |-> "OPEN", hw |-> 0, appl |-> 0]
  /\ appl_ptr' = 0
  /\ track' = [NewTrack EXCEPT !.maps = IF Unmaps /\ pcm.buf = "mapped" THEN track.maps - 1 ELSE track.maps]
  /\ xfer' = PcmIdle
  /\ ring' = EmptyRing

----------------------------------------------------------------------------
(* The driver (external): what its ioctls ask of its state, and the hardware *)

Healthy == kern.st \in {"PREPARED", "RUNNING"}
CanPrepare == kern.st # "DISCONNECTED"
CanStart == kern.st = "PREPARED" /\ (pcm.in \/ track.fill > 0)
FrameAtHw == IF pcm.in /\ pcm.mmap THEN [ring EXCEPT ![kern.hw % buffer_size] = kern.hw] ELSE ring

HwTick ==
  /\ kern.st = "RUNNING"
  /\ IF (IF pcm.in THEN track.fill >= stop_threshold ELSE track.fill = 0)
     THEN /\ kern' = [kern EXCEPT !.st = "XRUN"]
          /\ track' = [track EXCEPT !.fails = 0]
          /\ UNCHANGED ring
     ELSE /\ kern' = IF pcm.mmap THEN [kern EXCEPT !.hw = hw_forward(@, 1)] ELSE kern
          /\ track' = [track EXCEPT !.fill = IF pcm.in THEN @ + 1 ELSE @ - 1]
          /\ ring' = FrameAtHw
  /\ UNCHANGED <<pcm, appl_ptr, xfer>>

\* Suspend, or the device goes away.
PcmFault(st) ==
  /\ Healthy
  /\ kern' = [kern EXCEPT !.st = st]
  /\ track' = [track EXCEPT !.fails = 0, !.early = @ \/ (pcm.prepared /\ ~pcm.running)]
  /\ UNCHANGED <<pcm, appl_ptr, xfer, ring>>

----------------------------------------------------------------------------
(* pcm_prepare, pcm_start, pcm_stop, pcm_get_htimestamp *)

\* PREPARE resets the driver's pointers, and the next SYNC_PTR pushes the process's:
\* what is pending then is what the application pointer counts.
PendingAfterPrepare == IF pcm.mmap /\ ~pcm.in /\ pcm.sync THEN appl_ptr ELSE 0

pcm_prepare(next) ==
  IF pcm.prepared THEN xfer' = next /\ UNCHANGED <<pcm, kern, track>>
  ELSE IF ~CanPrepare THEN Return(-1) /\ UNCHANGED <<pcm, kern>>
  ELSE /\ kern' = [st |-> "PREPARED", hw |-> 0, appl |-> 0]
       /\ pcm' = [pcm EXCEPT !.prepared = TRUE]
       /\ track' = [track EXCEPT !.fill = PendingAfterPrepare, !.early = FALSE]
       /\ xfer' = next

\* The rest of pcm_start: SYNC_PTR for a mapped stream, then START.
StartIoctl(next) ==
  /\ LET k == IF pcm.mmap /\ pcm.sync THEN [kern EXCEPT !.appl = appl_ptr] ELSE kern
     IN IF CanStart
        THEN /\ kern' = [k EXCEPT !.st = "RUNNING"]
             /\ pcm' = [pcm EXCEPT !.running = TRUE]
             /\ xfer' = next
             /\ UNCHANGED track
        ELSE kern' = k /\ Return(-1) /\ UNCHANGED pcm

StateCall == /\ PcmAt("idle") /\ pcm.ready
             /\ \E at \in {"idle", "startcall"} : pcm_prepare([PcmIdle EXCEPT !.at = at])
             /\ UNCHANGED <<appl_ptr, ring>>
pcm_start == PcmAt("startcall") /\ StartIoctl(PcmIdle) /\ UNCHANGED <<appl_ptr, ring>>

\* DROP leaves the pointers alone, and so does the library.
pcm_stop ==
  /\ PcmAt("idle") /\ pcm.ready /\ kern.st # "DISCONNECTED"
  /\ kern' = [kern EXCEPT !.st = "SETUP"]
  /\ pcm' = [pcm EXCEPT !.running = FALSE, !.prepared = FALSE]
  /\ track' = [track EXCEPT !.fill = 0, !.clean = @ /\ ~pcm.mmap, !.early = FALSE, !.fails = 0]
  /\ UNCHANGED <<appl_ptr, xfer, ring>>

\* SYNC_PTR with APPL and HWSYNC reads both pointers from the driver; it fails
\* unless the stream is running, prepared or suspended.
pcm_get_htimestamp ==
  /\ PcmAt("idle") /\ pcm.ready /\ pcm.sync
  /\ kern.st \in {"RUNNING", "PREPARED", "SUSPENDED"}
  /\ appl_ptr' = kern.appl
  /\ track' = [track EXCEPT !.clean = @ /\ kern.appl = appl_ptr]
  /\ UNCHANGED <<pcm, kern, xfer, ring>>

----------------------------------------------------------------------------
(* pcm_writei and pcm_readi *)

RwCall(n) == /\ PcmAt("idle") /\ pcm.ready /\ ~pcm.mmap
             /\ xfer' = [PcmIdle EXCEPT !.at = "rw", !.want = n]
             /\ UNCHANGED <<pcm, kern, appl_ptr, ring, track>>

\* The head of the loop: a handle that is not running is prepared (and, to read,
\* started) first.
RwPrepare == /\ PcmAt("rw") /\ ~pcm.running
             /\ pcm_prepare([xfer EXCEPT !.at = IF pcm.in THEN "rwstart" ELSE "rwfirst"])
             /\ UNCHANGED <<appl_ptr, ring>>
RwStart   == PcmAt("rwstart") /\ StartIoctl([xfer EXCEPT !.at = "rw"]) /\ UNCHANGED <<appl_ptr, ring>>

\* WRITEI and READI move at least one frame, waiting for it, or fail by the state.
\* A write starts the stream at the threshold.
Moves(n) ==
  LET fill == IF pcm.in THEN track.fill - n ELSE track.fill + n
  IN /\ n <= IF pcm.in THEN track.fill ELSE buffer_size - track.fill
     /\ track' = [track EXCEPT !.fill = fill]
     /\ kern' = [kern EXCEPT !.st = IF @ = "PREPARED" /\ ~pcm.in /\ fill >= start_threshold
                                    THEN "RUNNING" ELSE @]

\* The first write reports 0, not the frames it wrote; a failure leaves the handle
\* prepared.
RwFirst ==
  /\ PcmAt("rwfirst")
  /\ \/ /\ Healthy /\ \E n \in 1..xfer.want : Moves(n)
        /\ pcm' = [pcm EXCEPT !.running = TRUE]
        /\ xfer' = PcmIdle
     \/ ~Healthy /\ Return(-1) /\ UNCHANGED <<pcm, kern>>
  /\ UNCHANGED <<appl_ptr, ring>>

\* Mutant: the failed handle still counts as prepared.
StoppedStillPrepared(p) == [p EXCEPT !.running = FALSE]

\* Any failure of a running handle makes the next round prepare again.
Stopped(p) == [p EXCEPT !.running = FALSE, !.prepared = FALSE]

RwMore ==
  /\ PcmAt("rw") /\ pcm.running
  /\ \/ /\ Healthy
        /\ \E n \in 1..xfer.want : Moves(n) /\ xfer' = [PcmIdle EXCEPT !.ret = n]
        /\ UNCHANGED pcm
     \/ /\ ~Healthy
        /\ pcm' = Stopped(pcm)
        /\ IF kern.st = "XRUN" /\ (pcm.in \/ ~pcm.norestart) THEN UNCHANGED <<xfer, track>> ELSE Return(-1)
        /\ UNCHANGED kern
  /\ UNCHANGED <<appl_ptr, ring>>

----------------------------------------------------------------------------
(* pcm_mmap_transfer, behind pcm_mmap_write and pcm_mmap_read *)

\* base is the number of the buffer's first frame, off the frames already moved.
\* Bound: a stream whose pointers no longer agree is not used further.
MmapCall(n) ==
  /\ PcmAt("idle") /\ pcm.ready /\ pcm.mmap /\ track.clean
  /\ xfer' = [PcmIdle EXCEPT !.at = "avail", !.want = n, !.base = SeenAppl % boundary]
  /\ UNCHANGED <<pcm, kern, appl_ptr, ring, track>>

\* pcm_avail_update pushes the application pointer and reads the driver's, then the
\* stream is started once the threshold is reached.  buffer_size - avail is unsigned.
pcm_avail_update ==
  /\ PcmAt("avail")
  /\ kern' = [kern EXCEPT !.appl = SeenAppl]
  /\ LET avail == pcm_mmap_avail(kern.hw, SeenAppl)
         start == ~pcm.running /\ (avail > buffer_size \/ buffer_size - avail >= start_threshold)
     IN xfer' = [xfer EXCEPT !.at = IF start THEN "prepare" ELSE "room", !.avail = avail]
  /\ UNCHANGED <<pcm, appl_ptr, ring, track>>

MmapPrepare == PcmAt("prepare") /\ pcm_prepare([xfer EXCEPT !.at = "start"]) /\ UNCHANGED <<appl_ptr, ring>>
MmapStart   == PcmAt("start") /\ StartIoctl([xfer EXCEPT !.at = "room"]) /\ UNCHANGED <<appl_ptr, ring>>

\* The branch after it: sleep without a frame of room, give up without one to move.
MmapRoom ==
  /\ PcmAt("room")
  /\ LET frames == IF xfer.want - xfer.off > xfer.avail THEN xfer.avail ELSE xfer.want - xfer.off
     IN IF pcm.running /\ xfer.avail < 1
        THEN xfer' = [xfer EXCEPT !.at = "wait"] /\ UNCHANGED track
        ELSE IF frames = 0 THEN Return(0)
        ELSE xfer' = [xfer EXCEPT !.at = "copy", !.chunk = frames] /\ UNCHANGED track
  /\ UNCHANGED <<pcm, kern, appl_ptr, ring>>

\* Mutant: the application pointer survives the failure.
ApplKept == SeenAppl

\* pcm_wait: room is reported while the stream is healthy, an error by its state.
\* A failed wait also resets the application pointer.
ApplAfterError == 0
pcm_wait ==
  /\ PcmAt("wait")
  /\ \/ /\ Healthy /\ pcm_mmap_avail(kern.hw, SeenAppl) >= 1
        /\ xfer' = [xfer EXCEPT !.at = "avail"]
        /\ UNCHANGED <<pcm, kern, appl_ptr, track>>
     \/ /\ ~Healthy
        /\ pcm' = Stopped(pcm)
        /\ appl_ptr' = IF pcm.sync THEN ApplAfterError ELSE appl_ptr
        /\ kern' = IF pcm.sync THEN kern ELSE [kern EXCEPT !.appl = ApplAfterError]
        /\ xfer' = [PcmIdle EXCEPT !.ret = -1]
        /\ track' = [track EXCEPT !.fails = IF @ < 3 THEN @ + 1 ELSE @, !.clean = @ /\ ~pcm.in]
  /\ UNCHANGED ring

\* One round of pcm_mmap_transfer_areas: pcm_mmap_begin, the copy, and the commit,
\* which fails where there is no sync_ptr although the pointer has moved.
Copied(offset, n) == [i \in DOMAIN ring |-> IF i \in offset..(offset + n - 1)
                        THEN (xfer.base + xfer.off + (i - offset)) % boundary ELSE ring[i]]
pcm_mmap_transfer_areas ==
  /\ PcmAt("copy")
  /\ LET offset == SeenAppl % buffer_size
         n == pcm_mmap_begin(offset, pcm_mmap_avail(kern.hw, SeenAppl), xfer.chunk)
         appl == pcm_mmap_appl_forward(SeenAppl, n)
     IN /\ ring' = IF pcm.in THEN ring ELSE Copied(offset, n)
        /\ kern' = [kern EXCEPT !.appl = appl]
        /\ appl_ptr' = IF pcm.sync THEN appl ELSE appl_ptr
        /\ IF pcm.sync
           THEN /\ xfer' = IF xfer.off + n = xfer.want THEN PcmIdle
                           ELSE [xfer EXCEPT !.off = @ + n, !.chunk = @ - n,
                                             !.at = IF @ = "copy" /\ xfer.chunk > n THEN "copy" ELSE "avail"]
                /\ track' = [track EXCEPT !.fill = IF pcm.in THEN @ - n ELSE @ + n]
           ELSE /\ xfer' = [PcmIdle EXCEPT !.ret = -1]
                /\ track' = [track EXCEPT !.fill = IF pcm.in THEN @ - n ELSE @ + n, !.clean = FALSE]
  /\ UNCHANGED pcm

PcmNext ==
  \/ \E mmap, in, norestart, sync \in BOOLEAN : pcm_open(mmap, in, norestart, sync)
  \/ \E mmap \in BOOLEAN, stage \in {"early", "sw_params", "status"} : pcm_open_fails(mmap, stage)
  \/ pcm_close \/ StateCall \/ pcm_start \/ pcm_stop \/ pcm_get_htimestamp
  \/ \E n \in PcmCounts : RwCall(n) \/ MmapCall(n)
  \/ RwPrepare \/ RwStart \/ RwFirst \/ RwMore
  \/ pcm_avail_update \/ MmapPrepare \/ MmapStart \/ MmapRoom \/ pcm_wait \/ pcm_mmap_transfer_areas
  \/ HwTick \/ \E st \in {"SUSPENDED", "DISCONNECTED"} : PcmFault(st)
PcmSpec == PcmInit /\ [][PcmNext]_pcmVars

----------------------------------------------------------------------------
(* Properties *)

\* While the stream is sound, the frames between the hardware's pointer and the
\* application's are exactly the last ones the client handed over (or the hardware
\* recorded), in order, across the end of the buffer and across the boundary.  It
\* leaves out a mapped stream that was stopped or whose pointer was read back from
\* the driver, capture that has run over the buffer, and capture after a failed wait.
RingHoldsPending ==
  pcm.mmap /\ pcm.sync /\ track.clean /\ Healthy /\ track.fill <= buffer_size =>
    LET first == IF pcm.in THEN appl_ptr ELSE kern.hw
    IN \A i \in 0..(track.fill - 1) : ring[(first + i) % buffer_size] = (first + i) % boundary

\* The frames that pcm_mmap_avail reports are the ones that are really free (or
\* really recorded), also where one pointer has passed the boundary and the other
\* has not.
AvailExact ==
  pcm.mmap /\ pcm.sync /\ track.clean /\ Healthy /\ (pcm.prepared \/ ~pcm.in) =>
    pcm_mmap_avail(kern.hw, appl_ptr) = IF pcm.in THEN track.fill ELSE buffer_size - track.fill

\* A fault costs a read or a write at most one failed call and a mapped transfer at
\* most two (the wait that reports it, and a start on the empty buffer), and then the
\* stream works again; unless the fault hit between the prepare and the first write.
RecoversFromFault ==
  kern.st # "DISCONNECTED" /\ ~track.early /\ track.clean =>
    track.fails <= IF pcm.mmap THEN 2 ELSE 1

\* Whichever step of opening failed, a closed handle leaves no mapping behind.
NoMappingLeft == ~pcm.exists => track.maps = 0

\* The memory-mapped ring: its pending frames and the room that is reported are exact.
RingExact == RingHoldsPending /\ AvailExact

\* What went wrong is over: a fault after a bounded number of failed calls, a failed open
\* with nothing left mapped.
FaultsUndone == RecoversFromFault /\ NoMappingLeft
=============================================================================
