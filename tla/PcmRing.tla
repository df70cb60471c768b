------------------------------ MODULE PcmRing ------------------------------
(* The pointer arithmetic of tinyalsa's memory-mapped transfers               *)
(* (src/tinyalsa/src/pcm.c).  The driver's hw_ptr and the process's appl_ptr  *)
(* count frames modulo a boundary, a multiple of the buffer size just below   *)
(* INT_MAX; a position in the buffer is a pointer modulo the buffer size.     *)
EXTENDS Integers

CONSTANTS PeriodSize, PeriodCount,
          PcmIntMax           \* INT_MAX, small enough for pointers to wrap

buffer_size == PeriodSize * PeriodCount

\* while (boundary * 2 <= INT_MAX - buffer_size) boundary *= 2
Doubled[b \in Nat] == IF b > 0 /\ b * 2 <= PcmIntMax - buffer_size THEN Doubled[b * 2] ELSE b
boundary == Doubled[buffer_size]

ASSUME PcmSizes == /\ PeriodSize \in Nat \ {0} /\ PeriodCount \in Nat \ {0}
                   /\ PcmIntMax \in Nat
                   /\ boundary \in Nat /\ boundary >= 2 * buffer_size

pcm_mmap_playback_avail(hw, appl) ==
  LET avail == (hw + buffer_size) - appl
  IN IF avail < 0 THEN avail + boundary
     ELSE IF avail >= boundary THEN avail - boundary ELSE avail

pcm_mmap_capture_avail(hw, appl) ==
  LET avail == hw - appl IN IF avail < 0 THEN avail + boundary ELSE avail

\* The wrap of the application pointer: it may rest on the boundary itself,
\* where the driver's pointer would already be 0.
pcm_mmap_appl_forward(appl, frames) ==
  IF appl + frames > boundary THEN (appl + frames) - boundary ELSE appl + frames

\* The driver's pointer, snd_pcm_update_hw_ptr.
hw_forward(hw, frames) ==
  IF hw + frames >= boundary THEN (hw + frames) - boundary ELSE hw + frames

\* Mutant: a copy runs over the end of the buffer.
BeginIgnoresEnd(offset, avail, frames) ==
  IF frames > avail THEN avail ELSE frames

\* Frames that one copy may take: available, and continuous up to the end of the
\* buffer.
pcm_mmap_begin(offset, avail, frames) ==
  LET usable == IF avail > buffer_size THEN buffer_size ELSE avail
      room   == buffer_size - offset
      copy   == IF frames > usable THEN usable ELSE frames
  IN IF copy > room THEN room ELSE copy
=============================================================================
