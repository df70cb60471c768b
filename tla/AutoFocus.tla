----------------------------- MODULE AutoFocus -----------------------------
(* The contrast scan of the camera pipeline (src/camera/CameraPipeline.cpp).   *)
(* A capture measures an energy at the lens position, or fails (energy 0); the *)
(* scene may change between captures.  The driver may refuse to move the lens. *)
EXTENDS Integers, FiniteSets

CONSTANTS SweepMin, SweepMax, CoarseStep, FineStep,
          FirstGuess,   \* the position that counts as best before any measurement
          Energies,     \* what a capture can measure
          MaxFails,     \* failed captures in a row that end a sweep (4)
          MinSamples    \* measurements from which the median is asked (5)

VARIABLES af,       \* mAfState: "inactive", "moving", "locked" or "failed"
          lens,     \* mFocusPosition
          scan,     \* [pc, pos, fails, best, bestPos, until]
          meas,     \* ghost: the measurements <<position, energy, n>>, numbered
          stuck     \* ghost: the driver refused a move in this scan

afVars == <<af, lens, scan, meas, stuck>>

NoScan == [pc |-> "idle", pos |-> 0, fails |-> 0, best |-> 0, bestPos |-> 0, until |-> 0]
AfInit == af = "inactive" /\ lens = SweepMin /\ scan = NoScan /\ meas = {} /\ stuck = FALSE

\* startAfScan while streaming, otherwise it gives up at once.
StartScan ==
  /\ scan.pc = "idle"
  /\ af' = "moving"
  /\ scan' = [NoScan EXCEPT !.pc = "coarse", !.pos = SweepMin, !.bestPos = FirstGuess, !.until = SweepMax]
  /\ meas' = {} /\ stuck' = FALSE
  /\ UNCHANGED lens
NotStreaming == scan.pc = "idle" /\ af' = "inactive" /\ UNCHANGED <<lens, scan, meas, stuck>>
cancelAf == scan.pc = "idle" /\ af' = "inactive" /\ UNCHANGED <<lens, scan, meas, stuck>>

\* setFocus: the position is kept only if the driver took it.
setFocus(p, ok) == lens' = (IF ok THEN p ELSE lens) /\ stuck' = (stuck \/ ~ok)

\* Mutant: the last of equal peaks wins.
PeakLast(energy) == energy >= scan.best

Peak(energy) == energy > scan.best

Step == IF scan.pc = "coarse" THEN CoarseStep ELSE FineStep

\* One position of a sweep: move, settle, measure.
Measured(energy) ==
  [scan EXCEPT !.pos = @ + Step, !.fails = 0,
               !.best = IF Peak(energy) THEN energy ELSE @,
               !.bestPos = IF Peak(energy) THEN scan.pos ELSE @]
\* A failed capture: enough of them in a row end the sweep.
Failed == [scan EXCEPT !.fails = @ + 1,
                       !.pos = IF scan.fails + 1 >= MaxFails THEN scan.until + 1 ELSE @ + Step]
SweepStep ==
  /\ scan.pc \in {"coarse", "fine"} /\ scan.pos <= scan.until
  /\ ~(scan.pc = "fine" /\ scan.pos = scan.bestPos)
  /\ \E ok \in BOOLEAN : setFocus(scan.pos, ok)
  /\ \E energy \in Energies \cup {0} :
       IF energy = 0 THEN scan' = Failed /\ UNCHANGED meas
       ELSE scan' = Measured(energy) /\ meas' = meas \cup {<<scan.pos, energy, Cardinality(meas)>>}
  /\ UNCHANGED af

\* "already measured": the best position so far is left out of the fine sweep.
SkipBest ==
  /\ scan.pc = "fine" /\ scan.pos <= scan.until /\ scan.pos = scan.bestPos
  /\ scan' = [scan EXCEPT !.pos = @ + Step]
  /\ UNCHANGED <<af, lens, meas, stuck>>

Window == << IF scan.bestPos - CoarseStep < SweepMin THEN SweepMin ELSE scan.bestPos - CoarseStep,
             IF scan.bestPos + CoarseStep > SweepMax THEN SweepMax ELSE scan.bestPos + CoarseStep >>
BeginFine ==
  /\ scan.pc = "coarse" /\ scan.pos > scan.until
  /\ scan' = [scan EXCEPT !.pc = "fine", !.pos = Window[1], !.until = Window[2]]
  /\ UNCHANGED <<af, lens, meas, stuck>>

\* The median of all measurements, sorted[n / 2].
Below(e) == Cardinality({m \in meas : m[2] <= e})
Median == CHOOSE e \in {m[2] : m \in meas} :
            /\ 2 * Below(e) > Cardinality(meas) - (Cardinality(meas) % 2)
            /\ \A f \in {m[2] : m \in meas} : f < e => 2 * Below(f) <= Cardinality(meas) - (Cardinality(meas) % 2)

\* With enough samples the peak has to stand out.
Conclusive == \/ Cardinality(meas) < MinSamples
              \/ scan.best >= Median + (Median \div 3)
Verdict ==
  /\ scan.pc = "fine" /\ scan.pos > scan.until
  /\ scan' = [scan EXCEPT !.pc = "idle"]
  /\ IF scan.best > 0 /\ Conclusive
     THEN af' = "locked" /\ \E ok \in BOOLEAN : setFocus(scan.bestPos, ok)
     ELSE af' = "failed" /\ UNCHANGED <<lens, stuck>>
  /\ UNCHANGED meas

AfNext == StartScan \/ NotStreaming \/ cancelAf \/ SweepStep \/ SkipBest \/ BeginFine \/ Verdict

----------------------------------------------------------------------------
\* A lock is at a position that was measured in this scan, no measurement was better, and
\* with enough samples it exceeds the median by a third, whatever failed in between; the
\* lens is there unless the driver refused a move.
AfLocksAtPeak ==
  af = "locked" =>
    /\ \E m \in meas : /\ m[1] = scan.bestPos /\ m[2] = scan.best
                       /\ \A k \in meas : k[2] < m[2] \/ (k[2] = m[2] /\ k[3] >= m[3])
    /\ ~stuck => lens = scan.bestPos
    /\ Cardinality(meas) >= MinSamples => 2 * Cardinality({k \in meas : 4 * k[2] <= 3 * scan.best + 3}) > Cardinality(meas)

\* The lens is only sent to the working range of the coil ("beyond the ends the VCM sits
\* against mechanical stops"), also by the fine sweep around a peak at an end.
LensInRange == lens \in SweepMin..SweepMax

\* The scan ends at the peak and keeps the lens where it can move.
FocusSound == AfLocksAtPeak /\ LensInRange
=============================================================================
