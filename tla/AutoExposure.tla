---------------------------- MODULE AutoExposure ----------------------------
(* The exposure loop of the camera pipeline (src/camera/CameraPipeline.cpp):   *)
(* the measurement of the frame period that fixes the mains grid, and the AE   *)
(* step of every frame.  A frame's brightness is given in percent of the       *)
(* target; exposure and gain are the integers that the code computes with.     *)
EXTENDS Integers

CONSTANTS Cams,          \* the cameras: ranges, start values and possible grid steps
          Lumas,         \* brightness of a frame, in percent of targetLuma
          NeedDeltas,    \* valid frame intervals before the grid is fixed (12)
          HoldFrames     \* frames without a change after a change (6)

VARIABLES cam,      \* the camera: [expMin, expMax, gainMin, gainMax, exp0, gain0, steps]
          exp,      \* mCurrentExposure
          gain,     \* mCurrentGain
          hold,     \* mAeHoldFrames
          deltas,   \* mDeltaCount
          ae,       \* the part of captureFrame that comes next: "measure" or "expose"
          grid,     \* mExposureStepLines: 0 until it is measured, or without anti-banding
          refused   \* ghost: the driver refused an exposure since the grid was fixed

aeVars == <<cam, exp, gain, hold, deltas, ae, grid, refused>>

Started(c) == /\ cam' = c /\ exp' = c.exp0 /\ gain' = c.gain0
              /\ hold' = 0 /\ deltas' = 0 /\ ae' = "measure" /\ grid' = 0 /\ refused' = FALSE
AeInit == /\ cam \in Cams /\ exp = cam.exp0 /\ gain = cam.gain0
          /\ hold = 0 /\ deltas = 0 /\ ae = "measure" /\ grid = 0 /\ refused = FALSE

Clamp(x, lo, hi) == IF x > hi THEN hi ELSE IF x < lo THEN lo ELSE x

----------------------------------------------------------------------------
\* The nearest point of the grid, at least one step and at most the last one in range.
Snap(e, s, max) ==
  LET q == ((e + (s \div 2)) \div s) * s
      top == IF q > max THEN (max \div s) * s ELSE q
  IN IF top < s THEN s ELSE top

\* The part of captureFrame that measures: the grid is fixed once, and the exposure is
\* put on it.  Bound: no interval is too odd to be counted.
MeasureTiming ==
  /\ ae = "measure" /\ ae' = "expose"
  /\ deltas' = IF deltas < NeedDeltas THEN deltas + 1 ELSE deltas
  /\ IF deltas + 1 # NeedDeltas THEN UNCHANGED <<grid, exp, refused>>
     ELSE \E s \in cam.steps, ok \in BOOLEAN :
            /\ grid' = s
            /\ IF s = 0 THEN UNCHANGED <<exp, refused>>
               ELSE /\ exp' = IF ok THEN Snap(exp, s, cam.expMax) ELSE exp
                    /\ refused' = (~ok /\ Snap(exp, s, cam.expMax) # exp)
  /\ UNCHANGED <<cam, gain, hold>>

----------------------------------------------------------------------------
GainInRange(g) == Clamp(g, cam.gainMin, cam.gainMax)

\* exposure * gain that would bring a frame of brightness l to the target, at most 1.7
\* and at least 0.6 times the present one.
newEff(l) ==
  IF l * 17 < 1000 THEN (exp * gain * 17) \div 10
  ELSE IF l * 6 > 1000 THEN (exp * gain * 6) \div 10
  ELSE (exp * gain * 100) \div l

\* The split into exposure and gain.  Adding 0.5 before truncating does not round,
\* because the division before it is one of integers.
Wanted(l) ==
  LET e == newEff(l) \div gain
      x == Clamp(e, cam.expMin, cam.expMax)
  IN [exp |-> x, gain |-> GainInRange(IF x = e THEN gain ELSE newEff(l) \div x)]

\* Mutant: the rest is cut off instead of rounded.
ResidualTruncated(eff, q) == eff \div q

\* The gain that makes up for the exposure's move to q.
Residual(eff, q) == (eff + (q \div 2)) \div q

\* Anti-banding: the exposure goes to the grid, the gain takes up the rest, within
\* limits of its own.
Snapped(l) ==
  LET w == Wanted(l)
      q == Snap(w.exp, grid, cam.expMax)
      g == Residual(newEff(l), q)
      up == gain + ((gain * 7) \div 10)
      dn == (gain * 10) \div 17
      capped == IF g > up THEN up ELSE IF g < dn /\ g < gain THEN dn ELSE g
  IN IF grid <= 1 \/ q = w.exp THEN w ELSE [exp |-> q, gain |-> GainInRange(capped)]

InDeadband(l) == l > 85 /\ l < 115
Extreme(l) == l <= 25 \/ l >= 400
Acts(l) == ~InDeadband(l) /\ (hold = 0 \/ Extreme(l))

\* doAutoExposure for a frame of brightness l; the driver may refuse either control.
doAutoExposure(l) ==
  /\ ae = "expose" /\ ae' = "measure"
  /\ UNCHANGED <<cam, deltas, grid>>
  /\ IF InDeadband(l) THEN hold' = 0 /\ UNCHANGED <<exp, gain, refused>>
     ELSE IF ~Acts(l) THEN hold' = hold - 1 /\ UNCHANGED <<exp, gain, refused>>
     ELSE LET n == Snapped(l) IN
          \E okGain, okExp \in BOOLEAN :
            /\ gain' = IF okGain THEN n.gain ELSE gain
            /\ exp' = IF okExp THEN n.exp ELSE exp
            /\ refused' = (refused /\ (~okExp \/ n.exp = exp))
            /\ hold' = IF n.exp # exp \/ n.gain # gain THEN HoldFrames
                       ELSE IF hold > 0 THEN hold - 1 ELSE 0

\* configure() and startStreaming() of either camera.
Restart == \E c \in Cams : Started(c)

AeNext == MeasureTiming \/ (\E l \in Lumas : doAutoExposure(l)) \/ Restart

----------------------------------------------------------------------------
\* Exposure and gain stay in the ranges of the sensor's controls ("values beyond that
\* used to be silently rejected (ERANGE) and the AE stuck at the last accepted value").
AeInRange == exp \in cam.expMin..cam.expMax /\ gain \in cam.gainMin..cam.gainMax

\* "exposure never leaves the mains grid": once the grid is known, every exposure that
\* the driver accepts is a multiple of its step.
AeOnGrid == grid > 1 /\ ~refused => exp % grid = 0

\* A frame that is too dark never makes the next one darker, one that is too bright never
\* brighter, and with a gain above 1 and below its limit a frame at half the target or less
\* brightens the next.  At gain 1 the integer steps of the gain round back to 1, and
\* the loop stays dark with the longest exposure.
AeTowardsTarget ==
  ~refused => \A l \in Lumas :
    LET n == Snapped(l) IN
    /\ l <= 85 => n.exp * n.gain >= exp * gain
    /\ l <= 50 /\ gain \in 2..(cam.gainMax - 1) => n.exp * n.gain > exp * gain
    /\ l >= 115 => n.exp * n.gain <= exp * gain

\* Every step of doAutoExposure gives values that the sensor takes and that do not band,
\* and goes the right way.
AeSound == AeInRange /\ AeOnGrid /\ AeTowardsTarget
=============================================================================
