------------------------------- MODULE Mixer -------------------------------
(* The mixer of tinyalsa (src/tinyalsa/src/mixer.c): the list of controls that *)
(* a handle collects from the driver, and the reads and writes of a control's  *)
(* values.  A driver only ever adds controls; DriverCtls is the order in which *)
(* it creates them, and drv the number it has created so far.                  *)
EXTENDS Integers, Sequences

CONSTANTS DriverCtls,     \* sequence of control names
          CtlType,          \* name -> "BOOL", "INT", "BYTE", "ENUM" or "INT64"
          CtlCount,         \* name -> number of values
          CtlMax            \* the range of an INT control is 0..CtlMax

VARIABLES drv,    \* how many controls the driver has
          mctl,   \* mixer->ctl: the controls this handle knows
          evals,  \* the driver's values, one sequence per control
          opened  \* whether the handle is open

mixerVars == <<drv, mctl, evals, opened>>

CtlNames == {DriverCtls[i] : i \in 1..Len(DriverCtls)}
MixerInit == /\ drv = 1
             /\ mctl = << >> /\ opened = FALSE
             /\ evals = [c \in CtlNames |-> [i \in 1..CtlCount[c] |-> 0]]

DriverAdds == drv < Len(DriverCtls) /\ drv' = drv + 1 /\ UNCHANGED <<mctl, evals, opened>>

\* elist.offset and the count that remain after ELEM_INFO failed on control upto + 1:
\* the controls before it are kept.
FirstUnseen == Len(mctl)
add_controls(upto) == mctl \o SubSeq(DriverCtls, FirstUnseen + 1, upto)

\* A handle is only returned when every control could be read.
mixer_open == /\ ~opened
              /\ opened' = TRUE
              /\ mctl' = add_controls(drv)
              /\ UNCHANGED <<drv, evals>>
mixer_close == /\ opened
               /\ opened' = FALSE /\ mctl' = << >>
               /\ UNCHANGED <<drv, evals>>
mixer_add_new_ctls == /\ opened /\ drv > Len(mctl)
                      /\ \E upto \in Len(mctl)..drv : mctl' = add_controls(upto)
                      /\ UNCHANGED <<drv, evals, opened>>

\* mixer_get_ctl_by_name, and mixer_get_ctl with the id of mixer_ctl_get_id.
Known(name) == \E i \in 1..Len(mctl) : mctl[i] = name
mixer_ctl_get_id(name) == (CHOOSE i \in 1..Len(mctl) : mctl[i] = name) - 1
mixer_get_ctl(id) == mctl[id + 1]

\* What mixer_ctl_set_value stores for a value, once it has read the others; a value
\* outside an INT control's range is refused.
Stored(name, v) == IF CtlType[name] = "BOOL" THEN (IF v = 0 THEN 0 ELSE 1) ELSE v
Accepts(name, v) == CtlType[name] = "INT" => v \in 0..CtlMax

\* mixer_ctl_set_array writes what it was given and zeroes behind it.
mixer_ctl_set_array(name, bytes) ==
  [i \in 1..CtlCount[name] |-> IF i <= Len(bytes) THEN bytes[i] ELSE 0]

MixerNext == mixer_open \/ mixer_close \/ mixer_add_new_ctls \/ DriverAdds

----------------------------------------------------------------------------
\* The handle's list is the beginning of the driver's, in its order, with nothing
\* skipped or repeated, however often an extension stopped half way.
MixerListIsPrefix == Len(mctl) <= drv /\ mctl = SubSeq(DriverCtls, 1, Len(mctl))
=============================================================================
