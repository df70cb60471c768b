---------------------------- MODULE MixerValues ----------------------------
(***************************************************************************)
(* The percentages of an integer control and the names of an enumerated    *)
(* one, in tinyalsa (src/tinyalsa/src/mixer.c).  The names are read from   *)
(* the driver when they are first needed, any of those reads may fail, and *)
(* the call can be made again.                                             *)
(***************************************************************************)
EXTENDS Integers, Sequences

CONSTANTS Ranges,         \* ranges of integer controls, as [min, max]
          AskPercents,    \* percentages asked for, good and bad
          ItemNames       \* the names of the enumerated control's items, in their order

VARIABLES range,          \* info.value.integer of the integer control
          level,          \* its value in the driver
          asked,          \* the last percentage that was accepted; -1 when there is none
          ename,          \* ctl->ename: <<>> while NULL
          item,           \* the enumerated control's value in the driver
          word            \* the last name that was accepted; "" when there is none

valueVars == <<range, level, asked, ename, item, word>>

EINVAL == 22

\* C's division, which truncates towards zero.
DivC(a, b) == IF a >= 0 THEN a \div b ELSE -((-a) \div b)

\* Mutant: the range counts its values.
PercentOfCount(r, percent) ==
  IF percent \notin 0..100 THEN -EINVAL ELSE r.min + DivC((r.max - r.min + 1) * percent, 100)

percent_to_int(r, percent) ==
  IF percent \notin 0..100 THEN -EINVAL ELSE r.min + DivC((r.max - r.min) * percent, 100)

ValueInit ==
  /\ range \in Ranges /\ level = range.min /\ asked = -1
  /\ ename = <<>> /\ item = 0 /\ word = ""

\* mixer_ctl_set_percent: a value in range is written, whatever it came from; ELEM_READ and
\* ELEM_WRITE may fail, and then nothing is.
mixer_ctl_set_percent(percent) ==
  /\ LET v == percent_to_int(range, percent)
     IN /\ v \in range.min..range.max
        /\ level' = v /\ asked' = percent
  /\ UNCHANGED <<range, ename, item, word>>

\* What ename becomes when the read of an item fails after `read` of them succeeded: all are freed.
FilledNames(read) == IF read = Len(ItemNames) THEN ItemNames ELSE <<>>

\* mixer_ctl_fill_enum_string, on the first use: it fails when ename stays NULL.
mixer_ctl_fill_enum_string ==
  IF ename # <<>> THEN ename' = ename
  ELSE \E read \in 0..Len(ItemNames) : ename' = FilledNames(read)

mixer_ctl_get_enum_string == mixer_ctl_fill_enum_string /\ UNCHANGED <<range, level, asked, item, word>>

\* mixer_ctl_set_enum_by_string: the first item of that name; the write may fail.
mixer_ctl_set_enum_by_string(string) ==
  /\ mixer_ctl_fill_enum_string
  /\ LET found == {i \in DOMAIN ename' : ename'[i] = string}
     IN \/ /\ found # {}
           /\ item' = (CHOOSE i \in found : \A j \in found : i <= j) - 1
           /\ word' = string
        \/ UNCHANGED <<item, word>>
  /\ UNCHANGED <<range, level, asked>>

ValueNext ==
  \/ \E p \in AskPercents : mixer_ctl_set_percent(p)
  \/ mixer_ctl_get_enum_string
  \/ \E i \in DOMAIN ItemNames : mixer_ctl_set_enum_by_string(ItemNames[i])
-----------------------------------------------------------------------------
\* On a control whose range does not hold -EINVAL, only a percentage of 0..100 changes the value;
\* 0 is the minimum, 100 the maximum, and no percentage between them leaves the range or is off by a
\* whole step.
PercentLands ==
  (asked # -1 /\ -EINVAL \notin range.min..range.max) =>
    /\ asked \in 0..100 /\ level \in range.min..range.max
    /\ (level - range.min) * 100 <= asked * (range.max - range.min)
    /\ asked * (range.max - range.min) < (level - range.min + 1) * 100

\* A control has the names of all of its items or of none, however often and wherever reading them
\* fails, and a name that was accepted selected the item of that name.
NamesWhole ==
  /\ ename \in {<<>>, ItemNames}
  /\ word # "" => ItemNames[item + 1] = word

\* mixer_ctl_set_percent and mixer_ctl_set_enum_by_string: what was asked for is what the
\* control gets.
ValueAsAsked == PercentLands /\ NamesWhole
=============================================================================
