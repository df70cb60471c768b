--------------------------- MODULE AudioControls ---------------------------
(* The configuration manager's use of the mixer (src/configmgr/audio_config.c):*)
(* controls named in the configuration file are opened while it is parsed, or  *)
(* else when they are first applied; a routing change and a use case apply a   *)
(* list of controls under cm->lock, and a volume change writes without it.     *)
(* Writing one value of a control reads all of them from the driver and writes *)
(* all of them back, in two calls that other threads can separate.             *)
EXTENDS Mixer

CONSTANTS CfgCtls,    \* sequence of [name, index (0: every value), val, len, good]
          RouteCtls,  \* the controls of the path that the routing thread applies
          CaseCtls,   \* and of the case that the use-case thread applies
          VolCtl,     \* the control of a stream's volume: value 1 left, value 2 right
          Percents    \* the volumes that are asked for

VARIABLES cctl,   \* per configured control: its id (-1 = UINT_MAX), how often its string was freed
          cmlock, \* the holder of cm->lock, or "none"
          th,     \* the threads
          last,   \* ghost: per control, the value last written to each of its slots
          raced   \* ghost: a volume change met another write to its control

controlVars == <<cctl, cmlock, th, last, raced>>

Idle == [pc |-> "idle", list |-> << >>, jobs |-> << >>, snap |-> << >>]
Threads == {"route", "usecase", "volume"}

ControlsInit ==
  /\ MixerInit
  /\ cctl = [k \in 1..Len(CfgCtls) |-> [id |-> -1, frees |-> 0]]
  /\ cmlock = "none" /\ th = [t \in Threads |-> Idle]
  /\ last = evals /\ raced = FALSE

----------------------------------------------------------------------------
\* make_byte_array and string_to_uint: whether the text of a value can be converted.
Converts(c) ==
  CASE CtlType[c.name] = "BYTE" -> c.good /\ (IF c.index = 0 THEN 0 ELSE c.index - 1) + c.len <= CtlCount[c.name]
    [] CtlType[c.name] \in {"BOOL", "INT"} -> c.good
    [] CtlType[c.name] = "ENUM" -> TRUE
    [] OTHER -> FALSE

KeepsString(name) == CtlType[name] = "ENUM"
Opens(k, known) == known /\ Converts(CfgCtls[k])

\* The control after a successful ctl_open.
Opened(k, id) ==
  [id |-> id, frees |-> cctl[k].frees + (IF KeepsString(CfgCtls[k].name) THEN 0 ELSE 1)]

\* The position a name will have in the list of a mixer opened now.
IdAtBoot(name) == (CHOOSE i \in 1..drv : DriverCtls[i] = name) - 1
InDriver(name) == \E i \in 1..drv : DriverCtls[i] = name

\* The <mixer> element opens the mixer; every <ctl> is then opened as it is parsed.
\* A control the driver does not have yet is left for later.
Boot ==
  /\ mixer_open
  /\ cctl' = [k \in 1..Len(CfgCtls) |->
                IF Opens(k, InDriver(CfgCtls[k].name)) THEN Opened(k, IdAtBoot(CfgCtls[k].name)) ELSE cctl[k]]
  /\ UNCHANGED <<cmlock, th, last, raced>>

----------------------------------------------------------------------------
\* The writes that apply_ctls_l makes for one control: one per value when the
\* configuration gives no index.
Jobs(c) ==
  IF CtlType[c.name] = "BYTE" THEN << [name |-> c.name, slot |-> c.index, v |-> c.val] >>
  ELSE IF c.index # 0 THEN << [name |-> c.name, slot |-> c.index, v |-> c.val] >>
  ELSE [i \in 1..CtlCount[c.name] |-> [name |-> c.name, slot |-> i, v |-> c.val]]

\* A whole byte array and an enumeration are written without reading first.
Direct(c) == \/ CtlType[c.name] = "ENUM"
             \/ CtlType[c.name] = "BYTE" /\ c.index <= 1 /\ c.len = CtlCount[c.name]

\* Mutant: a use case is applied without the lock.
SerialisedRouteOnly == {"route"}

\* pthread_mutex_lock(&cm->lock) around apply_ctls_l.
Serialised == {"route", "usecase"}

\* apply_route (for one path) and apply_use_case.  Bound: once a volume change has met
\* another write, the next call begins when all threads are through, and the ghosts
\* start over from the values there are then.
Begins == /\ opened
          /\ raced => \A t \in Threads : th[t].pc = "idle"
          /\ last' = IF raced THEN evals ELSE last
          /\ raced' = FALSE
Apply(t, list) ==
  /\ Begins /\ th[t] = Idle
  /\ t \in Serialised => cmlock = "none"
  /\ cmlock' = IF t \in Serialised THEN t ELSE cmlock
  /\ th' = [th EXCEPT ![t] = [Idle EXCEPT !.pc = "next", !.list = list]]
  /\ UNCHANGED <<mixerVars, cctl>>
apply_route == Apply("route", RouteCtls)
apply_use_case == Apply("usecase", CaseCtls)

\* A write of a control by one thread while the volume change is half way through it,
\* or the other way round.
Meets(t, name) ==
  \E u \in Threads \ {t} : "volume" \in {t, u} /\ th[u].pc = "write" /\ Head(th[u].jobs).name = name

\* The next control of apply_ctls_l: opened if it is not, which ends the list when it
\* fails; then written at once or value by value.
NextCtl(t) ==
  LET k == Head(th[t].list) c == CfgCtls[k] IN
  /\ th[t].pc = "next" /\ th[t].list # << >>
  /\ IF cctl[k].id # -1 \/ Opens(k, Known(c.name))
     THEN /\ cctl' = [cctl EXCEPT ![k] = IF @.id # -1 THEN @ ELSE Opened(k, mixer_ctl_get_id(c.name))]
          /\ IF Direct(c)
             THEN LET all == mixer_ctl_set_array(c.name, [i \in 1..c.len |-> c.val]) IN
                  /\ evals' = [evals EXCEPT ![c.name] = all] /\ last' = [last EXCEPT ![c.name] = all]
                  /\ raced' = (raced \/ Meets(t, c.name))
                  /\ th' = [th EXCEPT ![t].list = Tail(@)]
             ELSE /\ th' = [th EXCEPT ![t].pc = "read", ![t].list = Tail(@), ![t].jobs = Jobs(c)]
                  /\ UNCHANGED <<evals, last, raced>>
     ELSE /\ th' = [th EXCEPT ![t].list = << >>]
          /\ UNCHANGED <<cctl, evals, last, raced>>
  /\ UNCHANGED <<drv, mctl, opened, cmlock>>

EndApply(t) ==
  /\ th[t].pc = "next" /\ th[t].list = << >>
  /\ th' = [th EXCEPT ![t] = Idle]
  /\ cmlock' = IF t \in Serialised THEN "none" ELSE cmlock
  /\ UNCHANGED <<mixerVars, cctl, last, raced>>

\* mixer_ctl_set_value, first the read of all values,
ReadValues(t) ==
  /\ th[t].pc = "read"
  /\ th' = [th EXCEPT ![t].pc = "write", ![t].snap = evals[Head(th[t].jobs).name]]
  /\ raced' = (raced \/ Meets(t, Head(th[t].jobs).name))
  /\ UNCHANGED <<mixerVars, cctl, cmlock, last>>

\* then the write of all of them.  A refused value ends the control's loop in
\* apply_ctls_l; set_vol_ctl does not look at the result.
WriteValues(t) ==
  LET j == Head(th[t].jobs)
      ok == Accepts(j.name, j.v)
      left == IF ok \/ t = "volume" THEN Tail(th[t].jobs) ELSE << >> IN
  /\ th[t].pc = "write"
  /\ IF ok
     THEN /\ evals' = [evals EXCEPT ![j.name] = [th[t].snap EXCEPT ![j.slot] = Stored(j.name, j.v)]]
          /\ last' = [last EXCEPT ![j.name][j.slot] = Stored(j.name, j.v)]
     ELSE UNCHANGED <<evals, last>>
  /\ th' = [th EXCEPT ![t] =
              [pc |-> IF left # << >> THEN "read" ELSE IF t = "volume" THEN "idle" ELSE "next",
               list |-> @.list, jobs |-> left, snap |-> << >>]]
  /\ UNCHANGED <<drv, mctl, opened, cctl, cmlock, raced>>

----------------------------------------------------------------------------
\* The value of a volume in percent on a control configured with min..max.
VolumeValue(min, max, percent) ==
  CASE percent = 0 -> min
    [] percent = 100 -> max
    [] OTHER -> min + ((percent * (max - min)) \div 100)

\* set_hw_volume: both sides, or their average on a mono control.
VolumeJobs(l, r, stereo) ==
  IF stereo THEN << [name |-> VolCtl, slot |-> 1, v |-> VolumeValue(0, CtlMax, l)],
                    [name |-> VolCtl, slot |-> 2, v |-> VolumeValue(0, CtlMax, r)] >>
            ELSE << [name |-> VolCtl, slot |-> 1, v |-> VolumeValue(0, CtlMax, (l + r) \div 2)] >>
set_hw_volume ==
  /\ Begins /\ th["volume"].pc = "idle" /\ Known(VolCtl)
  /\ \E l, r \in Percents, stereo \in BOOLEAN :
       th' = [th EXCEPT !["volume"] = [Idle EXCEPT !.pc = "read", !.jobs = VolumeJobs(l, r, stereo)]]
  /\ UNCHANGED <<mixerVars, cctl, cmlock>>

LateControl == DriverAdds /\ UNCHANGED controlVars

ControlsNext ==
  \/ Boot \/ apply_route \/ apply_use_case \/ set_hw_volume \/ LateControl
  \/ \E t \in Threads : NextCtl(t) \/ EndApply(t) \/ ReadValues(t) \/ WriteValues(t)

----------------------------------------------------------------------------
\* As long as no volume change met another write to the same control, every value of
\* every control is the one last written to it: the threads that apply controls read
\* and write them one after the other, under cm->lock (mixer_ctl_set_value restores
\* the values that it did not mean to change).
LastWriteWins == raced \/ evals = last

\* The text of a value is converted, and freed, exactly when the control gets its id,
\* at boot or when it is first applied, and never again.
ConvertedOnce ==
  \A k \in 1..Len(CfgCtls) :
    cctl[k].frees = IF cctl[k].id = -1 \/ KeepsString(CfgCtls[k].name) THEN 0 ELSE 1

\* set_vol_ctl never computes a value that mixer_ctl_set_value refuses when the
\* configured range is the control's.
VolumeAccepted == \A i \in 1..Len(th["volume"].jobs) : Accepts(VolCtl, th["volume"].jobs[i].v)

\* Controls are the driver's, opened and converted once, and have the values last written
\* to them.
ControlsExact == MixerListIsPrefix /\ LastWriteWins /\ ConvertedOnce /\ VolumeAccepted
=============================================================================
