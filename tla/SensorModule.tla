---------------------------- MODULE SensorModule ----------------------------
(* Loading of the sensor multi-HAL (src/sensors/multihal.cpp): the list of     *)
(* sub-HALs and the list of sensors are built by whichever call needs them     *)
(* first, each under its mutex; opening creates one sub-device per sub-HAL     *)
(* that opens; activate, setDelay and batch find their sub-device through the  *)
(* global handle.  The polling side is in MultiHal.                            *)
EXTENDS Integers, Sequences

CONSTANTS SubHals,      \* sequence of sub-HAL names, in the order they are loaded
          Sensors,      \* sub-HAL -> sequence of the local handles of its sensors
          HalThreads    \* threads of the framework

VARIABLES has,      \* which of sub_hw_modules, global_sensors_list and the context are not NULL
          mods,     \* sub_hw_modules: the sub-HALs that could be loaded
          slist,    \* global_sensors_list: the global handles
          to_full,  \* global_to_full: handle -> <<module index, local handle>>, as a sequence
          to_global,\* full_to_global: a set of <<module index, local handle, handle>>
          slock,    \* holder of init_sensors_mutex, or "none"
          hal,      \* per thread: [pc, list, at]: the list it builds, the module it is at
          devs,     \* sub_hw_devices of the opened context
          reached   \* what the last call reached: <<handle, sub-device, local handle>>

sensorVars == <<has, mods, slist, to_full, to_global, slock, hal, devs, reached>>

HalIdle == [pc |-> "idle", list |-> << >>, at |-> 1]
NotReached == <<0, "none", 0>>
SensorInit ==
  /\ has = {} /\ mods = << >> /\ slist = << >> /\ to_full = << >> /\ to_global = {}
  /\ slock = "none" /\ hal = [t \in HalThreads |-> HalIdle]
  /\ devs = << >> /\ reached = NotReached

HalStep(t, pc) == hal' = [hal EXCEPT ![t].pc = pc]
HalAt(t, pc) == hal[t].pc = pc

----------------------------------------------------------------------------
\* lazy_init_modules, called from "list" or "open": dlopen of each, any may fail.
Loadable == {s \in UNION {[1..n -> 1..Len(SubHals)] : n \in 0..Len(SubHals)} :
               \A i, j \in DOMAIN s : i < j => s[i] < s[j]}
lazy_init_modules(t, from, to) ==
  /\ HalAt(t, from)
  /\ IF "mods" \in has THEN UNCHANGED <<has, mods>>
     ELSE has' = has \cup {"mods"} /\ \E s \in Loadable : mods' = [i \in DOMAIN s |-> SubHals[s[i]]]
  /\ HalStep(t, to)
  /\ UNCHANGED <<slist, to_full, to_global, slock, devs, reached>>

\* Mutant: the list is looked at before the mutex is taken.
TakesListLockUnchecked(t) ==
  IF "list" \in has THEN HalStep(t, "listed") /\ UNCHANGED slock
  ELSE HalStep(t, "list") /\ UNCHANGED slock

\* The head of lazy_init_sensors_list.
TakesListLock(t) ==
  /\ slock = "none"
  /\ IF "list" \in has THEN HalStep(t, "listed") /\ UNCHANGED slock
     ELSE HalStep(t, "list") /\ slock' = t
lazy_init_sensors_list(t) ==
  /\ HalAt(t, "idle") /\ TakesListLock(t)
  /\ UNCHANGED <<has, mods, slist, to_full, to_global, devs, reached>>

\* assign_global_handle for every sensor of one sub-HAL.
Assign(m, handles) ==
  LET base == Len(to_full) IN
  /\ to_full' = to_full \o [i \in 1..Len(handles) |-> <<m, handles[i]>>]
  /\ to_global' = {f \in to_global : \A i \in 1..Len(handles) : <<f[1], f[2]>> # <<m, handles[i]>>}
                  \cup {<<m, handles[i], base + i>> : i \in 1..Len(handles)}
CopyModule(t) ==
  /\ HalAt(t, "copy") /\ hal[t].at <= Len(mods)
  /\ LET handles == Sensors[mods[hal[t].at]] IN
     /\ Assign(hal[t].at, handles)
     /\ hal' = [hal EXCEPT ![t].at = @ + 1,
                           ![t].list = @ \o [i \in 1..Len(handles) |-> Len(to_full) + i]]
  /\ UNCHANGED <<has, mods, slist, slock, devs, reached>>
Publish(t) ==
  /\ HalAt(t, "copy") /\ hal[t].at > Len(mods)
  /\ slist' = hal[t].list /\ has' = has \cup {"list"}
  /\ slock' = "none"
  /\ hal' = [hal EXCEPT ![t] = [HalIdle EXCEPT !.pc = "listed"]]
  /\ UNCHANGED <<mods, to_full, to_global, devs, reached>>

\* module__get_sensors_list returns what the list is by then.
ReturnList(t) ==
  /\ HalAt(t, "listed") /\ HalStep(t, "idle")
  /\ UNCHANGED <<has, mods, slist, to_full, to_global, slock, devs, reached>>

----------------------------------------------------------------------------
\* open_sensors: a sub-HAL that does not open gets no entry in sub_hw_devices.
open_sensors(t) ==
  /\ HalAt(t, "idle") /\ "ctx" \notin has
  /\ HalStep(t, "open") /\ devs' = << >> /\ has' = has \cup {"ctx"}
  /\ UNCHANGED <<mods, slist, to_full, to_global, slock, reached>>
addSubHwDevice(t) ==
  /\ HalAt(t, "opening") /\ hal[t].at <= Len(mods)
  /\ \E opens \in BOOLEAN : devs' = IF opens THEN Append(devs, mods[hal[t].at]) ELSE devs
  /\ hal' = [hal EXCEPT ![t].at = @ + 1]
  /\ UNCHANGED <<has, mods, slist, to_full, to_global, slock, reached>>
OpenDone(t) ==
  /\ HalAt(t, "opening") /\ hal[t].at > Len(mods)
  /\ hal' = [hal EXCEPT ![t] = HalIdle]
  /\ UNCHANGED <<has, mods, slist, to_full, to_global, slock, devs, reached>>

Opening == \E t \in HalThreads : hal[t].pc \in {"open", "opening"}

\* get_v0_device_by_handle.
get_v0_device_by_handle(h) == IF to_full[h][1] > Len(devs) THEN "none" ELSE devs[to_full[h][1]]
get_local_handle(h) == to_full[h][2]

\* activate, setDelay, and batch, which only sets the delay; flush is refused.  Without a
\* sub-device the call goes through a null pointer.
Call(t) ==
  /\ HalAt(t, "idle") /\ "list" \in has /\ "ctx" \in has /\ ~Opening
  /\ \E i \in 1..Len(slist) :
       reached' = <<slist[i], get_v0_device_by_handle(slist[i]), get_local_handle(slist[i])>>
  /\ UNCHANGED <<has, mods, slist, to_full, to_global, slock, hal, devs>>

\* device__close; the lists stay for the next open.
SensorClose(t) ==
  /\ HalAt(t, "idle") /\ "ctx" \in has /\ ~Opening
  /\ devs' = << >> /\ has' = has \ {"ctx"} /\ reached' = NotReached
  /\ UNCHANGED <<mods, slist, to_full, to_global, slock, hal>>

\* The process that loaded the HAL is started again.
SensorRestart ==
  /\ has' = {} /\ mods' = << >> /\ slist' = << >> /\ to_full' = << >> /\ to_global' = {}
  /\ slock' = "none" /\ hal' = [t \in HalThreads |-> HalIdle]
  /\ devs' = << >> /\ reached' = NotReached

SensorNext ==
  \/ \E t \in HalThreads :
       \/ lazy_init_sensors_list(t) \/ lazy_init_modules(t, "list", "copy") \/ CopyModule(t)
       \/ Publish(t) \/ ReturnList(t)
       \/ open_sensors(t) \/ lazy_init_modules(t, "open", "opening") \/ addSubHwDevice(t) \/ OpenDone(t)
       \/ Call(t) \/ SensorClose(t)
  \/ SensorRestart

----------------------------------------------------------------------------
\* However many first calls meet, every sensor gets one global handle: the two maps are
\* inverse to each other, and the published list has each of their handles once.
HandlesBijective ==
  "list" \in has =>
    /\ to_global = {<<to_full[h][1], to_full[h][2], h>> : h \in 1..Len(to_full)}
    /\ Len(slist) = Len(to_full) /\ {slist[i] : i \in 1..Len(slist)} = 1..Len(to_full)

\* When every sub-HAL opened, a call reaches the sub-HAL and the sensor that the list
\* showed under its handle.  After a failed open, sub_hw_devices is shorter than
\* sub_hw_modules and handles lead to the wrong sub-device or to none.
HandleReachesSensor ==
  reached # NotReached /\ devs = mods =>
    reached[2] = mods[to_full[reached[1]][1]] /\ \E i \in 1..Len(Sensors[reached[2]]) : Sensors[reached[2]][i] = reached[3]

\* Every sensor of the list has a handle of its own, and the handle leads to it.
HandlesSound == HandlesBijective /\ HandleReachesSensor
=============================================================================
