----------------------------- MODULE AudioConfig -----------------------------
(***************************************************************************)
(* src/configmgr/audio_config.c: the configuration manager of the audio    *)
(* HAL.  It owns the hardware streams, their reference counts and the      *)
(* devices each is routed to, and it applies the mixer paths that switch a *)
(* device on or off.  Every operation below is what the code does in one   *)
(* critical section of cm->lock, as a function from a manager to a manager.*)
(*                                                                         *)
(* A device mask is a set of bits, with "IN" for AUDIO_DEVICE_BIT_IN.  A   *)
(* path is a pair <<name, on>>: <<"dev", TRUE>> and <<"dev", FALSE>> are   *)
(* the reference-counted "on" and "off" paths of a device, <<n, TRUE>> and *)
(* <<n, FALSE>> what a stream's <enable path> and <disable path> name.     *)
(* What a path does to the mixer is abstracted to the names whose enabling *)
(* path was applied last.                                                  *)
(***************************************************************************)
EXTENDS Integers, Sequences, FiniteSets

CONSTANTS
  DeviceList,   \* the <device> elements in file order: [type, paths]
  StreamList,   \* the <stream> elements in file order: [type, name, path, max]
  Bits          \* the bits of a device mask

Devices == DOMAIN DeviceList
Streams == DOMAIN StreamList
PathNames == {"dev"} \cup {StreamList[s].path : s \in Streams}

ASSUME AudioConfigAssumption ==
  /\ Len(DeviceList) \in Nat /\ Devices = 1 .. Len(DeviceList)
  /\ Len(StreamList) \in Nat /\ Streams = 1 .. Len(StreamList)
  /\ \A d \in Devices : /\ IsFiniteSet(DeviceList[d].type) /\ DeviceList[d].type \subseteq Bits
                        /\ DeviceList[d].paths \subseteq PathNames \X BOOLEAN
  /\ \A s \in Streams : StreamList[s].path # "dev" /\ StreamList[s].max \in Nat

stream_is_input(s) == StreamList[s].type \in {"in_pcm", "in_compress", "in_hw"}

DeviceState == [use_count : Int, mixer : SUBSET PathNames]

Manager == [dev : [Devices -> DeviceState],
            ref_count : [Streams -> Nat],
            current_devices : [Streams -> SUBSET Bits]]

NewManager == [dev |-> [d \in Devices |-> [use_count |-> 0, mixer |-> {}]],
               ref_count |-> [s \in Streams |-> 0],
               current_devices |-> [s \in Streams |-> {}]]

-----------------------------------------------------------------------------
(* Applying paths to devices.                                              *)

apply_path_l(st, path) ==
  [st EXCEPT !.mixer = IF path[2] THEN @ \cup {path[1]} ELSE @ \ {path[1]}]

\* Mutant: the off path is applied although other streams use the device.
apply_device_path_uncounted(st, path) ==
  apply_path_l([st EXCEPT !.use_count = CASE path = <<"dev", FALSE>> -> @ - 1
                                          [] path = <<"dev", TRUE>> -> @ + 1
                                          [] OTHER -> @], path)

\* The on and off paths are reference-counted, the streams' own are not.
apply_device_path_l(st, path) ==
  LET off == [st EXCEPT !.use_count = @ - 1]
      on == [st EXCEPT !.use_count = @ + 1]
  IN CASE path = <<"dev", FALSE>> ->
            IF off.use_count > 0 THEN off ELSE apply_path_l(off, path)
       [] path = <<"dev", TRUE>> ->
            IF on.use_count > 1 THEN on ELSE apply_path_l(on, path)
       [] OTHER -> apply_path_l(st, path)

\* Of the two paths, the ones the device defines, in the order given.
apply_paths_by_id_l(st, defined, first, second) ==
  LET one == IF first \in defined THEN apply_device_path_l(st, first) ELSE st
  IN IF second \in defined /\ second # first THEN apply_device_path_l(one, second) ELSE one

\* The loop of apply_paths_to_devices_l gives each bit of the mask to the
\* first device that has it; an output mask also matches input devices.
Matched(devices) ==
  LET Fits(d) == devices \cap {"IN"} \subseteq DeviceList[d].type
  IN {d \in Devices :
        /\ Fits(d)
        /\ \E b \in (devices \cap DeviceList[d].type) \ {"IN"} :
              \A e \in 1 .. d - 1 : Fits(e) => b \notin DeviceList[e].type}

ApplyTo(dev, chosen, first, second) ==
  [d \in Devices |-> IF d \in chosen
                     THEN apply_paths_by_id_l(dev[d], DeviceList[d].paths, first, second)
                     ELSE dev[d]]

apply_paths_to_devices_l(dev, devices, first, second) ==
  ApplyTo(dev, Matched(devices), first, second)

\* The first global device (one without type bits), if there is one.
apply_paths_to_global_l(dev, first, second) ==
  LET global == {d \in Devices : DeviceList[d].type = {}}
  IN ApplyTo(dev, {d \in global : \A e \in global : d <= e}, first, second)

OnPath == <<"dev", TRUE>>
OffPath == <<"dev", FALSE>>
enable_path(s) == <<StreamList[s].path, TRUE>>
disable_path(s) == <<StreamList[s].path, FALSE>>

-----------------------------------------------------------------------------
(* apply_route in two steps: what changes is computed before cm->lock is   *)
(* taken, and applied under it.                                            *)

RouteAllowed(s, devices) ==
  devices # {} => ("IN" \in devices) = stream_is_input(s)

RouteChange(cm, s, devices) ==
  [s |-> s, devices |-> devices,
   enabling |-> devices \ cm.current_devices[s],
   disabling |-> cm.current_devices[s] \ devices]

\* Mutant: the devices that the stream leaves are not switched off.
apply_route_keeps(cm, r) ==
  [cm EXCEPT !.dev = apply_paths_to_devices_l(cm.dev, r.enabling, OnPath, enable_path(r.s)),
             !.current_devices[r.s] = r.devices]

apply_route_l(cm, r) ==
  LET off == apply_paths_to_devices_l(cm.dev, r.disabling, disable_path(r.s), OffPath)
      on == apply_paths_to_devices_l(off, r.enabling, OnPath, enable_path(r.s))
  IN [cm EXCEPT !.dev = on, !.current_devices[r.s] = r.devices]

-----------------------------------------------------------------------------
(* Opening and releasing streams.                                          *)

CanOpen(cm, s) == cm.ref_count[s] < StreamList[s].max

open_stream_l(cm, s) ==
  [cm EXCEPT !.ref_count[s] = @ + 1,
             !.dev = IF cm.ref_count[s] = 0
                     THEN apply_paths_to_global_l(@, OnPath, enable_path(s)) ELSE @]

\* get_stream scans from the last stream; 0 stands for NULL.
get_stream(cm, devices) ==
  LET type == IF "IN" \in devices THEN "in_pcm" ELSE "out_pcm"
      fit == {s \in Streams : StreamList[s].type = type /\ CanOpen(cm, s)}
  IN IF fit = {} THEN 0 ELSE CHOOSE s \in fit : \A r \in fit : r <= s

find_named_stream(name) ==
  LET named == {s \in Streams : StreamList[s].name = name}
  IN IF named = {} THEN 0 ELSE CHOOSE s \in named : \A r \in named : s <= r

get_named_stream(cm, name) ==
  LET s == find_named_stream(name)
  IN IF s # 0 /\ CanOpen(cm, s) THEN s ELSE 0

release_stream(cm, s) ==
  LET less == [cm EXCEPT !.ref_count[s] = @ - 1]
      off == apply_paths_to_devices_l(cm.dev, cm.current_devices[s], OffPath, disable_path(s))
  IN IF less.ref_count[s] = 0
     THEN [less EXCEPT !.dev = apply_paths_to_global_l(off, disable_path(s), OffPath),
                       !.current_devices[s] = {}]
     ELSE less
=============================================================================
