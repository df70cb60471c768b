--------------------------- MODULE AudioHalLemmas ---------------------------
(***************************************************************************)
(* The inductive invariant of AudioHal, for any configuration, any finite  *)
(* set of handles and any masks: where every thread may be and what it has *)
(* (Places), and that a stream's count covers its users (Counted).  Here are*)
(* the facts about the configuration manager's operations, what a step of  *)
(* one thread has to keep (PlainStep), and the calls on an output.         *)
(***************************************************************************)
EXTENDS AudioHal, FiniteSetTheorems, WellFoundedInduction, TLAPS

Labels == {"idle", "read", "apply", "armed", "vrelease", "named", "generic", "swap", "voice", "source", "close"}
Route == [s : Streams \cup {NULL}, devices : SUBSET Bits, enabling : SUBSET Bits, disabling : SUBSET Bits]
LocalSet == [route : Route, then : {"idle", "finish", "armed", "vrelease"}, st : VoiceStates,
             cont : {"idle", "source", "close"}, name : {"", "voice recognition"}, hw : Streams \cup {NULL},
             source : Sources, devices : SUBSET Bits]
OutHandle == [open : BOOLEAN, hw : Streams \cup {NULL}, standby : BOOLEAN]
InHandle == [open : BOOLEAN, hw : Streams \cup {NULL}, standby : BOOLEAN, source : Sources]

\* The types, of the locals too; a handle that is open for output has its stream.
HalTypes ==
  /\ cm \in Manager
  /\ outs \in [Outs -> OutHandle] /\ ins \in [Ins -> InHandle]
  /\ \A h \in Outs : outs[h].open = (outs[h].hw \in Streams)
  /\ \A h \in Ins : ins[h].hw # NULL => ins[h].open
  /\ voice_st \in VoiceStates /\ voice_trig_stream \in Streams \cup {NULL}
  /\ active_voice_control \in Ins \cup {Nobody}
  /\ lock \in Threads \cup {Nobody}
  /\ pc \in [Threads -> Labels] /\ loc \in [Threads -> LocalSet]

Routing == {"read", "apply"}
Changing == {"named", "generic", "swap", "voice", "source"}

\* The voice trigger of this configuration is a recogniser, or there is none.
NoTriggerOnly == find_named_stream("voice trigger") = NULL \/ find_named_stream("voice recognition") # NULL

\* Where the threads may be: a handle's own thread routes the stream that the handle has;
\* whoever switches the voice trigger holds adev->lock until the voice state is set.
OutPlace(h) ==
  /\ pc[h] \in {"idle", "read", "apply"}
  /\ pc[h] = "idle" => loc[h].then = "idle"
  /\ pc[h] \in Routing => loc[h].then = "finish" /\ outs[h].open /\ loc[h].route.s = outs[h].hw
InPlace(h) ==
  /\ pc[h] # "armed" /\ loc[h].then # "armed"
  /\ pc[h] # "idle" => ins[h].open
  /\ pc[h] \in Changing \cup {"idle", "close"} => loc[h].then = "idle"
  /\ pc[h] \in {"swap", "voice", "source"} => loc[h].hw \in Streams
  /\ pc[h] \in {"voice", "source"} => ins[h].hw = loc[h].hw
  /\ pc[h] \in Routing => loc[h].then \in {"finish", "vrelease"}
  /\ pc[h] \in Routing /\ loc[h].then = "finish" => ins[h].hw \in Streams /\ loc[h].route.s = ins[h].hw
  /\ pc[h] = "vrelease" => loc[h].then = "vrelease"
  /\ loc[h].then = "vrelease" => /\ loc[h].cont \in {"source", "close"} /\ active_voice_control # h
                                 /\ loc[h].cont = "source" => loc[h].hw \in Streams /\ ins[h].hw = loc[h].hw
  /\ pc[h] = "close" => active_voice_control # h
  /\ active_voice_control = h => ins[h].open
PolicyPlace(t) ==
  /\ pc[t] \in {"idle", "read", "apply", "armed", "vrelease"}
  /\ pc[t] = "idle" => loc[t].then = "idle"
  /\ pc[t] \in Routing => loc[t].then \in {"armed", "vrelease"}
  /\ pc[t] \in {"armed", "vrelease"} => loc[t].then = pc[t]
  /\ loc[t].then = "vrelease" => loc[t].cont = "idle"
VoicePlace(t) ==
  loc[t].then \in {"armed", "vrelease"} =>
    /\ lock = t /\ voice_trig_stream \in Streams
    /\ pc[t] \in Routing => loc[t].route.s = voice_trig_stream
    /\ loc[t].then = "vrelease" => VoiceHolds /\ loc[t].st \in {"TriggerIdle", "RecogIdle"}
    /\ loc[t].then = "armed" => loc[t].st \in {"TriggerArmed", "RecogArmed"}
    /\ NoTriggerOnly => loc[t].st \notin {"TriggerIdle", "TriggerArmed"}
Places ==
  /\ \A h \in Outs : OutPlace(h)
  /\ \A h \in Ins : InPlace(h)
  /\ PolicyPlace("policy")
  /\ \A t \in Threads : VoicePlace(t)

OutsWith(s) == {h \in Outs : outs[h].hw = s}
InsWith(s) == {h \in Ins : ins[h].hw = s}
Swapping(s) == {h \in Ins : pc[h] = "swap" /\ loc[h].hw = s}
VoiceUse(s) == IF voice_trig_stream = s /\ (Opening \/ VoiceHolds) THEN 1 ELSE 0

Counted ==
  /\ \A s \in Streams : cm.ref_count[s] >= Holders(s)
  /\ NoTriggerOnly => /\ RefsExact
                      /\ voice_st \notin {"TriggerIdle", "TriggerArmed", "TriggerFired"}
                      /\ Opening => ~ VoiceHolds
  /\ RoutedMeansHeld

HalInv == HalTypes /\ Places /\ Counted /\ CaptureHasOwner

\* A path of the configuration keeps the state of a device a state of a device.
LEMMA PathKeeps ==
  ASSUME NEW st \in DeviceState, NEW path \in PathNames \X BOOLEAN
  PROVE  apply_device_path_l(st, path) \in DeviceState
<1>1. \A x \in DeviceState : apply_path_l(x, path) \in DeviceState BY DEF apply_path_l, DeviceState
<1>2. /\ [st EXCEPT !.use_count = st.use_count - 1] \in DeviceState
      /\ [st EXCEPT !.use_count = st.use_count + 1] \in DeviceState
  BY DEF DeviceState
<1> QED BY <1>1, <1>2 DEF apply_device_path_l

\* So do two paths.
LEMMA PathsKeep ==
  ASSUME NEW st \in DeviceState, NEW defined, NEW first \in PathNames \X BOOLEAN, NEW second \in PathNames \X BOOLEAN
  PROVE  apply_paths_by_id_l(st, defined, first, second) \in DeviceState
BY PathKeeps DEF apply_paths_by_id_l

\* So do the paths applied to a set of devices.
LEMMA ApplyKeeps ==
  ASSUME NEW dev \in [Devices -> DeviceState], NEW chosen,
         NEW first \in PathNames \X BOOLEAN, NEW second \in PathNames \X BOOLEAN
  PROVE  ApplyTo(dev, chosen, first, second) \in [Devices -> DeviceState]
<1>1. \A d \in Devices : apply_paths_by_id_l(dev[d], DeviceList[d].paths, first, second) \in DeviceState
  BY PathsKeep
<1> QED BY <1>1 DEF ApplyTo

\* The paths of streams and devices are among the named ones.
LEMMA PathsAreNamed ==
  /\ OnPath \in PathNames \X BOOLEAN /\ OffPath \in PathNames \X BOOLEAN
  /\ \A s \in Streams : enable_path(s) \in PathNames \X BOOLEAN /\ disable_path(s) \in PathNames \X BOOLEAN
BY DEF OnPath, OffPath, enable_path, disable_path, PathNames

\* open_stream_l counts one user more and routes nothing.
LEMMA OpenKeeps ==
  ASSUME NEW c \in Manager, NEW s \in Streams
  PROVE  /\ open_stream_l(c, s) \in Manager
         /\ open_stream_l(c, s).ref_count = [c.ref_count EXCEPT ![s] = c.ref_count[s] + 1]
         /\ open_stream_l(c, s).current_devices = c.current_devices
<1> DEFINE D == IF c.ref_count[s] = 0 THEN apply_paths_to_global_l(c.dev, OnPath, enable_path(s)) ELSE c.dev
           R == [c.ref_count EXCEPT ![s] = c.ref_count[s] + 1]
<1>1. D \in [Devices -> DeviceState]
  BY PathsAreNamed, ApplyKeeps DEF Manager, apply_paths_to_global_l
<1>2. R \in [Streams -> Nat] BY DEF Manager
<1>3. open_stream_l(c, s) = [c EXCEPT !.ref_count = R, !.dev = D]
  BY DEF open_stream_l, Manager
<1> HIDE DEF D, R
<1>4. open_stream_l(c, s) \in Manager BY <1>1, <1>2, <1>3 DEF Manager
<1>5. open_stream_l(c, s).ref_count = R /\ open_stream_l(c, s).current_devices = c.current_devices
  BY <1>3 DEF Manager
<1> QED BY <1>4, <1>5 DEF R

\* release_stream counts one user less; the routes go with the last user.
LEMMA ReleaseKeeps ==
  ASSUME NEW c \in Manager, NEW s \in Streams, c.ref_count[s] > 0
  PROVE  LET n == release_stream(c, s) IN
         /\ n \in Manager
         /\ n.ref_count = [c.ref_count EXCEPT ![s] = c.ref_count[s] - 1]
         /\ n.current_devices = IF c.ref_count[s] = 1 THEN [c.current_devices EXCEPT ![s] = {}] ELSE c.current_devices
<1> DEFINE R == [c.ref_count EXCEPT ![s] = c.ref_count[s] - 1]
           less == [c EXCEPT !.ref_count = R]
           off == apply_paths_to_devices_l(c.dev, c.current_devices[s], OffPath, disable_path(s))
           D == apply_paths_to_global_l(off, disable_path(s), OffPath)
           C == [c.current_devices EXCEPT ![s] = {}]
           n == release_stream(c, s)
<1>0. c.ref_count[s] \in Nat BY DEF Manager
<1>1. R \in [Streams -> Nat] /\ R[s] = c.ref_count[s] - 1 BY <1>0 DEF Manager
<1>2. off \in [Devices -> DeviceState] BY PathsAreNamed, ApplyKeeps DEF Manager, apply_paths_to_devices_l
<1> HIDE DEF off
<1>3. D \in [Devices -> DeviceState] BY <1>2, PathsAreNamed, ApplyKeeps DEF apply_paths_to_global_l
<1>4. C \in [Streams -> SUBSET Bits] BY DEF Manager
<1>5. n = IF R[s] = 0 THEN [less EXCEPT !.dev = D, !.current_devices = C] ELSE less
  BY DEF release_stream, Manager, off
<1> HIDE DEF R, D, C, n
<1>6. less \in Manager /\ less.ref_count = R /\ less.current_devices = c.current_devices BY <1>1 DEF Manager
<1>7. CASE R[s] = 0
  <2>1. n = [less EXCEPT !.dev = D, !.current_devices = C] BY <1>5, <1>7
  <2> HIDE DEF less
  <2>2. n \in Manager BY <1>3, <1>4, <1>6, <2>1 DEF Manager
  <2>3. n.ref_count = R /\ n.current_devices = C BY <1>6, <2>1 DEF Manager
  <2>4. c.ref_count[s] = 1 BY <1>0, <1>1, <1>7
  <2> QED BY <2>2, <2>3, <2>4 DEF n, R, C
<1>8. CASE R[s] # 0
  <2>1. c.ref_count[s] # 1 BY <1>0, <1>1, <1>8
  <2>2. n = less BY <1>5, <1>8
  <2> HIDE DEF less
  <2> QED BY <1>6, <2>1, <2>2 DEF n, R
<1> QED BY <1>7, <1>8

\* apply_route_l leaves the counts alone.
LEMMA RouteKeeps ==
  ASSUME NEW c \in Manager, NEW r \in Route, r.s \in Streams
  PROVE  LET n == apply_route_l(c, r) IN
         /\ n \in Manager /\ n.ref_count = c.ref_count
         /\ n.current_devices = [c.current_devices EXCEPT ![r.s] = r.devices]
<1> DEFINE off == apply_paths_to_devices_l(c.dev, r.disabling, disable_path(r.s), OffPath)
           on == apply_paths_to_devices_l(off, r.enabling, OnPath, enable_path(r.s))
           C == [c.current_devices EXCEPT ![r.s] = r.devices]
           n == apply_route_l(c, r)
<1>1. off \in [Devices -> DeviceState] BY PathsAreNamed, ApplyKeeps DEF Manager, apply_paths_to_devices_l
<1> HIDE DEF off
<1>2. on \in [Devices -> DeviceState] BY <1>1, PathsAreNamed, ApplyKeeps DEF apply_paths_to_devices_l
<1>3. r.devices \in SUBSET Bits BY DEF Route
<1>4. C \in [Streams -> SUBSET Bits] BY <1>3 DEF Manager
<1>5. n = [c EXCEPT !.dev = on, !.current_devices = C] BY DEF apply_route_l, Manager, off
<1> HIDE DEF on, C, n
<1>6. n \in Manager BY <1>2, <1>4, <1>5 DEF Manager
<1>7. n.ref_count = c.ref_count /\ n.current_devices = C BY <1>5 DEF Manager
<1> QED BY <1>6, <1>7 DEF n, C

\* A set of naturals that is not empty has a least member.
LEMMA LeastExists == ASSUME NEW T \in SUBSET Nat, T # {} PROVE \E x \in T : \A y \in T : x <= y
<1> DEFINE R == OpToRel(<, Nat)
<1>1. IsWellFoundedOn(R, Nat) BY NatLessThanWellFounded
<1>2. PICK x \in T : \A y \in T : ~ (<<y, x>> \in R) BY <1>1, WFMin
<1>3. \A y \in T : ~(y < x) BY <1>2 DEF OpToRel
<1> QED BY <1>3
\* A bounded set of naturals that is not empty has a greatest member.
LEMMA GreatestExists == ASSUME NEW n \in Nat, NEW T \in SUBSET (0 .. n), T # {} PROVE \E x \in T : \A y \in T : y <= x
<1> DEFINE U == {k \in 0 .. n : n - k \in T}
<1>1. U \in SUBSET Nat OBVIOUS
<1>2. \A t \in T : n - t \in U OBVIOUS
<1>3. U # {} BY <1>2
<1>4. PICK x \in U : \A y \in U : x <= y BY <1>1, <1>3, LeastExists
<1>5. n - x \in T BY <1>4
<1>6. \A t \in T : t <= n - x BY <1>2, <1>4
<1> QED BY <1>5, <1>6

\* What get_stream and get_named_stream return is a stream, or null.
LEMMA NullIsNoStream == NULL \notin Streams
BY AudioConfigAssumption DEF NULL

\* get_named_stream returns a stream, or null.
LEMMA NamedIsStream == \A c, name : get_named_stream(c, name) \in Streams \cup {NULL}
<1>1. \A name : find_named_stream(name) \in Streams \cup {NULL}
  <2> SUFFICES ASSUME NEW name PROVE find_named_stream(name) \in Streams \cup {NULL} OBVIOUS
  <2> DEFINE named == {s \in Streams : StreamList[s].name = name}
  <2>1. find_named_stream(name) = IF named = {} THEN 0 ELSE CHOOSE s \in named : \A r \in named : s <= r
    BY DEF find_named_stream
  <2>2. CASE named = {} BY <2>1, <2>2 DEF NULL
  <2>3. CASE named # {}
    <3>1. named \in SUBSET Nat BY AudioConfigAssumption
    <3>2. \E s \in named : \A r \in named : s <= r BY <2>3, <3>1, LeastExists
    <3> QED BY <2>1, <2>3, <3>2
  <2> QED BY <2>2, <2>3
<1> QED BY <1>1 DEF get_named_stream, NULL

\* get_stream returns a stream, or null.
LEMMA FoundIsStream == \A c, devices : get_stream(c, devices) \in Streams \cup {NULL}
<1> SUFFICES ASSUME NEW c, NEW devices PROVE get_stream(c, devices) \in Streams \cup {NULL} OBVIOUS
<1> DEFINE type == IF "IN" \in devices THEN "in_pcm" ELSE "out_pcm"
           fit == {s \in Streams : StreamList[s].type = type /\ CanOpen(c, s)}
<1>1. get_stream(c, devices) = IF fit = {} THEN 0 ELSE CHOOSE s \in fit : \A r \in fit : r <= s
  BY DEF get_stream
<1>2. CASE fit = {} BY <1>1, <1>2 DEF NULL
<1>3. CASE fit # {}
  <2>1. fit \in SUBSET (0 .. Len(StreamList)) BY AudioConfigAssumption
  <2>2. \E s \in fit : \A r \in fit : r <= s BY <1>3, <2>1, GreatestExists, AudioConfigAssumption
  <2> QED BY <1>1, <1>3, <2>2
<1> QED BY <1>2, <1>3

\* How often thread t, with the handle it runs, is a user of stream s.
OwnUse(t, s) ==
  (IF t \in Outs /\ outs[t].hw = s THEN 1 ELSE 0)
  + (IF t \in Ins /\ ins[t].hw = s THEN 1 ELSE 0)
  + (IF t \in Ins /\ pc[t] = "swap" /\ loc[t].hw = s THEN 1 ELSE 0)

\* The steps of thread t leave the other threads where they are.
OnlyThread(t) ==
  /\ \A u \in Threads \ {t} : pc'[u] = pc[u] /\ loc'[u] = loc[u]
  /\ \A h \in Outs \ {t} : outs'[h] = outs[h]
  /\ \A h \in Ins \ {t} : ins'[h] = ins[h]

\* A set that changes for one member.
LEMMA OneMoves ==
  ASSUME NEW S, IsFiniteSet(S), NEW A \in SUBSET S, NEW B \in SUBSET S, NEW h,
         \A k \in S \ {h} : k \in A <=> k \in B
  PROVE  /\ Cardinality(A) \in Nat /\ Cardinality(B) \in Nat
         /\ Cardinality(B) = Cardinality(A) + (IF h \in B THEN 1 ELSE 0) - (IF h \in A THEN 1 ELSE 0)
         /\ h \in A => Cardinality(A) >= 1
<1>1. IsFiniteSet(A) /\ IsFiniteSet(B) BY FS_Subset
<1>2. Cardinality(A) \in Nat /\ Cardinality(B) \in Nat BY <1>1, FS_CardinalityType
<1>3. CASE h \in A /\ h \notin B
  <2>1. B = A \ {h} BY <1>3
  <2>2. Cardinality(B) = Cardinality(A) - 1 BY <1>1, <1>3, <2>1, FS_RemoveElement
  <2> QED BY <1>2, <1>3, <2>2
<1>4. CASE h \notin A /\ h \in B
  <2>1. B = A \cup {h} BY <1>4
  <2>2. Cardinality(B) = Cardinality(A) + 1 BY <1>1, <1>4, <2>1, FS_AddElement
  <2> QED BY <1>2, <1>4, <2>2
<1>5. CASE (h \in A) <=> (h \in B)
  <2>1. A = B
    <3>1. \A k : k \in A <=> k \in B BY <1>5
    <3> QED BY <3>1
  <2>2. h \in A => Cardinality(A) >= 1
    <3>1. h \in A => Cardinality(A) # 0 BY <1>1, FS_EmptySet
    <3> QED BY <1>2, <3>1
  <2> QED BY <1>2, <2>1, <2>2
<1> QED BY <1>3, <1>4, <1>5

\* The users of a stream change by what the thread that steps, and the voice trigger, do.
LEMMA HoldersChange ==
  ASSUME NEW t \in Threads, OnlyThread(t), NEW s \in Streams
  PROVE  /\ Holders(s) \in Nat
         /\ Holders(s)' = Holders(s) + (OwnUse(t, s)' - OwnUse(t, s)) + (VoiceUse(s)' - VoiceUse(s))
         /\ OwnUse(t, s) + VoiceUse(s) <= Holders(s)
         /\ OwnUse(t, s) \in Nat /\ OwnUse(t, s)' \in Nat /\ VoiceUse(s) \in {0, 1} /\ VoiceUse(s)' \in {0, 1}
<1> DEFINE O == OutsWith(s)
           I == InsWith(s)
           W == Swapping(s)
<1>0. IsFiniteSet(Outs) /\ IsFiniteSet(Ins) BY AudioHalAssumption
<1>1. /\ Cardinality(O) \in Nat /\ Cardinality(O') \in Nat
      /\ Cardinality(O') = Cardinality(O) + (IF t \in O' THEN 1 ELSE 0) - (IF t \in O THEN 1 ELSE 0)
      /\ t \in O => Cardinality(O) >= 1
  <2>1. O \in SUBSET Outs /\ O' \in SUBSET Outs BY DEF OutsWith
  <2>2. \A k \in Outs \ {t} : k \in O <=> k \in O' BY DEF OutsWith, OnlyThread
  <2> HIDE DEF O
  <2> QED BY <1>0, <2>1, <2>2, OneMoves
<1>2. /\ Cardinality(I) \in Nat /\ Cardinality(I') \in Nat
      /\ Cardinality(I') = Cardinality(I) + (IF t \in I' THEN 1 ELSE 0) - (IF t \in I THEN 1 ELSE 0)
      /\ t \in I => Cardinality(I) >= 1
  <2>1. I \in SUBSET Ins /\ I' \in SUBSET Ins BY DEF InsWith
  <2>2. \A k \in Ins \ {t} : k \in I <=> k \in I' BY DEF InsWith, OnlyThread
  <2> HIDE DEF I
  <2> QED BY <1>0, <2>1, <2>2, OneMoves
<1>3. /\ Cardinality(W) \in Nat /\ Cardinality(W') \in Nat
      /\ Cardinality(W') = Cardinality(W) + (IF t \in W' THEN 1 ELSE 0) - (IF t \in W THEN 1 ELSE 0)
      /\ t \in W => Cardinality(W) >= 1
  <2>1. W \in SUBSET Ins /\ W' \in SUBSET Ins BY DEF Swapping
  <2>2. \A k \in Ins \ {t} : k \in W <=> k \in W' BY DEF Swapping, OnlyThread, Threads
  <2> HIDE DEF W
  <2> QED BY <1>0, <2>1, <2>2, OneMoves
<1>4. /\ VoiceUse(s) \in {0, 1} /\ VoiceUse(s)' \in {0, 1} BY DEF VoiceUse
<1>5. Holders(s) = Cardinality(O) + Cardinality(I) + Cardinality(W) + VoiceUse(s)
  BY DEF Holders, VoiceUse, OutsWith, InsWith, Swapping
<1>6. Holders(s)' = Cardinality(O') + Cardinality(I') + Cardinality(W') + VoiceUse(s)'
  BY DEF Holders, VoiceUse, OutsWith, InsWith, Swapping
<1>7. OwnUse(t, s) = (IF t \in O THEN 1 ELSE 0) + (IF t \in I THEN 1 ELSE 0) + (IF t \in W THEN 1 ELSE 0)
  BY DEF OwnUse, OutsWith, InsWith, Swapping
<1>8. OwnUse(t, s)' = (IF t \in O' THEN 1 ELSE 0) + (IF t \in I' THEN 1 ELSE 0) + (IF t \in W' THEN 1 ELSE 0)
  BY DEF OwnUse, OutsWith, InsWith, Swapping
<1> HIDE DEF O, I, W
<1> QED BY <1>1, <1>2, <1>3, <1>4, <1>5, <1>6, <1>7, <1>8

\* Outside a section of adev->lock of its own, a thread does not touch the voice trigger.
LEMMA OthersKeep ==
  ASSUME Places, NEW t \in Threads, OnlyThread(t),
         active_voice_control' \in {active_voice_control, Nobody, t},
         lock \notin {t, Nobody} => /\ lock' = lock /\ voice_st' = voice_st
                                    /\ voice_trig_stream' = voice_trig_stream,
         t \in Outs => OutPlace(t)', t \in Ins => InPlace(t)', t = "policy" => PolicyPlace("policy")', VoicePlace(t)'
  PROVE  Places'
<1>0. Nobody \notin Outs \cup Ins BY AudioHalAssumption
<1>1. \A h \in Outs : OutPlace(h)'
  <2> SUFFICES ASSUME NEW h \in Outs, h # t PROVE OutPlace(h)' OBVIOUS
  <2>1. h \in Threads /\ pc'[h] = pc[h] /\ loc'[h] = loc[h] /\ outs'[h] = outs[h] BY DEF OnlyThread, Threads
  <2>2. OutPlace(h) BY DEF Places
  <2> QED BY <2>1, <2>2 DEF OutPlace
<1>2. \A h \in Ins : InPlace(h)'
  <2> SUFFICES ASSUME NEW h \in Ins, h # t PROVE InPlace(h)' OBVIOUS
  <2>1. h \in Threads /\ pc'[h] = pc[h] /\ loc'[h] = loc[h] /\ ins'[h] = ins[h] BY DEF OnlyThread, Threads
  <2>2. InPlace(h) BY DEF Places
  <2>4. active_voice_control' = h => active_voice_control = h BY <1>0
  <2> QED BY <2>1, <2>2, <2>4 DEF InPlace
<1>3. PolicyPlace("policy")'
  <2> SUFFICES ASSUME t # "policy" PROVE PolicyPlace("policy")' OBVIOUS
  <2>1. pc'["policy"] = pc["policy"] /\ loc'["policy"] = loc["policy"] BY DEF OnlyThread, Threads
  <2>2. PolicyPlace("policy") BY DEF Places
  <2> QED BY <2>1, <2>2 DEF PolicyPlace
<1>4. \A u \in Threads : VoicePlace(u)'
  <2> SUFFICES ASSUME NEW u \in Threads, u # t, loc[u].then \in {"armed", "vrelease"} PROVE VoicePlace(u)'
    BY DEF VoicePlace, OnlyThread
  <2>1. pc'[u] = pc[u] /\ loc'[u] = loc[u] BY DEF OnlyThread
  <2>2. VoicePlace(u) BY DEF Places
  <2>3. lock = u /\ u # Nobody
    <3>1. Nobody # "policy" BY DEF Nobody
    <3> QED BY <1>0, <2>2, <3>1 DEF VoicePlace, Threads
  <2>4. lock' = lock /\ voice_st' = voice_st /\ voice_trig_stream' = voice_trig_stream BY <2>3
  <2> QED BY <2>1, <2>2, <2>4 DEF VoicePlace, VoiceHolds
<1> QED BY <1>1, <1>2, <1>3, <1>4 DEF Places

\* Nobody's locals, and a route that is about to be applied.
LEMMA NoLocalsTyped == NoRoute \in Route /\ NoLocals \in LocalSet
<1>1. NoRoute \in Route BY DEF NoRoute, Route
<1> QED BY <1>1 DEF NoLocals, LocalSet, VoiceStates, Sources

\* A step of one thread that leaves the voice trigger alone: what it adds to or takes from the users
\* of a stream is what it adds to or takes from the count.
LEMMA PlainStep ==
  ASSUME HalInv, NEW t \in Threads, NEW l \in Labels, NEW x \in LocalSet,
         pc' = [pc EXCEPT ![t] = l], loc' = [loc EXCEPT ![t] = x],
         UNCHANGED <<voice_st, voice_trig_stream, active_voice_control>>,
         lock \notin {t, Nobody} => lock' = lock, lock' \in Threads \cup {Nobody},
         outs' \in [Outs -> OutHandle], \A h \in Outs \ {t} : outs'[h] = outs[h],
         t \in Outs => outs'[t].open = (outs'[t].hw \in Streams),
         ins' \in [Ins -> InHandle], \A h \in Ins \ {t} : ins'[h] = ins[h],
         t \in Ins => (ins'[t].hw # NULL => ins'[t].open),
         x.then = "armed" <=> loc[t].then = "armed", loc[t].then = "vrelease" => x.then = "vrelease",
         t \in Outs => OutPlace(t)', t \in Ins => InPlace(t)', t = "policy" => PolicyPlace("policy")', VoicePlace(t)',
         cm' \in Manager,
         \A s \in Streams : cm'.ref_count[s] = cm.ref_count[s] + (OwnUse(t, s)' - OwnUse(t, s)),
         \A s \in Streams : cm'.current_devices[s] # {} => cm'.ref_count[s] > 0
  PROVE  HalInv'
<1>0. HalTypes /\ Places /\ Counted /\ CaptureHasOwner BY DEF HalInv
<1>1. \A u \in Threads : pc'[u] = (IF u = t THEN l ELSE pc[u]) /\ loc'[u] = (IF u = t THEN x ELSE loc[u])
  BY <1>0 DEF HalTypes
<1>2. OnlyThread(t) BY <1>1 DEF OnlyThread
<1>3. HalTypes'
  <2>1. pc' \in [Threads -> Labels] /\ loc' \in [Threads -> LocalSet] BY <1>0 DEF HalTypes
  <2>2. \A h \in Outs : outs'[h].open = (outs'[h].hw \in Streams)
    <3>1. \A h \in Outs : outs[h].open = (outs[h].hw \in Streams) BY <1>0 DEF HalTypes
    <3> QED BY <3>1, Zenon
  <2>3. \A h \in Ins : ins'[h].hw # NULL => ins'[h].open BY <1>0 DEF HalTypes
  <2>4. voice_st' \in VoiceStates /\ voice_trig_stream' \in Streams \cup {NULL} /\ active_voice_control' \in Ins \cup {Nobody}
    BY <1>0 DEF HalTypes
  <2> QED BY <2>1, <2>2, <2>3, <2>4 DEF HalTypes
<1>4. Places' BY <1>0, <1>2, OthersKeep
<1>5. (Opening' <=> Opening) /\ (VoiceHolds' <=> VoiceHolds)
  <2>1. \A u \in Threads : loc'[u].then = "armed" <=> loc[u].then = "armed" BY <1>1
  <2> QED BY <2>1 DEF Opening, VoiceHolds
<1>6. \A s \in Streams : VoiceUse(s)' = VoiceUse(s) BY <1>5 DEF VoiceUse
<1>7. Counted'
  <2>1. \A s \in Streams : cm.ref_count[s] \in Nat /\ cm'.ref_count[s] \in Nat BY <1>0 DEF HalTypes, Manager
  <2>2. \A s \in Streams : /\ Holders(s)' = Holders(s) + (OwnUse(t, s)' - OwnUse(t, s))
                           /\ Holders(s) \in Nat /\ OwnUse(t, s) \in Nat /\ OwnUse(t, s)' \in Nat
    <3> SUFFICES ASSUME NEW s \in Streams
                 PROVE  /\ Holders(s)' = Holders(s) + (OwnUse(t, s)' - OwnUse(t, s))
                        /\ Holders(s) \in Nat /\ OwnUse(t, s) \in Nat /\ OwnUse(t, s)' \in Nat
      OBVIOUS
    <3>1. /\ Holders(s) \in Nat
          /\ Holders(s)' = Holders(s) + (OwnUse(t, s)' - OwnUse(t, s)) + (VoiceUse(s)' - VoiceUse(s))
          /\ OwnUse(t, s) \in Nat /\ OwnUse(t, s)' \in Nat /\ VoiceUse(s) \in {0, 1}
      BY <1>2, HoldersChange
    <3>2. VoiceUse(s)' - VoiceUse(s) = 0 BY <1>6, <3>1
    <3> QED BY SMTT(30), <3>1, <3>2
  <2>3. \A s \in Streams : cm'.ref_count[s] >= Holders(s)' BY SMTT(30), <1>0, <2>1, <2>2 DEF Counted
  <2>4. NoTriggerOnly => \A s \in Streams : cm'.ref_count[s] = Holders(s)' BY Zenon, <1>0, <2>1, <2>2 DEF Counted, RefsExact
  <2>5. RoutedMeansHeld' BY DEF RoutedMeansHeld
  <2>6. NoTriggerOnly => voice_st' \notin {"TriggerIdle", "TriggerArmed", "TriggerFired"} /\ (Opening' => ~ VoiceHolds')
    BY <1>0, <1>5 DEF Counted
  <2> QED BY <2>3, <2>4, <2>5, <2>6 DEF Counted, RefsExact
<1>8. CaptureHasOwner'
  <2> SUFFICES ASSUME voice_st \in {"RecogAudio", "RecogReArm"}
               PROVE  \/ active_voice_control \in {h \in Ins : ins'[h].open}
                      \/ \E h \in Ins : loc'[h].then = "vrelease"
    BY DEF CaptureHasOwner
  <2>1. CASE active_voice_control \in Ins
    <3>1. InPlace(active_voice_control)' BY <1>4, <2>1 DEF Places
    <3>2. ins'[active_voice_control].open BY <3>1 DEF InPlace
    <3> QED BY <2>1, <3>2
  <2>2. ASSUME NEW h \in Ins, loc[h].then = "vrelease" PROVE loc'[h].then = "vrelease"
    BY <1>1, <2>2 DEF Threads
  <2> QED BY <1>0, <2>1, <2>2 DEF CaptureHasOwner
<1> QED BY <1>3, <1>4, <1>7, <1>8 DEF HalInv

\* A handle's thread is neither another handle's nor the policy's.
LEMMA WhoIs ==
  /\ \A h \in Outs : h \in Threads /\ h \notin Ins /\ h # "policy" /\ h # Nobody
  /\ \A h \in Ins : h \in Threads /\ h \notin Outs /\ h # "policy" /\ h # Nobody
  /\ "policy" \in Threads /\ "policy" \notin Outs /\ "policy" \notin Ins /\ "policy" # Nobody
BY AudioHalAssumption DEF Threads, Nobody

\* In the state before a step, for the thread that takes it.
LEMMA Before ==
  ASSUME HalInv, NEW t \in Threads
  PROVE  /\ cm \in Manager /\ pc[t] \in Labels /\ loc[t] \in LocalSet
         /\ pc = [pc EXCEPT ![t] = pc[t]] /\ loc = [loc EXCEPT ![t] = loc[t]]
         /\ outs \in [Outs -> OutHandle] /\ ins \in [Ins -> InHandle]
         /\ \A s \in Streams : cm.ref_count[s] \in Nat /\ cm.current_devices[s] \in SUBSET Bits
         /\ \A s \in Streams : cm.current_devices[s] # {} => cm.ref_count[s] > 0
         /\ t \in Outs => OutPlace(t) /\ outs[t] \in OutHandle /\ outs[t].open = (outs[t].hw \in Streams)
         /\ t \in Ins => InPlace(t) /\ ins[t] \in InHandle /\ (ins[t].hw # NULL => ins[t].open)
         /\ t = "policy" => PolicyPlace(t)
         /\ VoicePlace(t)
         /\ lock \in Threads \cup {Nobody}
<1>1. HalTypes /\ Places /\ RoutedMeansHeld BY DEF HalInv, Counted
<1>2. pc = [pc EXCEPT ![t] = pc[t]] /\ loc = [loc EXCEPT ![t] = loc[t]] BY <1>1 DEF HalTypes
<1>3. /\ cm \in Manager /\ pc[t] \in Labels /\ loc[t] \in LocalSet
      /\ outs \in [Outs -> OutHandle] /\ ins \in [Ins -> InHandle] /\ lock \in Threads \cup {Nobody}
  BY <1>1 DEF HalTypes
<1>4. \A s \in Streams : cm.ref_count[s] \in Nat /\ cm.current_devices[s] \in SUBSET Bits BY <1>3 DEF Manager
<1>5. \A s \in Streams : cm.current_devices[s] # {} => cm.ref_count[s] > 0 BY <1>1 DEF RoutedMeansHeld
<1>6. t \in Outs => OutPlace(t) /\ outs[t] \in OutHandle /\ outs[t].open = (outs[t].hw \in Streams)
  BY <1>1, <1>3, Zenon DEF HalTypes, Places
<1>7. t \in Ins => InPlace(t) /\ ins[t] \in InHandle /\ (ins[t].hw # NULL => ins[t].open)
  BY <1>1, <1>3 DEF HalTypes, Places
<1>8. VoicePlace(t) /\ (t = "policy" => PolicyPlace(t)) BY <1>1 DEF Places
<1> QED BY <1>2, <1>3, <1>4, <1>5, <1>6, <1>7, <1>8

\* What a thread uses is counted.
LEMMA UsedIsCounted ==
  ASSUME HalInv, NEW t \in Threads, NEW s \in Streams, OwnUse(t, s) >= 1 \/ VoiceUse(s) = 1, OnlyThread(t)
  PROVE  cm.ref_count[s] > 0
<1>1. /\ Holders(s) \in Nat /\ OwnUse(t, s) + VoiceUse(s) <= Holders(s)
      /\ OwnUse(t, s) \in Nat /\ VoiceUse(s) \in {0, 1}
  BY HoldersChange
<1>2. cm.ref_count[s] \in Nat /\ cm.ref_count[s] >= Holders(s) BY Before DEF HalInv, Counted
<1> QED BY <1>1, <1>2

\* The output is written, or put to standby.
LEMMA OutPcmStep ==
  ASSUME HalInv, NEW h \in Outs, out_pcm_write(h) \/ out_pcm_standby(h)
  PROVE  HalInv'
<1>0. h \in Threads /\ h \notin Ins /\ h # "policy" BY WhoIs
<1>1. PICK b \in BOOLEAN : outs' = [outs EXCEPT ![h].standby = b] BY DEF out_pcm_write, out_pcm_standby
<1>2. UNCHANGED <<cm, ins, voice, lock, pc, loc>> BY DEF out_pcm_write, out_pcm_standby
<1>3. outs[h] \in OutHandle /\ outs \in [Outs -> OutHandle] BY <1>0, Before
<1>4. /\ outs' \in [Outs -> OutHandle] /\ \A k \in Outs \ {h} : outs'[k] = outs[k]
      /\ outs'[h].open = outs[h].open /\ outs'[h].hw = outs[h].hw
  BY <1>1, <1>3 DEF OutHandle
<1>5. outs'[h].open = (outs'[h].hw \in Streams)
  <2>1. outs[h].open = (outs[h].hw \in Streams) BY <1>0, Before
  <2> QED BY <1>4, <2>1, Zenon
<1>6. OutPlace(h)' BY <1>0, <1>2, <1>4, Before DEF OutPlace
<1>7. VoicePlace(h)' BY <1>0, <1>2, Before DEF VoicePlace, VoiceHolds, voice
<1>8. \A s \in Streams : OwnUse(h, s)' = OwnUse(h, s) BY <1>2, <1>4 DEF OwnUse
<1>9. \A s \in Streams : OwnUse(h, s) \in Nat BY DEF OwnUse
<1>10. /\ cm' \in Manager
       /\ \A s \in Streams : cm'.ref_count[s] = cm.ref_count[s] + (OwnUse(h, s)' - OwnUse(h, s))
       /\ \A s \in Streams : cm'.current_devices[s] # {} => cm'.ref_count[s] > 0
  BY <1>0, <1>2, <1>8, <1>9, Before
<1>11. /\ pc[h] \in Labels /\ loc[h] \in LocalSet /\ pc' = [pc EXCEPT ![h] = pc[h]] /\ loc' = [loc EXCEPT ![h] = loc[h]]
       /\ ins' \in [Ins -> InHandle] /\ ins' = ins /\ lock' = lock /\ lock' \in Threads \cup {Nobody}
       /\ UNCHANGED <<voice_st, voice_trig_stream, active_voice_control>>
  BY <1>0, <1>2, Before DEF voice
<1> QED BY <1>0, <1>4, <1>5, <1>6, <1>7, <1>10, <1>11, PlainStep

\* The same for an input.
LEMMA InPcmStep ==
  ASSUME HalInv, NEW h \in Ins, in_pcm_read(h) \/ in_pcm_standby(h) \/ adev_open_input_stream(h)
  PROVE  HalInv'
<1>0. h \in Threads /\ h \notin Outs /\ h # "policy" BY WhoIs
<1>1. UNCHANGED <<cm, outs, voice, lock, pc, loc>> /\ pc[h] = "idle"
  BY DEF in_pcm_read, in_pcm_standby, adev_open_input_stream
<1>2. ins[h] \in InHandle /\ ins \in [Ins -> InHandle] /\ (ins[h].hw # NULL => ins[h].open) BY <1>0, Before
<1>3. /\ ins' \in [Ins -> InHandle] /\ \A k \in Ins \ {h} : ins'[k] = ins[k]
      /\ ins'[h].hw = ins[h].hw /\ (ins[h].open => ins'[h].open)
  <2>1. CASE in_pcm_read(h) \/ in_pcm_standby(h)
    <3>1. PICK b \in BOOLEAN : ins' = [ins EXCEPT ![h].standby = b] BY <2>1 DEF in_pcm_read, in_pcm_standby
    <3> QED BY <1>2, <3>1 DEF InHandle
  <2>2. CASE adev_open_input_stream(h)
    <3> DEFINE n == [ClosedIn EXCEPT !.open = TRUE]
    <3>1. n \in InHandle /\ n.open = TRUE /\ n.hw = NULL
      <4>1. ClosedIn \in InHandle /\ ClosedIn.hw = NULL BY DEF ClosedIn, InHandle, Sources
      <4> QED BY <4>1 DEF InHandle
    <3>2. ins' = [ins EXCEPT ![h] = n] /\ ~ ins[h].open BY <2>2 DEF adev_open_input_stream
    <3> HIDE DEF n
    <3>3. ins[h].hw = NULL BY <1>2, <3>2
    <3> QED BY <1>2, <3>1, <3>2, <3>3
  <2> QED BY <2>1, <2>2
<1>4. ins'[h].hw # NULL => ins'[h].open BY <1>2, <1>3
<1>5. InPlace(h)'
  <2>1. InPlace(h) BY <1>0, Before
  <2>2. loc[h].then = "idle" BY <1>1, <2>1 DEF InPlace
  <2>3. active_voice_control' = h => ins'[h].open BY <1>1, <1>3, <2>1 DEF InPlace, voice
  <2> QED BY <1>1, <2>2, <2>3 DEF InPlace, Routing
<1>6. VoicePlace(h)' BY <1>0, <1>1, Before DEF VoicePlace, VoiceHolds, voice
<1>7. \A s \in Streams : OwnUse(h, s)' = OwnUse(h, s) BY <1>1, <1>3 DEF OwnUse
<1>8. \A s \in Streams : OwnUse(h, s) \in Nat BY DEF OwnUse
<1>9. /\ cm' \in Manager
      /\ \A s \in Streams : cm'.ref_count[s] = cm.ref_count[s] + (OwnUse(h, s)' - OwnUse(h, s))
      /\ \A s \in Streams : cm'.current_devices[s] # {} => cm'.ref_count[s] > 0
  BY <1>0, <1>1, <1>7, <1>8, Before
<1>10. /\ pc[h] \in Labels /\ loc[h] \in LocalSet /\ pc' = [pc EXCEPT ![h] = pc[h]] /\ loc' = [loc EXCEPT ![h] = loc[h]]
       /\ outs' \in [Outs -> OutHandle] /\ outs' = outs /\ lock' = lock /\ lock' \in Threads \cup {Nobody}
       /\ UNCHANGED <<voice_st, voice_trig_stream, active_voice_control>>
  BY <1>0, <1>1, Before DEF voice
<1> QED BY <1>0, <1>3, <1>4, <1>5, <1>6, <1>9, <1>10, PlainStep

\* The locals of a thread about to call apply_route(s, devices), and go to then after it.
RouteLocals(l, s, devices, then) == [l EXCEPT !.route = [NoRoute EXCEPT !.s = s, !.devices = devices], !.then = then]

\* They have their types.
LEMMA RouteLocalsTyped ==
  ASSUME NEW l \in LocalSet, NEW s \in Streams, NEW devices \in SUBSET Bits,
         NEW then \in {"finish", "armed", "vrelease"}
  PROVE  LET x == RouteLocals(l, s, devices, then)
         IN x \in LocalSet /\ x.route.s = s /\ x.then = then /\ x.st = l.st /\ x.cont = l.cont /\ x.hw = l.hw
<1> DEFINE r == [NoRoute EXCEPT !.s = s, !.devices = devices]
           x == [l EXCEPT !.route = r, !.then = then]
<1>1. RouteLocals(l, s, devices, then) = x BY DEF RouteLocals
<1>2. r \in Route /\ r.s = s BY NoLocalsTyped DEF Route
<1> HIDE DEF r
<1>3. x \in LocalSet /\ x.route = r /\ x.then = then /\ x.st = l.st /\ x.cont = l.cont /\ x.hw = l.hw
  BY <1>2 DEF LocalSet
<1> HIDE DEF x
<1> QED BY <1>1, <1>2, <1>3

\* The route of a call that ends with it.
LEMMA FinishLocals ==
  ASSUME NEW s \in Streams, NEW m \in SUBSET Bits
  PROVE  \E x \in LocalSet : x = RouteLocals(NoLocals, s, m, "finish") /\ x.route.s = s /\ x.then = "finish"
BY NoLocalsTyped, RouteLocalsTyped

\* A handle without a stream is closed.
LEMMA ClosedHasNone ==
  ASSUME NEW a \in BOOLEAN, NEW b, NEW S, ~ a, b \notin S
  PROVE  a = (b \in S)
OBVIOUS

\* An output is opened on a stream that was found: one user more.
LEMMA OpenOutStep ==
  ASSUME HalInv, NEW h \in Outs, NEW m \in OutRoutes, adev_open_output_stream(h, m)
  PROVE  HalInv'
<1> DEFINE s == get_stream(cm, m)
           o == [open |-> TRUE, hw |-> s, standby |-> TRUE]
<1>0. h \in Threads /\ h \notin Ins /\ h # "policy" BY WhoIs
<1>1. /\ pc[h] = "idle" /\ ~ outs[h].open /\ s # NULL /\ cm' = open_stream_l(cm, s)
      /\ outs' = [outs EXCEPT ![h] = o] /\ RouteNext(h, NoLocals, s, m, "finish")
      /\ UNCHANGED <<ins, voice, lock>>
  BY DEF adev_open_output_stream
<1>2. s \in Streams BY <1>1, FoundIsStream
<1>3. o \in OutHandle /\ o.open = TRUE /\ o.hw = s BY <1>2 DEF OutHandle
<1> HIDE DEF s, o
<1>4. m \in SUBSET Bits BY AudioHalAssumption
<1>5. PICK x \in LocalSet : /\ pc' = [pc EXCEPT ![h] = "read"] /\ loc' = [loc EXCEPT ![h] = x]
                            /\ x.route.s = s /\ x.then = "finish"
  <2>1. pc' = [pc EXCEPT ![h] = "read"] /\ loc' = [loc EXCEPT ![h] = RouteLocals(NoLocals, s, m, "finish")]
    BY <1>1 DEF RouteNext, Goto, Locals, RouteLocals
  <2> QED BY <1>2, <1>4, <2>1, FinishLocals
<1>6. /\ cm \in Manager /\ loc[h] \in LocalSet /\ outs \in [Outs -> OutHandle] /\ ins \in [Ins -> InHandle]
      /\ outs[h].open = (outs[h].hw \in Streams) /\ loc[h].then = "idle" /\ lock \in Threads \cup {Nobody}
  <2>1. OutPlace(h) BY <1>0, Before
  <2> QED BY <1>0, <1>1, <2>1, Before DEF OutPlace
<1>7. outs[h].hw \notin Streams BY <1>1, <1>6
<1>8. /\ outs' \in [Outs -> OutHandle] /\ outs'[h] = o /\ \A k \in Outs \ {h} : outs'[k] = outs[k]
  BY <1>1, <1>3, <1>6
<1>9. pc'[h] = "read" /\ loc'[h] = x /\ "read" \in Labels
  <2>1. HalTypes BY DEF HalInv
  <2> QED BY <1>0, <1>5, <2>1 DEF HalTypes, Labels
<1>10. OutPlace(h)' BY <1>3, <1>5, <1>8, <1>9 DEF OutPlace, Routing
<1>11. VoicePlace(h)' BY <1>5, <1>9 DEF VoicePlace
<1>12. \A r \in Streams : OwnUse(h, r)' = (IF r = s THEN 1 ELSE 0) /\ OwnUse(h, r) = 0
  BY <1>0, <1>3, <1>7, <1>8 DEF OwnUse
<1>13. /\ cm' \in Manager /\ cm'.ref_count = [cm.ref_count EXCEPT ![s] = cm.ref_count[s] + 1]
       /\ cm'.current_devices = cm.current_devices
  BY <1>1, <1>2, <1>6, OpenKeeps
<1>14. /\ \A r \in Streams : cm.ref_count[r] \in Nat /\ (cm.current_devices[r] # {} => cm.ref_count[r] > 0)
       /\ cm.ref_count \in [Streams -> Nat]
  <2>1. cm.ref_count \in [Streams -> Nat] BY <1>6 DEF Manager
  <2> QED BY <1>0, <2>1, Before
<1>15. \A r \in Streams : cm'.ref_count[r] = cm.ref_count[r] + (OwnUse(h, r)' - OwnUse(h, r))
  BY <1>2, <1>12, <1>13, <1>14
<1>16. \A r \in Streams : cm'.current_devices[r] # {} => cm'.ref_count[r] > 0 BY <1>2, <1>13, <1>14
<1>17. outs'[h].open = (outs'[h].hw \in Streams) BY <1>2, <1>3, <1>8, Zenon
<1>18. x.then # "armed" /\ loc[h].then \notin {"armed", "vrelease"} BY <1>5, <1>6
<1>19. /\ UNCHANGED <<voice_st, voice_trig_stream, active_voice_control>> /\ lock' = lock
       /\ lock' \in Threads \cup {Nobody} /\ ins' = ins /\ ins' \in [Ins -> InHandle]
  BY <1>1, <1>6 DEF voice
<1> QED BY <1>0, <1>5, <1>8, <1>9, <1>10, <1>11, <1>13, <1>15, <1>16, <1>17, <1>18, <1>19, PlainStep

\* An output is closed: one user less.
LEMMA CloseOutStep ==
  ASSUME HalInv, NEW h \in Outs, adev_close_output_stream(h)
  PROVE  HalInv'
<1> DEFINE s == outs[h].hw
<1>0. h \in Threads /\ h \notin Ins /\ h # "policy" BY WhoIs
<1>1. /\ pc[h] = "idle" /\ outs[h].open /\ cm' = release_stream(cm, s) /\ outs' = [outs EXCEPT ![h] = ClosedOut]
      /\ UNCHANGED <<ins, voice, lock, pc, loc>>
  BY DEF adev_close_output_stream
<1>2. /\ cm \in Manager /\ pc[h] \in Labels /\ loc[h] \in LocalSet /\ outs \in [Outs -> OutHandle]
      /\ ins \in [Ins -> InHandle] /\ lock \in Threads \cup {Nobody}
      /\ pc = [pc EXCEPT ![h] = pc[h]] /\ loc = [loc EXCEPT ![h] = loc[h]] /\ OutPlace(h) /\ VoicePlace(h)
  BY <1>0, Before
<1>3. s \in Streams
  <2>1. outs[h].open = (outs[h].hw \in Streams) BY <1>0, Before
  <2> QED BY <1>1, <2>1
<1>4. OnlyThread(h) BY <1>1, <1>2 DEF OnlyThread
<1>5. OwnUse(h, s) >= 1 BY <1>0 DEF OwnUse
<1> HIDE DEF s
<1>6. cm.ref_count[s] > 0 BY <1>0, <1>3, <1>4, <1>5, UsedIsCounted
<1>7. /\ cm' \in Manager /\ cm'.ref_count = [cm.ref_count EXCEPT ![s] = cm.ref_count[s] - 1]
      /\ cm'.current_devices = IF cm.ref_count[s] = 1 THEN [cm.current_devices EXCEPT ![s] = {}] ELSE cm.current_devices
  BY <1>1, <1>2, <1>3, <1>6, ReleaseKeeps
<1>8. ClosedOut \in OutHandle /\ ClosedOut.open = FALSE /\ ClosedOut.hw = NULL BY DEF ClosedOut, OutHandle
<1>9. /\ outs' \in [Outs -> OutHandle] /\ outs'[h] = ClosedOut /\ \A k \in Outs \ {h} : outs'[k] = outs[k]
  BY <1>1, <1>2, <1>8
<1>10. \A r \in Streams : OwnUse(h, r)' = 0 /\ OwnUse(h, r) = (IF r = s THEN 1 ELSE 0)
  BY <1>0, <1>8, <1>9, NullIsNoStream DEF OwnUse, s
<1>11. /\ \A r \in Streams : cm.ref_count[r] \in Nat /\ (cm.current_devices[r] # {} => cm.ref_count[r] > 0)
       /\ cm.ref_count \in [Streams -> Nat] /\ cm.current_devices \in [Streams -> SUBSET Bits]
  <2>1. cm.ref_count \in [Streams -> Nat] /\ cm.current_devices \in [Streams -> SUBSET Bits] BY <1>2 DEF Manager
  <2> QED BY <1>0, <2>1, Before
<1>12. \A r \in Streams : cm'.ref_count[r] = cm.ref_count[r] + (OwnUse(h, r)' - OwnUse(h, r))
  BY <1>3, <1>7, <1>10, <1>11
<1>13. \A r \in Streams : cm'.current_devices[r] # {} => cm'.ref_count[r] > 0
  <2>1. \A r \in Streams \ {s} : cm'.current_devices[r] = cm.current_devices[r] /\ cm'.ref_count[r] = cm.ref_count[r]
    BY <1>3, <1>7, <1>11
  <2>2. cm.ref_count[s] \in Nat BY <1>3, <1>11
  <2>3. cm'.ref_count[s] = cm.ref_count[s] - 1 BY <1>3, <1>7, <1>11
  <2>4. cm.ref_count[s] = 1 => cm'.current_devices[s] = {} BY <1>3, <1>7, <1>11
  <2>5. cm'.current_devices[s] # {} => cm'.ref_count[s] > 0 BY <1>6, <2>2, <2>3, <2>4
  <2> QED BY <1>11, <2>1, <2>5
<1>14. outs'[h].open = (outs'[h].hw \in Streams)
  <2>1. outs'[h].open \in BOOLEAN /\ ~ outs'[h].open /\ outs'[h].hw \notin Streams BY <1>8, <1>9, NullIsNoStream
  <2> QED BY <2>1, ClosedHasNone
<1>15. OutPlace(h)' BY <1>1, <1>2 DEF OutPlace, Routing
<1>16. VoicePlace(h)' BY <1>1, <1>2 DEF VoicePlace, VoiceHolds, voice
<1>17. /\ UNCHANGED <<voice_st, voice_trig_stream, active_voice_control>> /\ lock' = lock
       /\ lock' \in Threads \cup {Nobody} /\ ins' = ins /\ ins' \in [Ins -> InHandle]
       /\ pc' = [pc EXCEPT ![h] = pc[h]] /\ loc' = [loc EXCEPT ![h] = loc[h]]
  BY <1>1, <1>2 DEF voice
<1> QED BY <1>0, <1>2, <1>7, <1>9, <1>12, <1>13, <1>14, <1>15, <1>16, <1>17, PlainStep

\* A step that moves its thread and changes no stream, no handle and no lock of another.
LEMMA MoveStep ==
  ASSUME HalInv, NEW t \in Threads, NEW l \in Labels, NEW x \in LocalSet,
         pc' = [pc EXCEPT ![t] = l], loc' = [loc EXCEPT ![t] = x],
         UNCHANGED <<cm, outs, ins, voice_st, voice_trig_stream, active_voice_control>>,
         lock \notin {t, Nobody} => lock' = lock, lock' \in Threads \cup {Nobody},
         pc[t] # "swap", l # "swap",
         x.then = "armed" <=> loc[t].then = "armed", loc[t].then = "vrelease" => x.then = "vrelease",
         t \in Outs => OutPlace(t)', t \in Ins => InPlace(t)', t = "policy" => PolicyPlace("policy")', VoicePlace(t)'
  PROVE  HalInv'
<1>1. pc'[t] = l
  <2>1. HalTypes BY DEF HalInv
  <2> QED BY <2>1 DEF HalTypes
<1>2. \A s \in Streams : OwnUse(t, s)' = OwnUse(t, s) /\ OwnUse(t, s) \in Nat BY <1>1 DEF OwnUse
<1>3. /\ cm' \in Manager
      /\ \A s \in Streams : cm'.ref_count[s] = cm.ref_count[s] + (OwnUse(t, s)' - OwnUse(t, s))
      /\ \A s \in Streams : cm'.current_devices[s] # {} => cm'.ref_count[s] > 0
  BY <1>2, Before
<1>4. /\ outs' \in [Outs -> OutHandle] /\ ins' \in [Ins -> InHandle] /\ outs' = outs /\ ins' = ins
      /\ t \in Ins => (ins'[t].hw # NULL => ins'[t].open)
  BY Before
<1>5. t \in Outs => outs'[t].open = (outs'[t].hw \in Streams)
  <2>1. t \in Outs => outs[t].open = (outs[t].hw \in Streams) BY Before
  <2> QED BY <1>4, <2>1, Zenon
<1> QED BY <1>3, <1>4, <1>5, PlainStep

\* An output is routed under adev->lock.
LEMMA OutParametersStep ==
  ASSUME HalInv, NEW h \in Outs, NEW m \in OutRoutes, out_set_parameters(h, m)
  PROVE  HalInv'
<1>0. h \in Threads /\ h \notin Ins /\ h # "policy" BY WhoIs
<1>1. /\ pc[h] = "idle" /\ outs[h].open /\ lock = Nobody /\ lock' = h
      /\ RouteNext(h, NoLocals, outs[h].hw, m, "finish") /\ UNCHANGED <<cm, outs, ins, voice>>
  BY DEF out_set_parameters
<1>2. m \in SUBSET Bits BY AudioHalAssumption
<1>3. outs[h].hw \in Streams
  <2>1. outs[h].open = (outs[h].hw \in Streams) BY <1>0, Before
  <2> QED BY <1>1, <2>1
<1>4. PICK x \in LocalSet : /\ pc' = [pc EXCEPT ![h] = "read"] /\ loc' = [loc EXCEPT ![h] = x]
                            /\ x.route.s = outs[h].hw /\ x.then = "finish"
  <2>1. pc' = [pc EXCEPT ![h] = "read"] /\ loc' = [loc EXCEPT ![h] = RouteLocals(NoLocals, outs[h].hw, m, "finish")]
    BY <1>1 DEF RouteNext, Goto, Locals, RouteLocals
  <2> QED BY <1>2, <1>3, <2>1, FinishLocals
<1>5. pc'[h] = "read" /\ loc'[h] = x /\ "read" \in Labels
  <2>1. HalTypes BY DEF HalInv
  <2> QED BY <1>0, <1>4, <2>1 DEF HalTypes, Labels
<1>6. loc[h].then = "idle"
  <2>1. OutPlace(h) BY <1>0, Before
  <2> QED BY <1>1, <2>1 DEF OutPlace
<1>7. OutPlace(h)' BY <1>1, <1>4, <1>5 DEF OutPlace, Routing
<1>8. VoicePlace(h)' BY <1>4, <1>5 DEF VoicePlace
<1>9. UNCHANGED <<voice_st, voice_trig_stream, active_voice_control>> BY <1>1 DEF voice
<1> QED BY <1>0, <1>1, <1>4, <1>5, <1>6, <1>7, <1>8, <1>9, MoveStep
=============================================================================
