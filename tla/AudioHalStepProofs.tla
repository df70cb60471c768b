------------------------- MODULE AudioHalStepProofs -------------------------
(***************************************************************************)
(* The calls on an input and apply_route keep the invariant of             *)
(* AudioHalLemmas; and what a step in a section of adev->lock has to keep, *)
(* which may open or close the voice trigger's stream (VoiceStep).         *)
(***************************************************************************)
EXTENDS AudioHalLemmas

\* Who may take adev->lock, or has it, is the only one that switches the voice trigger.
LEMMA AloneWithLock ==
  ASSUME HalInv, NEW t \in Threads, lock \in {t, Nobody}
  PROVE  /\ \A u \in Threads \ {t} : loc[u].then \notin {"armed", "vrelease"}
         /\ Opening <=> loc[t].then = "armed"
<1>0. Nobody \notin Threads BY AudioHalAssumption DEF Threads, Nobody
<1>1. \A u \in Threads : VoicePlace(u) BY DEF HalInv, Places
<1>2. \A u \in Threads \ {t} : loc[u].then \notin {"armed", "vrelease"} BY <1>0, <1>1 DEF VoicePlace
<1> QED BY <1>2 DEF Opening

\* Whether the voice trigger uses stream s, as far as thread t knows.
VoiceOwn(t, s) == IF voice_trig_stream = s /\ (loc[t].then = "armed" \/ VoiceHolds) THEN 1 ELSE 0

\* A step that may switch the voice trigger, in a section of adev->lock.
LEMMA VoiceStep ==
  ASSUME HalInv, NEW t \in Threads, NEW l \in Labels, NEW x \in LocalSet,
         pc' = [pc EXCEPT ![t] = l], loc' = [loc EXCEPT ![t] = x],
         lock \in {t, Nobody}, lock' \in Threads \cup {Nobody}, outs' = outs,
         ins' \in [Ins -> InHandle], \A h \in Ins \ {t} : ins'[h] = ins[h],
         t \in Ins => (ins'[t].hw # NULL => ins'[t].open),
         voice_st' \in VoiceStates, voice_trig_stream' \in Streams \cup {NULL},
         active_voice_control' \in Ins \cup {Nobody}, active_voice_control' \in {active_voice_control, Nobody, t},
         t \in Outs => OutPlace(t)', t \in Ins => InPlace(t)', t = "policy" => PolicyPlace("policy")', VoicePlace(t)',
         cm' \in Manager,
         \A s \in Streams : cm'.ref_count[s] >= cm.ref_count[s] + (OwnUse(t, s)' - OwnUse(t, s)) + (VoiceOwn(t, s)' - VoiceOwn(t, s)),
         NoTriggerOnly =>
           /\ \A s \in Streams : cm'.ref_count[s] = cm.ref_count[s] + (OwnUse(t, s)' - OwnUse(t, s)) + (VoiceOwn(t, s)' - VoiceOwn(t, s))
           /\ voice_st' \notin {"TriggerIdle", "TriggerArmed", "TriggerFired"}
           /\ x.then = "armed" => ~ VoiceHolds',
         \A s \in Streams : cm'.current_devices[s] # {} => cm'.ref_count[s] > 0,
         CaptureHasOwner'
  PROVE  HalInv'
<1>0. HalTypes /\ Places /\ Counted /\ CaptureHasOwner BY DEF HalInv
<1>1. \A u \in Threads : pc'[u] = (IF u = t THEN l ELSE pc[u]) /\ loc'[u] = (IF u = t THEN x ELSE loc[u])
  BY <1>0 DEF HalTypes
<1>2. OnlyThread(t) BY <1>1 DEF OnlyThread
<1>3. HalTypes'
  <2>1. pc' \in [Threads -> Labels] /\ loc' \in [Threads -> LocalSet] BY <1>0 DEF HalTypes
  <2>2. \A h \in Outs : outs'[h].open = (outs'[h].hw \in Streams)
    <3>1. \A h \in Outs : outs[h].open = (outs[h].hw \in Streams) BY <1>0 DEF HalTypes
    <3> QED BY <3>1, Zenon
  <2>3. \A h \in Ins : ins'[h].hw # NULL => ins'[h].open BY <1>0 DEF HalTypes
  <2>4. outs' \in [Outs -> OutHandle] BY <1>0 DEF HalTypes
  <2> QED BY <2>1, <2>2, <2>3, <2>4 DEF HalTypes
<1>4. Places' BY <1>0, <1>2, OthersKeep
<1>5. (Opening <=> loc[t].then = "armed") /\ (Opening' <=> x.then = "armed")
  <2>1. (Opening <=> loc[t].then = "armed") /\ \A u \in Threads \ {t} : loc[u].then \notin {"armed", "vrelease"}
    BY AloneWithLock
  <2> QED BY SMTT(30), <1>1, <2>1 DEF Opening
<1>6. \A s \in Streams : VoiceUse(s) = VoiceOwn(t, s) /\ VoiceUse(s)' = VoiceOwn(t, s)'
  <2> SUFFICES ASSUME NEW s \in Streams PROVE VoiceUse(s) = VoiceOwn(t, s) /\ VoiceUse(s)' = VoiceOwn(t, s)' OBVIOUS
  <2>1. VoiceUse(s) = VoiceOwn(t, s) BY <1>1, <1>5 DEF VoiceUse, VoiceOwn
  <2>2. VoiceUse(s)' = VoiceOwn(t, s)' BY <1>1, <1>5 DEF VoiceUse, VoiceOwn
  <2> QED BY <2>1, <2>2
<1>7. Counted'
  <2>1. \A s \in Streams : cm.ref_count[s] \in Nat /\ cm'.ref_count[s] \in Nat BY <1>0 DEF HalTypes, Manager
  <2>2. \A s \in Streams : /\ Holders(s)' = Holders(s) + (OwnUse(t, s)' - OwnUse(t, s)) + (VoiceOwn(t, s)' - VoiceOwn(t, s))
                           /\ Holders(s) \in Nat /\ OwnUse(t, s) \in Nat /\ OwnUse(t, s)' \in Nat
                           /\ VoiceOwn(t, s)' \in {0, 1} /\ VoiceOwn(t, s) \in {0, 1}
    <3> SUFFICES ASSUME NEW s \in Streams
                 PROVE  /\ Holders(s)' = Holders(s) + (OwnUse(t, s)' - OwnUse(t, s)) + (VoiceOwn(t, s)' - VoiceOwn(t, s))
                        /\ Holders(s) \in Nat /\ OwnUse(t, s) \in Nat /\ OwnUse(t, s)' \in Nat
                        /\ VoiceOwn(t, s)' \in {0, 1} /\ VoiceOwn(t, s) \in {0, 1}
      OBVIOUS
    <3>1. /\ Holders(s) \in Nat
          /\ Holders(s)' = Holders(s) + (OwnUse(t, s)' - OwnUse(t, s)) + (VoiceUse(s)' - VoiceUse(s))
          /\ OwnUse(t, s) \in Nat /\ OwnUse(t, s)' \in Nat /\ VoiceUse(s) \in {0, 1} /\ VoiceUse(s)' \in {0, 1}
      BY <1>2, HoldersChange
    <3> QED BY <1>6, <3>1
  <2>3. \A s \in Streams : cm'.ref_count[s] >= Holders(s)'
    <3> SUFFICES ASSUME NEW s \in Streams PROVE cm'.ref_count[s] >= Holders(s)' OBVIOUS
    <3>1. cm.ref_count[s] >= Holders(s) BY <1>0 DEF Counted
    <3> QED BY SMTT(30), <2>1, <2>2, <3>1
  <2>4. NoTriggerOnly => \A s \in Streams : cm'.ref_count[s] = Holders(s)'
    <3> SUFFICES ASSUME NoTriggerOnly, NEW s \in Streams PROVE cm'.ref_count[s] = Holders(s)' OBVIOUS
    <3>1. cm.ref_count[s] = Holders(s) BY <1>0 DEF Counted, RefsExact
    <3> QED BY <2>1, <2>2, <3>1
  <2>5. RoutedMeansHeld' BY DEF RoutedMeansHeld
  <2>6. NoTriggerOnly => voice_st' \notin {"TriggerIdle", "TriggerArmed", "TriggerFired"} /\ (Opening' => ~ VoiceHolds')
    BY <1>5
  <2> QED BY <2>3, <2>4, <2>5, <2>6 DEF Counted, RefsExact
<1> QED BY <1>3, <1>4, <1>7 DEF HalInv

\* A step in a section of adev->lock that changes no user of a stream.
LEMMA VoiceQuiet ==
  ASSUME HalInv, NEW t \in Threads, NEW l \in Labels, NEW x \in LocalSet,
         pc' = [pc EXCEPT ![t] = l], loc' = [loc EXCEPT ![t] = x], pc[t] # "swap", l # "swap",
         lock \in {t, Nobody}, lock' \in Threads \cup {Nobody}, UNCHANGED <<cm, outs, voice_trig_stream>>,
         ins' \in [Ins -> InHandle], \A h \in Ins \ {t} : ins'[h] = ins[h],
         t \in Ins => ins'[t].hw = ins[t].hw /\ ins'[t].open = ins[t].open,
         loc[t].then # "armed", x.then # "armed",
         voice_st' \in VoiceStates, voice_trig_stream \in Streams => (VoiceHolds' <=> VoiceHolds),
         NoTriggerOnly => voice_st' \notin {"TriggerIdle", "TriggerArmed", "TriggerFired"},
         active_voice_control' \in Ins \cup {Nobody}, active_voice_control' \in {active_voice_control, Nobody, t},
         t \in Outs => OutPlace(t)', t \in Ins => InPlace(t)', t = "policy" => PolicyPlace("policy")', VoicePlace(t)',
         CaptureHasOwner'
  PROVE  HalInv'
<1>1. pc'[t] = l /\ loc'[t] = x
  <2>1. HalTypes BY DEF HalInv
  <2> QED BY <2>1 DEF HalTypes
<1>2. /\ cm' \in Manager /\ cm' = cm /\ voice_trig_stream' \in Streams \cup {NULL}
      /\ \A s \in Streams : cm.ref_count[s] \in Nat /\ (cm'.current_devices[s] # {} => cm'.ref_count[s] > 0)
      /\ t \in Ins => (ins'[t].hw # NULL => ins'[t].open)
  <2>1. HalTypes BY DEF HalInv
  <2> QED BY <2>1, Before DEF HalTypes
<1>3. \A s \in Streams : OwnUse(t, s)' = OwnUse(t, s) /\ OwnUse(t, s) \in Nat BY SMTT(30), <1>1 DEF OwnUse
<1>4. \A s \in Streams : VoiceOwn(t, s)' = VoiceOwn(t, s) /\ VoiceOwn(t, s) \in {0, 1} BY <1>1 DEF VoiceOwn
<1>5. \A s \in Streams : cm'.ref_count[s] = cm.ref_count[s] + (OwnUse(t, s)' - OwnUse(t, s)) + (VoiceOwn(t, s)' - VoiceOwn(t, s))
  <2> SUFFICES ASSUME NEW s \in Streams
               PROVE  cm'.ref_count[s] = cm.ref_count[s] + (OwnUse(t, s)' - OwnUse(t, s)) + (VoiceOwn(t, s)' - VoiceOwn(t, s))
    OBVIOUS
  <2>1. OwnUse(t, s)' - OwnUse(t, s) = 0 /\ VoiceOwn(t, s)' - VoiceOwn(t, s) = 0 BY SMTT(30), <1>3, <1>4
  <2>2. cm'.ref_count[s] = cm.ref_count[s] /\ cm.ref_count[s] \in Nat BY <1>2
  <2> QED BY SMTT(30), <2>1, <2>2
<1>6. \A s \in Streams : cm'.ref_count[s] >= cm.ref_count[s] + (OwnUse(t, s)' - OwnUse(t, s)) + (VoiceOwn(t, s)' - VoiceOwn(t, s))
  <2>1. \A s \in Streams : cm'.ref_count[s] >= cm'.ref_count[s] BY SMTT(30), <1>2
  <2> QED BY <1>5, <2>1
<1> QED BY <1>2, <1>5, <1>6, VoiceStep

\* The same for a step that leaves its thread where it is.
LEMMA VoiceStays ==
  ASSUME HalInv, NEW t \in Threads, t = "policy", pc[t] = "idle", lock = Nobody,
         UNCHANGED <<cm, outs, ins, voice_trig_stream, active_voice_control, lock, pc, loc>>,
         voice_st' \in VoiceStates, VoiceHolds' <=> VoiceHolds,
         voice_st' \in {"TriggerIdle", "TriggerArmed", "TriggerFired"} => voice_st \in {"TriggerIdle", "TriggerArmed", "TriggerFired"},
         voice_st' \in {"RecogAudio", "RecogReArm"} => voice_st \in {"RecogAudio", "RecogReArm"}
  PROVE  HalInv'
<1>0. t \notin Outs /\ t \notin Ins BY WhoIs
<1>1. /\ pc[t] \in Labels /\ loc[t] \in LocalSet /\ pc' = [pc EXCEPT ![t] = pc[t]] /\ loc' = [loc EXCEPT ![t] = loc[t]]
      /\ PolicyPlace(t) /\ lock' \in Threads \cup {Nobody} /\ ins' \in [Ins -> InHandle]
  BY Before
<1>2. loc[t].then = "idle" BY <1>1 DEF PolicyPlace
<1>3. PolicyPlace(t)' BY <1>1 DEF PolicyPlace, Routing
<1>4. VoicePlace(t)' BY <1>2 DEF VoicePlace
<1>5. CaptureHasOwner' BY DEF HalInv, CaptureHasOwner
<1>6. NoTriggerOnly => voice_st' \notin {"TriggerIdle", "TriggerArmed", "TriggerFired"} BY DEF HalInv, Counted
<1>7. active_voice_control' \in Ins \cup {Nobody} BY DEF HalInv, HalTypes
<1> QED BY <1>0, <1>1, <1>2, <1>3, <1>4, <1>5, <1>6, <1>7, VoiceQuiet

\* The voice trigger's stream is closed, or there is none to close.
LEMMA CloseVoiceStep ==
  ASSUME HalInv, NEW t \in Ins \cup {"policy"}, lock = Nobody, pc[t] # "swap", loc[t].then = "idle", VoiceHolds,
         NEW base \in LocalSet, base.then = "idle", NEW st \in {"TriggerIdle", "RecogIdle"}, NEW cont \in {"idle", "source", "close"},
         \/ /\ voice_trig_stream = NULL /\ voice_st' = st /\ lock' = lock
            /\ pc' = [pc EXCEPT ![t] = cont] /\ loc' = [loc EXCEPT ![t] = base]
         \/ /\ voice_trig_stream # NULL /\ voice_st' = voice_st /\ lock' = t /\ pc' = [pc EXCEPT ![t] = "read"]
            /\ loc' = [loc EXCEPT ![t] = RouteLocals([base EXCEPT !.st = st, !.cont = cont], voice_trig_stream, {}, "vrelease")],
         UNCHANGED <<cm, outs, voice_trig_stream>>,
         ins' \in [Ins -> InHandle], \A h \in Ins \ {t} : ins'[h] = ins[h],
         t \in Ins => ins'[t].hw = ins[t].hw /\ ins'[t].open = ins[t].open,
         t = "policy" => /\ cont = "idle" /\ active_voice_control' = active_voice_control
                         /\ voice_st \notin {"RecogAudio", "RecogReArm"},
         t \in Ins => cont # "idle" /\ ins[t].open /\ active_voice_control' = Nobody,
         t \in Ins /\ cont = "source" => base.hw \in Streams /\ ins[t].hw = base.hw,
         NoTriggerOnly => st # "TriggerIdle"
  PROVE  HalInv'
<1>0. t \in Threads /\ t \notin Outs BY WhoIs DEF Threads
<1>1. Nobody \notin Ins BY AudioHalAssumption
<1>2. voice_trig_stream \in Streams \cup {NULL} /\ active_voice_control \in Ins \cup {Nobody} /\ voice_st \in VoiceStates
  BY DEF HalInv, HalTypes
<1>3. NoTriggerOnly => voice_st \notin {"TriggerIdle", "TriggerArmed", "TriggerFired"} BY DEF HalInv, Counted
<1>4. active_voice_control' \in Ins \cup {Nobody} /\ active_voice_control' \in {active_voice_control, Nobody, t}
  BY <1>2
<1>5. CASE voice_trig_stream = NULL
  <2>1. voice_st' = st /\ lock' = lock /\ pc' = [pc EXCEPT ![t] = cont] /\ loc' = [loc EXCEPT ![t] = base] BY <1>5
  <2>2. pc'[t] = cont /\ loc'[t] = base /\ cont \in Labels
    <3>1. HalTypes BY DEF HalInv
    <3> QED BY <1>0, <2>1, <3>1 DEF HalTypes, Labels
  <2>3. t = "policy" => PolicyPlace("policy")' BY <2>2 DEF PolicyPlace, Routing
  <2>4. t \in Ins => InPlace(t)' BY <1>1, <2>2 DEF InPlace, Routing, Changing
  <2>5. VoicePlace(t)' BY <2>2 DEF VoicePlace
  <2>6. CaptureHasOwner' BY <2>1 DEF CaptureHasOwner
  <2>7. voice_st' \in VoiceStates /\ (NoTriggerOnly => voice_st' \notin {"TriggerIdle", "TriggerArmed", "TriggerFired"})
    BY <2>1 DEF VoiceStates
  <2>8. voice_trig_stream \notin Streams BY <1>5, NullIsNoStream
  <2> QED BY <1>0, <1>4, <2>1, <2>2, <2>3, <2>4, <2>5, <2>6, <2>7, <2>8, VoiceQuiet
<1>6. CASE voice_trig_stream # NULL
  <2> DEFINE b == [base EXCEPT !.st = st, !.cont = cont]
             x == RouteLocals(b, voice_trig_stream, {}, "vrelease")
  <2>1. voice_st' = voice_st /\ lock' = t /\ pc' = [pc EXCEPT ![t] = "read"] /\ loc' = [loc EXCEPT ![t] = x] BY <1>6
  <2>2. voice_trig_stream \in Streams BY <1>2, <1>6
  <2>3. b \in LocalSet /\ b.st = st /\ b.cont = cont /\ b.hw = base.hw BY DEF LocalSet, VoiceStates
  <2> HIDE DEF b
  <2>4. {} \in SUBSET Bits OBVIOUS
  <2>5. x \in LocalSet /\ x.route.s = voice_trig_stream /\ x.then = "vrelease" /\ x.st = st /\ x.cont = cont /\ x.hw = base.hw
    BY <2>2, <2>3, <2>4, RouteLocalsTyped
  <2> HIDE DEF x
  <2>6. pc'[t] = "read" /\ loc'[t] = x /\ "read" \in Labels
    <3>1. HalTypes BY DEF HalInv
    <3> QED BY <1>0, <2>1, <3>1 DEF HalTypes, Labels
  <2>7. t = "policy" => PolicyPlace("policy")' BY <2>5, <2>6 DEF PolicyPlace, Routing
  <2>8. t \in Ins => InPlace(t)' BY <1>1, <2>5, <2>6 DEF InPlace, Routing, Changing
  <2>9. VoicePlace(t)' BY <2>1, <2>2, <2>5, <2>6 DEF VoicePlace, VoiceHolds
  <2>10. CaptureHasOwner'
    <3>1. CASE t = "policy" BY <2>1, <3>1 DEF CaptureHasOwner
    <3>2. CASE t \in Ins BY <2>5, <2>6, <3>2 DEF CaptureHasOwner
    <3> QED BY <3>1, <3>2
  <2>11. VoiceHolds' <=> VoiceHolds BY <2>1 DEF VoiceHolds
  <2>12. lock' \in Threads \cup {Nobody} /\ voice_st' \in VoiceStates BY <1>0, <1>2, <2>1
  <2> QED BY <1>0, <1>3, <1>4, <2>1, <2>5, <2>6, <2>7, <2>8, <2>9, <2>10, <2>11, <2>12, VoiceQuiet
<1> QED BY <1>5, <1>6

\* in_pcm_set_parameters ends, routes the stream the input has, or looks for another one.
LEMMA InParametersStep ==
  ASSUME HalInv, NEW h \in Ins, NEW kv \in Parameters, in_pcm_set_parameters(h, kv)
  PROVE  HalInv'
<1> DEFINE hw == ins[h].hw
           devices == IF kv.routed \/ hw = NULL THEN kv.devices ELSE cm.current_devices[hw]
           name == IF kv.source = Recognition THEN voice_trigger_audio_stream_name(voice_st) ELSE ""
           new == [NoLocals EXCEPT !.name = name, !.source = kv.source, !.devices = devices]
<1>0. h \in Threads /\ h \notin Outs /\ h # "policy" BY WhoIs
<1>1. pc[h] = "idle" /\ ins[h].open /\ UNCHANGED <<cm, outs, ins, voice, lock>> BY DEF in_pcm_set_parameters
<1>2. InPlace(h) /\ ins[h] \in InHandle /\ loc[h] \in LocalSet BY <1>0, Before
<1>3. loc[h].then = "idle" /\ hw \in Streams \cup {NULL} /\ (active_voice_control = h => ins[h].open)
  BY <1>1, <1>2 DEF InPlace, InHandle
<1>4. kv.devices \in SUBSET Bits /\ kv.source \in Sources \cup {"none"}
  BY AudioHalAssumption DEF Parameters
<1>5. devices \in SUBSET Bits
  <2>1. hw # NULL => cm.current_devices[hw] \in SUBSET Bits BY <1>0, <1>3, Before
  <2> QED BY <1>4, <2>1
<1>6. name \in {"", "voice recognition"} BY DEF voice_trigger_audio_stream_name
<1> HIDE DEF devices, name
<1>7. \E l \in {"idle", "read", "generic", "named"}, x \in LocalSet :
        /\ pc' = [pc EXCEPT ![h] = l] /\ loc' = [loc EXCEPT ![h] = x]
        /\ l = "read" => x.then = "finish" /\ hw \in Streams /\ x.route.s = hw
        /\ l # "read" => x.then = "idle"
  <2>1. ASSUME NEW m \in SUBSET Bits, InRoute(h, NoLocals, m)
        PROVE  \E l \in {"idle", "read", "generic", "named"}, x \in LocalSet :
                 /\ pc' = [pc EXCEPT ![h] = l] /\ loc' = [loc EXCEPT ![h] = x]
                 /\ l = "read" => x.then = "finish" /\ hw \in Streams /\ x.route.s = hw
                 /\ l # "read" => x.then = "idle"
    <3>1. CASE hw = NULL
      <4>1. pc' = [pc EXCEPT ![h] = "idle"] /\ loc' = [loc EXCEPT ![h] = NoLocals]
        BY <2>1, <3>1 DEF InRoute, Return, Goto, Locals
      <4>2. NoLocals \in LocalSet /\ NoLocals.then = "idle" BY NoLocalsTyped DEF NoLocals
      <4> QED BY <4>1, <4>2
    <3>2. CASE hw # NULL
      <4>1. pc' = [pc EXCEPT ![h] = "read"] /\ loc' = [loc EXCEPT ![h] = RouteLocals(NoLocals, hw, m, "finish")]
        BY <2>1, <3>2 DEF InRoute, RouteNext, Goto, Locals, RouteLocals
      <4>2. hw \in Streams BY <1>3, <3>2
      <4> QED BY Zenon, <4>1, <4>2, FinishLocals
    <3> QED BY <3>1, <3>2
  <2>2. CASE UNCHANGED <<pc, loc>>
    <3>1. pc' = [pc EXCEPT ![h] = "idle"] /\ loc' = [loc EXCEPT ![h] = loc[h]] BY <1>0, <1>1, <2>2, Before
    <3> QED BY <1>2, <1>3, <3>1
  <2>3. CASE /\ kv.source # "none" /\ Goto(h, IF name = "" THEN "generic" ELSE "named") /\ Locals(h, new)
    <3>1. new \in LocalSet /\ new.then = "idle"
      <4>1. NoLocals \in LocalSet /\ NoLocals.then = "idle" BY NoLocalsTyped DEF NoLocals
      <4>2. kv.source \in Sources BY <1>4, <2>3
      <4> QED BY <1>5, <1>6, <4>1, <4>2 DEF LocalSet
    <3> HIDE DEF new
    <3>2. CASE name = "" BY <2>3, <3>1, <3>2 DEF Goto, Locals
    <3>3. CASE name # "" BY <2>3, <3>1, <3>3 DEF Goto, Locals
    <3> QED BY <3>2, <3>3
  <2>4. \/ InRoute(h, NoLocals, kv.devices) \/ InRoute(h, NoLocals, devices) \/ UNCHANGED <<pc, loc>>
        \/ /\ kv.source # "none" /\ Goto(h, IF name = "" THEN "generic" ELSE "named") /\ Locals(h, new)
    BY DEF in_pcm_set_parameters, devices, name
  <2> QED BY <1>4, <1>5, <2>1, <2>2, <2>3, <2>4
<1>8. PICK l \in {"idle", "read", "generic", "named"}, x \in LocalSet :
        /\ pc' = [pc EXCEPT ![h] = l] /\ loc' = [loc EXCEPT ![h] = x]
        /\ l = "read" => x.then = "finish" /\ hw \in Streams /\ x.route.s = hw
        /\ l # "read" => x.then = "idle"
  BY <1>7
<1>9. pc'[h] = l /\ loc'[h] = x /\ l \in Labels
  <2>1. HalTypes BY DEF HalInv
  <2> QED BY <1>0, <1>8, <2>1 DEF HalTypes, Labels
<1>10. InPlace(h)'
  <2>1. ins' = ins /\ active_voice_control' = active_voice_control BY <1>1 DEF voice
  <2> QED BY <1>1, <1>3, <1>8, <1>9, <2>1 DEF InPlace, Routing, Changing
<1>11. VoicePlace(h)' BY <1>8, <1>9 DEF VoicePlace
<1>12. /\ UNCHANGED <<cm, outs, ins, voice_st, voice_trig_stream, active_voice_control>> /\ lock' = lock
       /\ lock' \in Threads \cup {Nobody} /\ x.then # "armed" /\ l # "swap"
  BY <1>0, <1>1, <1>8, Before DEF voice
<1> QED BY <1>0, <1>1, <1>3, <1>8, <1>9, <1>10, <1>11, <1>12, MoveStep

\* A stream was found for an input: one user more, until the swap is over.
LEMMA FoundStep ==
  ASSUME HalInv, NEW h \in Ins, pc[h] \in {"named", "generic"}, NEW s \in Streams,
         Found(h, s), UNCHANGED <<outs, ins, voice, lock>>
  PROVE  HalInv'
<1> DEFINE x == [loc[h] EXCEPT !.hw = s]
<1>0. h \in Threads /\ h \notin Outs /\ h # "policy" BY WhoIs
<1>1. cm' = open_stream_l(cm, s) /\ pc' = [pc EXCEPT ![h] = "swap"] /\ loc' = [loc EXCEPT ![h] = x]
  BY DEF Found, Goto, Locals
<1>2. InPlace(h) /\ ins[h] \in InHandle /\ loc[h] \in LocalSet /\ cm \in Manager BY <1>0, Before
<1>3. x \in LocalSet /\ x.hw = s /\ x.then = loc[h].then BY <1>2 DEF LocalSet
<1>4. loc[h].then = "idle" BY <1>2 DEF InPlace, Changing
<1> HIDE DEF x
<1>5. pc'[h] = "swap" /\ loc'[h] = x /\ "swap" \in Labels
  <2>1. HalTypes BY DEF HalInv
  <2> QED BY <1>0, <1>1, <2>1 DEF HalTypes, Labels
<1>6. InPlace(h)'
  <2>1. ins' = ins /\ active_voice_control' = active_voice_control BY DEF voice
  <2>2. ins[h].open /\ (active_voice_control = h => ins[h].open) BY <1>2 DEF InPlace
  <2> QED BY <1>3, <1>4, <1>5, <2>1, <2>2 DEF InPlace, Routing, Changing
<1>7. VoicePlace(h)' BY <1>3, <1>4, <1>5 DEF VoicePlace
<1>8. /\ cm' \in Manager /\ cm'.ref_count = [cm.ref_count EXCEPT ![s] = cm.ref_count[s] + 1]
      /\ cm'.current_devices = cm.current_devices
  BY <1>1, <1>2, OpenKeeps
<1>9. /\ \A r \in Streams : cm.ref_count[r] \in Nat /\ (cm.current_devices[r] # {} => cm.ref_count[r] > 0)
      /\ cm.ref_count \in [Streams -> Nat]
  <2>1. cm.ref_count \in [Streams -> Nat] BY <1>2 DEF Manager
  <2> QED BY <1>0, <2>1, Before
<1>10. \A r \in Streams : OwnUse(h, r)' = OwnUse(h, r) + (IF r = s THEN 1 ELSE 0) /\ OwnUse(h, r) \in Nat
  BY <1>0, <1>3, <1>5 DEF OwnUse
<1>11. \A r \in Streams : cm'.ref_count[r] = cm.ref_count[r] + (OwnUse(h, r)' - OwnUse(h, r))
  BY <1>8, <1>9, <1>10
<1>12. \A r \in Streams : cm'.current_devices[r] # {} => cm'.ref_count[r] > 0 BY <1>8, <1>9
<1>13. /\ UNCHANGED <<voice_st, voice_trig_stream, active_voice_control>> /\ lock' = lock
       /\ lock' \in Threads \cup {Nobody} /\ ins' = ins /\ ins' \in [Ins -> InHandle]
       /\ outs' = outs /\ outs' \in [Outs -> OutHandle] /\ (ins'[h].hw # NULL => ins'[h].open)
  BY <1>0, Before DEF voice
<1>14. x.then # "armed" /\ loc[h].then \notin {"armed", "vrelease"} BY <1>3, <1>4
<1> QED BY <1>0, <1>1, <1>3, <1>5, <1>6, <1>7, <1>8, <1>11, <1>12, <1>13, <1>14, PlainStep

\* The search for a stream: it is found, or the search goes on, or it has failed.
LEMMA InSearchStep ==
  ASSUME HalInv, NEW h \in Ins, InNamed(h) \/ InGeneric(h)
  PROVE  HalInv'
<1>0. h \in Threads /\ h \notin Outs /\ h # "policy" BY WhoIs
<1>1. pc[h] \in {"named", "generic"} /\ UNCHANGED <<outs, ins, voice, lock>> BY DEF InNamed, InGeneric
<1>2. \/ \E s \in Streams : Found(h, s)
      \/ UNCHANGED cm /\ \E l \in {"idle", "generic"}, x \in LocalSet :
           pc' = [pc EXCEPT ![h] = l] /\ loc' = [loc EXCEPT ![h] = x] /\ x.then = "idle"
  <2>1. CASE InNamed(h)
    <3>1. get_named_stream(cm, loc[h].name) \in Streams \cup {NULL} BY NamedIsStream
    <3>2. CASE get_named_stream(cm, loc[h].name) # NULL
      <4> DEFINE s == get_named_stream(cm, loc[h].name)
      <4>1. Found(h, s) BY <2>1, <3>2 DEF InNamed
      <4>2. s \in Streams BY <3>1, <3>2
      <4> QED BY <4>1, <4>2
    <3>3. CASE get_named_stream(cm, loc[h].name) = NULL
      <4>1. pc' = [pc EXCEPT ![h] = "generic"] /\ UNCHANGED <<cm, loc>> BY <2>1, <3>3 DEF InNamed, Goto
      <4>2. InPlace(h) /\ loc[h] \in LocalSet /\ loc = [loc EXCEPT ![h] = loc[h]] BY <1>0, Before
      <4>3. loc[h].then = "idle" BY <1>1, <4>2 DEF InPlace, Changing
      <4> QED BY <4>1, <4>2, <4>3
    <3> QED BY <3>2, <3>3
  <2>2. CASE InGeneric(h)
    <3>1. get_stream(cm, loc[h].devices) \in Streams \cup {NULL} BY FoundIsStream
    <3>2. CASE get_stream(cm, loc[h].devices) # NULL
      <4> DEFINE s == get_stream(cm, loc[h].devices)
      <4>1. Found(h, s) BY <2>2, <3>2 DEF InGeneric
      <4>2. s \in Streams BY <3>1, <3>2
      <4> QED BY <4>1, <4>2
    <3>3. CASE get_stream(cm, loc[h].devices) = NULL
      <4>1. pc' = [pc EXCEPT ![h] = "idle"] /\ loc' = [loc EXCEPT ![h] = NoLocals] /\ UNCHANGED cm
        BY <2>2, <3>3 DEF InGeneric, Return, Goto, Locals
      <4>2. NoLocals \in LocalSet /\ NoLocals.then = "idle" BY NoLocalsTyped DEF NoLocals
      <4> QED BY <4>1, <4>2
    <3> QED BY <3>2, <3>3
  <2> QED BY <2>1, <2>2
<1>3. ASSUME NEW s \in Streams, Found(h, s) PROVE HalInv' BY <1>1, <1>3, FoundStep DEF Found
<1>4. ASSUME UNCHANGED cm, NEW l \in {"idle", "generic"}, NEW x \in LocalSet,
             pc' = [pc EXCEPT ![h] = l], loc' = [loc EXCEPT ![h] = x], x.then = "idle"
      PROVE  HalInv'
  <2>1. pc'[h] = l /\ loc'[h] = x /\ l \in Labels
    <3>1. HalTypes BY DEF HalInv
    <3> QED BY <1>0, <1>4, <3>1 DEF HalTypes, Labels
  <2>2. InPlace(h) BY <1>0, Before
  <2>3. loc[h].then = "idle" /\ ins[h].open /\ (active_voice_control = h => ins[h].open)
    BY <1>1, <2>2 DEF InPlace, Changing
  <2>4. InPlace(h)'
    <3>1. ins' = ins /\ active_voice_control' = active_voice_control BY <1>1 DEF voice
    <3> QED BY <1>4, <2>1, <2>3, <3>1 DEF InPlace, Routing, Changing
  <2>5. VoicePlace(h)' BY <1>4, <2>1 DEF VoicePlace
  <2>6. /\ UNCHANGED <<cm, outs, ins, voice_st, voice_trig_stream, active_voice_control>> /\ lock' = lock
        /\ lock' \in Threads \cup {Nobody} /\ x.then # "armed" /\ l # "swap" /\ pc[h] # "swap"
    BY <1>0, <1>1, <1>4, Before DEF voice
  <2> QED BY <1>0, <1>4, <2>1, <2>3, <2>4, <2>5, <2>6, MoveStep
<1> QED BY <1>2, <1>3, <1>4

\* The input gives up stream s, or had none: one user less, and the route goes with the last.
LEMMA GiveUpKeeps ==
  ASSUME HalInv, NEW h \in Ins, OnlyThread(h)
  PROVE  LET c == IF ins[h].hw = NULL THEN cm ELSE release_stream(cm, ins[h].hw) IN
         /\ c \in Manager
         /\ \A r \in Streams : c.ref_count[r] = cm.ref_count[r] - (IF ins[h].hw = r THEN 1 ELSE 0)
         /\ \A r \in Streams : c.current_devices[r] # {} => c.ref_count[r] > 0
<1> DEFINE s == ins[h].hw
           c == IF s = NULL THEN cm ELSE release_stream(cm, s)
<1>0. h \in Threads /\ h \notin Outs BY WhoIs
<1>1. cm \in Manager /\ ins[h] \in InHandle BY <1>0, Before
<1>2. s \in Streams \cup {NULL} BY <1>1 DEF InHandle
<1>3. /\ \A r \in Streams : cm.ref_count[r] \in Nat /\ (cm.current_devices[r] # {} => cm.ref_count[r] > 0)
      /\ cm.ref_count \in [Streams -> Nat] /\ cm.current_devices \in [Streams -> SUBSET Bits]
  <2>1. cm.ref_count \in [Streams -> Nat] /\ cm.current_devices \in [Streams -> SUBSET Bits] BY <1>1 DEF Manager
  <2> QED BY <1>0, <2>1, Before
<1>4. s \in Streams => OwnUse(h, s) >= 1 BY <1>0 DEF OwnUse
<1> HIDE DEF s
<1>5. /\ c \in Manager
      /\ \A r \in Streams : c.ref_count[r] = cm.ref_count[r] - (IF s = r THEN 1 ELSE 0)
      /\ \A r \in Streams : c.current_devices[r] # {} => c.ref_count[r] > 0
  <2>1. CASE s = NULL
    <3>1. \A r \in Streams : s # r BY <2>1, NullIsNoStream
    <3> QED BY <1>1, <1>3, <2>1, <3>1
  <2>2. CASE s # NULL
    <3>0. s \in Streams BY <1>2, <2>2
    <3>1. cm.ref_count[s] > 0 BY <1>0, <1>4, <3>0, UsedIsCounted
    <3>2. c = release_stream(cm, s) BY <2>2
    <3> HIDE DEF c
    <3>3. /\ c \in Manager /\ c.ref_count = [cm.ref_count EXCEPT ![s] = cm.ref_count[s] - 1]
          /\ c.current_devices = IF cm.ref_count[s] = 1 THEN [cm.current_devices EXCEPT ![s] = {}] ELSE cm.current_devices
      BY <1>1, <3>0, <3>1, <3>2, ReleaseKeeps
    <3>4. \A r \in Streams \ {s} : c.current_devices[r] = cm.current_devices[r] /\ c.ref_count[r] = cm.ref_count[r]
      BY <1>3, <3>0, <3>3
    <3>5. cm.ref_count[s] \in Nat BY <1>3, <3>0
    <3>6. c.ref_count[s] = cm.ref_count[s] - 1 BY <1>3, <3>0, <3>3
    <3>7. cm.ref_count[s] = 1 => c.current_devices[s] = {} BY <1>3, <3>0, <3>3
    <3>8. c.current_devices[s] # {} => c.ref_count[s] > 0 BY <3>1, <3>5, <3>6, <3>7
    <3>9. \A r \in Streams : c.ref_count[r] = cm.ref_count[r] - (IF s = r THEN 1 ELSE 0) BY <1>3, <3>4, <3>6
    <3>10. \A r \in Streams : c.current_devices[r] # {} => c.ref_count[r] > 0 BY <1>3, <3>4, <3>8
    <3> QED BY <3>3, <3>9, <3>10
  <2> QED BY <2>1, <2>2
<1> QED BY <1>5 DEF s

\* The swap: the old stream is released, the new one is the input's.
LEMMA InSwapStep ==
  ASSUME HalInv, NEW h \in Ins, InSwap(h)
  PROVE  HalInv'
<1>0. h \in Threads /\ h \notin Outs /\ h # "policy" BY WhoIs
<1>1. /\ pc[h] = "swap" /\ pc' = [pc EXCEPT ![h] = "voice"] /\ ins' = [ins EXCEPT ![h].hw = loc[h].hw]
      /\ cm' = (IF ins[h].hw = NULL THEN cm ELSE release_stream(cm, ins[h].hw))
      /\ UNCHANGED <<outs, voice, lock, loc>>
  BY DEF InSwap, Goto
<1>2. /\ InPlace(h) /\ ins[h] \in InHandle /\ loc[h] \in LocalSet /\ ins \in [Ins -> InHandle]
      /\ loc = [loc EXCEPT ![h] = loc[h]] /\ outs \in [Outs -> OutHandle] /\ lock \in Threads \cup {Nobody}
  BY <1>0, Before
<1>3. loc[h].hw \in Streams /\ ins[h].open /\ loc[h].then = "idle" /\ (active_voice_control = h => ins[h].open)
  BY <1>1, <1>2 DEF InPlace, Changing
<1>4. /\ ins' \in [Ins -> InHandle] /\ (\A k \in Ins \ {h} : ins'[k] = ins[k])
      /\ ins'[h].hw = loc[h].hw /\ ins'[h].open = ins[h].open
  BY <1>1, <1>2, <1>3 DEF InHandle
<1>5. pc'[h] = "voice" /\ "voice" \in Labels /\ \A u \in Threads \ {h} : pc'[u] = pc[u]
  <2>1. HalTypes BY DEF HalInv
  <2> QED BY <1>0, <1>1, <2>1 DEF HalTypes, Labels
<1>6. OnlyThread(h) BY <1>1, <1>4, <1>5 DEF OnlyThread
<1>7. /\ cm' \in Manager
      /\ \A r \in Streams : cm'.ref_count[r] = cm.ref_count[r] - (IF ins[h].hw = r THEN 1 ELSE 0)
      /\ \A r \in Streams : cm'.current_devices[r] # {} => cm'.ref_count[r] > 0
  BY <1>1, <1>6, GiveUpKeeps
<1>8. InPlace(h)'
  <2>1. active_voice_control' = active_voice_control /\ loc' = loc BY <1>1 DEF voice
  <2> QED BY <1>3, <1>4, <1>5, <2>1 DEF InPlace, Routing, Changing
<1>9. VoicePlace(h)' BY <1>1, <1>3 DEF VoicePlace
<1>10. \A r \in Streams : /\ OwnUse(h, r)' = (IF loc[h].hw = r THEN 1 ELSE 0)
                          /\ OwnUse(h, r) = (IF ins[h].hw = r THEN 1 ELSE 0) + (IF loc[h].hw = r THEN 1 ELSE 0)
  BY <1>0, <1>1, <1>4, <1>5 DEF OwnUse
<1>11. \A r \in Streams : cm.ref_count[r] \in Nat BY <1>0, Before
<1>12. \A r \in Streams : cm'.ref_count[r] = cm.ref_count[r] + (OwnUse(h, r)' - OwnUse(h, r))
  BY <1>7, <1>10, <1>11
<1>13. /\ UNCHANGED <<voice_st, voice_trig_stream, active_voice_control>> /\ lock' = lock
       /\ lock' \in Threads \cup {Nobody} /\ loc' = [loc EXCEPT ![h] = loc[h]]
       /\ outs' = outs /\ outs' \in [Outs -> OutHandle] /\ (ins'[h].hw # NULL => ins'[h].open)
  BY <1>1, <1>2, <1>3, <1>4 DEF voice
<1> QED BY Zenon, <1>0, <1>1, <1>2, <1>3, <1>4, <1>5, <1>7, <1>8, <1>9, <1>12, <1>13, PlainStep

\* The end of adev_close_input_stream.
LEMMA InCloseStep ==
  ASSUME HalInv, NEW h \in Ins, InClose(h)
  PROVE  HalInv'
<1>0. h \in Threads /\ h \notin Outs /\ h # "policy" BY WhoIs
<1>1. /\ pc[h] = "close" /\ pc' = [pc EXCEPT ![h] = "idle"] /\ loc' = [loc EXCEPT ![h] = NoLocals]
      /\ ins' = [ins EXCEPT ![h] = ClosedIn]
      /\ cm' = (IF ins[h].hw = NULL THEN cm ELSE release_stream(cm, ins[h].hw))
      /\ UNCHANGED <<outs, voice, lock>>
  BY DEF InClose, Return, Goto, Locals, Released
<1>2. /\ InPlace(h) /\ ins \in [Ins -> InHandle] /\ outs \in [Outs -> OutHandle] /\ lock \in Threads \cup {Nobody}
  BY <1>0, Before
<1>3. active_voice_control # h /\ loc[h].then = "idle" BY <1>1, <1>2 DEF InPlace
<1>4. ClosedIn \in InHandle /\ ClosedIn.hw = NULL BY DEF ClosedIn, InHandle, Sources
<1>5. ins' \in [Ins -> InHandle] /\ (\A k \in Ins \ {h} : ins'[k] = ins[k]) /\ ins'[h].hw = NULL
  BY <1>1, <1>2, <1>4
<1>6. /\ pc'[h] = "idle" /\ "idle" \in Labels /\ loc'[h] = NoLocals
      /\ \A u \in Threads \ {h} : pc'[u] = pc[u] /\ loc'[u] = loc[u]
  <2>1. HalTypes BY DEF HalInv
  <2> QED BY <1>0, <1>1, <2>1 DEF HalTypes, Labels
<1>7. NoLocals \in LocalSet /\ NoLocals.then = "idle" BY NoLocalsTyped DEF NoLocals
<1>8. OnlyThread(h) BY <1>1, <1>5, <1>6 DEF OnlyThread
<1>9. /\ cm' \in Manager
      /\ \A r \in Streams : cm'.ref_count[r] = cm.ref_count[r] - (IF ins[h].hw = r THEN 1 ELSE 0)
      /\ \A r \in Streams : cm'.current_devices[r] # {} => cm'.ref_count[r] > 0
  BY <1>1, <1>8, GiveUpKeeps
<1>10. InPlace(h)'
  <2>1. active_voice_control' = active_voice_control BY <1>1 DEF voice
  <2> QED BY <1>3, <1>6, <1>7, <2>1 DEF InPlace, Routing, Changing
<1>11. VoicePlace(h)' BY <1>6, <1>7 DEF VoicePlace
<1>12. \A r \in Streams : OwnUse(h, r)' = 0 /\ OwnUse(h, r) = (IF ins[h].hw = r THEN 1 ELSE 0)
  BY <1>0, <1>1, <1>5, <1>6, NullIsNoStream DEF OwnUse
<1>13. \A r \in Streams : cm.ref_count[r] \in Nat BY <1>0, Before
<1>14. \A r \in Streams : cm'.ref_count[r] = cm.ref_count[r] + (OwnUse(h, r)' - OwnUse(h, r))
  BY <1>9, <1>12, <1>13
<1>15. /\ UNCHANGED <<voice_st, voice_trig_stream, active_voice_control>> /\ lock' = lock
       /\ lock' \in Threads \cup {Nobody}
       /\ outs' = outs /\ outs' \in [Outs -> OutHandle] /\ (ins'[h].hw # NULL => ins'[h].open)
  BY <1>1, <1>2, <1>5 DEF voice
<1> QED BY <1>0, <1>1, <1>3, <1>5, <1>6, <1>7, <1>9, <1>10, <1>11, <1>14, <1>15, PlainStep

\* The new source is recorded and its stream routed.
LEMMA InSourceStep ==
  ASSUME HalInv, NEW h \in Ins, InSource(h)
  PROVE  HalInv'
<1> DEFINE x == RouteLocals(loc[h], ins[h].hw, loc[h].devices, "finish")
<1>0. h \in Threads /\ h \notin Outs /\ h # "policy" BY WhoIs
<1>1. /\ pc[h] = "source" /\ pc' = [pc EXCEPT ![h] = "read"] /\ loc' = [loc EXCEPT ![h] = x]
      /\ ins' = [ins EXCEPT ![h].source = loc[h].source] /\ UNCHANGED <<cm, outs, voice, lock>>
  BY DEF InSource, RouteNext, Goto, Locals, RouteLocals
<1>2. /\ InPlace(h) /\ ins[h] \in InHandle /\ loc[h] \in LocalSet /\ ins \in [Ins -> InHandle]
      /\ outs \in [Outs -> OutHandle] /\ lock \in Threads \cup {Nobody}
  BY <1>0, Before
<1>3. /\ ins[h].hw \in Streams /\ ins[h].open /\ loc[h].then = "idle"
      /\ loc[h].source \in Sources /\ loc[h].devices \in SUBSET Bits
  BY <1>1, <1>2 DEF InPlace, Changing, LocalSet
<1>4. x \in LocalSet /\ x.route.s = ins[h].hw /\ x.then = "finish" BY <1>2, <1>3, RouteLocalsTyped
<1> HIDE DEF x
<1>5. pc'[h] = "read" /\ loc'[h] = x /\ "read" \in Labels
  <2>1. HalTypes BY DEF HalInv
  <2> QED BY <1>0, <1>1, <2>1 DEF HalTypes, Labels
<1>6. /\ ins' \in [Ins -> InHandle] /\ (\A k \in Ins \ {h} : ins'[k] = ins[k])
      /\ ins'[h].hw = ins[h].hw /\ ins'[h].open = ins[h].open
  BY <1>1, <1>2, <1>3 DEF InHandle
<1>7. InPlace(h)'
  <2>1. active_voice_control' = active_voice_control BY <1>1 DEF voice
  <2> QED BY <1>3, <1>4, <1>5, <1>6, <2>1 DEF InPlace, Routing, Changing
<1>8. VoicePlace(h)' BY <1>4, <1>5 DEF VoicePlace
<1>9. \A r \in Streams : OwnUse(h, r)' = OwnUse(h, r) /\ OwnUse(h, r) \in Nat
  BY <1>0, <1>1, <1>5, <1>6 DEF OwnUse
<1>10. /\ cm' \in Manager
       /\ \A r \in Streams : cm'.ref_count[r] = cm.ref_count[r] + (OwnUse(h, r)' - OwnUse(h, r))
       /\ \A r \in Streams : cm'.current_devices[r] # {} => cm'.ref_count[r] > 0
  BY <1>0, <1>1, <1>9, Before
<1>11. /\ UNCHANGED <<voice_st, voice_trig_stream, active_voice_control>> /\ lock' = lock
       /\ lock' \in Threads \cup {Nobody}
       /\ outs' = outs /\ outs' \in [Outs -> OutHandle] /\ (ins'[h].hw # NULL => ins'[h].open)
  BY <1>1, <1>2, <1>3, <1>6 DEF voice
<1> QED BY <1>0, <1>1, <1>3, <1>4, <1>5, <1>6, <1>7, <1>8, <1>10, <1>11, PlainStep

\* A thread that routes: whose stream it is.
LEMMA RoutingPlace ==
  ASSUME HalInv, NEW t \in Threads, pc[t] \in Routing
  PROVE  /\ loc[t].route.s \in Streams /\ loc[t].then \in {"finish", "armed", "vrelease"}
         /\ loc[t].then = "finish" => t # "policy" /\ (\E s \in {loc[t].route.s} : OwnUse(t, s) >= 1)
         /\ loc[t].then # "finish" => lock = t /\ voice_trig_stream = loc[t].route.s /\ t \notin Outs
         /\ t \in Outs => loc[t].then = "finish"
         /\ t \in Ins => loc[t].then \in {"finish", "vrelease"}
         /\ t = "policy" => loc[t].then \in {"armed", "vrelease"}
<1>1. CASE t \in Outs
  <2>0. t \notin Ins /\ t # "policy" BY <1>1, WhoIs
  <2>1. OutPlace(t) BY <1>1, Before
  <2>2. loc[t].then = "finish" /\ outs[t].open /\ loc[t].route.s = outs[t].hw BY <2>1 DEF OutPlace
  <2>3. outs[t].hw \in Streams
    <3>1. outs[t].open = (outs[t].hw \in Streams) BY <1>1, Before
    <3> QED BY <2>2, <3>1
  <2>4. OwnUse(t, outs[t].hw) >= 1 BY <1>1, <2>0 DEF OwnUse
  <2> QED BY <1>1, <2>0, <2>2, <2>3, <2>4
<1>2. CASE t \in Ins
  <2>0. t \notin Outs /\ t # "policy" BY <1>2, WhoIs
  <2>1. InPlace(t) /\ VoicePlace(t) BY <1>2, Before
  <2>2. /\ loc[t].then \in {"finish", "vrelease"}
        /\ loc[t].then = "finish" => ins[t].hw \in Streams /\ loc[t].route.s = ins[t].hw
    BY <2>1 DEF InPlace
  <2>3. loc[t].then = "vrelease" => lock = t /\ voice_trig_stream \in Streams /\ loc[t].route.s = voice_trig_stream
    BY <2>1 DEF VoicePlace
  <2>4. OwnUse(t, ins[t].hw) >= 1 BY <1>2, <2>0 DEF OwnUse
  <2> QED BY <1>2, <2>0, <2>2, <2>3, <2>4
<1>3. CASE t = "policy"
  <2>0. t \notin Outs /\ t \notin Ins BY <1>3, WhoIs
  <2>1. PolicyPlace(t) /\ VoicePlace(t) BY <1>3, Before
  <2>2. loc[t].then \in {"armed", "vrelease"} BY <2>1 DEF PolicyPlace
  <2>3. lock = t /\ voice_trig_stream \in Streams /\ loc[t].route.s = voice_trig_stream BY <2>1, <2>2 DEF VoicePlace
  <2> QED BY <1>3, <2>0, <2>2, <2>3
<1> QED BY <1>1, <1>2, <1>3 DEF Threads

\* A step of apply_route that ends the call.
LEMMA RouteEnds ==
  ASSUME HalInv, NEW t \in Threads, pc[t] \in Routing, loc[t].then = "finish",
         pc' = [pc EXCEPT ![t] = "idle"], loc' = [loc EXCEPT ![t] = NoLocals],
         lock' = (IF lock = t THEN Nobody ELSE lock),
         UNCHANGED <<outs, ins, voice_st, voice_trig_stream, active_voice_control>>,
         cm' \in Manager, cm'.ref_count = cm.ref_count,
         \A s \in Streams : cm'.current_devices[s] # {} => cm'.ref_count[s] > 0
  PROVE  HalInv'
<1>1. t # "policy" BY RoutingPlace
<1>2. NoLocals \in LocalSet /\ NoLocals.then = "idle" /\ "idle" \in Labels BY NoLocalsTyped DEF NoLocals, Labels
<1>3. pc'[t] = "idle" /\ loc'[t] = NoLocals
  <2>1. HalTypes BY DEF HalInv
  <2> QED BY <2>1 DEF HalTypes
<1>4. t \in Outs => OutPlace(t)' BY <1>2, <1>3 DEF OutPlace, Routing
<1>5. t \in Ins => InPlace(t)'
  <2>1. t \in Ins => (active_voice_control = t => ins[t].open) BY Before DEF InPlace
  <2> QED BY <1>2, <1>3, <2>1 DEF InPlace, Routing, Changing
<1>6. VoicePlace(t)' BY <1>2, <1>3 DEF VoicePlace
<1>7. /\ lock \notin {t, Nobody} => lock' = lock
      /\ lock' \in Threads \cup {Nobody} /\ outs' \in [Outs -> OutHandle] /\ ins' \in [Ins -> InHandle]
      /\ t \in Ins => (ins'[t].hw # NULL => ins'[t].open)
  BY Before
<1>8. t \in Outs => outs'[t].open = (outs'[t].hw \in Streams)
  <2>1. t \in Outs => outs[t].open = (outs[t].hw \in Streams) BY Before
  <2> QED BY <2>1, Zenon
<1>9. \A s \in Streams : OwnUse(t, s)' = OwnUse(t, s) /\ OwnUse(t, s) \in Nat BY <1>3 DEF OwnUse, Routing
<1>10. \A s \in Streams : cm'.ref_count[s] = cm.ref_count[s] + (OwnUse(t, s)' - OwnUse(t, s)) BY <1>9, Before
<1> QED BY <1>1, <1>2, <1>4, <1>5, <1>6, <1>7, <1>8, <1>10, PlainStep

\* A step of apply_route after which the call goes on.
LEMMA RouteGoesOn ==
  ASSUME HalInv, NEW t \in Threads, pc[t] \in Routing, NEW x \in LocalSet, NEW l,
         (l = "apply" /\ x.route.s = loc[t].route.s) \/ (l = loc[t].then /\ l # "finish"),
         x.then = loc[t].then, x.st = loc[t].st, x.cont = loc[t].cont, x.hw = loc[t].hw,
         pc' = [pc EXCEPT ![t] = l], loc' = [loc EXCEPT ![t] = x], lock' = lock,
         UNCHANGED <<outs, ins, voice_st, voice_trig_stream, active_voice_control>>,
         cm' \in Manager, cm'.ref_count = cm.ref_count,
         \A s \in Streams : cm'.current_devices[s] # {} => cm'.ref_count[s] > 0
  PROVE  HalInv'
<1>1. loc[t].then \in {"finish", "armed", "vrelease"} /\ (l # "apply" => l \in {"armed", "vrelease"}) /\ l \in Labels
  BY RoutingPlace DEF Labels
<1>2. pc'[t] = l /\ loc'[t] = x
  <2>1. HalTypes BY DEF HalInv
  <2> QED BY <2>1 DEF HalTypes
<1>3. t \in Outs => OutPlace(t)'
  <2> SUFFICES ASSUME t \in Outs PROVE OutPlace(t)' OBVIOUS
  <2>1. OutPlace(t) /\ loc[t].then = "finish" BY Before, RoutingPlace
  <2>2. l = "apply" /\ x.route.s = loc[t].route.s BY <2>1
  <2> QED BY <1>2, <2>1, <2>2 DEF OutPlace, Routing
<1>4. t \in Ins => InPlace(t)'
  <2> SUFFICES ASSUME t \in Ins PROVE InPlace(t)' OBVIOUS
  <2>1. InPlace(t) /\ loc[t].then \in {"finish", "vrelease"} BY Before, RoutingPlace
  <2>2. (l = "apply" /\ x.route.s = loc[t].route.s) \/ (l = "vrelease" /\ loc[t].then = "vrelease")
    <3>1. CASE l = "apply" /\ x.route.s = loc[t].route.s BY <3>1
    <3>2. CASE l = loc[t].then /\ l # "finish" BY <2>1, <3>2
    <3> QED BY <3>1, <3>2
  <2>3. /\ loc[t].then = "finish" => ins[t].hw \in Streams /\ loc[t].route.s = ins[t].hw
        /\ loc[t].then = "vrelease" => /\ loc[t].cont \in {"source", "close"} /\ active_voice_control # t
                                       /\ loc[t].cont = "source" => loc[t].hw \in Streams /\ ins[t].hw = loc[t].hw
        /\ ins[t].open
    BY <2>1 DEF InPlace, Routing
  <2>4. CASE l = "apply" BY <1>2, <2>1, <2>2, <2>3, <2>4 DEF InPlace, Routing, Changing
  <2>5. CASE l = "vrelease" BY <1>2, <2>1, <2>2, <2>3, <2>5 DEF InPlace, Routing, Changing
  <2> QED BY <2>2, <2>4, <2>5
<1>5. t = "policy" => PolicyPlace("policy")'
  <2> SUFFICES ASSUME t = "policy" PROVE PolicyPlace(t)' OBVIOUS
  <2>1. PolicyPlace(t) /\ loc[t].then \in {"armed", "vrelease"} BY Before, RoutingPlace
  <2> QED BY <1>1, <1>2, <2>1 DEF PolicyPlace, Routing
<1>6. VoicePlace(t)'
  <2>1. VoicePlace(t) BY Before
  <2>2. VoiceHolds' <=> VoiceHolds BY DEF VoiceHolds
  <2>3. l \in Routing => x.route.s = loc[t].route.s BY <1>1 DEF Routing
  <2> QED BY <1>2, <2>1, <2>2, <2>3 DEF VoicePlace
<1>7. /\ lock' \in Threads \cup {Nobody} /\ outs' \in [Outs -> OutHandle] /\ ins' \in [Ins -> InHandle]
      /\ t \in Ins => (ins'[t].hw # NULL => ins'[t].open)
  BY Before
<1>8. t \in Outs => outs'[t].open = (outs'[t].hw \in Streams)
  <2>1. t \in Outs => outs[t].open = (outs[t].hw \in Streams) BY Before
  <2> QED BY <2>1, Zenon
<1>9. \A s \in Streams : OwnUse(t, s)' = OwnUse(t, s) /\ OwnUse(t, s) \in Nat BY <1>1, <1>2 DEF OwnUse, Routing
<1>10. \A s \in Streams : cm'.ref_count[s] = cm.ref_count[s] + (OwnUse(t, s)' - OwnUse(t, s)) BY <1>9, Before
<1> QED BY <1>1, <1>3, <1>4, <1>5, <1>6, <1>7, <1>8, <1>10, PlainStep

\* What follows apply_route.
LEMMA ContinueStep ==
  ASSUME HalInv, NEW t \in Threads, pc[t] \in Routing, Continue(t),
         UNCHANGED <<outs, ins, voice_st, voice_trig_stream, active_voice_control>>,
         cm' \in Manager, cm'.ref_count = cm.ref_count,
         \A s \in Streams : cm'.current_devices[s] # {} => cm'.ref_count[s] > 0
  PROVE  HalInv'
<1>1. CASE loc[t].then = "finish"
  <2>1. /\ pc' = [pc EXCEPT ![t] = "idle"] /\ loc' = [loc EXCEPT ![t] = NoLocals]
        /\ lock' = (IF lock = t THEN Nobody ELSE lock)
    BY <1>1 DEF Continue, Return, Goto, Locals
  <2> QED BY <1>1, <2>1, RouteEnds
<1>2. CASE loc[t].then # "finish"
  <2>1. pc' = [pc EXCEPT ![t] = loc[t].then] /\ UNCHANGED <<lock, loc>> BY <1>2 DEF Continue, Goto
  <2>2. loc[t] \in LocalSet /\ loc' = [loc EXCEPT ![t] = loc[t]] BY <2>1, Before
  <2> QED BY <1>2, <2>1, <2>2, RouteGoesOn
<1> QED BY <1>1, <1>2

\* apply_route reads the devices the stream is routed to.
LEMMA RouteReadStep ==
  ASSUME HalInv, NEW t \in Threads, RouteRead(t)
  PROVE  HalInv'
<1> DEFINE r == loc[t].route
           n == RouteChange(cm, r.s, r.devices)
           x == [loc[t] EXCEPT !.route = n]
<1>1. pc[t] = "read" /\ UNCHANGED <<cm, outs, ins, voice_st, voice_trig_stream, active_voice_control>>
  BY DEF RouteRead, voice
<1>2. pc[t] \in Routing BY <1>1 DEF Routing
<1>3. /\ cm' \in Manager /\ cm'.ref_count = cm.ref_count
      /\ \A s \in Streams : cm'.current_devices[s] # {} => cm'.ref_count[s] > 0
  BY <1>1, Before
<1>4. CASE Continue(t) BY <1>1, <1>2, <1>3, <1>4, ContinueStep DEF Continue
<1>5. CASE Goto(t, "apply") /\ Locals(t, x) /\ UNCHANGED lock
  <2>1. loc[t] \in LocalSet /\ r \in Route /\ r.s \in Streams /\ cm.current_devices[r.s] \in SUBSET Bits
    <3>1. loc[t] \in LocalSet BY Before
    <3>2. r \in Route BY <3>1 DEF LocalSet
    <3>3. r.s \in Streams BY <1>2, RoutingPlace
    <3> QED BY <3>1, <3>2, <3>3, Before
  <2>2. n \in Route /\ n.s = r.s BY <2>1 DEF RouteChange, Route
  <2> HIDE DEF n
  <2>3. x \in LocalSet /\ x.route = n /\ x.then = loc[t].then /\ x.st = loc[t].st /\ x.cont = loc[t].cont /\ x.hw = loc[t].hw
    BY <2>1, <2>2 DEF LocalSet
  <2>4. pc' = [pc EXCEPT ![t] = "apply"] /\ loc' = [loc EXCEPT ![t] = x] /\ lock' = lock BY <1>5 DEF Goto, Locals
  <2> HIDE DEF x
  <2>5. x.route.s = loc[t].route.s BY <2>2, <2>3
  <2> QED BY <1>1, <1>2, <1>3, <2>3, <2>4, <2>5, RouteGoesOn
<1>6. Continue(t) \/ (Goto(t, "apply") /\ Locals(t, x) /\ UNCHANGED lock) BY DEF RouteRead
<1> QED BY <1>4, <1>5, <1>6

\* apply_route changes the route.
LEMMA RouteApplyStep ==
  ASSUME HalInv, NEW t \in Threads, RouteApply(t)
  PROVE  HalInv'
<1> DEFINE r == loc[t].route
<1>1. /\ pc[t] = "apply" /\ cm' = apply_route_l(cm, r) /\ Continue(t)
      /\ UNCHANGED <<outs, ins, voice_st, voice_trig_stream, active_voice_control>>
  BY DEF RouteApply, voice
<1>2. pc[t] \in Routing BY <1>1 DEF Routing
<1>3. cm \in Manager /\ r \in Route /\ r.s \in Streams
  <2>1. loc[t] \in LocalSet /\ cm \in Manager BY Before
  <2>2. r \in Route BY <2>1 DEF LocalSet
  <2> QED BY <1>2, <2>1, <2>2, RoutingPlace
<1>4. cm' \in Manager /\ cm'.ref_count = cm.ref_count /\ cm'.current_devices = [cm.current_devices EXCEPT ![r.s] = r.devices]
  BY <1>1, <1>3, RouteKeeps
<1>5. cm.ref_count[r.s] > 0
  <2>0. OnlyThread(t)
    <3>1. \A u \in Threads \ {t} : pc'[u] = pc[u] /\ loc'[u] = loc[u]
      <4>1. HalTypes BY DEF HalInv
      <4> QED BY <1>1, <4>1 DEF HalTypes, Continue, Return, Goto, Locals
    <3> QED BY <1>1, <3>1 DEF OnlyThread
  <2>1. CASE loc[t].then = "finish"
    <3>1. OwnUse(t, r.s) >= 1 BY <1>2, <2>1, RoutingPlace
    <3> QED BY <1>3, <2>0, <3>1, UsedIsCounted
  <2>2. CASE loc[t].then # "finish"
    <3>1. loc[t].then \in {"armed", "vrelease"} /\ voice_trig_stream = r.s BY <1>2, <2>2, RoutingPlace
    <3>2. Opening \/ VoiceHolds
      <4>1. CASE loc[t].then = "armed" BY <4>1 DEF Opening
      <4>2. CASE loc[t].then = "vrelease" BY <4>2, Before DEF VoicePlace
      <4> QED BY <3>1, <4>1, <4>2
    <3>3. VoiceUse(r.s) = 1 BY <3>1, <3>2 DEF VoiceUse
    <3> QED BY <1>3, <2>0, <3>3, UsedIsCounted
  <2> QED BY <2>1, <2>2
<1>6. \A s \in Streams : cm'.current_devices[s] # {} => cm'.ref_count[s] > 0
  <2>1. cm.current_devices \in [Streams -> SUBSET Bits] BY <1>3 DEF Manager
  <2>2. \A s \in Streams \ {r.s} : cm'.current_devices[s] = cm.current_devices[s] BY <1>4, <2>1
  <2>3. \A s \in Streams : cm.current_devices[s] # {} => cm.ref_count[s] > 0 BY Before
  <2> QED BY <1>4, <1>5, <2>2, <2>3
<1> QED BY <1>1, <1>2, <1>4, <1>6, ContinueStep DEF Continue
=============================================================================
