--------------------------- MODULE AudioHalProofs ---------------------------
(***************************************************************************)
(* What AudioHal promises for any configuration and any finite set of      *)
(* handles: the voice trigger's steps keep the invariant of AudioHalLemmas,*)
(* and the theorems follow from it.                                        *)
(***************************************************************************)
EXTENDS AudioHalStepProofs

\* The thread of adev_set_parameters.
LEMMA PolicyIs == "policy" \in Threads /\ "policy" \notin Outs /\ "policy" \notin Ins
BY AudioHalAssumption DEF Threads

\* voice_trigger_triggered.
LEMMA TriggeredStep ==
  ASSUME HalInv, voice_trigger_triggered("policy")
  PROVE  HalInv'
<1>1. voice_st \in VoiceStates BY DEF HalInv, HalTypes
<1>2. /\ pc["policy"] = "idle" /\ lock = Nobody
      /\ UNCHANGED <<cm, outs, ins, voice_trig_stream, active_voice_control, lock, pc, loc>>
      /\ voice_st' = (CASE voice_st = "TriggerArmed" -> "TriggerFired"
                        [] voice_st = "RecogArmed" -> "RecogFired"
                        [] OTHER -> voice_st)
  BY DEF voice_trigger_triggered
<1>3. \/ (voice_st = "TriggerArmed" /\ voice_st' = "TriggerFired")
      \/ (voice_st = "RecogArmed" /\ voice_st' = "RecogFired")
      \/ voice_st' = voice_st
  BY <1>2
<1>4. /\ voice_st' \in VoiceStates /\ (VoiceHolds' <=> VoiceHolds)
      /\ voice_st' \in {"TriggerIdle", "TriggerArmed", "TriggerFired"} => voice_st \in {"TriggerIdle", "TriggerArmed", "TriggerFired"}
      /\ voice_st' \in {"RecogAudio", "RecogReArm"} => voice_st \in {"RecogAudio", "RecogReArm"}
  BY <1>1, <1>3 DEF VoiceStates, VoiceHolds
<1> QED BY <1>2, <1>4, PolicyIs, VoiceStays

\* voice_trigger_disable.
LEMMA DisableStep ==
  ASSUME HalInv, voice_trigger_disable("policy")
  PROVE  HalInv'
<1> DEFINE t == "policy"
<1>0. t \in Threads /\ t \notin Outs /\ t \notin Ins /\ t = "policy" BY PolicyIs
<1>1. /\ pc[t] = "idle" /\ lock = Nobody
      /\ UNCHANGED <<cm, outs, ins, voice_trig_stream, active_voice_control>>
  BY DEF voice_trigger_disable
<1>2. voice_st \in VoiceStates BY DEF HalInv, HalTypes
<1>3. loc[t].then = "idle"
  <2>1. PolicyPlace(t) BY <1>0, Before
  <2> QED BY <1>1, <2>1 DEF PolicyPlace
<1>4. NoLocals \in LocalSet /\ NoLocals.then = "idle" BY NoLocalsTyped DEF NoLocals
<1>5. ASSUME NEW st \in {"TriggerIdle", "RecogIdle"}, CloseVoice(t, NoLocals, st, "idle"),
             VoiceHolds, voice_st \notin {"RecogAudio", "RecogReArm"}, NoTriggerOnly => st # "TriggerIdle"
      PROVE  HalInv'
  <2> DEFINE cont == "idle"
             base == NoLocals
  <2>1. \/ /\ voice_trig_stream = NULL /\ voice_st' = st /\ lock' = lock
           /\ pc' = [pc EXCEPT ![t] = cont] /\ loc' = [loc EXCEPT ![t] = base]
        \/ /\ voice_trig_stream # NULL /\ voice_st' = voice_st /\ lock' = t /\ pc' = [pc EXCEPT ![t] = "read"]
           /\ loc' = [loc EXCEPT ![t] = RouteLocals([base EXCEPT !.st = st, !.cont = cont], voice_trig_stream, {}, "vrelease")]
    BY <1>5 DEF CloseVoice, RouteNext, Goto, Locals, RouteLocals
  <2>2. base \in LocalSet /\ base.then = "idle" /\ cont = "idle" /\ cont \in {"idle", "source", "close"} BY <1>4
  <2>3. ins' \in [Ins -> InHandle] /\ t \in Ins \cup {"policy"} BY <1>0, <1>1, Before
  <2> HIDE DEF cont, base, t
  <2> QED BY <1>0, <1>1, <1>3, <1>5, <2>1, <2>2, <2>3, CloseVoiceStep
<1>6. NoTriggerOnly => voice_st \notin {"TriggerIdle", "TriggerArmed", "TriggerFired"} BY DEF HalInv, Counted
<1>7. CASE voice_st \in {"TriggerFired", "TriggerArmed"}
  <2> DEFINE st == "TriggerIdle"
  <2>1. CloseVoice(t, NoLocals, st, "idle") BY <1>7 DEF voice_trigger_disable
  <2>2. st \in {"TriggerIdle", "RecogIdle"} /\ VoiceHolds /\ voice_st \notin {"RecogAudio", "RecogReArm"} /\ ~ NoTriggerOnly
    BY <1>6, <1>7 DEF VoiceHolds
  <2> HIDE DEF st, t
  <2> QED BY <1>5, <2>1, <2>2
<1>8. CASE voice_st = "RecogArmed"
  <2> DEFINE st == "RecogIdle"
  <2>1. CloseVoice(t, NoLocals, st, "idle") BY <1>8 DEF voice_trigger_disable
  <2>2. st \in {"TriggerIdle", "RecogIdle"} /\ VoiceHolds /\ voice_st \notin {"RecogAudio", "RecogReArm"} /\ st # "TriggerIdle"
    BY <1>8 DEF VoiceHolds
  <2> HIDE DEF st, t
  <2> QED BY <1>5, <2>1, <2>2
<1>9. CASE voice_st \notin {"TriggerFired", "TriggerArmed", "RecogArmed"}
  <2>1. UNCHANGED <<lock, pc, loc>> /\ voice_st' = (IF voice_st = "RecogReArm" THEN "RecogAudio" ELSE voice_st)
    BY <1>9 DEF voice_trigger_disable
  <2>2. /\ voice_st' \in VoiceStates /\ (VoiceHolds' <=> VoiceHolds)
        /\ voice_st' \in {"TriggerIdle", "TriggerArmed", "TriggerFired"} => voice_st \in {"TriggerIdle", "TriggerArmed", "TriggerFired"}
        /\ voice_st' \in {"RecogAudio", "RecogReArm"} => voice_st \in {"RecogAudio", "RecogReArm"}
    <3>1. CASE voice_st = "RecogReArm" BY <2>1, <3>1 DEF VoiceStates, VoiceHolds
    <3>2. CASE voice_st # "RecogReArm" BY <1>2, <2>1, <3>2 DEF VoiceHolds
    <3> QED BY <3>1, <3>2
  <2> HIDE DEF t
  <2> QED BY <1>0, <1>1, <2>1, <2>2, VoiceStays
<1> QED BY <1>7, <1>8, <1>9

\* The voice trigger opens stream s, or finds that there is none.
LEMMA OpenVoiceStep ==
  ASSUME HalInv, NEW t \in Threads, t = "policy", pc[t] = "idle", lock = Nobody,
         NEW st \in {"TriggerArmed", "RecogArmed"}, NEW s \in Streams \cup {NULL},
         voice_trig_stream' = s, UNCHANGED <<outs, ins, active_voice_control>>,
         \/ s = NULL /\ voice_st' = st /\ UNCHANGED <<cm, lock, pc, loc>>
         \/ /\ s # NULL /\ cm' = open_stream_l(cm, s) /\ lock' = t /\ voice_st' = voice_st /\ pc' = [pc EXCEPT ![t] = "read"]
            /\ loc' = [loc EXCEPT ![t] = RouteLocals([NoLocals EXCEPT !.st = st], s, Mic, "armed")],
         voice_st \in {"TriggerIdle", "TriggerFired", "RecogIdle"},
         NoTriggerOnly => voice_st = "RecogIdle" /\ st = "RecogArmed"
  PROVE  HalInv'
<1>0. t \notin Outs /\ t \notin Ins BY WhoIs
<1>1. /\ cm \in Manager /\ pc[t] \in Labels /\ loc[t] \in LocalSet /\ PolicyPlace(t) /\ ins' \in [Ins -> InHandle]
      /\ \A r \in Streams : cm.ref_count[r] \in Nat /\ (cm.current_devices[r] # {} => cm.ref_count[r] > 0)
      /\ pc = [pc EXCEPT ![t] = pc[t]] /\ loc = [loc EXCEPT ![t] = loc[t]]
  BY Before
<1>2. loc[t].then = "idle" BY <1>1 DEF PolicyPlace
<1>3. active_voice_control' \in Ins \cup {Nobody} BY DEF HalInv, HalTypes
<1>4. \A r \in Streams : VoiceOwn(t, r) \in {0, 1} BY DEF VoiceOwn
<1>5. NoTriggerOnly => \A r \in Streams : VoiceOwn(t, r) = 0 BY <1>2 DEF VoiceOwn, VoiceHolds
<1>6. voice_st \notin {"RecogAudio", "RecogReArm"} /\ st \notin {"RecogAudio", "RecogReArm"} OBVIOUS
<1>7. CASE s = NULL
  <2>1. voice_st' = st /\ UNCHANGED <<cm, lock, pc, loc>> BY <1>7
  <2>2. \A r \in Streams : VoiceOwn(t, r)' = 0 BY <1>7, NullIsNoStream DEF VoiceOwn
  <2>3. \A r \in Streams : OwnUse(t, r)' = OwnUse(t, r) /\ OwnUse(t, r) \in Nat BY <1>0, <2>1 DEF OwnUse
  <2>4. \A r \in Streams : cm'.ref_count[r] >= cm.ref_count[r] + (OwnUse(t, r)' - OwnUse(t, r)) + (VoiceOwn(t, r)' - VoiceOwn(t, r))
    BY <1>1, <1>4, <2>1, <2>2, <2>3
  <2>5. NoTriggerOnly => \A r \in Streams : cm'.ref_count[r] = cm.ref_count[r] + (OwnUse(t, r)' - OwnUse(t, r)) + (VoiceOwn(t, r)' - VoiceOwn(t, r))
    BY <1>1, <1>5, <2>1, <2>2, <2>3
  <2>6. NoTriggerOnly => voice_st' \notin {"TriggerIdle", "TriggerArmed", "TriggerFired"} BY <2>1
  <2>7. PolicyPlace(t)' BY <1>1, <2>1 DEF PolicyPlace, Routing
  <2>8. VoicePlace(t)' BY <1>2, <2>1 DEF VoicePlace
  <2>9. CaptureHasOwner' BY <1>6, <2>1 DEF CaptureHasOwner
  <2>10. /\ pc' = [pc EXCEPT ![t] = pc[t]] /\ loc' = [loc EXCEPT ![t] = loc[t]] /\ cm' \in Manager
         /\ lock' \in Threads \cup {Nobody} /\ lock \in {t, Nobody} /\ voice_st' \in VoiceStates
         /\ \A r \in Streams : cm'.current_devices[r] # {} => cm'.ref_count[r] > 0
    BY <1>1, <2>1 DEF VoiceStates
  <2> QED BY <1>0, <1>1, <1>2, <1>3, <2>4, <2>5, <2>6, <2>7, <2>8, <2>9, <2>10, VoiceStep
<1>8. CASE s # NULL
  <2> DEFINE b == [NoLocals EXCEPT !.st = st]
             x == RouteLocals(b, s, Mic, "armed")
  <2>0. s \in Streams BY <1>8
  <2>1. /\ cm' = open_stream_l(cm, s) /\ lock' = t /\ voice_st' = voice_st /\ pc' = [pc EXCEPT ![t] = "read"]
        /\ loc' = [loc EXCEPT ![t] = x]
    BY <1>8
  <2>2. b \in LocalSet /\ b.st = st BY NoLocalsTyped DEF LocalSet, VoiceStates
  <2> HIDE DEF b
  <2>3. Mic \in SUBSET Bits BY AudioHalAssumption
  <2>4. x \in LocalSet /\ x.route.s = s /\ x.then = "armed" /\ x.st = st BY <2>0, <2>2, <2>3, RouteLocalsTyped
  <2> HIDE DEF x
  <2>5. pc'[t] = "read" /\ loc'[t] = x /\ "read" \in Labels
    <3>1. HalTypes BY DEF HalInv
    <3> QED BY <2>1, <3>1 DEF HalTypes, Labels
  <2>6. /\ cm' \in Manager /\ cm'.ref_count = [cm.ref_count EXCEPT ![s] = cm.ref_count[s] + 1]
        /\ cm'.current_devices = cm.current_devices
    BY <1>1, <2>0, <2>1, OpenKeeps
  <2>7. cm.ref_count \in [Streams -> Nat] BY <1>1 DEF Manager
  <2>8. \A r \in Streams : VoiceOwn(t, r)' = (IF r = s THEN 1 ELSE 0) BY <2>4, <2>5 DEF VoiceOwn
  <2>9. \A r \in Streams : OwnUse(t, r)' = OwnUse(t, r) /\ OwnUse(t, r) \in Nat BY <1>0 DEF OwnUse
  <2>10. \A r \in Streams : cm'.ref_count[r] = cm.ref_count[r] + (IF r = s THEN 1 ELSE 0) BY <1>1, <2>0, <2>6, <2>7
  <2>11. \A r \in Streams : cm'.ref_count[r] >= cm.ref_count[r] + (OwnUse(t, r)' - OwnUse(t, r)) + (VoiceOwn(t, r)' - VoiceOwn(t, r))
    BY <1>1, <1>4, <2>8, <2>9, <2>10
  <2>12. NoTriggerOnly => \A r \in Streams : cm'.ref_count[r] = cm.ref_count[r] + (OwnUse(t, r)' - OwnUse(t, r)) + (VoiceOwn(t, r)' - VoiceOwn(t, r))
    BY <1>1, <1>5, <2>8, <2>9, <2>10
  <2>13. NoTriggerOnly => voice_st' \notin {"TriggerIdle", "TriggerArmed", "TriggerFired"} /\ ~ VoiceHolds'
    BY <2>1 DEF VoiceHolds
  <2>14. PolicyPlace(t)' BY <2>4, <2>5 DEF PolicyPlace, Routing
  <2>15. VoicePlace(t)' BY <2>0, <2>1, <2>4, <2>5 DEF VoicePlace
  <2>16. CaptureHasOwner' BY <1>6, <2>1 DEF CaptureHasOwner
  <2>17. /\ lock' \in Threads \cup {Nobody} /\ lock \in {t, Nobody} /\ voice_st' \in VoiceStates
         /\ \A r \in Streams : cm'.current_devices[r] # {} => cm'.ref_count[r] > 0
    BY <1>1, <2>1, <2>6, <2>10 DEF VoiceStates
  <2> QED BY <1>0, <1>1, <1>3, <2>1, <2>4, <2>5, <2>6, <2>11, <2>12, <2>13, <2>14, <2>15, <2>16, <2>17, VoiceStep
<1> QED BY <1>7, <1>8

\* voice_trigger_enable.
LEMMA EnableStep ==
  ASSUME HalInv, voice_trigger_enable("policy")
  PROVE  HalInv'
<1> DEFINE t == "policy"
<1>0. t \in Threads /\ t = "policy" BY PolicyIs
<1>1. /\ pc[t] = "idle" /\ lock = Nobody /\ UNCHANGED <<outs, ins, active_voice_control>>
  BY DEF voice_trigger_enable
<1>2. voice_st \in VoiceStates BY DEF HalInv, HalTypes
<1>3. NoTriggerOnly => voice_st \notin {"TriggerIdle", "TriggerArmed", "TriggerFired"} BY DEF HalInv, Counted
<1>4. ASSUME NEW st \in {"TriggerArmed", "RecogArmed"}, NEW name, OpenVoice(t, name, st),
             voice_st \in {"TriggerIdle", "TriggerFired", "RecogIdle"},
             NoTriggerOnly => voice_st = "RecogIdle" /\ st = "RecogArmed"
      PROVE  HalInv'
  <2> DEFINE s == get_named_stream(cm, name)
  <2>1. s \in Streams \cup {NULL} BY NamedIsStream
  <2>2. /\ voice_trig_stream' = s
        /\ \/ s = NULL /\ voice_st' = st /\ UNCHANGED <<cm, lock, pc, loc>>
           \/ /\ s # NULL /\ cm' = open_stream_l(cm, s) /\ lock' = t /\ voice_st' = voice_st /\ pc' = [pc EXCEPT ![t] = "read"]
              /\ loc' = [loc EXCEPT ![t] = RouteLocals([NoLocals EXCEPT !.st = st], s, Mic, "armed")]
    BY <1>4 DEF OpenVoice, RouteNext, Goto, Locals, RouteLocals
  <2> HIDE DEF s, t
  <2> QED BY <1>0, <1>1, <1>4, <2>1, <2>2, OpenVoiceStep
<1>5. CASE voice_st \in {"TriggerIdle", "TriggerFired"}
  <2> DEFINE st == "TriggerArmed"
             name == "voice trigger"
  <2>1. OpenVoice(t, name, st) BY <1>5 DEF voice_trigger_enable
  <2>2. st \in {"TriggerArmed", "RecogArmed"} /\ ~ NoTriggerOnly BY <1>3, <1>5
  <2> HIDE DEF st, name, t
  <2> QED BY <1>4, <1>5, <2>1, <2>2
<1>6. CASE voice_st = "RecogIdle"
  <2> DEFINE st == "RecogArmed"
             name == "voice recognition"
  <2>1. OpenVoice(t, name, st) BY <1>6 DEF voice_trigger_enable
  <2>2. st \in {"TriggerArmed", "RecogArmed"} /\ st = "RecogArmed" OBVIOUS
  <2> HIDE DEF st, name, t
  <2> QED BY <1>4, <1>6, <2>1, <2>2
<1>7. CASE voice_st \notin {"TriggerIdle", "TriggerFired", "RecogIdle"}
  <2>1. /\ UNCHANGED <<cm, voice_trig_stream, lock, pc, loc>>
        /\ voice_st' = (IF voice_st = "RecogAudio" THEN "RecogReArm" ELSE voice_st)
    BY <1>7 DEF voice_trigger_enable
  <2>2. /\ voice_st' \in VoiceStates /\ (VoiceHolds' <=> VoiceHolds)
        /\ voice_st' \in {"TriggerIdle", "TriggerArmed", "TriggerFired"} => voice_st \in {"TriggerIdle", "TriggerArmed", "TriggerFired"}
        /\ voice_st' \in {"RecogAudio", "RecogReArm"} => voice_st \in {"RecogAudio", "RecogReArm"}
    <3>1. CASE voice_st = "RecogAudio" BY <2>1, <3>1 DEF VoiceStates, VoiceHolds
    <3>2. CASE voice_st # "RecogAudio" BY <1>2, <2>1, <3>2 DEF VoiceHolds
    <3> QED BY <3>1, <3>2
  <2> HIDE DEF t
  <2> QED BY <1>0, <1>1, <2>1, <2>2, VoiceStays
<1> QED BY <1>5, <1>6, <1>7

\* The input that ends the capture stage goes on to its source, or to its close.
LEMMA AudioEndedStep ==
  ASSUME HalInv, NEW h \in Ins, lock = Nobody, pc[h] \in {"idle", "voice"}, ins[h].open, loc[h].then = "idle",
         NEW base \in LocalSet, base.then = "idle", NEW cont \in {"source", "close"},
         cont = "source" => base.hw \in Streams /\ ins[h].hw = base.hw,
         voice_trigger_audio_ended_locked(h, base, cont), active_voice_control' = Nobody,
         UNCHANGED <<cm, outs, voice_trig_stream>>,
         ins' \in [Ins -> InHandle], \A k \in Ins \ {h} : ins'[k] = ins[k],
         ins'[h].hw = ins[h].hw, ins'[h].open = ins[h].open
  PROVE  HalInv'
<1>0. h \in Threads /\ h \notin Outs /\ h # "policy" /\ Nobody \notin Ins
  BY WhoIs, AudioHalAssumption
<1>1. voice_st \in VoiceStates BY DEF HalInv, HalTypes
<1>2. NoTriggerOnly => voice_st \notin {"TriggerIdle", "TriggerArmed", "TriggerFired"} BY DEF HalInv, Counted
<1>3. CASE voice_st = "RecogAudio"
  <2> DEFINE st == "RecogIdle"
  <2>1. \/ /\ voice_trig_stream = NULL /\ voice_st' = st /\ lock' = lock
           /\ pc' = [pc EXCEPT ![h] = cont] /\ loc' = [loc EXCEPT ![h] = base]
        \/ /\ voice_trig_stream # NULL /\ voice_st' = voice_st /\ lock' = h /\ pc' = [pc EXCEPT ![h] = "read"]
           /\ loc' = [loc EXCEPT ![h] = RouteLocals([base EXCEPT !.st = st, !.cont = cont], voice_trig_stream, {}, "vrelease")]
    BY <1>3 DEF voice_trigger_audio_ended_locked, CloseVoice, RouteNext, Goto, Locals, RouteLocals
  <2>2. st \in {"TriggerIdle", "RecogIdle"} /\ st # "TriggerIdle" /\ VoiceHolds BY <1>3 DEF VoiceHolds
  <2>3. h \in Ins \cup {"policy"} /\ cont \in {"idle", "source", "close"} /\ cont # "idle" /\ pc[h] # "swap" OBVIOUS
  <2> HIDE DEF st
  <2> QED BY Zenon, <1>0, <2>1, <2>2, <2>3, CloseVoiceStep
<1>4. CASE voice_st # "RecogAudio"
  <2>1. /\ voice_st' = (IF voice_st = "RecogReArm" THEN "RecogArmed" ELSE voice_st)
        /\ pc' = [pc EXCEPT ![h] = cont] /\ loc' = [loc EXCEPT ![h] = base] /\ lock' = lock
    BY <1>4 DEF voice_trigger_audio_ended_locked, Goto, Locals
  <2>2. /\ voice_st' \in VoiceStates /\ (VoiceHolds' <=> VoiceHolds) /\ voice_st' \notin {"RecogAudio", "RecogReArm"}
        /\ NoTriggerOnly => voice_st' \notin {"TriggerIdle", "TriggerArmed", "TriggerFired"}
    <3>1. CASE voice_st = "RecogReArm" BY <2>1, <3>1 DEF VoiceStates, VoiceHolds
    <3>2. CASE voice_st # "RecogReArm" BY <1>1, <1>2, <1>4, <2>1, <3>2 DEF VoiceHolds
    <3> QED BY <3>1, <3>2
  <2>3. pc'[h] = cont /\ loc'[h] = base /\ cont \in Labels
    <3>1. HalTypes BY DEF HalInv
    <3> QED BY <1>0, <2>1, <3>1 DEF HalTypes, Labels
  <2>4. InPlace(h)' BY <1>0, <2>3 DEF InPlace, Routing, Changing
  <2>5. VoicePlace(h)' BY <2>3 DEF VoicePlace
  <2>6. CaptureHasOwner' BY <2>2 DEF CaptureHasOwner
  <2> QED BY <1>0, <2>1, <2>2, <2>3, <2>4, <2>5, <2>6, VoiceQuiet
<1> QED BY <1>3, <1>4

\* The voice trigger has nothing to learn from this input.
LEMMA VoiceUntold ==
  ASSUME HalInv, NEW h \in Ins, lock = Nobody, pc[h] \in {"idle", "voice"}, ins[h].open, loc[h].then = "idle",
         NEW cont \in {"source", "close"}, pc' = [pc EXCEPT ![h] = cont],
         cont = "source" => loc[h].hw \in Streams /\ ins[h].hw = loc[h].hw,
         cont = "close" => active_voice_control # h,
         UNCHANGED <<cm, outs, voice_st, voice_trig_stream, active_voice_control, lock, loc>>,
         ins' \in [Ins -> InHandle], \A k \in Ins \ {h} : ins'[k] = ins[k],
         ins'[h].hw = ins[h].hw, ins'[h].open = ins[h].open
  PROVE  HalInv'
<1>0. h \in Threads /\ h \notin Outs /\ h # "policy" BY WhoIs
<1>1. voice_st' \in VoiceStates /\ active_voice_control' \in Ins \cup {Nobody} BY DEF HalInv, HalTypes
<1>2. NoTriggerOnly => voice_st' \notin {"TriggerIdle", "TriggerArmed", "TriggerFired"} BY DEF HalInv, Counted
<1>3. loc[h] \in LocalSet /\ loc' = [loc EXCEPT ![h] = loc[h]] BY <1>0, Before
<1>4. pc'[h] = cont /\ cont \in Labels
  <2>1. HalTypes BY DEF HalInv
  <2> QED BY <1>0, <2>1 DEF HalTypes, Labels
<1>5. InPlace(h)' BY <1>4 DEF InPlace, Routing, Changing
<1>6. VoicePlace(h)' BY DEF VoicePlace
<1>7. VoiceHolds' <=> VoiceHolds BY DEF VoiceHolds
<1>8. CaptureHasOwner'
  <2>1. \A k \in Ins : ins'[k].open = ins[k].open OBVIOUS
  <2>2. CaptureHasOwner BY DEF HalInv
  <2> QED BY <2>1, <2>2 DEF CaptureHasOwner
<1> QED BY <1>0, <1>1, <1>2, <1>3, <1>4, <1>5, <1>6, <1>7, <1>8, VoiceQuiet

\* The audio of the recogniser starts with this input.
LEMMA AudioStartedStep ==
  ASSUME HalInv, NEW h \in Ins, lock = Nobody, pc[h] = "voice", pc' = [pc EXCEPT ![h] = "source"],
         active_voice_control' = h, voice_st' = voice_trigger_audio_started_locked(voice_st),
         UNCHANGED <<cm, outs, ins, voice_trig_stream, lock, loc>>
  PROVE  HalInv'
<1>0. h \in Threads /\ h \notin Outs /\ h # "policy" BY WhoIs
<1>1. voice_st \in VoiceStates BY DEF HalInv, HalTypes
<1>2. NoTriggerOnly => voice_st \notin {"TriggerIdle", "TriggerArmed", "TriggerFired"} BY DEF HalInv, Counted
<1>3. /\ loc[h] \in LocalSet /\ loc' = [loc EXCEPT ![h] = loc[h]] /\ InPlace(h) /\ ins' \in [Ins -> InHandle]
      /\ lock' \in Threads \cup {Nobody}
  BY <1>0, Before
<1>4. pc'[h] = "source" /\ "source" \in Labels
  <2>1. HalTypes BY DEF HalInv
  <2> QED BY <1>0, <2>1 DEF HalTypes, Labels
<1>5. ins[h].open /\ loc[h].then = "idle" /\ loc[h].hw \in Streams /\ ins[h].hw = loc[h].hw BY <1>3 DEF InPlace, Changing
<1>6. InPlace(h)' BY <1>4, <1>5 DEF InPlace, Routing, Changing
<1>7. VoicePlace(h)' BY <1>5 DEF VoicePlace
<1>8. /\ voice_st' \in VoiceStates /\ (VoiceHolds' <=> VoiceHolds)
      /\ NoTriggerOnly => voice_st' \notin {"TriggerIdle", "TriggerArmed", "TriggerFired"}
  <2>1. CASE voice_st = "RecogFired" BY <2>1 DEF voice_trigger_audio_started_locked, VoiceStates, VoiceHolds
  <2>2. CASE voice_st # "RecogFired" BY <1>1, <1>2, <2>2 DEF voice_trigger_audio_started_locked, VoiceHolds
  <2> QED BY <2>1, <2>2
<1>9. CaptureHasOwner' BY <1>5 DEF CaptureHasOwner
<1> QED BY <1>0, <1>3, <1>4, <1>5, <1>6, <1>7, <1>8, <1>9, VoiceQuiet

\* change_input_source_locked tells the voice trigger.
LEMMA InVoiceStep ==
  ASSUME HalInv, NEW h \in Ins, InVoice(h)
  PROVE  HalInv'
<1>0. h \in Threads /\ h \notin Outs /\ h # "policy" BY WhoIs
<1>1. pc[h] = "voice" /\ lock = Nobody /\ UNCHANGED <<cm, outs, ins, voice_trig_stream>> BY DEF InVoice
<1>2. InPlace(h) /\ loc[h] \in LocalSet /\ ins' \in [Ins -> InHandle] BY <1>0, <1>1, Before
<1>3. ins[h].open /\ loc[h].then = "idle" /\ loc[h].hw \in Streams /\ ins[h].hw = loc[h].hw
  BY <1>1, <1>2 DEF InPlace, Changing
<1>4. CASE loc[h].source = Recognition
  <2>1. /\ active_voice_control' = h /\ voice_st' = voice_trigger_audio_started_locked(voice_st)
        /\ pc' = [pc EXCEPT ![h] = "source"] /\ UNCHANGED <<loc, lock>>
    BY <1>4 DEF InVoice, Goto
  <2> QED BY <1>1, <2>1, AudioStartedStep
<1>5. CASE loc[h].source # Recognition /\ active_voice_control = h
  <2> DEFINE cont == "source"
             base == loc[h]
  <2>1. active_voice_control' = Nobody /\ voice_trigger_audio_ended_locked(h, base, cont) BY <1>5 DEF InVoice
  <2>2. cont \in {"source", "close"} /\ base \in LocalSet /\ base.then = "idle" /\ base.hw \in Streams /\ ins[h].hw = base.hw
    BY <1>2, <1>3
  <2> HIDE DEF cont, base
  <2> QED BY <1>1, <1>2, <1>3, <2>1, <2>2, AudioEndedStep
<1>6. CASE loc[h].source # Recognition /\ active_voice_control # h
  <2> DEFINE cont == "source"
  <2>1. pc' = [pc EXCEPT ![h] = cont] /\ UNCHANGED <<active_voice_control, voice_st, loc, lock>>
    BY <1>6 DEF InVoice, Goto
  <2>2. cont \in {"source", "close"} /\ cont # "close" OBVIOUS
  <2> HIDE DEF cont
  <2> QED BY <1>1, <1>2, <1>3, <2>1, <2>2, VoiceUntold
<1> QED BY <1>4, <1>5, <1>6

\* do_close_in_common, up to the release of the stream.
LEMMA CloseInStep ==
  ASSUME HalInv, NEW h \in Ins, adev_close_input_stream(h)
  PROVE  HalInv'
<1>0. h \in Threads /\ h \notin Outs /\ h # "policy" BY WhoIs
<1>1. /\ pc[h] = "idle" /\ ins[h].open /\ lock = Nobody /\ ins' = [ins EXCEPT ![h].standby = TRUE]
      /\ UNCHANGED <<cm, outs, voice_trig_stream>>
  BY DEF adev_close_input_stream
<1>2. InPlace(h) /\ ins[h] \in InHandle /\ ins \in [Ins -> InHandle] BY <1>0, Before
<1>3. loc[h].then = "idle" BY <1>1, <1>2 DEF InPlace
<1>4. /\ ins' \in [Ins -> InHandle] /\ (\A k \in Ins \ {h} : ins'[k] = ins[k])
      /\ ins'[h].hw = ins[h].hw /\ ins'[h].open = ins[h].open
  BY <1>1, <1>2 DEF InHandle
<1> DEFINE cont == "close"
           base == NoLocals
<1>5. cont \in {"source", "close"} /\ cont # "source" /\ base \in LocalSet /\ base.then = "idle"
  BY NoLocalsTyped DEF NoLocals
<1>6. CASE active_voice_control = h
  <2>1. active_voice_control' = Nobody /\ voice_trigger_audio_ended_locked(h, base, cont)
    BY <1>6 DEF adev_close_input_stream
  <2> HIDE DEF cont, base
  <2> QED BY Zenon, <1>1, <1>3, <1>4, <1>5, <2>1, AudioEndedStep
<1>7. CASE active_voice_control # h
  <2>1. pc' = [pc EXCEPT ![h] = cont] /\ UNCHANGED <<active_voice_control, voice_st, loc, lock>>
    BY <1>7 DEF adev_close_input_stream, Goto
  <2> HIDE DEF cont, base
  <2> QED BY <1>1, <1>3, <1>4, <1>5, <1>7, <2>1, VoiceUntold
<1> QED BY <1>6, <1>7

\* The voice trigger is armed: what was opened is now held.
LEMMA VoiceArmedStep ==
  ASSUME HalInv, NEW t \in Threads, VoiceArmed(t)
  PROVE  HalInv'
<1>1. /\ pc[t] = "armed" /\ voice_st' = loc[t].st /\ lock' = Nobody
      /\ pc' = [pc EXCEPT ![t] = "idle"] /\ loc' = [loc EXCEPT ![t] = NoLocals]
      /\ UNCHANGED <<cm, outs, ins, voice_trig_stream, active_voice_control>>
  BY DEF VoiceArmed, Return, Goto, Locals
<1>2. t = "policy" /\ t \notin Outs /\ t \notin Ins
  <2>1. t \in Outs => OutPlace(t) BY Before
  <2>2. t \in Ins => InPlace(t) BY Before
  <2>3. t \notin Outs /\ t \notin Ins BY <1>1, <2>1, <2>2 DEF OutPlace, InPlace
  <2> QED BY <2>3 DEF Threads
<1>3. loc[t].then = "armed" BY <1>1, <1>2, Before DEF PolicyPlace
<1>4. /\ lock = t /\ loc[t].st \in {"TriggerArmed", "RecogArmed"}
      /\ NoTriggerOnly => loc[t].st \notin {"TriggerIdle", "TriggerArmed"}
  BY <1>3, Before DEF VoicePlace
<1>5. NoLocals \in LocalSet /\ NoLocals.then = "idle" BY NoLocalsTyped DEF NoLocals
<1>6. pc'[t] = "idle" /\ loc'[t] = NoLocals /\ "idle" \in Labels
  <2>1. HalTypes BY DEF HalInv
  <2> QED BY <1>1, <2>1 DEF HalTypes, Labels
<1>7. PolicyPlace(t)' /\ VoicePlace(t)' BY <1>5, <1>6 DEF PolicyPlace, VoicePlace, Routing
<1>8. CaptureHasOwner' BY <1>1, <1>4 DEF CaptureHasOwner
<1>9. /\ cm' \in Manager /\ ins' \in [Ins -> InHandle] /\ lock' \in Threads \cup {Nobody} /\ lock \in {t, Nobody}
      /\ \A s \in Streams : cm.ref_count[s] \in Nat /\ (cm'.current_devices[s] # {} => cm'.ref_count[s] > 0)
  BY <1>1, <1>4, Before
<1>10. voice_st' \in VoiceStates /\ voice_trig_stream' \in Streams \cup {NULL} /\ active_voice_control' \in Ins \cup {Nobody}
  BY <1>1, <1>4 DEF HalInv, HalTypes, VoiceStates
<1>11. NoTriggerOnly => voice_st' \notin {"TriggerIdle", "TriggerArmed", "TriggerFired"} BY <1>1, <1>4
<1>12. \A s \in Streams : VoiceOwn(t, s)' = VoiceOwn(t, s) /\ VoiceOwn(t, s) \in {0, 1}
  <2>1. VoiceHolds' BY <1>1, <1>4 DEF VoiceHolds
  <2> QED BY <1>1, <1>3, <2>1 DEF VoiceOwn
<1>13. \A s \in Streams : OwnUse(t, s)' = OwnUse(t, s) /\ OwnUse(t, s) \in Nat BY <1>2 DEF OwnUse
<1>14. \A s \in Streams : cm'.ref_count[s] = cm.ref_count[s] + (OwnUse(t, s)' - OwnUse(t, s)) + (VoiceOwn(t, s)' - VoiceOwn(t, s))
  BY <1>1, <1>9, <1>12, <1>13
<1>15. \A s \in Streams : cm'.ref_count[s] >= cm.ref_count[s] + (OwnUse(t, s)' - OwnUse(t, s)) + (VoiceOwn(t, s)' - VoiceOwn(t, s))
  <2>1. \A s \in Streams : cm'.ref_count[s] >= cm'.ref_count[s] BY <1>1, <1>9
  <2> QED BY <1>14, <2>1
<1> QED BY <1>1, <1>2, <1>5, <1>6, <1>7, <1>8, <1>9, <1>10, <1>11, <1>14, <1>15, VoiceStep

\* The voice trigger is off: its stream is released.
LEMMA VoiceReleaseStep ==
  ASSUME HalInv, NEW t \in Threads, VoiceRelease(t)
  PROVE  HalInv'
<1> DEFINE s == voice_trig_stream
           x == [loc[t] EXCEPT !.route = NoRoute, !.then = "idle", !.st = "None", !.cont = "idle"]
<1>1. /\ pc[t] = "vrelease" /\ cm' = release_stream(cm, s) /\ voice_st' = loc[t].st /\ lock' = Nobody
      /\ pc' = [pc EXCEPT ![t] = loc[t].cont] /\ loc' = [loc EXCEPT ![t] = x]
      /\ UNCHANGED <<outs, ins, voice_trig_stream, active_voice_control>>
  BY DEF VoiceRelease, VoiceReleased, Goto, Locals
<1>2. t \notin Outs
  <2>1. t \in Outs => OutPlace(t) BY Before
  <2> QED BY <1>1, <2>1 DEF OutPlace
<1>3. loc[t].then = "vrelease"
  <2>1. t \in Ins => InPlace(t) BY Before
  <2>2. t = "policy" => PolicyPlace(t) BY Before
  <2>3. CASE t \in Ins BY <1>1, <2>1, <2>3 DEF InPlace
  <2>4. CASE t = "policy" BY <1>1, <2>2, <2>4 DEF PolicyPlace
  <2> QED BY <1>2, <2>3, <2>4 DEF Threads
<1>4. /\ lock = t /\ s \in Streams /\ VoiceHolds /\ loc[t].st \in {"TriggerIdle", "RecogIdle"}
      /\ NoTriggerOnly => loc[t].st \notin {"TriggerIdle", "TriggerArmed"}
  BY <1>3, Before DEF VoicePlace
<1>5. x \in LocalSet /\ x.then = "idle" /\ x.hw = loc[t].hw
  <2>1. loc[t] \in LocalSet BY Before
  <2> QED BY <2>1, NoLocalsTyped DEF LocalSet, VoiceStates
<1> HIDE DEF s, x
<1>6. pc'[t] = loc[t].cont /\ loc'[t] = x /\ loc[t].cont \in {"idle", "source", "close"} /\ loc[t].cont \in Labels
  <2>1. HalTypes BY DEF HalInv
  <2>2. pc'[t] = loc[t].cont /\ loc'[t] = x BY <1>1, <2>1 DEF HalTypes
  <2>3. loc[t].cont \in {"idle", "source", "close"} BY Before DEF LocalSet
  <2> QED BY <2>2, <2>3 DEF Labels
<1>7. t = "policy" => PolicyPlace(t)'
  <2>1. t = "policy" => PolicyPlace(t) BY Before
  <2> QED BY <1>3, <1>5, <1>6, <2>1 DEF PolicyPlace, Routing
<1>8. t \in Ins => InPlace(t)'
  <2> SUFFICES ASSUME t \in Ins PROVE InPlace(t)' OBVIOUS
  <2>1. InPlace(t) BY Before
  <2>2. /\ loc[t].cont \in {"source", "close"} /\ active_voice_control # t /\ ins[t].open
        /\ loc[t].cont = "source" => loc[t].hw \in Streams /\ ins[t].hw = loc[t].hw
    BY <1>1, <1>3, <2>1 DEF InPlace
  <2> QED BY <1>1, <1>5, <1>6, <2>2 DEF InPlace, Routing, Changing
<1>9. VoicePlace(t)' BY <1>5, <1>6 DEF VoicePlace
<1>10. CaptureHasOwner' BY <1>1, <1>4 DEF CaptureHasOwner
<1>11. OnlyThread(t)
  <2>1. HalTypes BY DEF HalInv
  <2> QED BY <1>1, <2>1 DEF HalTypes, OnlyThread
<1>12. VoiceUse(s) = 1 BY <1>4 DEF VoiceUse, s
<1>13. cm.ref_count[s] > 0 BY <1>4, <1>11, <1>12, UsedIsCounted
<1>14. /\ cm \in Manager /\ ins' \in [Ins -> InHandle] /\ lock' \in Threads \cup {Nobody} /\ lock \in {t, Nobody}
       /\ \A r \in Streams : cm.ref_count[r] \in Nat /\ (cm.current_devices[r] # {} => cm.ref_count[r] > 0)
       /\ t \in Ins => (ins'[t].hw # NULL => ins'[t].open)
  BY <1>1, <1>4, Before
<1>15. /\ cm' \in Manager /\ cm'.ref_count = [cm.ref_count EXCEPT ![s] = cm.ref_count[s] - 1]
       /\ cm'.current_devices = IF cm.ref_count[s] = 1 THEN [cm.current_devices EXCEPT ![s] = {}] ELSE cm.current_devices
  BY <1>1, <1>4, <1>13, <1>14, ReleaseKeeps
<1>16. cm.ref_count \in [Streams -> Nat] /\ cm.current_devices \in [Streams -> SUBSET Bits] BY <1>14 DEF Manager
<1>17. \A r \in Streams : cm'.current_devices[r] # {} => cm'.ref_count[r] > 0
  <2>1. \A r \in Streams \ {s} : cm'.current_devices[r] = cm.current_devices[r] /\ cm'.ref_count[r] = cm.ref_count[r]
    BY <1>4, <1>15, <1>16
  <2>2. cm.ref_count[s] \in Nat BY <1>4, <1>14
  <2>3. cm'.ref_count[s] = cm.ref_count[s] - 1 BY <1>4, <1>15, <1>16
  <2>4. cm.ref_count[s] = 1 => cm'.current_devices[s] = {} BY <1>4, <1>15, <1>16
  <2>5. cm'.current_devices[s] # {} => cm'.ref_count[s] > 0 BY <1>13, <2>2, <2>3, <2>4
  <2> QED BY <1>14, <2>1, <2>5
<1>18. \A r \in Streams : VoiceOwn(t, r)' = 0 /\ VoiceOwn(t, r) = (IF r = s THEN 1 ELSE 0)
  <2>1. ~ VoiceHolds' BY <1>1, <1>4 DEF VoiceHolds
  <2> QED BY <1>4, <1>5, <1>6, <2>1 DEF VoiceOwn, s
<1>19. \A r \in Streams : OwnUse(t, r)' = OwnUse(t, r) /\ OwnUse(t, r) \in Nat BY <1>1, <1>2, <1>6 DEF OwnUse
<1>20. \A r \in Streams : cm'.ref_count[r] = cm.ref_count[r] - (IF r = s THEN 1 ELSE 0) /\ cm'.ref_count[r] \in Nat
  <2>1. cm'.ref_count \in [Streams -> Nat] BY <1>15 DEF Manager
  <2> QED BY <1>4, <1>14, <1>15, <1>16, <2>1
<1>21. \A r \in Streams : cm'.ref_count[r] = cm.ref_count[r] + (OwnUse(t, r)' - OwnUse(t, r)) + (VoiceOwn(t, r)' - VoiceOwn(t, r))
  BY <1>14, <1>18, <1>19, <1>20
<1>22. \A r \in Streams : cm'.ref_count[r] >= cm.ref_count[r] + (OwnUse(t, r)' - OwnUse(t, r)) + (VoiceOwn(t, r)' - VoiceOwn(t, r))
  <2>1. \A r \in Streams : cm'.ref_count[r] >= cm'.ref_count[r] BY <1>20
  <2> QED BY <1>21, <2>1
<1>23. voice_st' \in VoiceStates /\ voice_trig_stream' \in Streams \cup {NULL} /\ active_voice_control' \in Ins \cup {Nobody}
  BY <1>1, <1>4 DEF HalInv, HalTypes, VoiceStates
<1>24. NoTriggerOnly => voice_st' \notin {"TriggerIdle", "TriggerArmed", "TriggerFired"} BY <1>1, <1>4
<1> QED BY <1>1, <1>2, <1>5, <1>6, <1>7, <1>8, <1>9, <1>10, <1>14, <1>15, <1>17, <1>21, <1>22, <1>23, <1>24, VoiceStep

\* Nothing is open when the device is.
LEMMA HalInitial == Init => HalInv
<1> SUFFICES ASSUME Init PROVE HalInv OBVIOUS
<1>1. NoLocals \in LocalSet /\ NoLocals.then = "idle" BY NoLocalsTyped DEF NoLocals
<1>2. ClosedOut \in OutHandle /\ ~ ClosedOut.open /\ ClosedOut.hw = NULL BY DEF ClosedOut, OutHandle
<1>3. ClosedIn \in InHandle /\ ClosedIn.hw = NULL BY DEF ClosedIn, InHandle, Sources
<1>4. NewManager \in Manager BY DEF NewManager, Manager, DeviceState
<1>5. /\ outs \in [Outs -> OutHandle] /\ ins \in [Ins -> InHandle] /\ cm \in Manager
      /\ \A h \in Outs : outs[h] = ClosedOut
      /\ \A h \in Ins : ins[h] = ClosedIn
      /\ \A t \in Threads : pc[t] = "idle" /\ loc[t] = NoLocals
  BY <1>2, <1>3, <1>4 DEF Init
<1>6. voice_st = voice_trigger_init /\ voice_trig_stream = NULL /\ active_voice_control = Nobody /\ lock = Nobody
  BY DEF Init
<1>7. voice_st \in {"None", "TriggerIdle", "RecogIdle"} /\ (NoTriggerOnly => voice_st # "TriggerIdle")
  BY <1>6 DEF voice_trigger_init, NoTriggerOnly
<1>8. HalTypes
  <2>1. pc \in [Threads -> Labels] /\ loc \in [Threads -> LocalSet] BY <1>1 DEF Init, Labels
  <2>2. \A h \in Outs : outs[h].open = (outs[h].hw \in Streams)
    <3> SUFFICES ASSUME NEW h \in Outs PROVE outs[h].open = (outs[h].hw \in Streams) OBVIOUS
    <3>1. outs[h].open \in BOOLEAN /\ ~ outs[h].open /\ outs[h].hw \notin Streams
      BY <1>2, <1>5, NullIsNoStream DEF OutHandle
    <3> QED BY <3>1, ClosedHasNone
  <2>3. \A h \in Ins : ins[h].hw # NULL => ins[h].open BY <1>3, <1>5
  <2> QED BY <1>5, <1>6, <1>7, <2>1, <2>2, <2>3 DEF HalTypes, VoiceStates
<1>9. Places
  <2>0. Nobody \notin Ins BY AudioHalAssumption
  <2>1. \A h \in Outs : OutPlace(h) BY <1>1, <1>5 DEF OutPlace, Threads, Routing
  <2>2. \A h \in Ins : InPlace(h) BY <1>1, <1>5, <1>6, <2>0 DEF InPlace, Threads, Routing, Changing
  <2>3. PolicyPlace("policy") BY <1>1, <1>5 DEF PolicyPlace, Threads, Routing
  <2>4. \A t \in Threads : VoicePlace(t) BY <1>1, <1>5 DEF VoicePlace
  <2> QED BY <2>1, <2>2, <2>3, <2>4 DEF Places
<1>10. Counted
  <2>1. \A s \in Streams : cm.ref_count[s] = 0 /\ cm.current_devices[s] = {} BY DEF Init, NewManager
  <2>2. ~ Opening /\ ~ VoiceHolds BY <1>1, <1>5, <1>7 DEF Opening, VoiceHolds
  <2>3. \A s \in Streams : Holders(s) = 0
    <3> SUFFICES ASSUME NEW s \in Streams PROVE Holders(s) = 0 OBVIOUS
    <3>1. s # NULL BY NullIsNoStream
    <3>2. {h \in Outs : outs[h].hw = s} = {} BY <1>2, <1>5, <3>1
    <3>3. {h \in Ins : ins[h].hw = s} = {} BY <1>3, <1>5, <3>1
    <3>4. {h \in Ins : pc[h] = "swap" /\ loc[h].hw = s} = {} BY <1>5 DEF Threads
    <3>5. Cardinality({}) = 0 BY FS_EmptySet
    <3>6. Holders(s) = Cardinality({}) + Cardinality({}) + Cardinality({})
                       + (IF voice_trig_stream = s /\ (Opening \/ VoiceHolds) THEN 1 ELSE 0)
      BY <3>2, <3>3, <3>4, Zenon DEF Holders
    <3> QED BY <2>2, <3>5, <3>6
  <2> QED BY <1>7, <2>1, <2>2, <2>3 DEF Counted, RefsExact, RoutedMeansHeld
<1>11. CaptureHasOwner BY <1>7 DEF CaptureHasOwner
<1> QED BY <1>8, <1>9, <1>10, <1>11 DEF HalInv

\* A step in which nothing happens.
LEMMA HalStutters == HalInv /\ UNCHANGED vars => HalInv'
<1> SUFFICES ASSUME HalInv, UNCHANGED vars PROVE HalInv' OBVIOUS
<1>1. UNCHANGED <<cm, outs, ins, voice_st, voice_trig_stream, active_voice_control, lock, pc, loc>> BY DEF vars, voice
<1>2. HalTypes' BY <1>1 DEF HalInv, HalTypes
<1>3. Opening' = Opening /\ VoiceHolds' = VoiceHolds BY <1>1 DEF Opening, VoiceHolds
<1>4. Places' BY Zenon, <1>1, <1>3 DEF HalInv, Places, OutPlace, InPlace, PolicyPlace, VoicePlace
<1>5. \A s \in Streams : Holders(s)' = Holders(s) BY <1>1, <1>3 DEF Holders
<1>6. Counted' BY <1>1, <1>3, <1>5 DEF HalInv, Counted, RefsExact, RoutedMeansHeld
<1>7. CaptureHasOwner' BY <1>1 DEF HalInv, CaptureHasOwner
<1> QED BY <1>2, <1>4, <1>6, <1>7 DEF HalInv

\* Every step of the audio HAL keeps its inductive invariant.
LEMMA HalStep == HalInv /\ [Next]_vars => HalInv'
<1> SUFFICES ASSUME HalInv, [Next]_vars PROVE HalInv' OBVIOUS
<1>1. ASSUME NEW h \in Outs, OutCall(h) PROVE HalInv'
  BY <1>1, OpenOutStep, OutParametersStep, OutPcmStep, CloseOutStep DEF OutCall
<1>2. ASSUME NEW h \in Ins, InCall(h) PROVE HalInv'
  BY <1>2, InPcmStep, InParametersStep, InSearchStep, InSwapStep, InVoiceStep, InSourceStep, CloseInStep, InCloseStep
  DEF InCall
<1>3. CASE PolicyCall("policy") BY <1>3, EnableStep, DisableStep, TriggeredStep DEF PolicyCall
<1>4. ASSUME NEW t \in Threads, RouteRead(t) \/ RouteApply(t) \/ VoiceRelease(t) \/ VoiceArmed(t) PROVE HalInv'
  BY <1>4, RouteReadStep, RouteApplyStep, VoiceReleaseStep, VoiceArmedStep
<1>5. CASE UNCHANGED vars BY <1>5, HalStutters
<1> QED BY <1>1, <1>2, <1>3, <1>4, <1>5 DEF Next

\* The inductive invariant holds in every state.
THEOREM HalSoundThm == Spec => []HalInv
BY HalInitial, HalStep, PTL DEF Spec

\* While the recogniser captures, some input will end the capture stage.
THEOREM CaptureHasOwnerThm == Spec => []CaptureHasOwner
<1>1. HalInv => CaptureHasOwner BY DEF HalInv
<1> QED BY <1>1, HalSoundThm, PTL

\* Types; never fewer references than users; routes go with the last reference.
THEOREM HeldThm == Spec => [](TypeOK /\ (\A s \in Streams : cm.ref_count[s] >= Holders(s)) /\ RoutedMeansHeld)
<1>1. HalInv => TypeOK /\ (\A s \in Streams : cm.ref_count[s] >= Holders(s)) /\ RoutedMeansHeld
  <2> SUFFICES ASSUME HalInv PROVE TypeOK /\ (\A s \in Streams : cm.ref_count[s] >= Holders(s)) /\ RoutedMeansHeld OBVIOUS
  <2>1. TypeOK BY DEF HalInv, HalTypes, TypeOK, OutHandle, InHandle
  <2> QED BY <2>1 DEF HalInv, Counted
<1> QED BY <1>1, HalSoundThm, PTL

\* With a recogniser, or without a voice trigger, the references are exactly the users.
THEOREM StreamsHeldThm == ASSUME NoTriggerOnly PROVE Spec => []StreamsHeld
<1>1. HalInv => StreamsHeld
  <2> SUFFICES ASSUME HalInv PROVE StreamsHeld OBVIOUS
  <2>1. TypeOK BY DEF HalInv, HalTypes, TypeOK, OutHandle, InHandle
  <2> QED BY <2>1 DEF HalInv, Counted, StreamsHeld
<1> QED BY <1>1, HalSoundThm, PTL
=============================================================================
