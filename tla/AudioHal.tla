------------------------------ MODULE AudioHal ------------------------------
(***************************************************************************)
(* src/audio/audio_hw.c: output and input streams and the voice trigger    *)
(* state machine, on top of the configuration manager (AudioConfig).       *)
(*                                                                         *)
(* Every stream handle has a thread of its own (the audio server's thread  *)
(* of that stream opens, routes, uses and closes it); the thread "policy"  *)
(* sends adev_set_parameters().  A thread's step is what it does between   *)
(* two points where another thread's step makes a difference: the sections *)
(* of cm->lock, and the unlocked reads of current_devices and voice_st.    *)
(* in->common.lock is only ever taken by the handle's own thread.          *)
(***************************************************************************)
EXTENDS AudioConfig

CONSTANTS
  Outs, Ins,        \* the handles the audio server may have open
  OutRoutes,        \* the masks it routes an output to, {} among them
  InRoutes,         \* the masks it routes an input to, {} among them
  Mic,              \* the mask of voice_trig_mic
  RoutedSource      \* TRUE: input_source always comes with a routing to a device

Threads == Outs \cup Ins \cup {"policy"}
NULL == 0
Nobody == "nobody"
Recognition == "VOICE_RECOGNITION"
Sources == {"DEFAULT", Recognition}

ASSUME AudioHalAssumption ==
  /\ IsFiniteSet(Outs) /\ IsFiniteSet(Ins)
  /\ Outs \cap Ins = {} /\ "policy" \notin Outs \cup Ins /\ Nobody \notin Outs \cup Ins
  /\ OutRoutes \cup InRoutes \cup {Mic} \subseteq SUBSET Bits
  /\ {} \in OutRoutes \cap InRoutes
  /\ \A m \in OutRoutes : "IN" \notin m
  /\ \A m \in InRoutes \cup {Mic} : m # {} => "IN" \in m
  /\ RoutedSource \in BOOLEAN

VARIABLES
  cm,                    \* the configuration manager
  outs, ins,             \* the handles
  voice_st,              \* adev->voice_st
  voice_trig_stream,     \* adev->voice_trig_stream
  active_voice_control,  \* adev->active_voice_control
  lock,                  \* who holds adev->lock
  pc, loc                \* where each thread is, and its locals

voice == <<voice_st, voice_trig_stream, active_voice_control>>
vars == <<cm, outs, ins, voice, lock, pc, loc>>

VoiceStates == {"None", "TriggerIdle", "TriggerArmed", "TriggerFired", "RecogIdle",
                "RecogArmed", "RecogFired", "RecogAudio", "RecogReArm"}

NoRoute == [s |-> NULL, devices |-> {}, enabling |-> {}, disabling |-> {}]

\* route: the pending apply_route, and then: where the thread goes after it;
\* st: the voice state it sets, and cont: where it goes after that;
\* name, hw, source, devices: what in_pcm_set_parameters is changing to.
NoLocals == [route |-> NoRoute, then |-> "idle", st |-> "None", cont |-> "idle",
             name |-> "", hw |-> NULL, source |-> "DEFAULT", devices |-> {}]

ClosedOut == [open |-> FALSE, hw |-> NULL, standby |-> TRUE]
ClosedIn == [open |-> FALSE, hw |-> NULL, standby |-> TRUE, source |-> "DEFAULT"]

voice_trigger_init ==
  CASE find_named_stream("voice recognition") # NULL -> "RecogIdle"
    [] find_named_stream("voice recognition") = NULL
       /\ find_named_stream("voice trigger") # NULL -> "TriggerIdle"
    [] OTHER -> "None"

Init ==
  /\ cm = NewManager
  /\ outs = [h \in Outs |-> ClosedOut]
  /\ ins = [h \in Ins |-> ClosedIn]
  /\ voice_st = voice_trigger_init
  /\ voice_trig_stream = NULL
  /\ active_voice_control = Nobody
  /\ lock = Nobody
  /\ pc = [t \in Threads |-> "idle"]
  /\ loc = [t \in Threads |-> NoLocals]

Goto(t, label) == pc' = [pc EXCEPT ![t] = label]
Locals(t, l) == loc' = [loc EXCEPT ![t] = l]
Return(t) == Goto(t, "idle") /\ Locals(t, NoLocals)

-----------------------------------------------------------------------------
(* apply_route, as every caller runs it.                                   *)

\* Thread t is about to call apply_route(s, devices), and go to then after it.
RouteNext(t, l, s, devices, then) ==
  /\ Goto(t, "read")
  /\ Locals(t, [l EXCEPT !.route = [NoRoute EXCEPT !.s = s, !.devices = devices],
                         !.then = then])

\* What follows apply_route: more work, or the end of the call, where the
\* thread gives up adev->lock if it holds it.
Continue(t) ==
  IF loc[t].then = "finish"
  THEN lock' = (IF lock = t THEN Nobody ELSE lock) /\ Return(t)
  ELSE Goto(t, loc[t].then) /\ UNCHANGED <<lock, loc>>

\* current_devices is read without cm->lock; a mask of the other direction
\* makes apply_route return.
RouteRead(t) ==
  /\ pc[t] = "read"
  /\ LET r == loc[t].route
     IN IF RouteAllowed(r.s, r.devices)
        THEN /\ Goto(t, "apply")
             /\ Locals(t, [loc[t] EXCEPT !.route = RouteChange(cm, r.s, r.devices)])
             /\ UNCHANGED lock
        ELSE Continue(t)
  /\ UNCHANGED <<cm, outs, ins, voice>>

RouteApply(t) ==
  /\ pc[t] = "apply"
  /\ cm' = apply_route_l(cm, loc[t].route)
  /\ Continue(t)
  /\ UNCHANGED <<outs, ins, voice>>

-----------------------------------------------------------------------------
(* Output streams.                                                         *)

\* The stream is opened, then its initial route applied without adev->lock.
adev_open_output_stream(h, devices) ==
  /\ pc[h] = "idle" /\ ~ outs[h].open
  /\ LET s == get_stream(cm, devices)
     IN /\ s # NULL
        /\ cm' = open_stream_l(cm, s)
        /\ outs' = [outs EXCEPT ![h] = [open |-> TRUE, hw |-> s, standby |-> TRUE]]
        /\ RouteNext(h, NoLocals, s, devices, "finish")
  /\ UNCHANGED <<ins, voice, lock>>

out_set_parameters(h, devices) ==
  /\ pc[h] = "idle" /\ outs[h].open
  /\ lock = Nobody /\ lock' = h
  /\ RouteNext(h, NoLocals, outs[h].hw, devices, "finish")
  /\ UNCHANGED <<cm, outs, ins, voice>>

NodeFree(s) ==
  /\ \A h \in Outs : outs[h].hw = s => outs[h].standby
  /\ \A h \in Ins : ins[h].hw = s => ins[h].standby

\* Without a route nothing is written; otherwise the PCM node is opened on
\* demand (which may fail).
out_pcm_write(h) ==
  /\ pc[h] = "idle" /\ outs[h].open
  /\ cm.current_devices[outs[h].hw] # {} /\ NodeFree(outs[h].hw)
  /\ outs' = [outs EXCEPT ![h].standby = FALSE]
  /\ UNCHANGED <<cm, ins, voice, lock, pc, loc>>

out_pcm_standby(h) ==
  /\ pc[h] = "idle" /\ outs[h].open
  /\ outs' = [outs EXCEPT ![h].standby = TRUE]
  /\ UNCHANGED <<cm, ins, voice, lock, pc, loc>>

adev_close_output_stream(h) ==
  /\ pc[h] = "idle" /\ outs[h].open
  /\ cm' = release_stream(cm, outs[h].hw)
  /\ outs' = [outs EXCEPT ![h] = ClosedOut]
  /\ UNCHANGED <<ins, voice, lock, pc, loc>>

-----------------------------------------------------------------------------
(* The voice trigger state machine.                                        *)

\* do_voice_trigger_open_stream, under adev->lock, on the way to state st.
OpenVoice(t, name, st) ==
  LET s == get_named_stream(cm, name)
  IN /\ voice_trig_stream' = s
     /\ IF s = NULL
        THEN voice_st' = st /\ UNCHANGED <<cm, lock, pc, loc>>
        ELSE /\ cm' = open_stream_l(cm, s)
             /\ lock' = t
             /\ RouteNext(t, [NoLocals EXCEPT !.st = st], s, Mic, "armed")
             /\ UNCHANGED voice_st

VoiceArmed(t) ==
  /\ pc[t] = "armed"
  /\ voice_st' = loc[t].st
  /\ lock' = Nobody
  /\ Return(t)
  /\ UNCHANGED <<cm, outs, ins, voice_trig_stream, active_voice_control>>

\* do_voice_trigger_close_stream, under adev->lock, on the way to state st;
\* the stream is not forgotten (its assignment is a comparison in the code).
CloseVoice(t, l, st, cont) ==
  IF voice_trig_stream = NULL
  THEN voice_st' = st /\ Goto(t, cont) /\ Locals(t, l) /\ UNCHANGED lock
  ELSE /\ RouteNext(t, [l EXCEPT !.st = st, !.cont = cont], voice_trig_stream, {}, "vrelease")
       /\ lock' = t
       /\ UNCHANGED voice_st

VoiceReleased(t) ==
  /\ pc[t] = "vrelease"
  /\ cm' = release_stream(cm, voice_trig_stream)
  /\ voice_st' = loc[t].st
  /\ Goto(t, loc[t].cont)
  /\ Locals(t, [loc[t] EXCEPT !.route = NoRoute, !.then = "idle", !.st = "None", !.cont = "idle"])
  /\ UNCHANGED <<outs, ins, voice_trig_stream, active_voice_control>>

\* Mutant: adev->lock is not given up.
VoiceReleaseLocked(t) == VoiceReleased(t) /\ UNCHANGED lock

VoiceRelease(t) == VoiceReleased(t) /\ lock' = Nobody

voice_trigger_enable(t) ==
  /\ pc[t] = "idle" /\ lock = Nobody
  /\ CASE voice_st \in {"TriggerIdle", "TriggerFired"} ->
            OpenVoice(t, "voice trigger", "TriggerArmed")
       [] voice_st = "RecogIdle" -> OpenVoice(t, "voice recognition", "RecogArmed")
       [] OTHER -> /\ voice_st' = IF voice_st = "RecogAudio" THEN "RecogReArm" ELSE voice_st
                   /\ UNCHANGED <<cm, voice_trig_stream, lock, pc, loc>>
  /\ UNCHANGED <<outs, ins, active_voice_control>>

\* A recogniser that has fired is disabled when the capture of its audio ends.
voice_trigger_disable(t) ==
  /\ pc[t] = "idle" /\ lock = Nobody
  /\ CASE voice_st \in {"TriggerFired", "TriggerArmed"} ->
            CloseVoice(t, NoLocals, "TriggerIdle", "idle")
       [] voice_st = "RecogArmed" -> CloseVoice(t, NoLocals, "RecogIdle", "idle")
       [] OTHER -> /\ voice_st' = IF voice_st = "RecogReArm" THEN "RecogAudio" ELSE voice_st
                   /\ UNCHANGED <<lock, pc, loc>>
  /\ UNCHANGED <<cm, outs, ins, voice_trig_stream, active_voice_control>>

voice_trigger_triggered(t) ==
  /\ pc[t] = "idle" /\ lock = Nobody
  /\ voice_st' = CASE voice_st = "TriggerArmed" -> "TriggerFired"
                   [] voice_st = "RecogArmed" -> "RecogFired"
                   [] OTHER -> voice_st
  /\ UNCHANGED <<cm, outs, ins, voice_trig_stream, active_voice_control, lock, pc, loc>>

voice_trigger_audio_started_locked(st) == IF st = "RecogFired" THEN "RecogAudio" ELSE st

\* In a section of adev->lock, after which thread t goes to cont.
voice_trigger_audio_ended_locked(t, l, cont) ==
  IF voice_st = "RecogAudio" THEN CloseVoice(t, l, "RecogIdle", cont)
  ELSE /\ voice_st' = IF voice_st = "RecogReArm" THEN "RecogArmed" ELSE voice_st
       /\ Goto(t, cont) /\ Locals(t, l) /\ UNCHANGED lock

\* "" stands for NULL: the generic input stream is used.
voice_trigger_audio_stream_name(st) ==
  IF st \in {"None", "TriggerIdle", "TriggerArmed", "TriggerFired", "RecogFired"}
  THEN "voice recognition" ELSE ""

-----------------------------------------------------------------------------
(* Input streams.                                                          *)

\* No stream of the manager is opened until the input source is known.
adev_open_input_stream(h) ==
  /\ pc[h] = "idle" /\ ~ ins[h].open
  /\ ins' = [ins EXCEPT ![h] = [ClosedIn EXCEPT !.open = TRUE]]
  /\ UNCHANGED <<cm, outs, voice, lock, pc, loc>>

\* What in_pcm_set_parameters may be told: a source, a routing, or both.
Parameters ==
  {kv \in [source : Sources \cup {"none"}, routed : BOOLEAN, devices : InRoutes] :
     /\ kv.source # "none" \/ kv.routed
     /\ kv.devices # {} => kv.routed
     /\ RoutedSource /\ kv.source # "none" => kv.devices # {}}

InRoute(h, l, devices) ==
  IF ins[h].hw = NULL THEN Return(h)
  ELSE RouteNext(h, l, ins[h].hw, devices, "finish")

\* Up to the unlocked reads of current_devices and of voice_st.
in_pcm_set_parameters(h, kv) ==
  /\ pc[h] = "idle" /\ ins[h].open
  /\ LET hw == ins[h].hw
         devices == IF kv.routed \/ hw = NULL THEN kv.devices ELSE cm.current_devices[hw]
         name == IF kv.source = Recognition
                 THEN voice_trigger_audio_stream_name(voice_st) ELSE ""
     IN CASE kv.source = "none" -> InRoute(h, NoLocals, kv.devices)
          [] kv.source # "none" /\ ~ ins[h].standby -> UNCHANGED <<pc, loc>>
          [] kv.source = ins[h].source /\ ins[h].standby -> InRoute(h, NoLocals, devices)
          [] OTHER -> /\ Goto(h, IF name = "" THEN "generic" ELSE "named")
                      /\ Locals(h, [NoLocals EXCEPT !.name = name, !.source = kv.source,
                                                   !.devices = devices])
  /\ UNCHANGED <<cm, outs, ins, voice, lock>>

\* Stream s was found: it is opened before the old one is released.
Found(h, s) ==
  /\ cm' = open_stream_l(cm, s)
  /\ Locals(h, [loc[h] EXCEPT !.hw = s])
  /\ Goto(h, "swap")

InNamed(h) ==
  /\ pc[h] = "named"
  /\ LET s == get_named_stream(cm, loc[h].name)
     IN IF s # NULL THEN Found(h, s) ELSE Goto(h, "generic") /\ UNCHANGED <<cm, loc>>
  /\ UNCHANGED <<outs, ins, voice, lock>>

InGeneric(h) ==
  /\ pc[h] = "generic"
  /\ LET s == get_stream(cm, loc[h].devices)
     IN IF s # NULL THEN Found(h, s) ELSE Return(h) /\ UNCHANGED cm
  /\ UNCHANGED <<outs, ins, voice, lock>>

\* Mutant: the old stream is not released.
SwapLeaks(h) ==
  /\ pc[h] = "swap"
  /\ ins' = [ins EXCEPT ![h].hw = loc[h].hw]
  /\ Goto(h, "voice")
  /\ UNCHANGED <<cm, outs, voice, lock, loc>>

InSwap(h) ==
  /\ pc[h] = "swap"
  /\ cm' = IF ins[h].hw = NULL THEN cm ELSE release_stream(cm, ins[h].hw)
  /\ ins' = [ins EXCEPT ![h].hw = loc[h].hw]
  /\ Goto(h, "voice")
  /\ UNCHANGED <<outs, voice, lock, loc>>

\* Under adev->lock the voice trigger learns that its audio starts or ends.
InVoice(h) ==
  /\ pc[h] = "voice" /\ lock = Nobody
  /\ CASE loc[h].source = Recognition ->
            /\ active_voice_control' = h
            /\ voice_st' = voice_trigger_audio_started_locked(voice_st)
            /\ Goto(h, "source") /\ UNCHANGED <<loc, lock>>
       [] loc[h].source # Recognition /\ active_voice_control = h ->
            /\ active_voice_control' = Nobody
            /\ voice_trigger_audio_ended_locked(h, loc[h], "source")
       [] OTHER -> /\ Goto(h, "source")
                   /\ UNCHANGED <<active_voice_control, voice_st, loc, lock>>
  /\ UNCHANGED <<cm, outs, ins, voice_trig_stream>>

InSource(h) ==
  /\ pc[h] = "source"
  /\ ins' = [ins EXCEPT ![h].source = loc[h].source]
  /\ RouteNext(h, loc[h], ins[h].hw, loc[h].devices, "finish")
  /\ UNCHANGED <<cm, outs, voice, lock>>

\* The PCM node is opened on demand, which may fail.
in_pcm_read(h) ==
  /\ pc[h] = "idle" /\ ins[h].hw # NULL
  /\ cm.current_devices[ins[h].hw] # {} /\ NodeFree(ins[h].hw)
  /\ ins' = [ins EXCEPT ![h].standby = FALSE]
  /\ UNCHANGED <<cm, outs, voice, lock, pc, loc>>

in_pcm_standby(h) ==
  /\ pc[h] = "idle" /\ ins[h].hw # NULL
  /\ ins' = [ins EXCEPT ![h].standby = TRUE]
  /\ UNCHANGED <<cm, outs, voice, lock, pc, loc>>

\* Mutant: the voice trigger is not told that its capture stage is over.
CloseForgetsVoice(h) ==
  /\ pc[h] = "idle" /\ ins[h].open /\ lock = Nobody
  /\ ins' = [ins EXCEPT ![h].standby = TRUE]
  /\ Goto(h, "close")
  /\ UNCHANGED <<cm, outs, voice, lock, loc>>

adev_close_input_stream(h) ==
  /\ pc[h] = "idle" /\ ins[h].open /\ lock = Nobody
  /\ ins' = [ins EXCEPT ![h].standby = TRUE]
  /\ IF active_voice_control = h
     THEN /\ active_voice_control' = Nobody
          /\ voice_trigger_audio_ended_locked(h, NoLocals, "close")
     ELSE Goto(h, "close") /\ UNCHANGED <<active_voice_control, voice_st, loc, lock>>
  /\ UNCHANGED <<cm, outs, voice_trig_stream>>

Released(h) == IF ins[h].hw = NULL THEN cm ELSE release_stream(cm, ins[h].hw)

InClose(h) ==
  /\ pc[h] = "close"
  /\ cm' = Released(h)
  /\ ins' = [ins EXCEPT ![h] = ClosedIn]
  /\ Return(h)
  /\ UNCHANGED <<outs, voice, lock>>

-----------------------------------------------------------------------------
OutCall(h) ==
  \/ \E m \in OutRoutes : adev_open_output_stream(h, m) \/ out_set_parameters(h, m)
  \/ out_pcm_write(h)
  \/ out_pcm_standby(h)
  \/ adev_close_output_stream(h)

InCall(h) ==
  \/ adev_open_input_stream(h)
  \/ \E kv \in Parameters : in_pcm_set_parameters(h, kv)
  \/ InNamed(h) \/ InGeneric(h) \/ InSwap(h) \/ InVoice(h) \/ InSource(h)
  \/ in_pcm_read(h)
  \/ in_pcm_standby(h)
  \/ adev_close_input_stream(h) \/ InClose(h)

PolicyCall(t) ==
  \/ voice_trigger_enable(t)
  \/ voice_trigger_disable(t)
  \/ voice_trigger_triggered(t)

Next ==
  \/ \E h \in Outs : OutCall(h)
  \/ \E h \in Ins : InCall(h)
  \/ PolicyCall("policy")
  \/ \E t \in Threads : RouteRead(t) \/ RouteApply(t) \/ VoiceRelease(t) \/ VoiceArmed(t)

Spec == Init /\ [][Next]_vars

\* A thread that holds adev->lock runs on; nothing makes anybody begin a call.
RunsOn(t) == RouteRead(t) \/ RouteApply(t) \/ VoiceRelease(t) \/ VoiceArmed(t)

FairSpec == Spec /\ \A t \in Threads : WF_vars(RunsOn(t))

-----------------------------------------------------------------------------
(* Properties.                                                             *)

\* The variables keep their types.
TypeOK ==
  /\ cm \in Manager
  /\ \A h \in Outs : /\ outs[h].open = (outs[h].hw \in Streams)
                     /\ outs[h].standby \in BOOLEAN
  /\ \A h \in Ins : /\ ins[h].hw \in Streams \cup {NULL}
                    /\ ins[h].hw # NULL => ins[h].open
                    /\ ins[h].source \in Sources
  /\ voice_st \in VoiceStates
  /\ voice_trig_stream \in Streams \cup {NULL}
  /\ active_voice_control \in Ins \cup {Nobody}
  /\ lock \in Threads \cup {Nobody}

\* A device's own paths: the mask names it, in the mask's direction.
StandsFor(d, mask) ==
  LET type == DeviceList[d].type
  IN ("IN" \in type) = ("IN" \in mask) /\ (type \cap mask) \ {"IN"} # {}

Using(d) ==
  IF DeviceList[d].type = {} THEN {s \in Streams : cm.ref_count[s] > 0}
  ELSE {s \in Streams : StandsFor(d, cm.current_devices[s])}

\* apply_device_path_l counts the streams that use a device, whatever handles
\* and the voice trigger open, route and release at the same time; the
\* device's on path is the last one applied exactly while the count is not 0.
UseCountsExact ==
  \A d \in Devices : {OnPath, OffPath} \subseteq DeviceList[d].paths =>
    /\ cm.dev[d].use_count = Cardinality(Using(d))
    /\ "dev" \in cm.dev[d].mixer <=> Using(d) # {}

\* A stream's enable path is in force on exactly the devices that
\* current_devices names for it (apply_route, release_stream).
ActiveExactly ==
  \A s \in Streams, d \in Devices :
    {enable_path(s), disable_path(s)} \subseteq DeviceList[d].paths =>
      (StreamList[s].path \in cm.dev[d].mixer <=> s \in Using(d))

Opening == \E t \in Threads : loc[t].then = "armed"
VoiceHolds == voice_st \in {"TriggerArmed", "TriggerFired", "RecogArmed", "RecogFired",
                            "RecogAudio", "RecogReArm"}

Holders(s) ==
  Cardinality({h \in Outs : outs[h].hw = s}) + Cardinality({h \in Ins : ins[h].hw = s})
  + Cardinality({h \in Ins : pc[h] = "swap" /\ loc[h].hw = s})
  + (IF voice_trig_stream = s /\ (Opening \/ VoiceHolds) THEN 1 ELSE 0)

\* A stream's reference count is the number of its users: the handles that
\* have it, the input that is swapping to it, and the armed voice trigger.
RefsExact == \A s \in Streams : cm.ref_count[s] = Holders(s)

\* A stream that nobody has open is routed to nothing (release_stream).
RoutedMeansHeld == \A s \in Streams : cm.current_devices[s] # {} => cm.ref_count[s] > 0

\* Every call that takes adev->lock gives it back, whatever the voice trigger
\* has to be switched to on the way.
LockReturned == \A t \in Threads : lock = t ~> lock # t

\* While the recogniser captures audio, some input is the one that will end
\* the capture stage (change_input_source_locked, do_close_in_common): a
\* disable that came too early is not lost for ever.
CaptureHasOwner ==
  voice_st \in {"RecogAudio", "RecogReArm"} =>
    \/ active_voice_control \in {h \in Ins : ins[h].open}
    \/ \E h \in Ins : loc[h].then = "vrelease"

\* get_stream and release_stream: a stream is counted once for each of its users, and
\* routes go with the last of them.
StreamsHeld == TypeOK /\ RefsExact /\ RoutedMeansHeld
=============================================================================
