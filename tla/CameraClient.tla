---------------------------- MODULE CameraClient ----------------------------
(* The camera client of libmocha_camera (src/libmocha/camera/CameraBase.cpp and *)
(* Camera.cpp): the cached camera service that may die and come back, a client  *)
(* object that application threads use while one of them disconnects it, and    *)
(* recording frames that arrive on a binder thread.  The methods of Camera that *)
(* forward to ICamera differ only in what they send: they are one here.         *)
EXTENDS Integers, FiniteSets

CONSTANTS AppThreads,  \* threads that use the client
          MaxLives     \* bound on the times that the service comes up

VARIABLES service,   \* the camera service that runs: its number, or 0
          lives,     \* services started so far
          gService,  \* gCameraService: a service's number, or 0
          linked,    \* services whose death gDeathNotifier will hear of
          mCamera,   \* the client's remote camera: the number of its service, or 0
          deathLink, \* remotes whose death the client will hear of
          told,      \* ghost: remotes of whose death the listener was told
          call,      \* per thread: [pc, c], with the reference that a method holds
          nullCall,  \* ghost: a call through a method's own reference was a null call
          proxy,     \* whether mRecordingProxyListener is set
          listener,  \* whether mListener is set
          frame,     \* the frame on the binder thread: "none", "proxy?", "listener?" or "drop"
          got        \* ghost: who got the frame

serviceVars == <<service, lives>>
cacheVars == <<gService, linked>>
cameraVars == <<mCamera, deathLink, told>>
callVars == <<call, nullCall>>
recordVars == <<proxy, listener, frame, got>>
clientVars == <<serviceVars, cacheVars, cameraVars, callVars, recordVars>>

Idle == [pc |-> "idle", c |-> 0]

\* A new process of the application.
Fresh(g, l, m, d, t, c, n, p, li, f, r) ==
  /\ g = 0 /\ l = {} /\ m = 0 /\ d = {} /\ t = {}
  /\ c = [a \in AppThreads |-> Idle] /\ n = FALSE
  /\ p = FALSE /\ li = FALSE /\ f = "none" /\ r = {"service"}
ClientInit ==
  /\ service = 0 /\ lives = 0
  /\ Fresh(gService, linked, mCamera, deathLink, told, call, nullCall, proxy, listener, frame, got)
ProcessRestart ==
  /\ \E t \in AppThreads : call[t].pc = "crashed"
  /\ Fresh(gService', linked', mCamera', deathLink', told', call', nullCall', proxy', listener', frame', got')
  /\ UNCHANGED serviceVars
Alive == \A t \in AppThreads : call[t].pc # "crashed"

----------------------------------------------------------------------------
(* The service *)

ServiceUp ==
  /\ Alive /\ service = 0 /\ lives < MaxLives
  /\ lives' = lives + 1 /\ service' = lives + 1
  /\ UNCHANGED <<cacheVars, cameraVars, callVars, recordVars>>
ServiceDies ==
  /\ Alive /\ service # 0 /\ service' = 0
  /\ UNCHANGED <<lives, cacheVars, cameraVars, callVars, recordVars>>

\* DeathNotifier::binderDied, under gLock.
binderDied(s) ==
  /\ Alive /\ s \in linked /\ s # service
  /\ linked' = linked \ {s} /\ gService' = 0
  /\ UNCHANGED <<serviceVars, cameraVars, callVars, recordVars>>

\* CameraBase::binderDied tells the listener; the client keeps its dead remote.
clientBinderDied(s) ==
  /\ Alive /\ s \in deathLink /\ s # service
  /\ deathLink' = deathLink \ {s} /\ told' = told \cup {s}
  /\ UNCHANGED <<serviceVars, cacheVars, mCamera, callVars, recordVars>>

\* Mutant: only a new notifier is linked.
LinkedOnce(s) == IF s = 1 THEN {s} ELSE linked

\* getCameraService, under gLock: it waits for a service; the notifier is made once, and
\* linked to every service.
LinkService(s) == linked \cup {s}
getCameraService(t) ==
  /\ Alive /\ call[t].pc = "connect"
  /\ IF gService # 0 THEN UNCHANGED cacheVars
     ELSE service # 0 /\ gService' = service /\ linked' = LinkService(service)
  /\ call' = [call EXCEPT ![t].pc = "test"]
  /\ UNCHANGED <<serviceVars, cameraVars, nullCall, recordVars>>

----------------------------------------------------------------------------
(* The client *)

connect(t) ==
  /\ Alive /\ mCamera = 0 /\ \A u \in AppThreads : call[u] = Idle
  /\ call' = [call EXCEPT ![t].pc = "connect"]
  /\ UNCHANGED <<serviceVars, cacheVars, cameraVars, nullCall, recordVars>>

\* getCameraService returned a reference to gCameraService itself: it is tested, and used,
\* without gLock, and may be cleared before or between.
TestService(t) ==
  /\ Alive /\ call[t].pc = "test"
  /\ call' = [call EXCEPT ![t] = IF gService = 0 THEN Idle ELSE [pc |-> "ask", c |-> 0]]
  /\ UNCHANGED <<serviceVars, cacheVars, cameraVars, nullCall, recordVars>>
AskService(t) ==
  /\ Alive /\ call[t].pc = "ask"
  /\ call' = [call EXCEPT ![t] = IF gService = 0 THEN [pc |-> "crashed", c |-> 0] ELSE Idle]
  /\ \E ok \in BOOLEAN :
       IF ok /\ gService # 0 /\ gService = service
       THEN mCamera' = gService /\ deathLink' = deathLink \cup {gService} /\ UNCHANGED told
       ELSE UNCHANGED cameraVars
  /\ UNCHANGED <<serviceVars, cacheVars, nullCall, recordVars>>

\* disconnect: the remote is told, the link taken off, the reference dropped.
disconnect(t) ==
  /\ Alive /\ call[t] = Idle /\ mCamera # 0
  /\ deathLink' = deathLink \ {mCamera} /\ told' = told \ {mCamera} /\ mCamera' = 0
  /\ UNCHANGED <<serviceVars, cacheVars, callVars, recordVars>>

\* A method takes a reference of its own, and returns NO_INIT when it is null ...
TakeRef(t) ==
  /\ Alive /\ call[t] = Idle /\ mCamera # 0
  /\ \E pc \in {"held", "member"} : call' = [call EXCEPT ![t] = [pc |-> pc, c |-> mCamera]]
  /\ UNCHANGED <<serviceVars, cacheVars, cameraVars, nullCall, recordVars>>

\* ... and calls through it; getParameters and setPreviewCallbackFlags call through the
\* member instead.
RemoteUsed(t) == call[t].c
CallRemote(t) ==
  /\ Alive /\ call[t].pc = "held"
  /\ nullCall' = (RemoteUsed(t) = 0)
  /\ call' = [call EXCEPT ![t] = Idle]
  /\ UNCHANGED <<serviceVars, cacheVars, cameraVars, recordVars>>
CallMember(t) ==
  /\ Alive /\ call[t].pc = "member"
  /\ call' = [call EXCEPT ![t] = IF mCamera = 0 THEN [pc |-> "crashed", c |-> 0] ELSE Idle]
  /\ UNCHANGED <<serviceVars, cacheVars, cameraVars, nullCall, recordVars>>

----------------------------------------------------------------------------
(* Listeners and recording frames *)

setListener ==
  /\ Alive /\ listener' = ~listener
  /\ UNCHANGED <<serviceVars, cacheVars, cameraVars, callVars, proxy, frame, got>>

\* RecordingProxy::startRecording and stopRecording.
setProxyListener ==
  /\ Alive /\ mCamera # 0 /\ proxy' = ~proxy
  /\ UNCHANGED <<serviceVars, cacheVars, cameraVars, callVars, listener, frame, got>>

FrameArrives ==
  /\ Alive /\ frame = "none" /\ mCamera # 0 /\ mCamera = service
  /\ frame' = "proxy?" /\ got' = {}
  /\ UNCHANGED <<serviceVars, cacheVars, cameraVars, callVars, proxy, listener>>

\* Mutant: the other listener is asked too.
AskedAnyway == "listener?"

\* dataCallbackTimestamp: the proxy's listener if there is one, and the other is ignored ...
AfterProxy == "none"
AskProxy ==
  /\ Alive /\ frame = "proxy?"
  /\ IF proxy THEN got' = got \cup {"proxy"} /\ frame' = AfterProxy
     ELSE frame' = "listener?" /\ UNCHANGED got
  /\ UNCHANGED <<serviceVars, cacheVars, cameraVars, callVars, proxy, listener>>
\* ... otherwise the client's own; without one the frame is released, if there is a remote.
AskListener ==
  /\ Alive /\ frame = "listener?"
  /\ IF listener THEN got' = got \cup {"listener"} /\ frame' = "none"
     ELSE frame' = "drop" /\ UNCHANGED got
  /\ UNCHANGED <<serviceVars, cacheVars, cameraVars, callVars, proxy, listener>>
DropFrame ==
  /\ Alive /\ frame = "drop" /\ frame' = "none"
  /\ got' = got \cup {IF mCamera # 0 THEN "service" ELSE "nobody"}
  /\ UNCHANGED <<serviceVars, cacheVars, cameraVars, callVars, proxy, listener>>

ClientNext ==
  \/ ServiceUp \/ ServiceDies \/ ProcessRestart
  \/ \E s \in 1 .. MaxLives : binderDied(s) \/ clientBinderDied(s)
  \/ \E t \in AppThreads :
       \/ connect(t) \/ getCameraService(t) \/ TestService(t) \/ AskService(t)
       \/ disconnect(t) \/ TakeRef(t) \/ CallRemote(t) \/ CallMember(t)
  \/ setListener \/ setProxyListener \/ FrameArrives \/ AskProxy \/ AskListener \/ DropFrame

----------------------------------------------------------------------------
\* No death goes unheard: a cached camera service that is dead is one that gDeathNotifier
\* is still to be called for, in every life of the service; and a client whose remote is
\* dead has told its listener or is still to.
DeathHeard ==
  /\ gService # 0 /\ gService # service => gService \in linked
  /\ mCamera # 0 /\ mCamera # service => mCamera \in deathLink \cup told

\* A disconnect between the test and the call of a Camera method does no harm: the method
\* calls through the reference it took.
NoNullCall == ~nullCall

\* A recording frame goes to one receiver: the proxy's listener, the client's listener or
\* back to the service ("The other listener (mListener) is ignored because the receiver
\* needs to call releaseRecordingFrame"), however the listeners change meanwhile.
FrameToOne == frame = "none" => Cardinality(got) = 1

\* The service may die and the client disconnect at any time: it is heard, and no call
\* goes through a null reference.
DisconnectsSafe == DeathHeard /\ NoNullCall
=============================================================================
