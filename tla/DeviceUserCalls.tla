--------------------------- MODULE DeviceUserCalls ---------------------------
(***************************************************************************)
(* Binder calls of libmocha: the proxies BpCameraDeviceUser and            *)
(* BpCameraService write a parcel, the stubs BnCameraDeviceUser and        *)
(* BnCameraService read it and answer, and the proxy reads the reply.  The *)
(* remote process may die at any moment, and a metadata blob may fail to   *)
(* be written.  A parcel is a sequence of typed fields read by position; a *)
(* read past its end gives 0.  An argument that only has to arrive is its  *)
(* own name.                                                               *)
(***************************************************************************)
EXTENDS Integers, Sequences, SequencesExt, TLC

CONSTANTS Requests,      \* capture requests the clients submit
          MaxList          \* the longest list submitted

VARIABLES remote,          \* whether the remote process lives
          trip             \* the call under way

tripVars == <<remote, trip>>

None == "null"
BAD_VALUE == -22
FAILED_TRANSACTION == -2147483646
DEAD_OBJECT == -32
INVALID_OPERATION == -38

FrameCalls == {"submitRequest", "submitRequestList", "cancelRequest", "flush"}
ConnectCalls == {"connect", "connectLegacy", "connectDevice"}
DeafCalls == {"supportsCameraApi", "getLegacyParameters"}
PlainCalls == {"beginConfigure", "endConfigure", "deleteStream", "createInputStream", "waitUntilIdle",
               "prepare", "prepare2", "tearDown", "getNumberOfCameras", "setTorchMode", "addListener",
               "removeListener"}
MetaCalls == {"createDefaultRequest", "getCameraInfo", "getCameraCharacteristics"}
Calls == FrameCalls \cup ConnectCalls \cup DeafCalls \cup PlainCalls \cup MetaCalls
           \cup {"createStream", "getInputBufferProducer"}

\* The parameters of a call, in the order in which its proxy writes them.
DeviceProxyOrder(m) ==
  CASE m = "cancelRequest" -> <<"requestId">>
    [] m \in {"deleteStream", "prepare", "tearDown"} -> <<"streamId">>
    [] m = "prepare2" -> <<"maxCount", "streamId">>
    [] m = "endConfigure" -> <<"isConstrainedHighSpeed">>
    [] m = "createInputStream" -> <<"width", "height", "format">>
    [] m = "createDefaultRequest" -> <<"templateId">>
    [] OTHER -> <<>>

ServiceProxyOrder(m) ==
  CASE m = "connectLegacy" -> <<"client", "cameraId", "halVersion", "package", "uid">>
    [] m \in ConnectCalls -> <<"client", "cameraId", "package", "uid">>
    [] m = "setTorchMode" -> <<"cameraId", "enabled", "clientBinder">>
    [] m \in {"addListener", "removeListener"} -> <<"listener">>
    [] m \in {"getCameraCharacteristics", "getLegacyParameters"} -> <<"cameraId">>
    [] m = "supportsCameraApi" -> <<"cameraId", "apiVersion">>
    [] OTHER -> <<"type">>

\* The same, in the order in which its stub reads them.
DeviceStubOrder(m) ==
  CASE m = "cancelRequest" -> <<"requestId">>
    [] m \in {"deleteStream", "prepare", "tearDown"} -> <<"streamId">>
    [] m = "createInputStream" -> <<"width", "height", "format">>
    [] m = "createDefaultRequest" -> <<"templateId">>
    [] m = "endConfigure" -> <<"isConstrainedHighSpeed">>
    [] m = "prepare2" -> <<"maxCount", "streamId">>
    [] OTHER -> <<>>

ServiceStubOrder(m) ==
  CASE m = "getNumberOfCameras" -> <<"type">>
    [] m \in {"connect", "connectDevice"} -> <<"client", "cameraId", "package", "uid">>
    [] m \in {"addListener", "removeListener"} -> <<"listener">>
    [] m = "supportsCameraApi" -> <<"cameraId", "apiVersion">>
    [] m = "connectLegacy" -> <<"client", "cameraId", "halVersion", "package", "uid">>
    [] m = "setTorchMode" -> <<"cameraId", "enabled", "clientBinder">>
    [] OTHER -> <<"cameraId">>

ServiceCalls == ConnectCalls \cup DeafCalls
                  \cup {"getNumberOfCameras", "setTorchMode", "addListener", "removeListener", "getCameraCharacteristics"}
ProxyOrder(m) == IF m \in ServiceCalls THEN ServiceProxyOrder(m) ELSE DeviceProxyOrder(m)
StubOrder(m) == IF m \in ServiceCalls THEN ServiceStubOrder(m) ELSE DeviceStubOrder(m)

Fld(t, v) == [t |-> t, v |-> v]
Num(n) == Fld("int", n)
Flag(b) == Num(IF b THEN 1 ELSE 0)

\* Parcel::readInt32 without a status: 0 past the end.
ReadInt(p, k) == IF k <= Len(p) /\ p[k].t = "int" THEN p[k].v ELSE 0

\* CameraMetadata::writeToParcel: size, blob, offset.  The failure of writeBlob is overwritten by
\* the result of writing the offset, so a missing blob goes unreported.
WriteMeta(meta, lost) ==
  IF meta = None THEN <<Num(0)>>
  ELSE <<Num(1)>> \o (IF lost THEN <<>> ELSE <<Fld("blob", meta)>>) \o <<Num(0)>>

\* CameraMetadata::readFromParcel: what it yields, and the field after it.  Without a blob,
\* readBlob has taken one integer for its type.
ReadMeta(p, k) ==
  IF ReadInt(p, k) = 0 THEN [ok |-> k <= Len(p), meta |-> None, next |-> k + 1]
  ELSE IF p[k + 1].t = "blob" THEN [ok |-> TRUE, meta |-> p[k + 1].v, next |-> k + 3]
  ELSE [ok |-> FALSE, meta |-> None, next |-> k + 2]

\* One surface of a request: class, name and binder; Java's array writes a null element as a null
\* class name alone.
WriteSurface(s, java) ==
  IF java /\ s = None THEN <<Fld("str", None)>>
  ELSE <<Fld("str", "android.view.Surface"), Fld("str", "unknown_name"), Fld("binder", s)>>

WriteRequest(r, java, lost) ==
  WriteMeta(r.meta, lost) \o <<Num(Len(r.surfaces))>>
    \o FlattenSeq([i \in DOMAIN r.surfaces |-> WriteSurface(r.surfaces[i], java)])
    \o <<Flag(r.reprocess)>>

EmptyRequest == [meta |-> None, surfaces |-> <<>>, reprocess |-> FALSE]

\* One turn of CaptureRequest::readFromParcel's loop.
ReadSurface(p, at) ==
  IF p[at.next].v = None THEN [at EXCEPT !.next = @ + 1]
  ELSE [next |-> at.next + 3, got |-> Append(at.got, p[at.next + 2].v)]

\* CaptureRequest::readFromParcel: it gives up at the metadata, having cleared the request.
ReadRequest(p, k) ==
  LET meta == ReadMeta(p, k)
      size == ReadInt(p, meta.next)
      list == FoldLeft(LAMBDA at, i : ReadSurface(p, at), [next |-> meta.next + 1, got |-> <<>>],
                       [i \in 1..size |-> i])
  IN IF ~meta.ok THEN [ok |-> FALSE, request |-> EmptyRequest, next |-> meta.next]
     ELSE [ok |-> TRUE, next |-> list.next + 1,
           request |-> [meta |-> meta.meta, surfaces |-> list.got, reprocess |-> ReadInt(p, list.next) # 0]]

\* A request that may be null (a list of none or one), behind its marker.
WriteMaybe(r, java, lost) == IF r = <<>> THEN <<Num(0)>> ELSE <<Num(1)>> \o WriteRequest(r[1], java, lost)

ReadMaybe(p, k) ==
  IF ReadInt(p, k) = 0 THEN [ok |-> TRUE, request |-> <<>>, next |-> k + 1]
  ELSE LET r == ReadRequest(p, k + 1) IN [r EXCEPT !.request = <<@>>]

\* SUBMIT_REQUEST_LIST reads every request, or answers BAD_VALUE at the first it cannot read.
ReadList(p) ==
  FoldLeft(LAMBDA at, i : IF ~at.ok THEN at
             ELSE LET r == ReadMaybe(p, at.next)
                  IN [ok |-> r.ok, next |-> r.next, list |-> Append(at.list, r.request)],
           [ok |-> TRUE, next |-> 2, list |-> <<>>], [i \in 1..ReadInt(p, 1) |-> i])

\* A stream's OutputConfiguration, behind its marker, which is 0 when it has no surface.
WriteConfig(c) ==
  IF c.gbp = None THEN <<Num(0)>> ELSE <<Num(1), Num(c.rotation), Fld("str", "unknown_name"), Fld("binder", c.gbp)>>
ReadConfig(p) ==
  IF ReadInt(p, 1) = 0 THEN [ok |-> FALSE]
  ELSE [ok |-> TRUE, arg |-> [gbp |-> p[4].v, rotation |-> ReadInt(p, 2)]]

\* The parcel a proxy sends.
Sent(m, arg, java, lost) ==
  CASE m = "submitRequest" -> WriteMaybe(arg.list[1], java, lost) \o <<Flag(arg.repeating)>>
    [] m = "submitRequestList" ->
         <<Num(Len(arg.list))>> \o FlattenSeq([i \in DOMAIN arg.list |-> WriteMaybe(arg.list[i], java, lost)])
           \o <<Flag(arg.repeating)>>
    [] m = "createStream" -> WriteConfig(arg)
    [] OTHER -> [i \in DOMAIN ProxyOrder(m) |-> Fld("arg", arg[ProxyOrder(m)[i]])]

\* What the stub makes of it: whether it calls the implementation, and with what.
\* SUBMIT_REQUEST ignores that its request could not be read.
Understood(m, p) ==
  CASE m = "submitRequest" ->
         LET r == ReadMaybe(p, 1)
         IN [ok |-> TRUE, arg |-> [list |-> <<r.request>>, repeating |-> ReadInt(p, r.next) # 0]]
    [] m = "submitRequestList" ->
         LET l == ReadList(p) IN [ok |-> l.ok, arg |-> [list |-> l.list, repeating |-> ReadInt(p, l.next) # 0]]
    [] m = "createStream" -> ReadConfig(p)
    [] OTHER ->
         [ok |-> TRUE, arg |-> [n \in ToSet(StubOrder(m)) |-> p[CHOOSE i \in DOMAIN StubOrder(m) : StubOrder(m)[i] = n].v]]

\* What the implementation behind the stub may answer: a status and an output.
Answers(m) ==
  CASE m \in {"submitRequest", "submitRequestList"} -> [st : {BAD_VALUE, 7}, out : {-1, 5}]
    [] m \in {"cancelRequest", "flush"} -> [st : {BAD_VALUE, 0}, out : {-1, 5}]
    [] m \in ConnectCalls -> {[st |-> 0, out |-> "camera"], [st |-> BAD_VALUE, out |-> None]}
    [] m = "getInputBufferProducer" -> [st : {0, BAD_VALUE}, out : {None, "gbp"}]
    [] m \in MetaCalls -> {[st |-> 0, out |-> "meta"], [st |-> BAD_VALUE, out |-> None]}
    [] OTHER -> [st : {0, BAD_VALUE}, out : {None}]

\* The reply a stub writes: no exception, the status, and the outputs behind their marker.
Reply(m, a) ==
  <<Num(0), Num(a.st)>> \o
  CASE m \in FrameCalls -> <<Num(1), Fld("int64", a.out)>>
    [] m \in ConnectCalls -> IF a.out = None THEN <<Num(0)>> ELSE <<Num(1), Fld("binder", a.out)>>
    [] m = "getInputBufferProducer" ->
         <<Num(1), Fld("str", "camera input"), Fld("binder", IF a.st = 0 THEN a.out ELSE None)>>
    [] m \in MetaCalls -> <<Num(1)>> \o WriteMeta(a.out, FALSE)
    [] m = "getLegacyParameters" -> <<Num(1), Fld("str", "parameters")>>
    [] OTHER -> <<>>

\* Mutant: resFrameNumber starts out as NO_ERROR.
NoFrameOk(reply, want) == TRUE

\* Whether the proxy got its frame number: resFrameNumber starts out as BAD_VALUE, and only a
\* reply that marks one as present, to a caller that gave room for it, changes that.
GotFrame(reply, want) == ReadInt(reply, 3) # 0 /\ want

\* Whether connect, connectLegacy and connectDevice return what transact returned.
StatusReturned(err) == err # 0

\* What the proxy returns of a call with a frame number; submitRequest returns the request's id.
ReceivedFrame(m, reply, want) ==
  LET status == ReadInt(reply, 2)
      bad == IF m \in {"cancelRequest", "flush"} THEN status # 0 ELSE status < 0
  IN [res |-> IF bad \/ ~GotFrame(reply, want) THEN FAILED_TRANSACTION ELSE status,
      out |-> IF ReadInt(reply, 3) # 0 /\ want THEN reply[4].v ELSE -1]

\* The connect calls, which alone look at err.
ReceivedConnect(err, reply) ==
  IF StatusReturned(err) THEN [res |-> err, out |-> None]
  ELSE [res |-> ReadInt(reply, 2), out |-> IF ReadInt(reply, 3) # 0 THEN reply[4].v ELSE None]

ReceivedSurface(reply) ==
  LET bp == IF ReadInt(reply, 3) # 0 THEN reply[5].v ELSE None
  IN IF ReadInt(reply, 2) # 0 THEN [res |-> ReadInt(reply, 2), out |-> None]
     ELSE [res |-> IF bp = None THEN INVALID_OPERATION ELSE 0, out |-> bp]

ReceivedMeta(reply) ==
  [res |-> ReadInt(reply, 2), out |-> IF ReadInt(reply, 3) # 0 THEN ReadMeta(reply, 4).meta ELSE None]

\* getLegacyParameters and supportsCameraApi read data, whose position is at its end, in place of
\* reply.
ReceivedDeaf(data) == [res |-> ReadInt(data, Len(data) + 1), out |-> None]

\* What a proxy returns: its result and its output.
Received(m, data, err, reply, want) ==
  CASE m \in FrameCalls -> ReceivedFrame(m, reply, want)
    [] m \in ConnectCalls -> ReceivedConnect(err, reply)
    [] m = "getInputBufferProducer" -> ReceivedSurface(reply)
    [] m \in MetaCalls -> ReceivedMeta(reply)
    [] m \in DeafCalls -> ReceivedDeaf(data)
    [] OTHER -> [res |-> ReadInt(reply, 2), out |-> None]
-----------------------------------------------------------------------------
NoTrip == [phase |-> "idle"]

TripInit == remote = "up" /\ trip = NoTrip

\* The arguments a client may give.
MaybeRequests == {<<>>} \cup {<<r>> : r \in Requests}
Arguments(m) ==
  CASE m = "submitRequest" -> [list : {<<r>> : r \in MaybeRequests}, repeating : BOOLEAN]
    [] m = "submitRequestList" -> [list : SeqOf(MaybeRequests, MaxList), repeating : BOOLEAN]
    [] m = "createStream" -> [gbp : {None, "gbp"}, rotation : {0, 1}]
    [] OTHER -> {[n \in ToSet(ProxyOrder(m)) |-> n]}

\* A client calls.  Java clients have proxies of their own, and use these stubs for requests.
Invoke(m, arg, java, want, lost) ==
  /\ trip.phase = "idle"
  /\ (java \/ lost) => m \in {"submitRequest", "submitRequestList"}
  /\ ~want => m \in FrameCalls
  /\ trip' = [phase |-> "sent", m |-> m, arg |-> arg, java |-> java, want |-> want, lost |-> lost,
              data |-> Sent(m, arg, java, lost), ran |-> <<>>]
  /\ UNCHANGED remote

\* onTransact: it calls the implementation, or refuses.  A refused list is an error of the
\* transaction; a stream without a surface is a reply like another.
onTransact ==
  /\ trip.phase = "sent" /\ remote = "up"
  /\ LET u == Understood(trip.m, trip.data)
     IN \/ /\ u.ok
           /\ \E a \in Answers(trip.m) :
                trip' = [trip EXCEPT !.phase = "executed", !.ran = <<[arg |-> u.arg, answer |-> a]>>]
                          @@ [err |-> 0, reply |-> Reply(trip.m, a)]
        \/ /\ ~u.ok
           /\ trip' = [trip EXCEPT !.phase = "executed"]
                        @@ IF trip.m = "createStream"
                           THEN [err |-> 0, reply |-> Reply(trip.m, [st |-> BAD_VALUE, out |-> None])]
                           ELSE [err |-> BAD_VALUE, reply |-> <<>>]
  /\ UNCHANGED remote

\* The proxy returns to its caller; a Java caller reads the reply by itself.
Returned(err, reply) ==
  IF trip.java THEN NoTrip
  ELSE [trip EXCEPT !.phase = "done"] @@ [result |-> Received(trip.m, trip.data, err, reply, trip.want)]

Deliver ==
  /\ trip.phase = "executed" /\ remote = "up"
  /\ trip' = Returned(trip.err, trip.reply)
  /\ UNCHANGED remote

\* The process dies; a call that has no reply yet returns DEAD_OBJECT with an empty reply.
Die == remote = "up" /\ remote' = "down" /\ UNCHANGED trip

NoReply ==
  /\ trip.phase \in {"sent", "executed"} /\ remote = "down"
  /\ trip' = Returned(DEAD_OBJECT, <<>>)
  /\ UNCHANGED remote

\* The caller goes on; when the service is gone it connects to the next one.
GoOn ==
  /\ trip.phase = "done"
  /\ trip' = NoTrip /\ remote' = "up"

TripNext ==
  \/ \E m \in Calls : \E arg \in Arguments(m), java, want, lost \in BOOLEAN : Invoke(m, arg, java, want, lost)
  \/ onTransact \/ Deliver \/ Die \/ NoReply \/ GoOn
-----------------------------------------------------------------------------
\* What a request is on the other side: Java's null surfaces are dropped.
Arrives(arg, m, java) ==
  IF ~java THEN arg
  ELSE [arg EXCEPT !.list = [i \in DOMAIN arg.list |->
          IF arg.list[i] = <<>> THEN <<>>
          ELSE <<[arg.list[i][1] EXCEPT !.surfaces = SelectSeq(@, LAMBDA s : s # None)]>>]]

\* Whether the parcel misses a blob.
Maimed == trip.lost /\ \E i \in DOMAIN trip.arg.list : trip.arg.list[i] # <<>> /\ trip.arg.list[i][1].meta # None

Ran == trip.phase \in {"executed", "done"} /\ trip.ran # <<>>

\* The implementation behind a stub is called with what the client passed, field by field, and with
\* a request whose null surfaces are left out: proxies and stubs agree on the order of fields, and
\* the reader of a request stays aligned over the null class names of a Java client.
ArgsArrive == (Ran /\ ~Maimed) => trip.ran[1].arg = Arrives(trip.arg, trip.m, trip.java)

\* A list of requests reaches the camera whole or not at all, also when a metadata blob could not be
\* written, which CameraMetadata::writeToParcel does not report to the proxy.
ListWhole == (Ran /\ trip.m = "submitRequestList") => trip.ran[1].arg = Arrives(trip.arg, trip.m, trip.java)

\* A call that reports a frame number, connects or fetches the input surface returns success only
\* when the remote process ran it with that result, although most proxies ignore what transact()
\* returned and read zeros, which spell OK, out of an empty reply.
OkMeansDone ==
  (trip.phase = "done" /\ trip.m \in FrameCalls \cup ConnectCalls \cup {"getInputBufferProducer"} /\ trip.result.res >= 0)
    => /\ trip.ran # <<>>
       /\ trip.result = [res |-> trip.ran[1].answer.st, out |-> trip.ran[1].answer.out]

\* A binder call is run with the arguments that were given, and its success is the remote's.
CallsSound == ArgsArrive /\ ListWhole /\ OkMeansDone
==============================================================================
