------------------------------ MODULE MCDevice ------------------------------
(***************************************************************************)
(* Parts of the camera HAL, the sensor module, the camera client library   *)
(* and the light service, each explored on its own: part says which one a  *)
(* behaviour is about, and the variables of the others stay as they are.   *)
(***************************************************************************)
EXTENDS MCStreamConfig, AutoExposure, AutoFocus, FenceCleanup, FaultGuard, SensorModule,
        CameraMetadata, VendorTags, CameraClient, CondVar, Lights, DeviceUserCalls, CameraParams

VARIABLE part

deviceVars == <<part, streams, aeVars, afVars, fenceVars, guardVars, sensorVars, metaVars,
                vendorVars, clientVars, condVars, lightVars, tripVars, paramVars>>

\* Two sub-HALs that both number a sensor 5.
MCSubHals == <<"h1", "h2">>
MCSensors == [h1 |-> <<5, 7>>, h2 |-> <<5>>]

\* The OV5693, the IMX179, and a sensor with almost no range.
MCCams == { [expMin |-> 10, expMax |-> 2500, gainMin |-> 1, gainMax |-> 240, exp0 |-> 800, gain0 |-> 60, steps |-> {634}],
            [expMin |-> 160, expMax |-> 15800, gainMin |-> 16, gainMax |-> 240, exp0 |-> 11904, gain0 |-> 64, steps |-> {4768}],
            [expMin |-> 10, expMax |-> 20, gainMin |-> 1, gainMax |-> 6, exp0 |-> 12, gain0 |-> 3, steps |-> {0}] }

\* Tags out of order, repeated, in sections that turn up out of order; and two bad ones.
TagOf(t, n, s, y) == [tag |-> t, name |-> n, section |-> s, type |-> y]
Reported(T) == {TagOf(t, n, s, 1) : t \in T, n \in {1, 2}, s \in {1, 2, 3}}
MCOps == {<<>>, <<TagOf(9, 1, 1, 0)>>, <<TagOf(10, 1, 1, 6)>>}
         \cup {<<e, f>> : e, f \in Reported({10, 11})}
         \cup {<<e, f, g>> : e \in Reported({12}), f \in Reported({10}), g \in Reported({11})}

\* A colour whose nearest primary is red, and one so dark that it is black.
Red == [r |-> 200, g |-> 10, b |-> 10]
Dim == [r |-> 1, g |-> 0, b |-> 0]
MCNearest == [c \in {Black, White, Red, Dim} |->
                IF c = Red THEN [r |-> 255, g |-> 0, b |-> 0] ELSE IF c = White THEN White ELSE Black]
Light(c, t, on, off) == [color |-> c, timed |-> t, on |-> on, off |-> off]
MCStates == {Light(Black, FALSE, 0, 0), Light(Red, FALSE, 500, 500), Light(Red, TRUE, 500, 500),
             Light(White, TRUE, 500, 0), Light(Dim, TRUE, 500, 500)}

\* Requests with and without metadata, with a null surface in front of another.
MCRequests == [meta : {"m"}, surfaces : {<<>>, <<"s">>, <<None, "s">>}, reprocess : BOOLEAN]
              \cup {[meta |-> None, surfaces |-> <<"s">>, reprocess |-> FALSE]}

\* Two keys that conflict and the list of sizes; values that are empty or hold separators; lists of
\* one and of two sizes, whole and malformed.
MCParamKeys == <<<<"fps">>, <<"fps", "range">>, SizesKey>>
MCParamValues == {<<>>, <<"a">>, <<"a", ";", "fps", "=", "b">>}
MCNumerals == [x \in {"640", "480"} |-> IF x = "640" THEN 640 ELSE 480]
MCSize == <<"640", "x", "480">>
MCSizeTexts == {<<>>, MCSize, <<"640", "x">>, <<"x", "480">>, <<"640">>, MCSize \o <<"?">>}
               \cup {MCSize \o b : b \in {<<",">>, <<",", "480", "x", "640">>, <<"x", "480", "x", "640">>, <<",", "?">>}}

\* A part that is not looked at starts in one state.
DeviceInit ==
  /\ part \in {"streams", "exposure", "focus", "fences", "guard", "sensors", "metadata", "vendor",
              "client", "cond", "lights", "binder", "params"}
  /\ StreamsInit /\ AfInit /\ FenceInit /\ GuardInit /\ SensorInit /\ MetaInit /\ ClientInit /\ TripInit
  /\ AeInit /\ (part # "exposure" => cam.gainMax = 6)
  /\ VendorInit /\ (part # "vendor" => ops = <<>>)
  /\ CondInit /\ (part # "cond" => flags = 0)
  /\ ParamInit /\ (part # "params" => srv = <<Pair(SizesKey, <<>>)>>)
  /\ LightInit /\ (part # "lights" => panel = 255 /\ \A k \in Kinds : wanted[k] = Light(Black, FALSE, 0, 0))

DeviceNext ==
  /\ UNCHANGED part
  /\ \/ /\ part = "streams" /\ StreamsNext
        /\ UNCHANGED <<aeVars, afVars, fenceVars, guardVars, sensorVars, metaVars, vendorVars, clientVars, condVars, lightVars, tripVars, paramVars>>
     \/ /\ part = "exposure" /\ AeNext
        /\ UNCHANGED <<streams, afVars, fenceVars, guardVars, sensorVars, metaVars, vendorVars, clientVars, condVars, lightVars, tripVars, paramVars>>
     \/ /\ part = "focus" /\ AfNext
        /\ UNCHANGED <<streams, aeVars, fenceVars, guardVars, sensorVars, metaVars, vendorVars, clientVars, condVars, lightVars, tripVars, paramVars>>
     \/ /\ part = "fences" /\ FenceNext
        /\ UNCHANGED <<streams, aeVars, afVars, guardVars, sensorVars, metaVars, vendorVars, clientVars, condVars, lightVars, tripVars, paramVars>>
     \/ /\ part = "guard" /\ GuardNext
        /\ UNCHANGED <<streams, aeVars, afVars, fenceVars, sensorVars, metaVars, vendorVars, clientVars, condVars, lightVars, tripVars, paramVars>>
     \/ /\ part = "sensors" /\ SensorNext
        /\ UNCHANGED <<streams, aeVars, afVars, fenceVars, guardVars, metaVars, vendorVars, clientVars, condVars, lightVars, tripVars, paramVars>>
     \/ /\ part = "metadata" /\ MetaNext
        /\ UNCHANGED <<streams, aeVars, afVars, fenceVars, guardVars, sensorVars, vendorVars, clientVars, condVars, lightVars, tripVars, paramVars>>
     \/ /\ part = "vendor" /\ VendorNext
        /\ UNCHANGED <<streams, aeVars, afVars, fenceVars, guardVars, sensorVars, metaVars, clientVars, condVars, lightVars, tripVars, paramVars>>
     \/ /\ part = "client" /\ ClientNext
        /\ UNCHANGED <<streams, aeVars, afVars, fenceVars, guardVars, sensorVars, metaVars, vendorVars, condVars, lightVars, tripVars, paramVars>>
     \/ /\ part = "cond" /\ CondNext
        /\ UNCHANGED <<streams, aeVars, afVars, fenceVars, guardVars, sensorVars, metaVars, vendorVars, clientVars, lightVars, tripVars, paramVars>>
     \/ /\ part = "lights" /\ LightNext
        /\ UNCHANGED <<streams, aeVars, afVars, fenceVars, guardVars, sensorVars, metaVars, vendorVars, clientVars, condVars, tripVars, paramVars>>
     \/ /\ part = "binder" /\ TripNext
        /\ UNCHANGED <<streams, aeVars, afVars, fenceVars, guardVars, sensorVars, metaVars, vendorVars, clientVars, condVars, lightVars, paramVars>>
     \/ /\ part = "params" /\ ParamNext
        /\ UNCHANGED <<streams, aeVars, afVars, fenceVars, guardVars, sensorVars, metaVars, vendorVars, clientVars, condVars, lightVars, tripVars>>

DeviceSpec == DeviceInit /\ [][DeviceNext]_deviceVars
=============================================================================
