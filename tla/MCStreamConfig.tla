--------------------------- MODULE MCStreamConfig ---------------------------
(***************************************************************************)
(* Every stream list up to MaxStreams long, built one stream at a time.    *)
(***************************************************************************)
EXTENDS StreamConfig

CONSTANT MaxStreams
ASSUME MaxStreamsAssumption == MaxStreams \in Nat

VARIABLE streams

Streams == [output : BOOLEAN, format : StreamFormats, size : {1}]

StreamsInit == streams = <<>>
AddStream == /\ Len(streams) < MaxStreams
             /\ \E s \in Streams : streams' = Append(streams, s)
StartOver == Len(streams) = MaxStreams /\ streams' = <<>>
StreamsNext == AddStream \/ StartOver

Outputs(F) == {i \in DOMAIN streams : streams[i].output /\ streams[i].format \in F}
First(S) == CHOOSE i \in S : \A j \in S : i <= j

\* The positions at which the loop stops looking: an RGBA or YCbCr stream, or
\* an IMPLEMENTATION_DEFINED one after another.
Stops == LET impl == Outputs({"IMPLEMENTATION_DEFINED"})
         IN Outputs({"RGBA_8888", "YCBCR_420_888"})
            \cup {i \in impl : \E j \in impl : j < i}

\* configure_streams (MochaCameraHAL.cpp:866-903): the loop selects what it
\* stops at if that is RGBA, else the first IMPLEMENTATION_DEFINED stream if
\* there is one before, else what it stops at; it selects nothing exactly when
\* there is no output stream except BLOB.
SelectsByFirstStop ==
  LET stop == First(Stops)
      before == IF Stops = {} THEN Outputs({"IMPLEMENTATION_DEFINED"})
                ELSE {i \in Outputs({"IMPLEMENTATION_DEFINED"}) : i < stop}
  IN pipelineStream(streams) =
       CASE Stops # {} /\ streams[stop].format = "RGBA_8888" -> stop
         [] ~ (Stops # {} /\ streams[stop].format = "RGBA_8888") /\ before # {} -> First(before)
         [] Stops # {} /\ streams[stop].format # "RGBA_8888" /\ before = {} -> stop
         [] OTHER -> 0
=============================================================================
