---------------------------- MODULE StreamConfig ----------------------------
(***************************************************************************)
(* The stream selection of camera_device_configure_streams                 *)
(* (src/camera/MochaCameraHAL.cpp): one pass over the requested streams    *)
(* that remembers the stream the pipeline runs for and the BLOB stream.    *)
(* A stream is [output, format, size]; size 0 stands for a zero width or   *)
(* height, position 0 for a null pointer.                                  *)
(***************************************************************************)
EXTENDS Integers, Sequences

StreamFormats == {"RGBA_8888", "IMPLEMENTATION_DEFINED", "YCBCR_420_888", "BLOB"}

NoneSelected == [pipelineStream |-> 0, rgbaStream |-> 0, blobStream |-> 0]

\* What stream s at position i may become when no pipeline stream is fixed yet.
SelectPipeline(sel, i, s) ==
  CASE s.format = "RGBA_8888" -> [sel EXCEPT !.pipelineStream = i, !.rgbaStream = i]
    [] s.format = "IMPLEMENTATION_DEFINED" /\ sel.rgbaStream = 0 -> [sel EXCEPT !.rgbaStream = i]
    [] OTHER -> [sel EXCEPT !.pipelineStream = i]

\* Mutant: the first IMPLEMENTATION_DEFINED stream ends the search too.
SelectStopsAtImpl(sel, i, s) ==
  CASE ~ s.output \/ sel.pipelineStream # 0 -> sel
    [] s.output /\ s.format = "BLOB" -> [sel EXCEPT !.blobStream = i]
    [] OTHER -> [sel EXCEPT !.pipelineStream = i]

\* The body of the loop over config->streams.
Select(sel, i, s) ==
  CASE ~ s.output -> sel
    [] s.output /\ s.format = "BLOB" -> [sel EXCEPT !.blobStream = i]
    [] s.output /\ s.format # "BLOB" /\ sel.pipelineStream = 0 -> SelectPipeline(sel, i, s)
    [] OTHER -> sel

\* The selection after the whole loop.
Selection(streams) ==
  LET after[i \in 0 .. Len(streams)] ==
        IF i = 0 THEN NoneSelected ELSE Select(after[i - 1], i, streams[i])
  IN after[Len(streams)]

\* if (rgbaStream) pipelineStream = rgbaStream
pipelineStream(streams) ==
  LET sel == Selection(streams)
  IN IF sel.rgbaStream # 0 THEN sel.rgbaStream ELSE sel.pipelineStream

blobStream(streams) == Selection(streams).blobStream

\* num_streams and the dimensions of each stream are checked.
Rejected(streams) == \/ Len(streams) = 0 \/ Len(streams) > 20
                     \/ \E i \in DOMAIN streams : streams[i].size = 0
=============================================================================
