---------------------------- MODULE MCCameraHal ----------------------------
(***************************************************************************)
(* Instances of CameraHal: what the framework may ask for.                 *)
(***************************************************************************)
EXTENDS CameraHal

Out(format, size) == [output |-> TRUE, format |-> format, size |-> size]
Set(mode, trigger, still) == [present |-> TRUE, af_mode |-> mode, af_trigger |-> trigger,
                              still |-> still]

\* Preview alone; preview and JPEG in another size; a list that is rejected.
MCConfigs == {<<Out("IMPLEMENTATION_DEFINED", 1)>>,
              <<Out("YCBCR_420_888", 2), Out("BLOB", 3)>>,
              <<Out("BLOB", 1), Out("RGBA_8888", 0)>>}

\* Two buffers at once; preview with a trigger; a still picture with and
\* without its BLOB buffer; no buffer.
MCRequests == {[bufs |-> <<"RGBA", "BLOB">>, settings |-> NoSettings],
               [bufs |-> <<"YCBCR">>, settings |-> Set(TRUE, "START", FALSE)],
               [bufs |-> <<"RGBA">>, settings |-> Set(TRUE, "CANCEL", TRUE)],
               [bufs |-> <<>>, settings |-> Set(FALSE, "IDLE", FALSE)]}

\* What the liveness and the narrower questions need.
MCConfigs1 == {<<Out("RGBA_8888", 1), Out("BLOB", 1)>>}
MCRequests1 == {[bufs |-> <<"RGBA", "RGBA">>, settings |-> NoSettings],
                [bufs |-> <<"RGBA">>, settings |-> Set(FALSE, "IDLE", TRUE)]}
=============================================================================
