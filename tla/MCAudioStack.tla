---------------------------- MODULE MCAudioStack ----------------------------
(***************************************************************************)
(* The parts of the audio stack below and beside the HAL's routing, each   *)
(* explored on its own: part says which one a behaviour is about, and the  *)
(* variables of the others stay as they are.                               *)
(***************************************************************************)
EXTENDS CompressStream, CaptureStream, Pcm, AudioControls, ConfigParser, DynArray, MixerValues

VARIABLE part

stackVars == <<part, compressVars, captureVars, pcmVars, mixerVars, controlVars, parserVars, arrayVars, valueVars>>

\* A stereo volume, a byte array, an enumeration and a switch that the driver creates late.
MCDriverCtls == <<"Volume", "Equalizer", "Mode", "Switch", "Wide">>
MCCtlType == [Volume |-> "INT", Equalizer |-> "BYTE", Mode |-> "ENUM", Switch |-> "BOOL", Wide |-> "INT64"]
MCCtlCount == [Volume |-> 2, Equalizer |-> 2, Mode |-> 1, Switch |-> 1, Wide |-> 1]

Cfg(name, index, val, len, good) == [name |-> name, index |-> index, val |-> val, len |-> len, good |-> good]
MCCfgCtls == << Cfg("Volume", 0, 2, 1, TRUE), Cfg("Mode", 0, 1, 1, TRUE), Cfg("Switch", 0, 1, 1, TRUE),
                Cfg("Equalizer", 2, 1, 1, TRUE), Cfg("Equalizer", 0, 3, 2, TRUE), Cfg("Volume", 2, 9, 1, TRUE),
                Cfg("Equalizer", 1, 2, 1, TRUE), Cfg("Switch", 0, 1, 1, FALSE) >>
MCRouteCtls == <<2, 1, 4, 3>>
MCCaseCtls == <<5, 7, 6, 8>>
MCCodecIn == [p1 |-> "wm5102", p2 |-> "wm8998"]

\* A range of one value, three that hold no -EINVAL, and a gain in decibels that holds it.
MCRanges == {[min |-> 0, max |-> 0], [min |-> 0, max |-> 7], [min |-> -10, max |-> 23],
             [min |-> -100, max |-> -40], [min |-> -64, max |-> 0]}
MCPercents == {-1, 0, 1, 33, 50, 99, 100, 101}
MCItemNames == <<"Off", "On", "Auto">>

\* A part that is not looked at starts in one state.
StackInit ==
  /\ part \in {"compress", "capture", "pcm", "mixer", "controls", "parser", "arrays", "values"}
  /\ CompressInit /\ CaptureInit /\ PcmInit /\ ControlsInit /\ ParserInit /\ ArrayInit /\ ValueInit
  /\ part # "values" => range.max = 7

StackNext ==
  /\ UNCHANGED part
  /\ \/ /\ part = "compress" /\ CompressNext
        /\ UNCHANGED <<captureVars, pcmVars, mixerVars, controlVars, parserVars, arrayVars, valueVars>>
     \/ /\ part = "capture" /\ CaptureNext
        /\ UNCHANGED <<compressVars, pcmVars, mixerVars, controlVars, parserVars, arrayVars, valueVars>>
     \/ /\ part = "pcm" /\ PcmNext
        /\ UNCHANGED <<compressVars, captureVars, mixerVars, controlVars, parserVars, arrayVars, valueVars>>
     \/ /\ part = "mixer" /\ MixerNext
        /\ UNCHANGED <<compressVars, captureVars, pcmVars, controlVars, parserVars, arrayVars, valueVars>>
     \/ /\ part = "controls" /\ ControlsNext
        /\ UNCHANGED <<compressVars, captureVars, pcmVars, parserVars, arrayVars, valueVars>>
     \/ /\ part = "parser" /\ ParserNext
        /\ UNCHANGED <<compressVars, captureVars, pcmVars, mixerVars, controlVars, arrayVars, valueVars>>
     \/ /\ part = "arrays" /\ ArrayNext
        /\ UNCHANGED <<compressVars, captureVars, pcmVars, mixerVars, controlVars, parserVars, valueVars>>
     \/ /\ part = "values" /\ ValueNext
        /\ UNCHANGED <<compressVars, captureVars, pcmVars, mixerVars, controlVars, parserVars, arrayVars>>

StackSpec == StackInit /\ [][StackNext]_stackVars
=============================================================================
