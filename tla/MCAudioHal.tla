----------------------------- MODULE MCAudioHal -----------------------------
(* Model values for AudioHal: a configuration of the shape that            *)
(* audio_config.c reads, and the routings of src/audio/audio.mocha.xml.    *)
EXTENDS AudioHal

MCBits == {"IN", "2", "4", "8", "16"}

Both(n) == {<<n, TRUE>>, <<n, FALSE>>}

\* Two outputs and one input device, and the global device; every path of a
\* stream has both directions.
MCDevices ==
  <<[type |-> {"2"}, paths |-> Both("dev") \cup Both("a") \cup Both("b")],
    [type |-> {"4"}, paths |-> Both("dev") \cup Both("a")],
    [type |-> {"IN", "4"}, paths |-> Both("dev") \cup Both("rec") \cup Both("voice")],
    [type |-> {}, paths |-> Both("dev") \cup Both("b")]>>

MCStreams ==
  <<[type |-> "out_pcm", name |-> "", path |-> "a", max |-> 1],
    [type |-> "out_pcm", name |-> "", path |-> "b", max |-> 1],
    [type |-> "in_pcm", name |-> "", path |-> "rec", max |-> 1],
    [type |-> "in_hw", name |-> "voice recognition", path |-> "voice", max |-> 2]>>

MCOutRoutes == {{}, {"2"}, {"2", "4"}}
MCInRoutes == {{}, {"IN", "4"}}
MCMic == {"IN", "4"}

\* The devices and streams of audio.mocha.xml: speaker, headphone, headset,
\* headset_in, mic; no device has an off path.
MochaDevices ==
  <<[type |-> {"2"}, paths |-> {OnPath} \cup Both("pcm")],
    [type |-> {"8"}, paths |-> {OnPath} \cup Both("pcm")],
    [type |-> {"4"}, paths |-> {OnPath} \cup Both("pcm")],
    [type |-> {"IN", "16"}, paths |-> Both("pcm_rec")],
    [type |-> {"IN", "4"}, paths |-> {OnPath} \cup Both("pcm_rec")]>>

MochaStreams ==
  <<[type |-> "out_pcm", name |-> "", path |-> "pcm", max |-> 2],
    [type |-> "in_pcm", name |-> "", path |-> "pcm_rec", max |-> 2]>>

MochaInRoutes == {{}, {"IN", "4"}, {"IN", "16"}}
=============================================================================
