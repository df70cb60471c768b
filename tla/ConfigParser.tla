---------------------------- MODULE ConfigParser ----------------------------
(* The parser of the audio configuration (src/configmgr/audio_config.c).       *)
(* expat calls parse_section_start and parse_section_end; what the document    *)
(* says is chosen event by event.  An element is identified by the number of   *)
(* the start event that created it; 0 stands for NULL and -1 for init_path.    *)
(* A <codec_probe> section can send the parser to another file.                *)
EXTENDS Integers, Sequences

CONSTANTS CfgFiles,      \* names of configuration files
          FirstFile,     \* audio.<ro.product.device>.xml
          ProbeFiles,    \* files a <codec_probe> can read
          CodecIn,       \* the codec named by each of them
          MaxStarts,     \* bound on the start events of one initialisation
          MaxRedirects,  \* bound on the redirections of one initialisation
          MaxCases       \* bound on the codec cases of one file

VARIABLES parse,   \* [file, err, root, stack, starts]; err: "none", "error" or "stopped"
          current, \* the current parent objects
          cm,      \* what has been put in the config_mgr
          probe,   \* init_probe
          cfgpc,   \* "parsing", "ready" (a config_mgr was returned) or "failed"
          placed,  \* ghost: where each <ctl> was put: <<enclosing kind, it, where it went>>
          jumps    \* ghost: the redirections <<codec, file>> of this initialisation

parserVars == <<parse, current, cm, probe, cfgpc, placed, jumps>>

MAX_PARSE_DEPTH == 6
Null == 0
InitPath == -1

\* elem_table: the elements that each element may contain.
SubElems ==
  [document |-> {"audiohal"}, audiohal |-> {"mixer", "codec_probe"},
   mixer |-> {"init"}, init |-> {"ctl"}, device |-> {"path"}, path |-> {"ctl"},
   stream |-> {"stream_ctl", "enable", "disable", "usecase"}, usecase |-> {"case"},
   case |-> {"ctl"}, codec_probe |-> {"codec_case"}, codec_case |-> {}, ctl |-> {},
   stream_ctl |-> {}, enable |-> {}, disable |-> {}]
Entry(e, id) == [elem |-> e, id |-> id, valid |-> SubElems[e]]

\* do_parse: the first element must be <audiohal>.
NewParse(file, starts) ==
  [file |-> file, err |-> "none", root |-> FALSE, stack |-> << Entry("document", 0) >>, starts |-> starts]
NoObject == [device |-> Null, stream |-> Null, path |-> Null, usecase |-> Null, scase |-> Null]
EmptyManager == [mixer |-> FALSE, devices |-> {}, streams |-> {}, volume |-> {}, names |-> {"off", "on"}]
NoProbe == [file |-> "none", cases |-> << >>, next |-> "none"]

ParserInit ==
  /\ parse = NewParse(FirstFile, 0) /\ current = NoObject /\ cm = EmptyManager
  /\ probe = NoProbe /\ cfgpc = "parsing" /\ placed = {} /\ jumps = << >>

Top == parse.stack[Len(parse.stack)]
Depth == Len(parse.stack) - 1
Enclosing(kind) == {i \in 1..Len(parse.stack) : parse.stack[i].elem = kind}

----------------------------------------------------------------------------
\* parse_section_start: an element that is not valid here, or one too deep.
Refused(e) == e \notin Top.valid \/ Depth >= MAX_PARSE_DEPTH
Pushed(e) == [parse EXCEPT !.stack = Append(@, Entry(e, parse.starts + 1)), !.starts = @ + 1]
Fails == parse' = [parse EXCEPT !.err = "error"]

\* An element that the document may bring next and that is pushed; extract_attribs or
\* its handler may then refuse it.
Starts(e) == /\ cfgpc = "parsing" /\ parse.err = "none" /\ parse.starts < MaxStarts
             /\ ~Refused(e)
Me == parse.starts + 1

SectionRefused ==
  /\ cfgpc = "parsing" /\ parse.err = "none"
  /\ Fails
  /\ UNCHANGED <<current, cm, probe, cfgpc, placed, jumps>>

\* <audiohal> has no start_fn; expat refuses a second root element.
RootStart ==
  /\ Starts("audiohal") /\ ~parse.root
  /\ parse' = [Pushed("audiohal") EXCEPT !.root = TRUE]
  /\ UNCHANGED <<current, cm, probe, cfgpc, placed, jumps>>

\* A path must be defined before <enable> or <disable> refers to it.
parse_enable_disable_start(e) ==
  /\ Starts(e)
  /\ \E name \in {"on", "user"} : IF name \in cm.names THEN parse' = Pushed(e) ELSE Fails
  /\ UNCHANGED <<current, cm, probe, cfgpc, placed, jumps>>

\* The volume controls of the current stream; the control has to be known to the mixer.
parse_stream_ctl_start ==
  /\ Starts("stream_ctl") /\ parse' = Pushed("stream_ctl")
  /\ \E side \in {"leftvol", "rightvol"} : cm' = [cm EXCEPT !.volume = @ \cup {<<current.stream, side>>}]
  /\ UNCHANGED <<current, probe, cfgpc, placed, jumps>>

\* Now allow all other root elements but not another <mixer>.
RootAfterMixer(stack) == [stack EXCEPT ![Len(stack) - 1].valid = {"device", "stream"}]
parse_mixer_start ==
  /\ Starts("mixer")
  /\ cm' = [cm EXCEPT !.mixer = TRUE]
  /\ parse' = [Pushed("mixer") EXCEPT !.stack = RootAfterMixer(@)]
  /\ UNCHANGED <<current, probe, cfgpc, placed, jumps>>

parse_init_start ==
  /\ Starts("init") /\ parse' = Pushed("init")
  /\ current' = [current EXCEPT !.path = InitPath]
  /\ UNCHANGED <<cm, probe, cfgpc, placed, jumps>>

\* A device may be defined once, except the global one, which has no flags.
parse_device_start ==
  /\ Starts("device")
  /\ \E d \in {"speaker", "global"} :
       IF d # "global" /\ d \in cm.devices
       THEN Fails /\ UNCHANGED <<current, cm>>
       ELSE /\ cm' = [cm EXCEPT !.devices = @ \cup {d}]
            /\ parse' = Pushed("device")
            /\ current' = [current EXCEPT !.device = Me]
  /\ UNCHANGED <<probe, cfgpc, placed, jumps>>

parse_path_start ==
  /\ Starts("path") /\ parse' = Pushed("path")
  /\ \E name \in {"on", "user"} : cm' = [cm EXCEPT !.names = @ \cup {name}]
  /\ current' = [current EXCEPT !.path = Me]
  /\ UNCHANGED <<probe, cfgpc, placed, jumps>>

\* Named streams are declared once.
parse_stream_start ==
  /\ Starts("stream")
  /\ \E name \in {"anonymous", "media"} :
       IF name # "anonymous" /\ name \in cm.streams
       THEN Fails /\ UNCHANGED <<current, cm>>
       ELSE /\ cm' = [cm EXCEPT !.streams = @ \cup {name}]
            /\ parse' = Pushed("stream")
            /\ current' = [current EXCEPT !.stream = Me]
  /\ UNCHANGED <<probe, cfgpc, placed, jumps>>

CaseStarted == [current EXCEPT !.scase = Me]
parse_case_start ==
  /\ Starts("case") /\ parse' = Pushed("case")
  /\ current' = CaseStarted
  /\ UNCHANGED <<cm, probe, cfgpc, placed, jumps>>
parse_usecase_start ==
  /\ Starts("usecase") /\ parse' = Pushed("usecase")
  /\ current' = [current EXCEPT !.usecase = Me]
  /\ UNCHANGED <<cm, probe, cfgpc, placed, jumps>>

\* The array that a <ctl> is added to.
parse_ctl_start ==
  /\ Starts("ctl") /\ parse' = Pushed("ctl")
  /\ placed' = placed \cup
       {<<Top.elem, Top.id, IF current.path # Null THEN current.path ELSE current.scase>>}
  /\ UNCHANGED <<current, cm, probe, cfgpc, jumps>>

parse_codec_probe_start ==
  /\ Starts("codec_probe")
  /\ \E f \in ProbeFiles :
       IF probe.file = "none" THEN parse' = Pushed("codec_probe") /\ probe' = [probe EXCEPT !.file = f]
                              ELSE Fails /\ UNCHANGED probe
  /\ UNCHANGED <<current, cm, cfgpc, placed, jumps>>
parse_codec_case_start ==
  /\ Starts("codec_case") /\ parse' = Pushed("codec_case")
  /\ Len(probe.cases) < MaxCases * (Len(jumps) + 1)
  /\ \E p \in ProbeFiles, f \in CfgFiles : probe' = [probe EXCEPT !.cases = Append(@, <<CodecIn[p], f>>)]
  /\ UNCHANGED <<current, cm, cfgpc, placed, jumps>>

----------------------------------------------------------------------------
Ends(e) == cfgpc = "parsing" /\ parse.err = "none" /\ Top.elem = e
Popped == [parse EXCEPT !.stack = SubSeq(@, 1, Len(@) - 1)]

\* Elements without an end_fn, and those whose end_fn only trims arrays.
PlainEnd ==
  /\ \E e \in {"audiohal", "mixer", "init", "device", "stream", "usecase", "ctl", "stream_ctl",
               "enable", "disable", "codec_case"} : Ends(e)
  /\ parse' = Popped
  /\ UNCHANGED <<current, cm, probe, cfgpc, placed, jumps>>

\* Mutant: the path stays current.
PathEndKeeps == current

PathEnded == [current EXCEPT !.path = Null]
parse_path_end ==
  /\ Ends("path") /\ parse' = Popped /\ current' = PathEnded
  /\ UNCHANGED <<cm, probe, cfgpc, placed, jumps>>
parse_case_end ==
  /\ Ends("case") /\ parse' = Popped /\ current' = [current EXCEPT !.scase = Null]
  /\ UNCHANGED <<cm, probe, cfgpc, placed, jumps>>

\* probe_config_file: the first case for the codec decides.  A case that names the file
\* being read aborts the parser; any other one suspends it.
Matches == {i \in 1..Len(probe.cases) :
              /\ probe.cases[i][1] = CodecIn[probe.file]
              /\ \A j \in 1..(i - 1) : probe.cases[j][1] # probe.cases[i][1]}
parse_codec_probe_end ==
  /\ Ends("codec_probe")
  /\ IF Matches = {} THEN parse' = Popped /\ UNCHANGED probe
     ELSE \E i \in Matches :
       IF probe.cases[i][2] = parse.file
       THEN parse' = [Popped EXCEPT !.err = "error"] /\ UNCHANGED probe
       ELSE parse' = [Popped EXCEPT !.err = "stopped"] /\ probe' = [probe EXCEPT !.next = probe.cases[i][2]]
  /\ UNCHANGED <<current, cm, cfgpc, placed, jumps>>

\* The rest of parse_config_file's loop: a suspended parser starts over with the next
\* file, keeping the codec cases it has collected.
Redirect ==
  /\ cfgpc = "parsing" /\ parse.err = "stopped" /\ Len(jumps) < MaxRedirects
  /\ parse' = NewParse(probe.next, parse.starts)
  /\ probe' = [probe EXCEPT !.file = "none", !.next = "none"]
  /\ jumps' = Append(jumps, <<CodecIn[probe.file], probe.next>>)
  /\ UNCHANGED <<current, cm, cfgpc, placed>>

\* The next file cannot be opened, or the document or one of its elements was refused.
ParseFailed ==
  /\ cfgpc = "parsing" /\ parse.err \in {"error", "stopped"}
  /\ cfgpc' = "failed"
  /\ UNCHANGED <<parse, current, cm, probe, placed, jumps>>

\* The document ended; the <init> path is applied and the parser's state freed.
ParseDone ==
  /\ cfgpc = "parsing" /\ parse.err = "none" /\ Depth = 0 /\ parse.root
  /\ cfgpc' = "ready"
  /\ UNCHANGED <<parse, current, cm, probe, placed, jumps>>

\* adev_close and free_audio_config, or the next attempt of a new process.
Reopen ==
  /\ cfgpc \in {"ready", "failed"}
  /\ parse' = NewParse(FirstFile, 0) /\ current' = NoObject /\ cm' = EmptyManager
  /\ probe' = NoProbe /\ cfgpc' = "parsing" /\ placed' = {} /\ jumps' = << >>

ParserNext ==
  \/ SectionRefused \/ RootStart
  \/ parse_stream_ctl_start \/ \E e \in {"enable", "disable"} : parse_enable_disable_start(e)
  \/ parse_mixer_start \/ parse_init_start \/ parse_device_start \/ parse_path_start
  \/ parse_stream_start \/ parse_usecase_start \/ parse_case_start \/ parse_ctl_start
  \/ parse_codec_probe_start \/ parse_codec_case_start
  \/ PlainEnd \/ parse_path_end \/ parse_case_end \/ parse_codec_probe_end
  \/ Redirect \/ ParseFailed \/ ParseDone \/ Reopen

----------------------------------------------------------------------------
\* The check against MAX_PARSE_DEPTH would let the stack grow one entry past its end;
\* the grammar of elem_table keeps it inside.
StackInBounds == Depth < MAX_PARSE_DEPTH

\* "We don't need a stack because an object cannot be nested below an object of the
\* same type": inside an element, current names that element, so that no handler adds
\* to an object that was closed or that a grown array has moved.
CurrentIsEnclosing ==
  LET is(kind, obj) == \A i \in Enclosing(kind) : parse.stack[i].id = obj IN
  /\ is("device", current.device) /\ is("stream", current.stream) /\ is("path", current.path)
  /\ is("usecase", current.usecase) /\ is("case", current.scase)

\* A <ctl> goes to the path or case around it.  The one exception is a <case> that is
\* parsed while <init> was the last path seen, because nothing ends <init>.
CtlGoesToItsParent ==
  \A p \in placed : \/ p[3] = p[2]
                    \/ p[1] \in {"init", "case"} /\ p[3] = InitPath

\* Devices, streams and their controls are only met once the mixer is open
\* ("The <mixer> section must always appear first"), and a file that redirects has
\* left nothing of itself but its codec cases.
MixerFirst ==
  /\ cm.devices # {} \/ cm.streams # {} \/ placed # {} => cm.mixer
  /\ parse.err = "stopped" => cm = EmptyManager /\ placed = {}

\* Codec cases are kept across files and the first match wins, so that a codec leads to
\* the same file whenever it is probed: a second redirection for it is refused as a
\* redirection of a file to itself.
CodecPicksOneFile ==
  \A i, j \in 1..Len(jumps) : jumps[i][1] = jumps[j][1] => jumps[i][2] = jumps[j][2]

\* The parser builds what the file says: every object under the element around it, in the
\* order of sections that the file must have, from one file per codec.
TreeAsNested == StackInBounds /\ CurrentIsEnclosing /\ CtlGoesToItsParent /\ MixerFirst /\ CodecPicksOneFile
=============================================================================
