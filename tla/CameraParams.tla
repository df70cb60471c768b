---------------------------- MODULE CameraParams ----------------------------
(***************************************************************************)
(* The camera parameters of libmocha: the application keeps them in a      *)
(* CameraParameters (a map sorted by key), the service in a                *)
(* CameraParameters2 (a list in the order of setting), and they are passed *)
(* as text, "key=value;key=value".  A key, a value and a text are          *)
(* sequences of tokens: words, numerals and separators.                    *)
(***************************************************************************)
EXTENDS Integers, Sequences, SequencesExt

CONSTANTS ParamKeys,      \* keys, in the order in which a sorted map lists them
          ParamValues,    \* values the two sides set
          SizeTexts,      \* lists of sizes the service may start with
          Numerals,       \* the integer each numeral stands for
          MaxSets         \* bound: settings since the service last read a text

VARIABLES app,            \* the application's map
          srv,            \* the service's list of keys and values
          setLog          \* keys the service has set since it last read a text, oldest first

paramVars == <<app, srv, setLog>>

SizesKey == <<"sizes">>
Pair(k, v) == [k |-> k, v |-> v]
Domains(list) == {list[i].k : i \in DOMAIN list}

\* The map that a list of pairs stands for; DefaultKeyedVector::add replaces what it finds.
MapOf(list) == [k \in Domains(list) |-> list[SelectLastInSeq(list, LAMBDA e : e.k = k)].v]

\* flatten(): the pairs in their order, with a separator between two.
Flatten(list) ==
  FlattenSeq([i \in DOMAIN list |->
    list[i].k \o <<"=">> \o list[i].v \o (IF i # Len(list) THEN <<";">> ELSE <<>>)])

\* A CameraParameters, read from its first key to its last.
Sorted(m) == LET ks == SelectSeq(ParamKeys, LAMBDA k : k \in DOMAIN m) IN [i \in DOMAIN ks |-> Pair(ks[i], m[ks[i]])]

\* strchr from a position on; 0 when there is none.
Find(t, a, c) == LET S == {i \in a..Len(t) : t[i] = c} IN IF S = {} THEN 0 ELSE CHOOSE i \in S : \A j \in S : i <= j

\* unflatten(), as the list of pairs it adds.
Unflatten(t) ==
  LET from[a \in 1..(Len(t) + 1)] ==
        LET b == Find(t, a, "=")
            c == Find(t, b + 1, ";")
        IN IF b = 0 THEN <<>>
           ELSE IF c = 0 THEN <<Pair(SubSeq(t, a, b - 1), SubSeq(t, b + 1, Len(t)))>>
           ELSE <<Pair(SubSeq(t, a, b - 1), SubSeq(t, b + 1, c - 1))>> \o from[c + 1]
  IN from[1]

\* CameraParameters2 does the same to its list.
Flatten2(list) == Flatten(list)
Unflatten2(t) == Unflatten(t)

Separators == {"=", ";"}

\* set() leaves the parameters alone when the key or the value holds a separator.
Acceptable(key, value) == ToSet(key) \cap Separators = {} /\ ToSet(value) \cap Separators = {}

\* OrderedKeyedVector::removeItem: the first pair of that key, if there is one.
RemoveItem(list, k) ==
  IF k \in Domains(list) THEN RemoveAt(list, SelectInSeq(list, LAMBDA e : e.k = k)) ELSE list

\* Mutant: the value is replaced where it stands.
ReplacedInPlace(list, k, v) ==
  IF k \in Domains(list) THEN [i \in DOMAIN list |-> IF list[i].k = k THEN Pair(k, v) ELSE list[i]]
  ELSE Append(list, Pair(k, v))

\* OrderedKeyedVector::replaceValueFor.
ReplaceValueFor(list, k, v) == Append(RemoveItem(list, k), Pair(k, v))

\* CameraParameters2::compareSetOrder, of two keys that are there.
CompareSetOrder(k1, k2) ==
  LET i == SelectInSeq(srv, LAMBDA e : e.k = k1)
      j == SelectInSeq(srv, LAMBDA e : e.k = k2)
  IN IF i = j THEN 0 ELSE IF i < j THEN -1 ELSE 1
-----------------------------------------------------------------------------
\* strtol: the numeral at a position, 0 without moving when there is none.
Strtol(t, i) == IF i <= Len(t) /\ t[i] \in DOMAIN Numerals THEN [v |-> Numerals[t[i]], end |-> i + 1] ELSE [v |-> 0, end |-> i]

At(t, i) == IF i <= Len(t) THEN t[i] ELSE ""

\* parse_pair: two integers around a delimiter.
ParsePair(t, i, delim) ==
  LET w == Strtol(t, i)
      h == Strtol(t, w.end + 1)
  IN IF At(t, w.end) # delim THEN [ok |-> FALSE, end |-> i]
     ELSE [ok |-> TRUE, first |-> w.v, second |-> h.v, end |-> h.end]

\* A size is followed by a comma or by the end of the text.
GoodEnd(c) == c \in {",", ""}

\* parseSizesList: the sizes up to the first one that is not one.
ParseSizesList(t) ==
  LET from[i \in 1..(Len(t) + 1)] ==
        LET p == ParsePair(t, i, "x")
        IN IF ~p.ok \/ ~GoodEnd(At(t, p.end)) THEN <<>>
           ELSE <<<<p.first, p.second>>>> \o (IF p.end > Len(t) THEN <<>> ELSE from[p.end + 1])
  IN from[1]

\* get() of the application treats an empty value as none; that of the service does not.
HasText(m, k) == k \in DOMAIN m /\ m[k] # <<>>

\* getSupportedPreviewSizes and its like.
GetSizes(m, k) == IF HasText(m, k) THEN ParseSizesList(m[k]) ELSE <<>>

\* getPreviewSize and its like: -1x-1 when there is no text or no delimiter.
GetPair(m, k, delim) ==
  IF ~HasText(m, k) THEN <<-1, -1>>
  ELSE LET p == ParsePair(m[k], 1, delim) IN IF p.ok THEN <<p.first, p.second>> ELSE <<-1, -1>>
-----------------------------------------------------------------------------
ParamInit ==
  /\ app = <<>>
  /\ \E t \in SizeTexts : srv = <<Pair(SizesKey, t)>>
  /\ setLog = <<>>

\* CameraParameters::set; a refused pair changes nothing.
AppSet(k, v) ==
  /\ Acceptable(k, v)
  /\ app' = [x \in DOMAIN app \cup {k} |-> IF x = k THEN v ELSE app[x]]
  /\ UNCHANGED <<srv, setLog>>

AppRemove(k) ==
  /\ app' = [x \in DOMAIN app \ {k} |-> app[x]]
  /\ UNCHANGED <<srv, setLog>>

\* CameraParameters2::set.
SrvSet(k, v) ==
  /\ Acceptable(k, v) /\ Len(setLog) < MaxSets
  /\ srv' = ReplaceValueFor(srv, k, v)
  /\ setLog' = Append(setLog, k)
  /\ UNCHANGED app

SrvRemove(k) ==
  /\ srv' = RemoveItem(srv, k)
  /\ setLog' = SelectSeq(setLog, LAMBDA x : x # k)
  /\ UNCHANGED app

\* Camera::setParameters: the service reads the application's text.
setParameters ==
  /\ srv' = Unflatten2(Flatten(Sorted(app)))
  /\ setLog' = <<>>
  /\ UNCHANGED app

\* Camera::getParameters: the application reads the service's.
getParameters ==
  /\ app' = MapOf(Unflatten(Flatten2(srv)))
  /\ UNCHANGED <<srv, setLog>>

ParamNext ==
  \/ \E k \in ToSet(ParamKeys), v \in ParamValues : AppSet(k, v) \/ SrvSet(k, v)
  \/ \E k \in ToSet(ParamKeys) : AppRemove(k) \/ SrvRemove(k)
  \/ setParameters \/ getParameters
-----------------------------------------------------------------------------
\* Whatever the two sides have set, removed and exchanged, the text of each is read back as exactly
\* the same parameters: no value breaks out of its pair and none is lost, empty ones included.
TextKeepsAll ==
  /\ MapOf(Unflatten(Flatten(Sorted(app)))) = app
  /\ Unflatten2(Flatten2(srv)) = srv

\* The comment of CameraParameters2: of two keys the later set comes later, so that the last of two
\* conflicting settings wins; a key that was set again counts from then, and whatever was set comes
\* after what was read from a text.
OrderIsSetOrder ==
  \A k1, k2 \in Domains(srv) :
    LET last(k) == SelectLastInSeq(setLog, LAMBDA x : x = k)
    IN last(k1) < last(k2) => CompareSetOrder(k1, k2) = -1

\* No key is in the service's list twice: removeItem takes only the first, and a second would
\* come back to light with its old value.
KeysOnce == \A i, j \in DOMAIN srv : srv[i].k = srv[j].k => i = j

\* A text of sizes: the items between the commas, and what each should be.
ItemsOf(t) ==
  LET cuts == <<0>> \o SelectSeq([i \in DOMAIN t |-> i], LAMBDA i : t[i] = ",") \o <<Len(t) + 1>>
  IN [n \in 1..(Len(cuts) - 1) |-> SubSeq(t, cuts[n] + 1, cuts[n + 1] - 1)]
IsSize(s) == \E i \in DOMAIN s : s[i] = "x" /\ i <= 2 /\ Len(s) - i <= 1
                /\ \A j \in DOMAIN s : j # i => s[j] \in DOMAIN Numerals
SizeOf(s) == <<IF s[1] \in DOMAIN Numerals THEN Numerals[s[1]] ELSE 0,
               IF s[Len(s)] \in DOMAIN Numerals THEN Numerals[s[Len(s)]] ELSE 0>>
Leading(items) == LET bad == {n \in DOMAIN items : ~IsSize(items[n])}
                  IN {n \in DOMAIN items : \A b \in bad : n < b}

\* The sizes the application gets are those the text lists, up to the first item that is not a
\* size: nothing behind a malformed item is read as a size, and the first is the preview size.
SizesAsListed ==
  HasText(app, SizesKey) =>
    LET items == ItemsOf(app[SizesKey])
        good == Leading(items)
    IN /\ GetSizes(app, SizesKey) = [n \in good |-> SizeOf(items[n])]
       /\ Len(items) = 1 /\ good = {1} => GetPair(app, SizesKey, "x") = SizeOf(items[1])

\* Parameters are read as they were written: all of them, once, in the order of setting.
ParamsSound == TextKeepsAll /\ OrderIsSetOrder /\ KeysOnce /\ SizesAsListed
=============================================================================
