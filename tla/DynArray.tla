------------------------------ MODULE DynArray ------------------------------
(* The arrays in which the configuration parser collects its objects           *)
(* (src/configmgr/audio_config.c).  An array grows by a granule and is trimmed *)
(* when its owner's element ends; both may move it, and the parser keeps plain *)
(* pointers into the arrays in state->current.  gen counts the moves.          *)
EXTENDS Integers, Sequences

CONSTANTS DYN_ARRAY_GRANULE,
          MaxMax         \* the largest max_count, 0xFFFF

VARIABLES arr,    \* per kind of object: the array that the current owner collects them in
          cur,    \* state->current: the kinds that are open, outermost first, and their pointers
          oom     \* an allocation failed, and the parser gave up

arrayVars == <<arr, cur, oom>>

ASSUME GranuleAssumption == /\ DYN_ARRAY_GRANULE \in Nat \ {0}
                            /\ MaxMax \in Nat /\ MaxMax >= DYN_ARRAY_GRANULE

Kinds == {"device", "path", "path_ctl", "stream", "usecase", "case", "case_ctl"}
Roots == {"device", "stream"}
Owns == [device |-> {"path"}, path |-> {"path_ctl"}, stream |-> {"usecase"}, usecase |-> {"case"},
         case |-> {"case_ctl"}, path_ctl |-> {}, case_ctl |-> {}]

NewArray == [count |-> 0, max |-> 0, gen |-> 0]
ArrayInit == arr = [k \in Kinds |-> NewArray] /\ cur = << >> /\ oom = FALSE

\* dyn_array_extend where it succeeds, and whether it can.
Extends(a) == a.count + 1 <= a.max \/ a.max <= MaxMax - DYN_ARRAY_GRANULE
dyn_array_extend(a) ==
  IF a.count + 1 > a.max
  THEN [count |-> a.count + 1, max |-> a.max + DYN_ARRAY_GRANULE, gen |-> a.gen + 1]
  ELSE [a EXCEPT !.count = @ + 1]

\* dyn_array_fix where realloc succeeds; otherwise the array stays as it is.
dyn_array_fix(a) == [count |-> a.count, max |-> a.count, gen |-> a.gen + 1]

\* What may start here: a root object, or one that the innermost open object owns.
Innermost == cur[Len(cur)].kind
MayStart(k) == ~oom /\ IF cur = << >> THEN k \in Roots ELSE k \in Owns[Innermost]

\* new_device, new_path and the others: the object is the last of its array, its own
\* arrays are empty because the memory was cleared.
NewObject(k) ==
  /\ MayStart(k)
  /\ IF Extends(arr[k])
     THEN LET a == dyn_array_extend(arr[k]) IN
          /\ arr' = [j \in Kinds |-> IF j = k THEN a ELSE IF j \in Owns[k] THEN NewArray ELSE arr[j]]
          /\ cur' = Append(cur, [kind |-> k, gen |-> a.gen, index |-> a.count])
          /\ UNCHANGED oom
     ELSE oom' = TRUE /\ UNCHANGED <<arr, cur>>
OutOfMemory == ~oom /\ oom' = TRUE /\ UNCHANGED <<arr, cur>>

\* Mutant: an ending object trims the array that it is in as well.
TrimsOwnArray(k) == Owns[k] \cup {k} \cup (IF k = "path" THEN {"device"} ELSE {})

\* compress_device, compress_path and the others: the arrays that an ending object owns.
\* Arrays further down belong to objects that ended before, and are out of reach.
Trims(k) == Owns[k]
Open(k) == k \in Roots \/ \E i \in 1..Len(cur) : k \in Owns[cur[i].kind]
EndObject ==
  /\ ~oom /\ cur # << >>
  /\ \E moved \in BOOLEAN :
       arr' = [j \in Kinds |-> IF j \in Trims(Innermost) /\ moved THEN dyn_array_fix(arr[j])
                               ELSE IF Open(j) THEN arr[j] ELSE NewArray]
  /\ cur' = SubSeq(cur, 1, Len(cur) - 1)
  /\ UNCHANGED oom

\* compress_config_mgr at the end, and free_audio_config; a parser that gave up is freed too.
FreeAll == /\ cur = << >> \/ oom
           /\ arr' = [k \in Kinds |-> NewArray] /\ cur' = << >> /\ oom' = FALSE

ArrayNext == (\E k \in Kinds : NewObject(k)) \/ EndObject \/ OutOfMemory \/ FreeAll
ArraySpec == ArrayInit /\ [][ArrayNext]_arrayVars

----------------------------------------------------------------------------
\* An array never holds more than was allocated, and max_count, which has 16 bits, does
\* not wrap (dyn_array_extend tests it against 0xFFFF before it adds the granule).
ArrayFits == \A k \in Kinds : arr[k].count <= arr[k].max /\ arr[k].max <= MaxMax

\* The pointer to every open object points into its array as it is now: nothing extends
\* or trims an array while one of its objects is open.
CurrentNotMoved == \A i \in 1..Len(cur) : cur[i].gen = arr[cur[i].kind].gen /\ cur[i].index = arr[cur[i].kind].count

\* The parser's arrays have room for what is in them, and do not move under a pointer
\* (dyn_array_extend, dyn_array_fix).
ArraysSound == ArrayFits /\ CurrentNotMoved
=============================================================================
