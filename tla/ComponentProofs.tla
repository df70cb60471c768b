--------------------------- MODULE ComponentProofs ---------------------------
(***************************************************************************)
(* The components whose state is their own: the parser's arrays, the       *)
(* compressed output with its async thread, the fault guard of the camera  *)
(* client, and the condition variable of libmutexshim.  Each has a theorem *)
(* for every value of its constants, from an inductive invariant stated    *)
(* before it.                                                              *)
(***************************************************************************)
EXTENDS DynArray, CompressStream, FaultGuard, CondVar, SequenceTheorems, TLAPS

(*****************************************************************************)
(* The parser's arrays and the pointers it keeps into them, for every        *)
(* granule and every width of max_count.  That no pointer is left behind     *)
(* when an array moves needs to know that the open objects are nested: the   *)
(* kind of an object gives its depth, so the array that grows or is          *)
(* trimmed belongs to no open object.                                        *)
(*****************************************************************************)
\* How deep an element of a kind is.
Depth == [device |-> 1, stream |-> 1, path |-> 2, usecase |-> 2, path_ctl |-> 3, case |-> 3, case_ctl |-> 4]

Array == [count : Nat, max : Nat, gen : Nat]

Object == [kind : Kinds, gen : Nat, index : Nat]

ArrayTypeOK ==
  /\ arr \in [Kinds -> Array]
  /\ cur \in Seq(Object)

\* The open objects, outermost first, each owned by the one before it.
Nested ==
  \A i \in 1..Len(cur) :
    /\ Depth[cur[i].kind] = i
    /\ cur[i].kind \in Roots \/ (i > 1 /\ cur[i].kind \in Owns[cur[i - 1].kind])

ArrayInv == ArrayTypeOK /\ ArrayFits /\ Nested /\ CurrentNotMoved

\* Owners are one level above what they own, and the roots are at the top.
LEMMA DepthOfOwned ==
  /\ \A k \in Kinds : Depth[k] \in Nat /\ Owns[k] \subseteq Kinds
  /\ \A k \in Kinds : \A j \in Owns[k] : Depth[j] = Depth[k] + 1
  /\ \A k \in Roots : k \in Kinds /\ Depth[k] = 1
BY DEF Kinds, Roots, Owns, Depth

\* dyn_array_extend, where it succeeds, and dyn_array_fix keep the count within the room, and the
\* room within what max_count can hold.
LEMMA ArrayGrows ==
  ASSUME NEW a \in Array, a.count <= a.max, a.max <= MaxMax
  PROVE  /\ NewArray \in Array /\ NewArray.count <= NewArray.max /\ NewArray.max <= MaxMax
         /\ dyn_array_fix(a) \in Array /\ dyn_array_fix(a).count <= dyn_array_fix(a).max /\ dyn_array_fix(a).max <= MaxMax
         /\ Extends(a) => /\ dyn_array_extend(a) \in Array
                          /\ dyn_array_extend(a).count <= dyn_array_extend(a).max
                          /\ dyn_array_extend(a).max <= MaxMax
<1>1. MaxMax \in Nat /\ DYN_ARRAY_GRANULE \in Nat /\ DYN_ARRAY_GRANULE > 0 BY GranuleAssumption
<1>2. a.count \in Nat /\ a.max \in Nat /\ a.gen \in Nat BY DEF Array
<1>3. NewArray \in Array /\ NewArray.count <= NewArray.max /\ NewArray.max <= MaxMax
  BY <1>1 DEF NewArray, Array
<1>4. dyn_array_fix(a) \in Array /\ dyn_array_fix(a).count <= dyn_array_fix(a).max /\ dyn_array_fix(a).max <= MaxMax
  BY <1>1, <1>2 DEF dyn_array_fix, Array
<1>5. ASSUME Extends(a)
      PROVE  dyn_array_extend(a) \in Array /\ dyn_array_extend(a).count <= dyn_array_extend(a).max
             /\ dyn_array_extend(a).max <= MaxMax
  BY <1>1, <1>2, <1>5 DEF Extends, dyn_array_extend, Array
<1> QED BY <1>3, <1>4, <1>5

\* The parser starts with empty arrays and no open object.
LEMMA ArrayInitial == ArrayInit => ArrayInv
<1> SUFFICES ASSUME ArrayInit PROVE ArrayInv OBVIOUS
<1>1. NewArray \in Array /\ NewArray.count <= NewArray.max /\ NewArray.max <= MaxMax
  BY GranuleAssumption DEF NewArray, Array
<1>2. \A k \in Kinds : arr[k] = NewArray BY DEF ArrayInit
<1>3. ArrayTypeOK BY <1>1 DEF ArrayInit, ArrayTypeOK
<1>4. cur = << >> /\ Len(cur) = 0 BY DEF ArrayInit
<1> QED BY <1>1, <1>2, <1>3, <1>4 DEF ArrayInv, ArrayFits, Nested, CurrentNotMoved

\* An object that starts: it is one level below the innermost, so neither its array nor the ones it
\* owns hold an open object.
LEMMA ArrayStart ==
  ASSUME ArrayInv, NEW k \in Kinds, NewObject(k), Extends(arr[k])
  PROVE  ArrayInv'
<1> DEFINE a == dyn_array_extend(arr[k])
           n == Len(cur)
           o == [kind |-> k, gen |-> a.gen, index |-> a.count]
<1>1. /\ arr' = [j \in Kinds |-> IF j = k THEN a ELSE IF j \in Owns[k] THEN NewArray ELSE arr[j]]
      /\ cur' = Append(cur, o)
  BY DEF NewObject
<1>2. \A j \in Kinds : arr[j] \in Array /\ arr[j].count <= arr[j].max /\ arr[j].max <= MaxMax
  BY DEF ArrayInv, ArrayTypeOK, ArrayFits
<1>3. a \in Array /\ a.count <= a.max /\ a.max <= MaxMax BY <1>2, ArrayGrows
<1>4. NewArray \in Array /\ NewArray.count <= NewArray.max /\ NewArray.max <= MaxMax BY <1>2, ArrayGrows
<1>5. o \in Object BY <1>3 DEF Array, Object
<1>6. n \in Nat /\ \A i \in 1..n : cur[i] \in Object /\ cur[i].kind \in Kinds
  <2>1. cur \in Seq(Object) BY DEF ArrayInv, ArrayTypeOK
  <2>2. n \in Nat /\ \A i \in 1..n : cur[i] \in Object BY <2>1, LenProperties, ElementOfSeq
  <2> QED BY <2>2 DEF Object
<1>7. /\ cur' \in Seq(Object)
      /\ Len(cur') = n + 1 /\ cur'[n + 1] = o /\ \A i \in 1..n : cur'[i] = cur[i]
  BY <1>1, <1>5 DEF ArrayInv, ArrayTypeOK
<1>8. (k \in Roots /\ n = 0) \/ (n > 0 /\ k \in Owns[cur[n].kind])
  <2>1. cur = << >> => n = 0 OBVIOUS
  <2>2. cur # << >> => n > 0
    BY <1>6, EmptySeq DEF ArrayInv, ArrayTypeOK
  <2>3. IF cur = << >> THEN k \in Roots ELSE k \in Owns[cur[n].kind] BY DEF NewObject, MayStart, Innermost
  <2> QED BY <2>1, <2>2, <2>3
<1>9. Depth[k] = n + 1
  <2>1. CASE k \in Roots /\ n = 0 BY <2>1, DepthOfOwned
  <2>2. CASE n > 0 /\ k \in Owns[cur[n].kind]
    <3>1. n \in 1..n /\ cur[n].kind \in Kinds BY <2>2, <1>6
    <3>2. Depth[cur[n].kind] = n BY <3>1 DEF ArrayInv, Nested
    <3> QED BY <2>2, <3>1, <3>2, DepthOfOwned
  <2> QED BY <1>8, <2>1, <2>2
<1>10. ArrayTypeOK' BY <1>1, <1>2, <1>3, <1>4, <1>7 DEF ArrayTypeOK
<1>11. ArrayFits' BY <1>1, <1>2, <1>3, <1>4 DEF ArrayFits
<1>12. Nested'
  <2> SUFFICES ASSUME NEW i \in 1..(n + 1)
               PROVE  /\ Depth[cur'[i].kind] = i
                      /\ cur'[i].kind \in Roots \/ (i > 1 /\ cur'[i].kind \in Owns[cur'[i - 1].kind])
    BY <1>7 DEF Nested
  <2>1. CASE i = n + 1
    <3>1. cur'[i].kind = k BY <2>1, <1>7
    <3>2. CASE k \in Roots BY <3>1, <3>2, <1>9, <2>1
    <3>3. CASE n > 0 /\ k \in Owns[cur[n].kind]
      <4>1. i > 1 /\ i - 1 = n /\ n \in 1..n BY <3>3, <2>1, <1>6
      <4> QED BY <4>1, <3>1, <3>3, <1>7, <1>9, <2>1
    <3> QED BY <1>8, <3>2, <3>3
  <2>2. CASE i \in 1..n
    <3>1. cur'[i] = cur[i] /\ (i > 1 => cur'[i - 1] = cur[i - 1])
      <4>1. i > 1 => i - 1 \in 1..n BY <2>2, <1>6
      <4> QED BY <2>2, <4>1, <1>7
    <3> QED BY <3>1, <2>2 DEF ArrayInv, Nested
  <2> QED BY <2>1, <2>2, <1>6
<1>13. CurrentNotMoved'
  <2> SUFFICES ASSUME NEW i \in 1..(n + 1)
               PROVE  cur'[i].gen = arr'[cur'[i].kind].gen /\ cur'[i].index = arr'[cur'[i].kind].count
    BY <1>7 DEF CurrentNotMoved
  <2>1. CASE i = n + 1 BY <2>1, <1>1, <1>7
  <2>2. CASE i \in 1..n
    <3>1. cur[i].kind \in Kinds /\ Depth[cur[i].kind] = i BY <2>2, <1>6 DEF ArrayInv, Nested
    <3>2. cur[i].kind # k BY <3>1, <1>9, <2>2, <1>6
    <3>3. \A j \in Owns[k] : Depth[j] = n + 2 BY <1>9, <1>6, DepthOfOwned
    <3>4. cur[i].kind \notin Owns[k] BY <3>1, <3>3, <2>2, <1>6
    <3>5. arr'[cur[i].kind] = arr[cur[i].kind] BY <1>1, <3>1, <3>2, <3>4
    <3> QED BY <3>5, <2>2, <1>7 DEF ArrayInv, CurrentNotMoved
  <2> QED BY <2>1, <2>2, <1>6
<1> QED BY <1>10, <1>11, <1>12, <1>13 DEF ArrayInv

\* An object that ends: the arrays that it trims are one level below it, and the array of every
\* object that stays open is kept.
LEMMA ArrayEnd ==
  ASSUME ArrayInv, EndObject
  PROVE  ArrayInv'
<1> DEFINE n == Len(cur)
           m == n - 1
<1>1. cur \in Seq(Object) /\ cur # << >> /\ cur' = SubSeq(cur, 1, m)
  BY DEF ArrayInv, ArrayTypeOK, EndObject
<1>2. n \in Nat /\ n > 0 BY <1>1, EmptySeq
<1>3. \A i \in 1..n : cur[i] \in Object /\ cur[i].kind \in Kinds
  <2>1. \A i \in 1..n : cur[i] \in Object BY <1>1, ElementOfSeq
  <2> QED BY <2>1 DEF Object
<1>4. cur' \in Seq(Object) /\ Len(cur') = m /\ \A i \in 1..m : cur'[i] = cur[i]
  <2>1. m \in Nat /\ (m - 1) + 1 = m BY <1>2
  <2>2. \A i \in 1..m : cur[i] \in Object
    <3>1. \A i \in 1..m : i \in 1..n BY <1>2
    <3> QED BY <1>3, <3>1
  <2>3. /\ SubSeq(cur, 1, m) \in Seq(Object)
        /\ Len(SubSeq(cur, 1, m)) = IF 1 <= m THEN (m - 1) + 1 ELSE 0
        /\ \A i \in 1..((m - 1) + 1) : SubSeq(cur, 1, m)[i] = cur[1 + (i - 1)]
    BY <2>1, <2>2, SubSeqProperties
  <2> HIDE DEF m
  <2>4. Len(SubSeq(cur, 1, m)) = m BY <2>1, <2>3
  <2>5. \A i \in 1..m : SubSeq(cur, 1, m)[i] = cur[i] BY <2>1, <2>3
  <2> QED BY <1>1, <2>3, <2>4, <2>5
<1>5. PICK moved \in BOOLEAN :
        arr' = [j \in Kinds |-> IF j \in Trims(Innermost) /\ moved THEN dyn_array_fix(arr[j])
                                ELSE IF Open(j) THEN arr[j] ELSE NewArray]
  BY DEF EndObject
<1>6. \A j \in Kinds : arr[j] \in Array /\ arr[j].count <= arr[j].max /\ arr[j].max <= MaxMax
  BY DEF ArrayInv, ArrayTypeOK, ArrayFits
<1>7. \A j \in Kinds : /\ dyn_array_fix(arr[j]) \in Array
                       /\ dyn_array_fix(arr[j]).count <= dyn_array_fix(arr[j]).max
                       /\ dyn_array_fix(arr[j]).max <= MaxMax
  BY <1>6, ArrayGrows
<1>8. NewArray \in Array /\ NewArray.count <= NewArray.max /\ NewArray.max <= MaxMax
  BY GranuleAssumption DEF NewArray, Array
<1>9. ArrayTypeOK' BY <1>4, <1>5, <1>6, <1>7, <1>8 DEF ArrayTypeOK
<1>10. ArrayFits' BY <1>5, <1>6, <1>7, <1>8 DEF ArrayFits
<1>11. Nested'
  <2> SUFFICES ASSUME NEW i \in 1..m
               PROVE  /\ Depth[cur'[i].kind] = i
                      /\ cur'[i].kind \in Roots \/ (i > 1 /\ cur'[i].kind \in Owns[cur'[i - 1].kind])
    BY <1>4 DEF Nested
  <2>1. i \in 1..n /\ (i > 1 => i - 1 \in 1..m) BY <1>2
  <2>2. cur'[i] = cur[i] /\ (i > 1 => cur'[i - 1] = cur[i - 1]) BY <2>1, <1>4
  <2> QED BY <2>1, <2>2 DEF ArrayInv, Nested
<1>12. \A j \in Trims(Innermost) : Depth[j] = n + 1
  <2>1. n \in 1..n BY <1>2
  <2>2. cur[n].kind \in Kinds /\ Depth[cur[n].kind] = n BY <2>1, <1>3 DEF ArrayInv, Nested
  <2> QED BY <2>2, DepthOfOwned DEF Trims, Innermost
<1>13. CurrentNotMoved'
  <2> SUFFICES ASSUME NEW i \in 1..m
               PROVE  cur'[i].gen = arr'[cur'[i].kind].gen /\ cur'[i].index = arr'[cur'[i].kind].count
    BY <1>4 DEF CurrentNotMoved
  <2>1. i \in 1..n /\ i # n + 1 /\ (i > 1 => i - 1 \in 1..n) BY <1>2
  <2>2. cur'[i] = cur[i] BY <1>4
  <2>3. cur[i].kind \in Kinds /\ Depth[cur[i].kind] = i BY <2>1, <1>3 DEF ArrayInv, Nested
  <2>4. cur[i].kind \notin Trims(Innermost) BY <2>1, <2>3, <1>12
  <2>5. Open(cur[i].kind)
    <3>1. cur[i].kind \in Roots \/ (i > 1 /\ cur[i].kind \in Owns[cur[i - 1].kind])
      BY <2>1 DEF ArrayInv, Nested
    <3> QED BY <3>1, <2>1 DEF Open
  <2>6. arr'[cur[i].kind] = arr[cur[i].kind] BY <1>5, <2>3, <2>4, <2>5
  <2> QED BY <2>1, <2>2, <2>6 DEF ArrayInv, CurrentNotMoved
<1> QED BY <1>9, <1>10, <1>11, <1>13 DEF ArrayInv

\* Every step of the parser keeps the invariant.
LEMMA ArrayStep == ArrayInv /\ [ArrayNext]_arrayVars => ArrayInv'
<1> SUFFICES ASSUME ArrayInv, [ArrayNext]_arrayVars PROVE ArrayInv' OBVIOUS
<1>1. ASSUME UNCHANGED <<arr, cur>> PROVE ArrayInv'
  BY <1>1 DEF ArrayInv, ArrayTypeOK, ArrayFits, Nested, CurrentNotMoved
<1>2. ASSUME NEW k \in Kinds, NewObject(k) PROVE ArrayInv'
  <2>1. CASE Extends(arr[k]) BY <1>2, <2>1, ArrayStart
  <2>2. CASE ~Extends(arr[k]) BY <1>1, <1>2, <2>2 DEF NewObject
  <2> QED BY <2>1, <2>2
<1>3. CASE EndObject BY <1>3, ArrayEnd
<1>4. CASE OutOfMemory BY <1>1, <1>4 DEF OutOfMemory
<1>5. CASE FreeAll
  <2>1. NewArray \in Array /\ NewArray.count <= NewArray.max /\ NewArray.max <= MaxMax
    BY GranuleAssumption DEF NewArray, Array
  <2>2. arr' = [k \in Kinds |-> NewArray] /\ cur' = << >> /\ Len(cur') = 0 BY <1>5 DEF FreeAll
  <2>3. ArrayTypeOK' BY <2>1, <2>2 DEF ArrayTypeOK
  <2>4. \A k \in Kinds : arr'[k] = NewArray BY <2>2
  <2> QED BY <2>1, <2>2, <2>3, <2>4 DEF ArrayInv, ArrayFits, Nested, CurrentNotMoved
<1>6. CASE UNCHANGED arrayVars BY <1>1, <1>6 DEF arrayVars
<1> QED BY <1>2, <1>3, <1>4, <1>5, <1>6 DEF ArrayNext

\* An array never holds more than was allocated and max_count never passes what its 16 bits hold,
\* because dyn_array_extend refuses before it adds the granule; and the pointers in state->current
\* survive every move of an array, however the file is nested, because the arrays that
\* dyn_array_extend and dyn_array_fix move hold no open object.
THEOREM ArraysSoundThm == ArraySpec => []ArraysSound
<1>1. ArrayInv => ArraysSound BY DEF ArrayInv, ArraysSound
<1> QED BY <1>1, ArrayInitial, ArrayStep, PTL DEF ArraySpec

(*****************************************************************************)
(* The compressed output: playback calls, the async thread and its requests. *)
(*****************************************************************************)
\* The strengthening: a write that goes on has its device, and only a stream with a callback
\* has an async thread.
CompressInv ==
  /\ CompressSound
  /\ pc \in {"full", "part"} => compress
  /\ ~use_async /\ pc \notin {"created", "crashed"} => apc = "none"

\* A stream begins with its device open, no request and no thread.
LEMMA CompressInitial == CompressInit => CompressInv
<1> SUFFICES ASSUME CompressInit PROVE CompressInv OBVIOUS
<1>0. 0 \in 0 .. MaxRequests BY CompressAssumption
<1>1. CompressTypeOK BY <1>0, Zenon DEF CompressInit, CompressTypeOK, Modes
<1>2. RequestsServedOnce BY DEF CompressInit, RequestsServedOnce, Busy
<1> QED BY <1>1, <1>2 DEF CompressInit, CompressInv, CompressSound, RunningMeansOpen, FreedAfterThread

\* What signal_async_thread does to the count of requests: it accepts one when none is pending,
\* or changes nothing.
LEMMA SignalCounts ==
  ASSUME CompressInv, NEW m \in Modes \ {"NONE"}, signal_async_thread(m), called' = called, work' = work
  PROVE  /\ mode' \in Modes /\ accepted' \in 0 .. MaxRequests
         /\ apc' = apc \/ (apc = "wait" /\ apc' = "woken")
         /\ RequestsServedOnce'
BY CompressAssumption DEF CompressInv, CompressSound, CompressTypeOK, RequestsServedOnce, Busy, Modes, signal_async_thread

\* Every step of the playback thread keeps the invariant.
LEMMA PlaybackStep == CompressInv /\ Playback => CompressInv'
<1> SUFFICES ASSUME CompressInv, Playback PROVE CompressInv' OBVIOUS
<1> USE DEF CompressInv, CompressSound, CompressTypeOK, RunningMeansOpen, FreedAfterThread,
            handle, async, thread
<1>1. CASE out_compress_standby BY <1>1 DEF out_compress_standby, do_standby_compress_l, RequestsServedOnce
<1>2. CASE out_set_callback BY <1>2 DEF out_set_callback, RequestsServedOnce, Busy
<1>3. CASE CallbackSet BY <1>3 DEF CallbackSet, RequestsServedOnce
<1>4. CASE out_compress_write BY <1>4 DEF out_compress_write, RequestsServedOnce
<1>5. CASE WriteStart
  <2>1. compress' \in BOOLEAN /\ started' \in BOOLEAN /\ pc' \in {"idle", "signal"}
    BY <1>5 DEF WriteStart, do_standby_compress_l
  <2>2. RunningMeansOpen' BY <1>5 DEF WriteStart, do_standby_compress_l
  <2> QED BY <1>5, <2>1, <2>2 DEF WriteStart, RequestsServedOnce
<1>6. CASE WriteSignal
  <2>1. signal_async_thread("POLL") /\ called' = called /\ work' = work BY <1>6 DEF WriteSignal
  <2>2. /\ mode' \in Modes /\ accepted' \in 0 .. MaxRequests
        /\ apc' = apc \/ (apc = "wait" /\ apc' = "woken")
        /\ RequestsServedOnce'
    BY <2>1, SignalCounts DEF Modes
  <2> QED BY <1>6, <2>2 DEF WriteSignal
<1>7. CASE out_compress_pause BY <1>7 DEF out_compress_pause, RequestsServedOnce
<1>8. CASE out_compress_resume BY <1>8 DEF out_compress_resume, RequestsServedOnce
<1>9. CASE \E m \in Drains : out_compress_drain(m)
  <2>1. PICK m \in Drains : out_compress_drain(m) BY <1>9
  <2>2. CASE use_async
    <3>1. signal_async_thread(m) /\ called' = called /\ work' = work BY <2>1, <2>2 DEF out_compress_drain
    <3>2. /\ mode' \in Modes /\ accepted' \in 0 .. MaxRequests
          /\ apc' = apc \/ (apc = "wait" /\ apc' = "woken")
          /\ RequestsServedOnce'
      BY <3>1, SignalCounts DEF Modes, Drains
    <3> QED BY <2>1, <2>2, <3>2 DEF out_compress_drain
  <2>3. CASE ~use_async BY <2>1, <2>3 DEF out_compress_drain, RequestsServedOnce
  <2> QED BY <2>2, <2>3
<1>10. CASE out_compress_flush BY <1>10 DEF out_compress_flush, RequestsServedOnce
<1>11. CASE out_compress_close BY <1>11 DEF out_compress_close, RequestsServedOnce
<1>12. CASE CloseSignal BY <1>12 DEF CloseSignal, RequestsServedOnce, Busy
<1>13. CASE CloseJoin BY <1>13 DEF CloseJoin, RequestsServedOnce
<1> QED BY <1>1, <1>2, <1>3, <1>4, <1>5, <1>6, <1>7, <1>8, <1>9, <1>10, <1>11, <1>12, <1>13 DEF Playback

\* Every step of the async thread keeps the invariant: it takes a request and later calls back,
\* once each.
LEMMA AsyncStep == CompressInv /\ (Async \/ SpuriousWakeup) => CompressInv'
<1> SUFFICES ASSUME CompressInv, Async \/ SpuriousWakeup PROVE CompressInv' OBVIOUS
<1> USE DEF CompressInv, CompressSound, CompressTypeOK, RunningMeansOpen, FreedAfterThread,
            handle, async, thread, RequestsServedOnce, Busy
<1>1. CASE AsyncStart BY <1>1 DEF AsyncStart
<1>2. CASE AsyncTest BY <1>2 DEF AsyncTest
<1>3. CASE AsyncWait BY <1>3 DEF AsyncWait
<1>4. CASE AsyncTake BY <1>4 DEF AsyncTake, Modes
<1>5. CASE AsyncWork BY <1>5 DEF AsyncWork
<1>6. CASE AsyncDone BY <1>6 DEF AsyncDone
<1>7. CASE AsyncCrash BY <1>7 DEF AsyncCrash
<1>8. CASE AsyncCallback BY <1>8, CompressAssumption DEF AsyncCallback, Modes
<1>9. CASE SpuriousWakeup BY <1>9 DEF SpuriousWakeup
<1> QED BY <1>1, <1>2, <1>3, <1>4, <1>5, <1>6, <1>7, <1>8, <1>9 DEF Async

\* However requests, callbacks, standby and close interleave: every accepted request is served
\* once, a running stream has its device, and the stream is freed after its thread.
THEOREM CompressSoundThm == CompressSpec => []CompressSound
<1>1. CompressInv /\ [CompressNext]_compressVars => CompressInv'
  <2> SUFFICES ASSUME CompressInv, [CompressNext]_compressVars PROVE CompressInv' OBVIOUS
  <2>1. CASE UNCHANGED compressVars
    BY <2>1 DEF compressVars, handle, async, thread, CompressInv, CompressSound, CompressTypeOK,
                RunningMeansOpen, FreedAfterThread, RequestsServedOnce, Busy
  <2> QED BY <2>1, PlaybackStep, AsyncStep DEF CompressNext, Terminated
<1> QED BY <1>1, CompressInitial, PTL DEF CompressSpec, CompressInv

(*****************************************************************************)
(* The two properties of the fault guard, for any set of binder threads.     *)
(* Neither is inductive: that a guarded fault is survived rests on the       *)
(* flag being set for exactly the threads in a guarded call, on the          *)
(* handler staying installed while one is, and on each buffer leading to     *)
(* its own thread.                                                           *)
(*****************************************************************************)
GuardTypeOK ==
  /\ gpc \in [Binders -> {"outside", "set", "guarded"}]
  /\ armed \in [Binders -> BOOLEAN]
  /\ jmpbuf \in [Binders -> Binders]
  /\ handler \in {"default", "guard"}

\* The strengthening: flag, buffer and handler of every thread.
GuardInv ==
  /\ GuardTypeOK
  /\ \A b \in Binders : jmpbuf[b] = b
  /\ \A b \in Binders : armed[b] = (gpc[b] = "guarded")
  /\ \A b \in Binders : (died = "" /\ gpc[b] # "outside") => handler = "guard"
  /\ died # "guarded"

\* A new process: no thread is guarded and no flag is set.
LEMMA GuardInitial == GuardInit => GuardInv
<1> SUFFICES ASSUME GuardInit PROVE GuardInv OBVIOUS
<1>1. GuardTypeOK BY DEF GuardInit, GuardTypeOK
<1>2. \A b \in Binders : jmpbuf[b] = b /\ gpc[b] = "outside" /\ armed[b] = FALSE BY DEF GuardInit
<1>3. \A b \in Binders : armed[b] = (gpc[b] = "guarded") BY <1>2
<1> QED BY <1>1, <1>2, <1>3 DEF GuardInit, GuardInv

\* Entering, arming and leaving run_guarded keep flag and position in step.
LEMMA GuardCallSteps ==
  ASSUME GuardInv, NEW b \in Binders, RunGuarded(b) \/ Arm(b) \/ Completes(b)
  PROVE  GuardInv'
<1>1. CASE RunGuarded(b)
  <2>1. GuardTypeOK' BY <1>1 DEF RunGuarded, GuardInv, GuardTypeOK, Slot
  <2>2. \A c \in Binders : jmpbuf'[c] = c BY <1>1 DEF RunGuarded, GuardInv, GuardTypeOK, Slot
  <2>3. \A c \in Binders : armed'[c] = (gpc'[c] = "guarded")
    BY <1>1 DEF RunGuarded, GuardInv, GuardTypeOK
  <2> QED BY <1>1, <2>1, <2>2, <2>3 DEF RunGuarded, GuardInv
<1>2. CASE Arm(b)
  <2>1. GuardTypeOK' BY <1>2 DEF Arm, GuardInv, GuardTypeOK, Slot
  <2>2. \A c \in Binders : armed'[c] = (gpc'[c] = "guarded")
    BY <1>2 DEF Arm, GuardInv, GuardTypeOK, Slot
  <2>3. \A c \in Binders : (died' = "" /\ gpc'[c] # "outside") => handler' = "guard"
    BY <1>2 DEF Arm, GuardInv, GuardTypeOK
  <2> QED BY <1>2, <2>1, <2>2, <2>3 DEF Arm, GuardInv
<1>3. CASE Completes(b)
  <2>1. GuardTypeOK' BY <1>3 DEF Completes, GuardInv, GuardTypeOK, Slot
  <2>2. \A c \in Binders : armed'[c] = (gpc'[c] = "guarded")
    BY <1>3 DEF Completes, GuardInv, GuardTypeOK, Slot
  <2>3. \A c \in Binders : (died' = "" /\ gpc'[c] # "outside") => handler' = "guard"
    BY <1>3 DEF Completes, GuardInv, GuardTypeOK
  <2> QED BY <1>3, <2>1, <2>2, <2>3 DEF Completes, GuardInv
<1> QED BY <1>1, <1>2, <1>3

\* The handler jumps back into the faulting thread's own call, or the process dies of a fault
\* outside of one.
LEMMA GuardFaultStep ==
  ASSUME GuardInv, NEW b \in Binders, SegFault(b)
  PROVE  GuardInv'
<1>1. jmpbuf[b] = b /\ jmpbuf' = jmpbuf BY DEF SegFault, GuardInv
<1>2. CASE handler = "guard" /\ armed[b]
  <2>1. /\ armed' = [armed EXCEPT ![b] = FALSE]
        /\ gpc' = [gpc EXCEPT ![b] = "outside"]
        /\ UNCHANGED <<handler, died>>
    BY <1>1, <1>2 DEF SegFault, Slot, AfterFault
  <2>2. GuardTypeOK' BY <1>1, <2>1 DEF GuardInv, GuardTypeOK
  <2>3. \A c \in Binders : armed'[c] = (gpc'[c] = "guarded") BY <2>1 DEF GuardInv, GuardTypeOK
  <2>4. \A c \in Binders : (died' = "" /\ gpc'[c] # "outside") => handler' = "guard"
    BY <2>1 DEF GuardInv, GuardTypeOK
  <2> QED BY <1>1, <2>1, <2>2, <2>3, <2>4 DEF GuardInv
<1>3. CASE ~(handler = "guard" /\ armed[b])
  <2>1. died' = gpc[b] /\ handler' = "default" /\ UNCHANGED <<gpc, armed>> /\ died = "" /\ gpc[b] # "set"
    BY <1>3 DEF SegFault, Slot
  <2>2. gpc[b] # "guarded" BY <1>3, <2>1 DEF GuardInv
  <2>3. died' = "outside" BY <2>1, <2>2 DEF GuardInv, GuardTypeOK
  <2> QED BY <1>1, <2>1, <2>3 DEF GuardInv, GuardTypeOK
<1> QED BY <1>2, <1>3

\* Every step of the guard keeps the strengthening.
LEMMA GuardStep == GuardInv /\ [GuardNext]_guardVars => GuardInv'
<1> SUFFICES ASSUME GuardInv, [GuardNext]_guardVars PROVE GuardInv' OBVIOUS
<1>1. CASE ProviderRestart BY <1>1 DEF ProviderRestart, GuardInv, GuardTypeOK
<1>2. CASE \E b \in Binders : RunGuarded(b) \/ Arm(b) \/ Completes(b) \/ SegFault(b)
  BY <1>2, GuardCallSteps, GuardFaultStep
<1>3. CASE UNCHANGED guardVars BY <1>3 DEF guardVars, GuardInv, GuardTypeOK
<1> QED BY <1>1, <1>2, <1>3 DEF GuardNext

\* run_guarded with its handler, for any number of binder threads that enter, leave and fault in any
\* order: a fault in a guarded call never ends the process, and the flag of a thread is set only in
\* its guarded call, so that every other fault still does.
THEOREM GuardSoundThm == GuardSpec => []GuardSound
<1>1. GuardInv => GuardedFaultSurvived BY DEF GuardInv, GuardedFaultSurvived
<1>2. GuardInv => ArmedOnlyInside BY DEF GuardInv, ArmedOnlyInside, Slot
<1>3. GuardInv => GuardSound BY <1>1, <1>2 DEF GuardSound
<1> QED BY <1>3, GuardInitial, GuardStep, PTL DEF GuardSpec

(*****************************************************************************)
(* The condition variable.  A waiter that loaded the word before a           *)
(* broadcast must find another value at the futex: the word is ahead of      *)
(* what it loaded by as many steps as were pulsed, which is fewer than the   *)
(* counter has values.                                                       *)
(*****************************************************************************)
CondTypeOK ==
  /\ flags \in 0 .. FLAGS - 1 /\ word \in 0 .. FLAGS * Counters - 1
  /\ wpc \in [Waiters -> {"run", "loaded", "futex", "asleep", "awake"}]
  /\ old \in [Waiters -> 0 .. FLAGS * Counters - 1]
  /\ result \in [Waiters -> {"none", "OK", "ETIMEDOUT"}]
  /\ pulsed \subseteq Waiters /\ pulse \in {"none", "one", "all"}
  /\ pulses \in 0 .. MaxPulses

\* Above the flags the word holds a number.
WordInv == \E n \in 0 .. Counters - 1 : word = STEP * n + flags

\* What came to the word since a thread loaded it: at most as many steps as were pulsed, and at
\* least one if a broadcast came for the thread.
Apart(t, k) == word \in {old[t] + STEP * k, old[t] + STEP * k - FLAGS * Counters}
LoadInv == \A t \in InFlight : \E k \in 0 .. pulses : Apart(t, k) /\ (t \in pulsed => k # 0)

\* A thread that sleeps after a broadcast came for it is about to be woken.
SleepInv == \A t \in pulsed : wpc[t] = "asleep" => pulse = "all"

\* The mutex is held until after the load.
MutexInv == \A t \in Waiters : wpc[t] = "loaded" => owner = t

CondInv == CondTypeOK /\ WordInv /\ LoadInv /\ SleepInv /\ MutexInv /\ ReturnsWithMutex

\* The counter's step, without the remainder.
LEMMA CountedIs ==
  ASSUME NEW w \in 0 .. FLAGS * Counters - 1
  PROVE  Counted(w) = IF w + STEP < FLAGS * Counters THEN w + STEP ELSE w + STEP - FLAGS * Counters
BY CountersAssumption DEF Counted, STEP, FLAGS

\* A condition variable that was just made: nobody waits.
LEMMA CondInitial == CondInit => CondInv
<1> SUFFICES ASSUME CondInit PROVE CondInv OBVIOUS
<1>1. CondTypeOK BY CountersAssumption DEF CondInit, CondTypeOK, FLAGS
<1>2. WordInv
  <2>1. 0 \in 0 .. Counters - 1 /\ word = STEP * 0 + flags BY <1>1, CountersAssumption DEF CondInit, CondTypeOK, STEP, FLAGS
  <2> QED BY <2>1 DEF WordInv
<1> QED BY <1>1, <1>2 DEF CondInit, CondInv, LoadInv, InFlight, SleepInv, MutexInv, ReturnsWithMutex

\* A thread for which a broadcast came does not find the value that it loaded: the counter has
\* moved, and has not gone round.
LEMMA BroadcastSeen ==
  ASSUME CondInv, NEW t \in InFlight, t \in pulsed
  PROVE  word # old[t]
<1>1. PICK k \in 0 .. pulses : Apart(t, k) /\ k # 0 BY DEF CondInv, LoadInv
<1>2. k \in Int /\ k >= 1 /\ k < Counters /\ t \in Waiters BY <1>1, CountersAssumption DEF CondInv, CondTypeOK, InFlight
<1> QED BY <1>1, <1>2, CountersAssumption DEF Apart, CondInv, CondTypeOK, STEP, FLAGS

\* Counting keeps the flags and moves the word by one for every thread in flight.
LEMMA CountStep ==
  ASSUME CondInv, NEW n \in {"one", "all"}, CountUp(n)
  PROVE  CondInv'
<1> USE DEF CondInv
<1>1. word' = Counted(word) /\ word \in 0 .. FLAGS * Counters - 1 /\ flags' = flags /\ wpc' = wpc /\ old' = old
      /\ InFlight' = InFlight
  BY DEF CountUp, CondTypeOK, InFlight
<1>2. word' = IF word + STEP < FLAGS * Counters THEN word + STEP ELSE word + STEP - FLAGS * Counters
  BY <1>1, CountedIs
<1>3. CondTypeOK'
  <2>1. word' \in 0 .. FLAGS * Counters - 1 BY <1>1, <1>2, CountersAssumption DEF STEP, FLAGS
  <2>2. pulses' \in 0 .. MaxPulses BY CountersAssumption DEF CountUp, CondTypeOK
  <2>3. pulsed' \subseteq Waiters BY DEF CountUp, CondTypeOK, Waiting
  <2> QED BY <2>1, <2>2, <2>3 DEF CountUp, CondTypeOK
<1>4. WordInv'
  <2>1. PICK m \in 0 .. Counters - 1 : word = STEP * m + flags BY DEF WordInv
  <2>2. CASE m + 1 < Counters
    <3>1. m + 1 \in 0 .. Counters - 1 /\ word' = STEP * (m + 1) + flags'
      BY <1>1, <1>2, <2>1, <2>2, CountersAssumption DEF CondTypeOK, STEP, FLAGS
    <3> QED BY <3>1 DEF WordInv
  <2>3. CASE ~(m + 1 < Counters)
    <3>1. 0 \in 0 .. Counters - 1 /\ word' = STEP * 0 + flags'
      BY <1>1, <1>2, <2>1, <2>3, CountersAssumption DEF CondTypeOK, STEP, FLAGS
    <3> QED BY <3>1 DEF WordInv
  <2> QED BY <2>2, <2>3
<1>5. LoadInv'
  <2> SUFFICES ASSUME NEW t \in InFlight PROVE \E k \in 0 .. pulses' : Apart(t, k)' /\ (t \in pulsed' => k # 0)
    BY <1>1 DEF LoadInv
  <2>1. PICK k \in 0 .. pulses : Apart(t, k) BY DEF LoadInv
  <2>2. pulses' = pulses + 1 /\ pulses \in Nat /\ pulses < MaxPulses /\ old[t] \in 0 .. FLAGS * Counters - 1
    BY CountersAssumption DEF CountUp, CondTypeOK, InFlight
  <2>3. k + 1 \in 0 .. pulses' /\ k + 1 # 0 BY <2>1, <2>2
  <2>4. word' \in {old[t] + STEP * (k + 1), old[t] + STEP * (k + 1) - FLAGS * Counters}
    BY <1>1, <1>2, <2>1, <2>2, CountersAssumption DEF Apart, STEP, FLAGS
  <2> QED BY <1>1, <2>3, <2>4 DEF Apart
<1>6. SleepInv' BY <1>1 DEF CountUp, SleepInv
<1> QED BY <1>3, <1>4, <1>5, <1>6 DEF CountUp, MutexInv, ReturnsWithMutex

\* Waking: after a broadcast all sleepers are awake.
LEMMA WakeStep == CondInv /\ futex_wake => CondInv'
<1> SUFFICES ASSUME CondInv, futex_wake PROVE CondInv' OBVIOUS
<1> USE DEF CondInv
<1>1. PICK woken \in SUBSET {t \in Waiters : wpc[t] = "asleep"} :
        /\ pulse = "all" => woken = {t \in Waiters : wpc[t] = "asleep"}
        /\ wpc' = [t \in Waiters |-> IF t \in woken THEN "awake" ELSE wpc[t]]
  BY DEF futex_wake
<1>2. CondTypeOK' BY <1>1 DEF futex_wake, CondTypeOK
<1>3. InFlight' = InFlight BY <1>1 DEF InFlight, CondTypeOK
<1>4. LoadInv' BY <1>3 DEF futex_wake, LoadInv, Apart
<1>5. SleepInv'
  <2> SUFFICES ASSUME NEW t \in pulsed, wpc'[t] = "asleep" PROVE FALSE BY DEF futex_wake, SleepInv
  <2>1. t \in Waiters /\ t \notin woken /\ wpc[t] = "asleep" BY <1>1 DEF CondTypeOK
  <2> QED BY <1>1, <2>1 DEF SleepInv
<1>6. MutexInv' /\ ReturnsWithMutex' BY <1>1 DEF futex_wake, MutexInv, ReturnsWithMutex, CondTypeOK
<1> QED BY <1>2, <1>4, <1>5, <1>6 DEF futex_wake, WordInv

\* The steps of a waiting thread, and of one that only uses the mutex.
LEMMA WaiterStep ==
  ASSUME CondInv, NEW t \in Waiters,
         \/ Lock(t) \/ timedwait_late(t) \/ LoadState(t) \/ UnlockMutex(t) \/ futex_wait(t)
         \/ WakeUp(t) \/ LockMutex(t) \/ UnlockAfter(t)
  PROVE  CondInv'
<1> USE DEF CondInv
<1>0. t # "nobody" BY CountersAssumption
<1>1. CASE Lock(t)
  <2>1. CondTypeOK' BY <1>1 DEF Lock, CondTypeOK
  <2>2. LoadInv' BY <1>1 DEF Lock, LoadInv, InFlight, Apart
  <2> QED BY <1>0, <1>1, <2>1, <2>2, CountersAssumption DEF Lock, WordInv, SleepInv, MutexInv, ReturnsWithMutex
<1>2. CASE timedwait_late(t)
  <2>1. CondTypeOK' BY <1>2 DEF timedwait_late, CondTypeOK
  <2>2. LoadInv' BY <1>2 DEF timedwait_late, LoadInv, InFlight, Apart
  <2> QED BY <1>2, <2>1, <2>2 DEF timedwait_late, LateOwner, WordInv, SleepInv, MutexInv, ReturnsWithMutex, CondTypeOK
<1>3. CASE LoadState(t)
  <2>1. CondTypeOK' BY <1>3 DEF LoadState, CondTypeOK
  <2>2. LoadInv'
    <3> SUFFICES ASSUME NEW u \in InFlight' PROVE \E k \in 0 .. pulses' : Apart(u, k)' /\ (u \in pulsed' => k # 0)
      BY DEF LoadInv
    <3>1. CASE u = t
      <4>1. 0 \in 0 .. pulses' /\ word' = old'[u] + STEP * 0 /\ u \notin pulsed'
        BY <1>3, <3>1, CountersAssumption DEF LoadState, CondTypeOK, STEP, FLAGS
      <4> QED BY <4>1 DEF Apart
    <3>2. CASE u # t
      <4>1. u \in InFlight /\ old'[u] = old[u] /\ word' = word /\ pulses' = pulses /\ (u \in pulsed' => u \in pulsed)
        BY <1>3, <3>2 DEF LoadState, CondTypeOK, InFlight
      <4> QED BY <4>1 DEF LoadInv, Apart
    <3> QED BY <3>1, <3>2
  <2>3. SleepInv' BY <1>3 DEF LoadState, SleepInv, CondTypeOK
  <2>4. MutexInv' /\ ReturnsWithMutex' BY <1>3 DEF LoadState, MutexInv, ReturnsWithMutex, CondTypeOK
  <2> QED BY <1>3, <2>1, <2>2, <2>3, <2>4 DEF LoadState, WordInv
<1>4. CASE UnlockMutex(t)
  <2>1. CondTypeOK' BY <1>4 DEF UnlockMutex, CondTypeOK
  <2>2. InFlight' = InFlight BY <1>4 DEF UnlockMutex, CondTypeOK, InFlight
  <2>3. LoadInv' BY <1>4, <2>2 DEF UnlockMutex, LoadInv, Apart
  <2>4. SleepInv' BY <1>4 DEF UnlockMutex, SleepInv, CondTypeOK
  <2>5. MutexInv' /\ ReturnsWithMutex' BY <1>4 DEF UnlockMutex, MutexInv, ReturnsWithMutex, CondTypeOK
  <2> QED BY <1>4, <2>1, <2>3, <2>4, <2>5 DEF UnlockMutex, WordInv
<1>5. CASE futex_wait(t)
  <2>1. CondTypeOK' BY <1>5, CountersAssumption DEF futex_wait, CondTypeOK
  <2>2. LoadInv'
    <3> SUFFICES ASSUME NEW u \in InFlight' PROVE \E k \in 0 .. pulses' : Apart(u, k)' /\ (u \in pulsed' => k # 0)
      BY DEF LoadInv
    <3>1. u # t /\ u \in InFlight BY <1>5 DEF futex_wait, CondTypeOK, InFlight
    <3>2. old' = old /\ word' = word /\ pulses' = pulses /\ pulsed' = pulsed BY <1>5, <3>1 DEF futex_wait
    <3> QED BY <3>1, <3>2 DEF LoadInv, Apart
  <2>3. SleepInv'
    <3> SUFFICES ASSUME NEW u \in pulsed, wpc'[u] = "asleep" PROVE pulse = "all" BY <1>5 DEF futex_wait, SleepInv
    <3>1. CASE u = t
      <4>1. word = old[t] /\ t \in InFlight BY <1>5, <3>1 DEF futex_wait, CondTypeOK, InFlight
      <4> QED BY <3>1, <4>1, BroadcastSeen
    <3>2. CASE u # t BY <1>5, <3>2 DEF futex_wait, SleepInv, CondTypeOK
    <3> QED BY <3>1, <3>2
  <2>4. MutexInv' /\ ReturnsWithMutex' BY <1>5 DEF futex_wait, MutexInv, ReturnsWithMutex, CondTypeOK
  <2> QED BY <1>5, <2>1, <2>2, <2>3, <2>4 DEF futex_wait, WordInv
<1>6. CASE WakeUp(t)
  <2>1. CondTypeOK' BY <1>6 DEF WakeUp, CondTypeOK
  <2>2. InFlight' = InFlight BY <1>6 DEF WakeUp, CondTypeOK, InFlight
  <2>3. LoadInv' BY <1>6, <2>2 DEF WakeUp, LoadInv, Apart
  <2>4. SleepInv' BY <1>6 DEF WakeUp, SleepInv, CondTypeOK
  <2>5. MutexInv' /\ ReturnsWithMutex' BY <1>6 DEF WakeUp, MutexInv, ReturnsWithMutex, CondTypeOK
  <2> QED BY <1>6, <2>1, <2>3, <2>4, <2>5 DEF WakeUp, WordInv
<1>7. CASE LockMutex(t)
  <2>1. CondTypeOK'
    <3>1. 0 \in 0 .. FLAGS * Counters - 1 BY CountersAssumption DEF FLAGS
    <3> QED BY <1>7, <3>1 DEF LockMutex, CondTypeOK
  <2>2. \A u \in InFlight' : u \in InFlight /\ u # t BY <1>7 DEF LockMutex, CondTypeOK, InFlight
  <2>3. \A u \in InFlight' : old'[u] = old[u] /\ (u \in pulsed' => u \in pulsed) BY <1>7, <2>2 DEF LockMutex, CondTypeOK, InFlight
  <2>4. LoadInv' BY <1>7, <2>2, <2>3 DEF LockMutex, LoadInv, Apart
  <2>5. SleepInv' BY <1>7 DEF LockMutex, SleepInv, CondTypeOK
  <2>6. MutexInv' /\ ReturnsWithMutex' BY <1>0, <1>7, CountersAssumption DEF LockMutex, MutexInv, ReturnsWithMutex, CondTypeOK
  <2> QED BY <1>7, <2>1, <2>4, <2>5, <2>6 DEF LockMutex, WordInv
<1>8. CASE UnlockAfter(t)
  <2>1. CondTypeOK' BY <1>8 DEF UnlockAfter, CondTypeOK
  <2>2. LoadInv' BY <1>8 DEF UnlockAfter, LoadInv, InFlight, Apart
  <2> QED BY <1>8, <2>1, <2>2 DEF UnlockAfter, WordInv, SleepInv, MutexInv, ReturnsWithMutex, CondTypeOK
<1> QED BY <1>1, <1>2, <1>3, <1>4, <1>5, <1>6, <1>7, <1>8

\* For any number of threads and any counter that does not go round between a load and its
\* futex call, no broadcast is lost, no flag changes and every wait returns with the mutex.
THEOREM WaitsSoundThm == CondSpec => []WaitsSound
<1>1. CondInv /\ [CondNext]_condVars => CondInv'
  <2> SUFFICES ASSUME CondInv, [CondNext]_condVars PROVE CondInv' OBVIOUS
  <2>1. CASE UNCHANGED condVars
    BY <2>1 DEF condVars, CondInv, CondTypeOK, WordInv, LoadInv, InFlight, Apart, SleepInv, MutexInv, ReturnsWithMutex
  <2> QED BY <2>1, CountStep, WakeStep, WaiterStep DEF CondNext, pthread_cond_broadcast, pthread_cond_signal
<1>2. CondInv => WaitsSound
  <2> SUFFICES ASSUME CondInv PROVE WaitsSound OBVIOUS
  <2>1. PICK n \in 0 .. Counters - 1 : word = STEP * n + flags BY DEF CondInv, WordInv
  <2>2. FlagsKept BY <2>1, CountersAssumption DEF FlagsKept, CondInv, CondTypeOK, STEP, FLAGS
  <2>3. BroadcastWakes BY DEF BroadcastWakes, CondInv, SleepInv
  <2> QED BY <2>2, <2>3 DEF WaitsSound, CondInv
<1> QED BY <1>1, <1>2, CondInitial, PTL DEF CondSpec
==============================================================================
