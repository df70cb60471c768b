--------------------------- MODULE MultiHalProofs ---------------------------
(***************************************************************************)
(* For every capacity, number of sub-HALs and bound: the region a sub-HAL  *)
(* writes without the lock never meets the readable records, the readable  *)
(* records are the sub-HAL's own in order, no wakeup is lost, no sub-HAL   *)
(* is starved, and the queues implement SensorChannel.                     *)
(***************************************************************************)
EXTENDS MultiHalStepProofs, SequenceTheorems

-----------------------------------------------------------------------------
\* The invariant holds when multihal has created the queues and the threads.
LEMMA InitIInv == Init => IInv
<1> SUFFICES ASSUME Init PROVE IInv
  OBVIOUS
<1> USE CapacityAssumption, MultiHalAssumption
<1>1. TypeOK
  <2>1. /\ EmptyQueue \in Queue
        /\ NoRegion \in [first : Slots, len : 0 .. Capacity]
        /\ 0 \in Subs
    BY DEF EmptyQueue, Queue, NoRegion, Slots, Subs
  <2> QED  BY <2>1 DEF Init, TypeOK, WriterStates
<1>2. RegionInv /\ MutexInv /\ SleepInv
  BY DEF Init, RegionInv, MutexInv, SleepInv, Claimed
<1>3. \A s \in Subs : queue[s].mSize = 0 /\ consumed[s] = 0 /\ wpc[s] = "claim"
  BY DEF Init, EmptyQueue
<1>4. PendingInv
  BY <1>3 DEF PendingInv, Claimed, Produced
<1>5. FifoContents /\ NoLostWakeup /\ ScanInv
  BY <1>3 DEF FifoContents, NoLostWakeup, ScanInv, Init
<1> QED
  BY <1>1, <1>2, <1>4, <1>5 DEF IInv

\* Every step of the writers and of poll() preserves the invariant.
LEMMA StepIInv == IInv /\ [Next]_vars => IInv'
<1> SUFFICES ASSUME IInv, [Next]_vars PROVE IInv'
  OBVIOUS
<1>1. ASSUME NEW s \in Subs, Writer(s) PROVE IInv'
  BY <1>1, WriterControl, ClaimRegionStep, DeviceWriteStep, MarkAsWrittenStep DEF Writer
<1>2. CASE Poller
  BY <1>2, PollControl, PollTakeStep DEF Poller
<1>3. CASE SpuriousWakeup
  BY <1>3, SpuriousStep
<1>4. CASE UNCHANGED vars
  BY <1>4 DEF vars, writerVars, readerVars, ghostVars, IInv, TypeOK, MutexInv, RegionInv,
              PendingInv, SleepInv, ScanInv, FifoContents, NoLostWakeup, Claimed, Produced,
              SlotAt, Behind, IsFull
<1> QED
  BY <1>1, <1>2, <1>3, <1>4 DEF Next

\* The inductive invariant holds throughout: whatever the number of sub-HALs,
\* the capacity and the order in which the threads run.
THEOREM Inductive == Spec => []IInv
  BY InitIInv, StepIInv, PTL DEF Spec

\* SensorEventQueue.cpp and poll() never index outside the data arrays.
THEOREM TypeCorrect == Spec => []TypeOK
<1>1. IInv => TypeOK
  BY DEF IInv
<1> QED
  BY <1>1, Inductive, PTL

\* A claimed region lies behind the readable records: the slots of both are slots of one turn of the
\* array, and different places in a turn are different slots.
LEMMA InvNoOverlap == IInv => NoOverlap
<1> SUFFICES ASSUME IInv, NEW s \in Subs, Claimed(s)
             PROVE  /\ RegionSlots(region[s]) \subseteq Slots
                    /\ RegionSlots(region[s]) \cap Readable(queue[s]) = {}
  BY DEF NoOverlap
<1>1. /\ queue[s] \in Queue /\ queue[s].mSize \in 0 .. Capacity
      /\ region[s].first \in Slots /\ region[s].len \in 0 .. Capacity
      /\ Capacity \in Nat \ {0}
  BY CapacityAssumption DEF IInv, TypeOK, Queue
<1>2. /\ region[s].first = SlotAt(queue[s], queue[s].mSize)
      /\ region[s].first + region[s].len <= Capacity
      /\ queue[s].mSize + region[s].len <= Capacity
      /\ region[s].len >= 1
  BY DEF IInv, RegionInv
<1>3. RegionSlots(region[s]) \subseteq Slots
  BY <1>1, <1>2 DEF RegionSlots, Slots
<1>4. ASSUME NEW x \in RegionSlots(region[s]), x \in Readable(queue[s]) PROVE FALSE
  <2>1. PICK i \in 0 .. queue[s].mSize - 1 : x = SlotAt(queue[s], i)
    BY <1>4 DEF Readable
  <2>2. PICK j \in 0 .. region[s].len - 1 : x = region[s].first + j
    <3>1. x - region[s].first \in 0 .. region[s].len - 1 /\ x \in Int
      BY <1>1 DEF RegionSlots, Slots
    <3> QED  BY <3>1, <1>1 DEF Slots
  <2>3. SlotAt(queue[s], queue[s].mSize + j) = x
    BY <1>1, <1>2, <2>2, RegionContinues
  <2>4. i \in 0 .. Capacity - 1 /\ queue[s].mSize + j \in 0 .. Capacity - 1
    BY <1>1, <1>2
  <2>5. i = queue[s].mSize + j
    BY <1>1, <2>1, <2>3, <2>4, SlotAtInjective
  <2> QED  BY <1>1, <2>5
<1> QED  BY <1>3, <1>4

\* The slots a sub-HAL writes without the lock are never readable ones.
THEOREM RegionsDisjoint == Spec => []NoOverlap
  BY InvNoOverlap, Inductive, PTL

\* A writer that got past waitForSpace always has room for a record.
THEOREM RoomForOne == Spec => []RegionNotEmpty
<1>1. IInv => RegionNotEmpty
  BY DEF IInv, RegionInv, RegionNotEmpty
<1> QED
  BY <1>1, Inductive, PTL

\* poll() reads every record of a sub-HAL once and in order.
THEOREM RecordsInOrder == Spec => []FifoContents
<1>1. IInv => FifoContents
  BY DEF IInv
<1> QED
  BY <1>1, Inductive, PTL

\* Neither poll() nor a writer sleeps through the condition it waits for.
THEOREM WakeupsKept == Spec => []NoLostWakeup
<1>1. IInv => NoLostWakeup
  BY DEF IInv
<1> QED
  BY <1>1, Inductive, PTL

-----------------------------------------------------------------------------
(* The round-robin scan of poll() is fair for every number of sub-HALs: a  *)
(* queue with a record is overtaken at most once by each of the others.    *)

\* How often a queue was overtaken is less than how far nextReadIndex has moved past it; an empty
\* queue is not overtaken.
TurnInv == \A s \in Subs : /\ overtaken[s] < Behind(s)
                           /\ queue[s].mSize = 0 => overtaken[s] = 0

\* nextReadIndex is right behind the queue that it has just left.
LEMMA JustLeft ==
  ASSUME nextReadIndex \in Subs, NEW b \in BOOLEAN, nextReadIndex' = NextIndex(b)
  PROVE  \A s \in Subs : s = nextReadIndex => Behind(s)' = 1
<1>1. NumSubs \in Nat \ {0} /\ nextReadIndex \in 0 .. NumSubs - 1
  BY MultiHalAssumption DEF Subs
<1>2. nextReadIndex' = IF nextReadIndex + 1 < NumSubs THEN nextReadIndex + 1
                       ELSE (nextReadIndex + 1) - NumSubs
  <2>1. nextReadIndex + 1 \in 0 .. 2 * NumSubs - 1
    BY <1>1
  <2> QED  BY <1>1, <2>1, WrapOnce DEF NextIndex
<1> QED
  BY <1>1, <1>2 DEF Behind, Subs

\* No queue is more than a full turn behind.
LEMMA BehindBounded ==
  ASSUME nextReadIndex \in Subs, NEW s \in Subs
  PROVE  Behind(s) \in 1 .. NumSubs
  BY MultiHalAssumption DEF Behind, Subs

\* At the start nothing was overtaken.
LEMMA TurnInitial == Init => TurnInv
<1> SUFFICES ASSUME Init, NEW s \in Subs
             PROVE  overtaken[s] < Behind(s) /\ overtaken[s] = 0
  BY DEF TurnInv
<1>1. nextReadIndex = 0 /\ overtaken[s] = 0
  BY DEF Init
<1>2. Behind(s) \in 1 .. NumSubs
  BY <1>1, MultiHalAssumption, BehindBounded DEF Subs
<1> QED
  BY <1>1, <1>2, MultiHalAssumption

\* A record is taken: the others fall one further behind, and this one is next again after a turn.
LEMMA TurnTake ==
  ASSUME IInv, TurnInv, PollTake
  PROVE  TurnInv'
<1>1. /\ nextReadIndex \in Subs /\ queue \in [Subs -> Queue] /\ overtaken \in [Subs -> Nat]
      /\ nextReadIndex' = NextIndex(TRUE)
      /\ overtaken' = [t \in Subs |-> IF t # nextReadIndex /\ HasRecord(queue[t])
                                      THEN overtaken[t] + 1 ELSE 0]
      /\ queue' = [queue EXCEPT ![nextReadIndex] = dequeue(@)]
  BY DEF IInv, TypeOK, PollTake
<1> SUFFICES ASSUME NEW s \in Subs
             PROVE  overtaken'[s] < Behind(s)' /\ (queue'[s].mSize = 0 => overtaken'[s] = 0)
  BY DEF TurnInv
<1>2. CASE s = nextReadIndex
  <2>1. overtaken'[s] = 0 BY <1>1, <1>2
  <2>2. Behind(s)' = 1 BY <1>1, <1>2, JustLeft
  <2> QED BY <2>1, <2>2
<1>3. CASE s # nextReadIndex
  <2>1. Behind(s)' = Behind(s) + 1 BY <1>1, <1>3, NextIndexBehind
  <2>2. queue'[s] = queue[s] BY <1>1, <1>3
  <2>3. overtaken'[s] = IF HasRecord(queue[s]) THEN overtaken[s] + 1 ELSE 0 BY <1>1, <1>3
  <2>4. overtaken[s] \in Nat /\ overtaken[s] < Behind(s) BY <1>1 DEF TurnInv
  <2>5. Behind(s) \in 1 .. NumSubs BY <1>1, BehindBounded
  <2>6. overtaken'[s] < Behind(s)'
    BY <2>1, <2>3, <2>4, <2>5, MultiHalAssumption
  <2> QED BY <2>2, <2>3, <2>6 DEF HasRecord
<1> QED
  BY <1>2, <1>3

\* An empty queue is passed over: nothing was taken, and the queue was not overtaken.
LEMMA TurnSkip ==
  ASSUME IInv, TurnInv, PollSkip
  PROVE  TurnInv'
<1>1. /\ nextReadIndex \in Subs /\ overtaken \in [Subs -> Nat]
      /\ nextReadIndex' = NextIndex(FALSE) /\ UNCHANGED <<queue, overtaken>>
      /\ queue[nextReadIndex].mSize = 0
  BY DEF IInv, TypeOK, PollSkip, ghostVars, HasRecord
<1> SUFFICES ASSUME NEW s \in Subs
             PROVE  overtaken[s] < Behind(s)'
  BY <1>1 DEF TurnInv
<1>2. CASE s = nextReadIndex
  <2>1. Behind(s)' = 1 BY <1>1, <1>2, JustLeft
  <2>2. overtaken[s] = 0 BY <1>1, <1>2 DEF TurnInv
  <2> QED BY <2>1, <2>2
<1>3. CASE s # nextReadIndex
  <2>1. Behind(s)' = Behind(s) + 1 BY <1>1, <1>3, NextIndexBehind
  <2>2. Behind(s) \in 1 .. NumSubs BY <1>1, BehindBounded
  <2>3. overtaken[s] \in Nat /\ overtaken[s] < Behind(s) BY <1>1 DEF TurnInv
  <2> QED BY <2>1, <2>2, <2>3, MultiHalAssumption
<1> QED
  BY <1>2, <1>3

\* Records that a writer publishes never empty a queue; no other step touches what TurnInv reads.
LEMMA TurnStep == IInv /\ TurnInv /\ [Next]_vars => TurnInv'
<1> SUFFICES ASSUME IInv, TurnInv, [Next]_vars PROVE TurnInv'
  OBVIOUS
<1>1. ASSUME UNCHANGED <<queue, nextReadIndex, overtaken>> PROVE TurnInv'
  BY <1>1 DEF TurnInv, Behind
<1>2. ASSUME NEW s \in Subs, MarkAsWritten(s) PROVE TurnInv'
  <2>1. /\ queue \in [Subs -> Queue] /\ written[s] \in Nat
        /\ queue' = [queue EXCEPT ![s] = markAsWritten(@, written[s])]
        /\ UNCHANGED <<nextReadIndex, overtaken>>
    <3>1. queue \in [Subs -> Queue] /\ written[s] \in 0 .. Capacity BY DEF IInv, TypeOK
    <3>2. /\ queue' = [queue EXCEPT ![s] = markAsWritten(@, written[s])]
          /\ UNCHANGED <<nextReadIndex, overtaken>>
      BY <1>2 DEF MarkAsWritten, readerVars, ghostVars
    <3> QED BY <3>1, <3>2, CapacityAssumption
  <2>2. ASSUME NEW t \in Subs, queue'[t].mSize = 0 PROVE queue[t].mSize = 0
    <3>1. CASE t = s
      <4>1. queue[s] \in Queue /\ queue[s].mSize \in Nat BY <2>1, CapacityAssumption DEF Queue
      <4>2. queue'[s].mSize = queue[s].mSize + written[s] BY <2>1, <4>1 DEF markAsWritten, Queue
      <4> QED BY <2>1, <2>2, <3>1, <4>1, <4>2
    <3>2. CASE t # s BY <2>1, <2>2, <3>2
    <3> QED BY <3>1, <3>2
  <2> QED BY <2>1, <2>2 DEF TurnInv, Behind
<1>3. ASSUME NEW s \in Subs, Writer(s) PROVE TurnInv'
  <2>1. CASE MarkAsWritten(s) BY <2>1, <1>2
  <2>2. CASE ~ MarkAsWritten(s)
    <3>1. UNCHANGED <<queue, nextReadIndex, overtaken>>
      BY <1>3, <2>2 DEF Writer, WaitForSpace, SpaceWakeup, ClaimRegion, DeviceWrite, DeviceReturn,
                        DeviceFail, readerVars, ghostVars
    <3> QED BY <3>1, <1>1
  <2> QED BY <2>1, <2>2
<1>4. CASE Poller
  <2>1. CASE PollEnter \/ PollWait \/ PollWakeup \/ PollReturn
    <3>1. UNCHANGED <<queue, nextReadIndex, overtaken>>
      BY <2>1 DEF PollEnter, PollWait, PollWakeup, PollReturn, ghostVars
    <3> QED BY <3>1, <1>1
  <2> QED BY <1>4, <2>1, TurnTake, TurnSkip DEF Poller
<1>5. CASE SpuriousWakeup
  BY <1>1, <1>5 DEF SpuriousWakeup, readerVars, ghostVars
<1>6. CASE UNCHANGED vars
  BY <1>1, <1>6 DEF vars, readerVars, ghostVars
<1> QED
  BY <1>3, <1>4, <1>5, <1>6 DEF Next

\* poll() starves no sub-HAL, however many there are: while a queue has a record, at most one record
\* of every other queue is read before it, also across calls of poll().
THEOREM NobodyStarved == Spec => []NotStarved
<1>1. IInv /\ TurnInv => NotStarved
  <2> SUFFICES ASSUME IInv, TurnInv, NEW s \in Subs PROVE overtaken[s] <= NumSubs - 1
    BY DEF NotStarved
  <2>1. nextReadIndex \in Subs /\ overtaken[s] \in Nat BY DEF IInv, TypeOK
  <2>2. Behind(s) \in 1 .. NumSubs BY <2>1, BehindBounded
  <2>3. overtaken[s] < Behind(s) BY DEF TurnInv
  <2> QED BY <2>1, <2>2, <2>3, MultiHalAssumption
<1> QED
  BY <1>1, Inductive, TurnInitial, TurnStep, PTL DEF Spec

-----------------------------------------------------------------------------
(* The queues implement SensorChannel: publishing appends a group of       *)
(* records, taking removes the oldest, and no other step, above all no     *)
(* write outside the lock, changes what the channels hold.                 *)

Stored == Event \cup {NoEvent}

\* A function on 1 .. n is a sequence of length n.
LEMMA FunctionIsSeq ==
  ASSUME NEW S, NEW n \in Nat, NEW f \in [1 .. n -> S]
  PROVE  f \in Seq(S) /\ Len(f) = n
  OBVIOUS

\* A sequence that is another shifted by one is its tail.
LEMMA TailByElements ==
  ASSUME NEW S, NEW u \in Seq(S), NEW v \in Seq(S), u # << >>,
         Len(v) = Len(u) - 1, \A i \in 1 .. Len(v) : v[i] = u[i + 1]
  PROVE  v = Tail(u)
<1>1. /\ Tail(u) \in Seq(S) /\ Len(Tail(u)) = Len(u) - 1
      /\ \A i \in 1 .. Len(Tail(u)) : Tail(u)[i] = u[i + 1]
  BY HeadTailProperties
<1>2. Len(v) = Len(Tail(u)) /\ \A i \in 1 .. Len(v) : v[i] = Tail(u)[i]
  BY <1>1
<1> QED
  BY <1>1, <1>2, SeqEqual

\* What the channels hold: as many records as mSize says, each in its slot.
Held == \A s \in Subs :
  /\ Contents[s] \in Seq(Stored)
  /\ Len(Contents[s]) = queue[s].mSize /\ queue[s].mSize \in 0 .. Capacity
  /\ \A i \in 1 .. queue[s].mSize : Contents[s][i] = mData[s][SlotAt(queue[s], i - 1)]

LEMMA ContentsHeld == IInv => Held
<1> SUFFICES ASSUME IInv, NEW s \in Subs PROVE Held!(s)
  BY DEF Held
<1> DEFINE n == queue[s].mSize
           f == [i \in 1 .. n |-> mData[s][SlotAt(queue[s], i - 1)]]
<1>1. queue[s] \in Queue /\ mData[s] \in [Slots -> Stored]
  BY DEF IInv, TypeOK, Stored
<1>2. n \in 0 .. Capacity /\ Capacity \in Nat
  BY <1>1, CapacityAssumption DEF Queue
<1>3. ASSUME NEW i \in 1 .. n PROVE mData[s][SlotAt(queue[s], i - 1)] \in Stored
  <2>1. i - 1 \in 0 .. Capacity BY <1>2
  <2>2. SlotAt(queue[s], i - 1) \in Slots BY <1>1, <2>1, SlotAtValue
  <2> QED BY <1>1, <2>2
<1>4. f \in [1 .. n -> Stored]
  BY <1>3
<1>5. Contents[s] = f
  BY DEF Contents
<1>6. n \in Nat
  BY <1>2
<1> HIDE DEF n
<1>7. f \in Seq(Stored) /\ Len(f) = n
  <2> HIDE DEF f
  <2> QED BY <1>4, <1>6, FunctionIsSeq
<1> QED
  BY <1>2, <1>5, <1>7 DEF n

\* A step that leaves the queues and their arrays alone leaves the channels alone.
LEMMA SameContents ==
  ASSUME UNCHANGED <<queue, mData>>
  PROVE  Contents' = Contents
  BY DEF Contents, SlotAt

\* What a sub-HAL writes without the lock lands in its region, where no readable record is.
LEMMA WriteUnseen ==
  ASSUME IInv, NEW s \in Subs, DeviceWrite(s)
  PROVE  Contents' = Contents
<1> DEFINE n == region[s].first + written[s]
<1>1. PICK e : mData' = [mData EXCEPT ![s][n] = e]
  BY DEF DeviceWrite
<1>2. /\ queue' = queue /\ Claimed(s) /\ written[s] < region[s].len
      /\ mData \in [Subs -> [Slots -> Stored]]
      /\ region[s].first \in Slots /\ region[s].len \in 0 .. Capacity /\ written[s] \in 0 .. Capacity
  BY DEF IInv, TypeOK, DeviceWrite, Claimed, Stored
<1>3. n \in RegionSlots(region[s])
  BY <1>2, CapacityAssumption DEF RegionSlots, Slots
<1>4. n \notin Readable(queue[s])
  BY <1>2, <1>3, InvNoOverlap DEF NoOverlap
<1> HIDE DEF n
<1>5. ASSUME NEW t \in Subs, NEW i \in 1 .. queue[t].mSize
      PROVE  mData'[t][SlotAt(queue[t], i - 1)] = mData[t][SlotAt(queue[t], i - 1)]
  <2>1. CASE t = s
    <3>1. queue[s].mSize \in Nat
      BY CapacityAssumption DEF IInv, TypeOK, Queue
    <3>2. i - 1 \in 0 .. queue[s].mSize - 1
      BY <2>1, <3>1
    <3>3. SlotAt(queue[s], i - 1) \in Readable(queue[s])
      BY <3>2 DEF Readable
    <3>4. SlotAt(queue[s], i - 1) # n
      BY <3>3, <1>4
    <3>5. mData' = [mData EXCEPT ![s] = [mData[s] EXCEPT ![n] = e]]
      BY <1>1, <1>2
    <3>6. mData'[s] = [mData[s] EXCEPT ![n] = e]
      BY <3>5, <1>2
    <3>7. SlotAt(queue[s], i - 1) \in Slots
      <4>1. queue[s] \in Queue /\ queue[s].mSize \in 0 .. Capacity BY DEF IInv, TypeOK, Queue
      <4>2. i - 1 \in 0 .. Capacity BY <3>2, <4>1, CapacityAssumption
      <4> QED BY <4>1, <4>2, SlotAtValue
    <3> QED BY <2>1, <3>4, <3>6, <3>7, <1>2
  <2>2. CASE t # s
    BY <2>2, <1>1, <1>2
  <2> QED BY <2>1, <2>2
<1>6. Contents' = [t \in Subs |-> [i \in 1 .. queue[t].mSize |-> mData'[t][SlotAt(queue[t], i - 1)]]]
  BY <1>2 DEF Contents, SlotAt
<1> QED
  BY <1>5, <1>6 DEF Contents

\* markAsWritten adds at least one record behind those that are there.
LEMMA MarkPuts ==
  ASSUME IInv, Held, Held', NEW s \in Subs, MarkAsWritten(s)
  PROVE  Channel!Put(s)
<1>1. /\ mData' = mData /\ queue' = [queue EXCEPT ![s] = markAsWritten(queue[s], written[s])]
      /\ queue \in [Subs -> Queue] /\ queue[s] \in Queue /\ wpc[s] = "mark"
      /\ written[s] \in 0 .. Capacity
  BY DEF MarkAsWritten, IInv, TypeOK
<1>2. written[s] >= 1 /\ queue[s].mSize + written[s] <= Capacity
  <2>1. /\ written[s] >= 1 /\ written[s] <= region[s].len
        /\ queue[s].mSize + region[s].len <= Capacity
    BY <1>1 DEF IInv, RegionInv, Claimed
  <2>2. queue[s].mSize \in 0 .. Capacity /\ region[s].len \in 0 .. Capacity
    BY DEF IInv, TypeOK, Queue
  <2> QED BY <1>1, <2>1, <2>2, CapacityAssumption
<1>3. /\ queue'[s].mSize = queue[s].mSize + written[s]
      /\ \A i \in Int : SlotAt(queue'[s], i) = SlotAt(queue[s], i)
  <2>1. written[s] \in Nat BY <1>1, CapacityAssumption
  <2>2. queue'[s] = markAsWritten(queue[s], written[s]) BY <1>1
  <2> QED BY <1>1, <1>2, <2>1, <2>2, MarkKeepsSlots
<1>4. /\ Contents[s] \in Seq(Stored) /\ Contents'[s] \in Seq(Stored)
      /\ Len(Contents[s]) = queue[s].mSize /\ Len(Contents'[s]) = queue'[s].mSize
      /\ queue[s].mSize \in 0 .. Capacity
  BY DEF Held
<1>5. Len(Contents[s]) < Len(Contents'[s]) /\ Len(Contents'[s]) <= Capacity
  BY <1>1, <1>2, <1>3, <1>4, CapacityAssumption
<1>6. ASSUME NEW i \in 1 .. Len(Contents[s]) PROVE Contents'[s][i] = Contents[s][i]
  <2>1. i \in 1 .. queue[s].mSize /\ i \in 1 .. queue'[s].mSize /\ i - 1 \in Int
    BY <1>1, <1>3, <1>4, CapacityAssumption
  <2>2. Contents[s][i] = mData[s][SlotAt(queue[s], i - 1)]
    BY <2>1 DEF Held
  <2>3. Contents'[s][i] = mData'[s][SlotAt(queue'[s], i - 1)]
    BY <2>1 DEF Held, SlotAt
  <2> QED BY <1>1, <1>3, <2>1, <2>2, <2>3
<1>7. Len(Contents'[s]) \in Len(Contents[s]) + 1 .. Capacity
  BY <1>3, <1>4, <1>5, CapacityAssumption
<1>8. \A t \in Subs \ {s} : Contents'[t] = Contents[t]
  BY <1>1 DEF Contents, SlotAt
<1> QED
  BY <1>6, <1>7, <1>8 DEF Channel!Put

\* poll() takes the oldest record of the queue at nextReadIndex.
LEMMA TakeGets ==
  ASSUME IInv, Held, Held', PollTake
  PROVE  nextReadIndex \in Subs /\ Channel!Get(nextReadIndex)
<1> DEFINE s == nextReadIndex
<1>1. /\ mData' = mData /\ queue' = [queue EXCEPT ![s] = dequeue(queue[s])]
      /\ s \in Subs /\ queue \in [Subs -> Queue] /\ queue[s] \in Queue /\ HasRecord(queue[s])
  BY DEF PollTake, IInv, TypeOK
<1> HIDE DEF s
<1>2. /\ queue'[s].mSize = queue[s].mSize - 1
      /\ \A i \in 0 .. queue[s].mSize - 1 : SlotAt(queue'[s], i) = SlotAt(queue[s], i + 1)
  <2>1. queue'[s] = dequeue(queue[s]) BY <1>1
  <2> QED BY <1>1, <2>1, DequeueShifts
<1>3. /\ Contents[s] \in Seq(Stored) /\ Contents'[s] \in Seq(Stored)
      /\ Len(Contents[s]) = queue[s].mSize /\ Len(Contents'[s]) = queue'[s].mSize
      /\ queue[s].mSize \in 0 .. Capacity
  BY <1>1 DEF Held
<1>4. queue[s].mSize \in Nat /\ queue[s].mSize >= 1
  BY <1>1, <1>3, CapacityAssumption DEF HasRecord
<1>5. Contents[s] # << >>
  BY <1>3, <1>4, EmptySeq
<1>6. ASSUME NEW i \in 1 .. Len(Contents'[s]) PROVE Contents'[s][i] = Contents[s][i + 1]
  <2>1. /\ i \in 1 .. queue'[s].mSize /\ i + 1 \in 1 .. queue[s].mSize
        /\ i - 1 \in 0 .. queue[s].mSize - 1 /\ (i - 1) + 1 = (i + 1) - 1
    BY <1>2, <1>3, <1>4
  <2>2. Contents[s][i + 1] = mData[s][SlotAt(queue[s], (i + 1) - 1)]
    BY <1>1, <2>1 DEF Held
  <2>3. Contents'[s][i] = mData'[s][SlotAt(queue'[s], i - 1)]
    BY <1>1, <2>1 DEF Held, SlotAt
  <2>4. SlotAt(queue'[s], i - 1) = SlotAt(queue[s], (i + 1) - 1)
    BY <1>2, <2>1
  <2> QED BY <1>1, <2>2, <2>3, <2>4
<1>7. Contents'[s] = Tail(Contents[s])
  BY <1>2, <1>3, <1>5, <1>6, TailByElements
<1>8. \A t \in Subs \ {s} : Contents'[t] = Contents[t]
  BY <1>1 DEF Contents, SlotAt
<1>9. Contents' = [Contents EXCEPT ![s] = Tail(Contents[s])]
  <2>1. /\ Contents = [t \in Subs |-> Contents[t]]
        /\ Contents' = [t \in Subs |-> Contents'[t]]
    BY DEF Contents
  <2> QED BY <1>1, <1>7, <1>8, <2>1
<1> QED
  BY <1>1, <1>5, <1>9 DEF Channel!Get, s

\* Every step is one of the channel or changes nothing in it.
LEMMA StepOfChannel ==
  ASSUME IInv, Held, Held', [Next]_vars
  PROVE  [Channel!Next]_Contents
<1>1. ASSUME NEW s \in Subs, Writer(s) PROVE Channel!Next \/ Contents' = Contents
  <2>1. CASE MarkAsWritten(s) BY <2>1, MarkPuts DEF Channel!Next
  <2>2. CASE DeviceWrite(s) BY <2>2, WriteUnseen
  <2>3. CASE WaitForSpace(s) \/ SpaceWakeup(s) \/ ClaimRegion(s) \/ DeviceReturn(s) \/ DeviceFail(s)
    <3>1. UNCHANGED <<queue, mData>>
      BY <2>3 DEF WaitForSpace, SpaceWakeup, ClaimRegion, DeviceReturn, DeviceFail
    <3> QED BY <3>1, SameContents
  <2> QED BY <1>1, <2>1, <2>2, <2>3 DEF Writer
<1>2. ASSUME Poller PROVE Channel!Next \/ Contents' = Contents
  <2>1. CASE PollTake BY <2>1, TakeGets DEF Channel!Next
  <2>2. CASE PollEnter \/ PollSkip \/ PollWait \/ PollWakeup \/ PollReturn
    <3>1. UNCHANGED <<queue, mData>>
      BY <2>2 DEF PollEnter, PollSkip, PollWait, PollWakeup, PollReturn
    <3> QED BY <3>1, SameContents
  <2> QED BY <1>2, <2>1, <2>2 DEF Poller
<1>3. CASE SpuriousWakeup
  BY <1>3, SameContents DEF SpuriousWakeup
<1>4. CASE UNCHANGED vars
  BY <1>4, SameContents DEF vars
<1> QED
  BY <1>1, <1>2, <1>3, <1>4 DEF Next

\* Each queue with its data array is a bounded, lossless first-in first-out channel, although its
\* records are written outside the lock and read while the writer is in the middle of a group.
THEOREM QueuesAreChannels == Spec => ImplementsChannel
<1>1. Init => Channel!Init
  <2> SUFFICES ASSUME Init PROVE Contents = [s \in Subs |-> << >>]
    BY DEF Channel!Init
  <2>1. \A s \in Subs : queue[s].mSize = 0 BY DEF Init, EmptyQueue
  <2>2. \A s \in Subs : Contents[s] = << >> BY <2>1 DEF Contents
  <2>3. Contents = [s \in Subs |-> Contents[s]] BY DEF Contents
  <2> QED BY <2>2, <2>3
<1>2. IInv /\ Held /\ Held' /\ [Next]_vars => [Channel!Next]_Contents
  BY StepOfChannel
<1> QED
  BY <1>1, <1>2, ContentsHeld, Inductive, PTL DEF Spec, ImplementsChannel, Channel!Spec
=============================================================================
