------------------------- MODULE MultiHalStepProofs -------------------------
(***************************************************************************)
(* The arithmetic of the circular array of a SensorEventQueue, for every   *)
(* capacity, and with it: every step of the writer threads and of poll()   *)
(* keeps the inductive invariant of MultiHal.                              *)
(***************************************************************************)
EXTENDS MultiHal, TLAPS

-----------------------------------------------------------------------------
(* SensorEventQueue: where the i-th record is, what region may be written, *)
(* and how dequeue and markAsWritten move the readable records.            *)

\* The remainder that mStart + i needs is at most one wrap around the array.
LEMMA WrapOnce ==
  ASSUME NEW c \in Nat \ {0}, NEW x \in 0 .. 2 * c - 1
  PROVE  x % c = IF x < c THEN x ELSE x - c
  OBVIOUS

\* Where the i-th readable record is.
LEMMA SlotAtValue ==
  ASSUME NEW q \in Queue, NEW i \in 0 .. Capacity
  PROVE  /\ SlotAt(q, i) = IF q.mStart + i < Capacity THEN q.mStart + i
                           ELSE (q.mStart + i) - Capacity
         /\ SlotAt(q, i) \in Slots
<1> DEFINE x == q.mStart + i
<1>1. q.mStart \in 0 .. Capacity - 1 /\ Capacity \in Nat \ {0}
  BY CapacityAssumption DEF Queue, Slots
<1>2. x \in 0 .. 2 * Capacity - 1
  BY <1>1
<1>3. x % Capacity = IF x < Capacity THEN x ELSE x - Capacity
  <2> HIDE DEF x
  <2> QED  BY <1>1, <1>2, WrapOnce
<1>4. SlotAt(q, i) = IF x < Capacity THEN x ELSE x - Capacity
  BY <1>3, Zenon DEF SlotAt
<1> QED
  BY <1>1, <1>4 DEF Slots

\* Different readable records are in different slots.
LEMMA SlotAtInjective ==
  ASSUME NEW q \in Queue, NEW i \in 0 .. Capacity - 1, NEW j \in 0 .. Capacity - 1,
         SlotAt(q, i) = SlotAt(q, j)
  PROVE  i = j
  BY SlotAtValue, CapacityAssumption DEF Queue, Slots

\* The region getWritableRegion hands out begins behind the last readable
\* record and stays inside the array and inside the free slots.
LEMMA WritableRegion ==
  ASSUME NEW q \in Queue, ~ IsFull(q)
  PROVE  LET r == getWritableRegion(q, Capacity)
         IN /\ r \in [first : Slots, len : 1 .. Capacity]
            /\ r.first = SlotAt(q, q.mSize)
            /\ r.first + r.len <= Capacity
            /\ q.mSize + r.len <= Capacity
<1> DEFINE f == SlotAt(q, q.mSize)
<1>1. /\ q.mSize \in 0 .. Capacity - 1
      /\ q.mStart \in 0 .. Capacity - 1
      /\ Capacity \in Nat \ {0}
  BY CapacityAssumption DEF Queue, Slots, IsFull
<1>2. /\ f = IF q.mStart + q.mSize < Capacity THEN q.mStart + q.mSize
             ELSE (q.mStart + q.mSize) - Capacity
      /\ f \in 0 .. Capacity - 1
  BY <1>1, SlotAtValue DEF Slots
<1>3. getWritableRegion(q, Capacity) =
        LET last == f + Capacity - 1
            inArray == IF last > Capacity - 1 THEN Capacity - 1 ELSE last
            clipped == IF f < q.mStart /\ inArray >= q.mStart
                       THEN q.mStart - 1 ELSE inArray
        IN [first |-> f, len |-> clipped - f + 1]
  BY <1>1 DEF getWritableRegion, SlotAt, IsFull
<1> HIDE DEF f
<1> QED
  BY <1>1, <1>2, <1>3 DEF Slots, f

\* The records behind the one that dequeue removes keep their slots.
LEMMA DequeueShifts ==
  ASSUME NEW q \in Queue, HasRecord(q)
  PROVE  /\ dequeue(q) \in Queue
         /\ dequeue(q).mSize = q.mSize - 1
         /\ ~ IsFull(dequeue(q))
         /\ \A i \in 0 .. q.mSize - 1 : SlotAt(dequeue(q), i) = SlotAt(q, i + 1)
<1>1. /\ q.mSize \in 1 .. Capacity
      /\ q.mStart \in 0 .. Capacity - 1
      /\ Capacity \in Nat \ {0}
  BY CapacityAssumption DEF Queue, Slots, HasRecord
<1>2. SlotAt(q, 1) = IF q.mStart + 1 < Capacity THEN q.mStart + 1
                     ELSE (q.mStart + 1) - Capacity
  BY <1>1, SlotAtValue
<1>3. dequeue(q) = [mStart |-> SlotAt(q, 1), mSize |-> q.mSize - 1]
  BY <1>1 DEF dequeue, SlotAt
<1>4. dequeue(q) \in Queue
  BY <1>1, <1>2, <1>3 DEF Queue, Slots
<1>5. ASSUME NEW i \in 0 .. q.mSize - 1
      PROVE  SlotAt(dequeue(q), i) = SlotAt(q, i + 1)
  <2>1. i \in 0 .. Capacity /\ i + 1 \in 0 .. Capacity
    BY <1>1
  <2>2. /\ SlotAt(q, i + 1) = IF q.mStart + (i + 1) < Capacity THEN q.mStart + (i + 1)
                              ELSE (q.mStart + (i + 1)) - Capacity
        /\ SlotAt(dequeue(q), i) =
             IF dequeue(q).mStart + i < Capacity THEN dequeue(q).mStart + i
             ELSE (dequeue(q).mStart + i) - Capacity
    BY <2>1, <1>4, SlotAtValue
  <2> QED  BY <1>1, <1>2, <1>3, <2>1, <2>2
<1> QED
  BY <1>1, <1>3, <1>4, <1>5 DEF IsFull

\* A claimed region holds the slots that follow the readable records.
LEMMA RegionContinues ==
  ASSUME NEW q \in Queue, NEW first, NEW len \in 1 .. Capacity,
         first = SlotAt(q, q.mSize), first + len <= Capacity, q.mSize + len <= Capacity,
         NEW j \in 0 .. len - 1
  PROVE  SlotAt(q, q.mSize + j) = first + j
<1>1. /\ q.mSize \in 0 .. Capacity - 1
      /\ q.mStart \in 0 .. Capacity - 1
      /\ Capacity \in Nat \ {0}
      /\ q.mSize + j \in 0 .. Capacity
  BY CapacityAssumption DEF Queue, Slots
<1>2. first = IF q.mStart + q.mSize < Capacity THEN q.mStart + q.mSize
              ELSE (q.mStart + q.mSize) - Capacity
  BY <1>1, SlotAtValue
<1>3. SlotAt(q, q.mSize + j) =
        IF q.mStart + (q.mSize + j) < Capacity THEN q.mStart + (q.mSize + j)
        ELSE (q.mStart + (q.mSize + j)) - Capacity
  BY <1>1, SlotAtValue
<1> QED
  BY <1>1, <1>2, <1>3

\* markAsWritten moves no record.
LEMMA MarkKeepsSlots ==
  ASSUME NEW q \in Queue, NEW n \in Nat, q.mSize + n <= Capacity
  PROVE  /\ markAsWritten(q, n) \in Queue
         /\ markAsWritten(q, n).mSize = q.mSize + n
         /\ \A i \in Int : SlotAt(markAsWritten(q, n), i) = SlotAt(q, i)
<1>1. markAsWritten(q, n) = [mStart |-> q.mStart, mSize |-> q.mSize + n]
  BY DEF markAsWritten, Queue
<1> QED
  BY <1>1, CapacityAssumption DEF Queue, SlotAt, Slots

-----------------------------------------------------------------------------
(* writerTask.                                                             *)

\* The steps of writerTask that leave queue, array and region alone.
LEMMA WriterControl ==
  ASSUME IInv, NEW s \in Subs,
         WaitForSpace(s) \/ SpaceWakeup(s) \/ DeviceReturn(s) \/ DeviceFail(s)
  PROVE  IInv'
<1>1. UNCHANGED <<queue, mData, mutex, region, written, rpc, maxReads, empties, nextReadIndex,
                  data, waiting_for_data, dataWaiter, consumed, overtaken>>
  BY DEF WaitForSpace, SpaceWakeup, DeviceReturn, DeviceFail, readerVars, ghostVars
<1>2. /\ TypeOK /\ MutexInv /\ RegionInv /\ PendingInv /\ SleepInv /\ ScanInv
      /\ FifoContents /\ NoLostWakeup
  BY DEF IInv
<1>3. wpc \in [Subs -> WriterStates] /\ spaceWaiters \subseteq Subs
  BY <1>2 DEF TypeOK
<1>4. PICK w \in {"claim", "blocked", "mark"} :
        /\ wpc' = [wpc EXCEPT ![s] = w]
        /\ w = "mark" => wpc[s] = "polling" /\ written[s] > 0
        /\ \/ spaceWaiters' = spaceWaiters /\ s \notin spaceWaiters
           \/ w = "blocked" /\ spaceWaiters' = spaceWaiters \cup {s} /\ IsFull(queue[s])
  <2>1. s \in spaceWaiters => wpc[s] = "blocked"
    BY <1>2 DEF SleepInv
  <2>2. CASE WaitForSpace(s)
    BY <2>2 DEF WaitForSpace
  <2>3. CASE SpaceWakeup(s)
    BY <2>3 DEF SpaceWakeup
  <2>4. CASE DeviceReturn(s)
    BY <2>1, <2>4 DEF DeviceReturn
  <2>5. CASE DeviceFail(s)
    BY <2>1, <2>5 DEF DeviceFail
  <2> QED  BY <2>2, <2>3, <2>4, <2>5
<1>5. ASSUME NEW t \in Subs
      PROVE  /\ Claimed(t)' => Claimed(t)
             /\ wpc'[t] = "mark" => wpc[t] = "mark" \/ written[t] > 0
  BY <1>3, <1>4 DEF Claimed
<1>6. TypeOK'
  <2>1. wpc' \in [Subs -> WriterStates]
    BY <1>3, <1>4 DEF WriterStates
  <2>2. spaceWaiters' \subseteq Subs
    BY <1>3, <1>4
  <2> QED  BY <1>1, <1>2, <2>1, <2>2, Zenon DEF TypeOK
<1>7. MutexInv' /\ SleepInv'
  <2>1. \A t \in spaceWaiters' : wpc'[t] = "blocked"
    BY <1>2, <1>3, <1>4 DEF SleepInv
  <2> QED  BY <1>1, <1>2, <2>1 DEF MutexInv, SleepInv
<1>8. RegionInv'
  <2> SUFFICES ASSUME NEW t \in Subs, Claimed(t)' PROVE RegionInv!(t)!2'
    BY DEF RegionInv
  <2>1. written[t] \in Int /\ RegionInv!(t)!2
    BY <1>2, <1>5 DEF TypeOK, RegionInv
  <2>2. SlotAt(queue[t], queue[t].mSize)' = SlotAt(queue[t], queue[t].mSize)
    BY <1>1 DEF SlotAt
  <2> QED  BY <1>1, <1>5, <2>1, <2>2
<1>9. PendingInv'
  BY <1>1, <1>2, <1>5 DEF PendingInv, Produced
<1>10. FifoContents'
  BY <1>1, <1>2 DEF FifoContents, SlotAt
<1>11. NoLostWakeup'
  BY <1>1, <1>2, <1>4 DEF NoLostWakeup, IsFull
<1>12. ScanInv'
  BY <1>1, <1>2 DEF ScanInv, Behind
<1> QED
  BY <1>6, <1>7, <1>8, <1>9, <1>10, <1>11, <1>12 DEF IInv

\* getWritableRegion establishes what RegionInv says of the new region.
LEMMA ClaimRegionStep ==
  ASSUME IInv, NEW s \in Subs, ClaimRegion(s)
  PROVE  IInv'
<1> DEFINE r == getWritableRegion(queue[s], Capacity)
<1> USE DEF IInv
<1>1. queue[s] \in Queue /\ ~ IsFull(queue[s])
  BY DEF ClaimRegion, TypeOK
<1>2. /\ r \in [first : Slots, len : 1 .. Capacity]
      /\ r.first = SlotAt(queue[s], queue[s].mSize)
      /\ r.first + r.len <= Capacity
      /\ queue[s].mSize + r.len <= Capacity
  BY <1>1, WritableRegion
<1>3. r \in [first : Slots, len : 0 .. Capacity] /\ r.len >= 1
  BY <1>2, CapacityAssumption
<1>4. /\ UNCHANGED <<queue, mData, mutex, spaceWaiters, rpc, maxReads, empties,
                     nextReadIndex, data, waiting_for_data, dataWaiter, consumed, overtaken>>
      /\ region' = [region EXCEPT ![s] = r]
      /\ written' = [written EXCEPT ![s] = 0]
      /\ wpc' = [wpc EXCEPT ![s] = "polling"] /\ wpc[s] = "claim"
  BY DEF ClaimRegion, readerVars, ghostVars
<1> HIDE DEF r
<1>5. TypeOK'
  <2>1. region' \in [Subs -> [first : Slots, len : 0 .. Capacity]]
    BY <1>3, <1>4 DEF TypeOK
  <2>2. written' \in [Subs -> 0 .. Capacity]
    BY <1>4, CapacityAssumption DEF TypeOK
  <2>3. wpc' \in [Subs -> WriterStates]
    BY <1>4 DEF TypeOK, WriterStates
  <2> QED  BY <1>4, <2>1, <2>2, <2>3 DEF TypeOK
<1>6. MutexInv' /\ SleepInv'
  BY <1>4 DEF TypeOK, MutexInv, SleepInv
<1>7. RegionInv'
  <2> SUFFICES ASSUME NEW t \in Subs, Claimed(t)' PROVE RegionInv!(t)!2'
    BY DEF RegionInv
  <2>1. CASE t = s
    BY <2>1, <1>2, <1>3, <1>4 DEF TypeOK, SlotAt
  <2>2. CASE t # s
    BY <2>2, <1>4 DEF TypeOK, RegionInv, SlotAt, Claimed
  <2> QED  BY <2>1, <2>2
<1>8. PendingInv'
  <2> SUFFICES ASSUME NEW t \in Subs PROVE PendingInv!(t)'
    BY DEF PendingInv
  <2>1. queue[t].mSize \in Nat /\ consumed[t] \in Nat
    BY DEF TypeOK, Queue
  <2>2. CASE t = s
    <3>1. Produced(s)' = Produced(s) /\ written'[s] = 0
      BY <1>4 DEF TypeOK, Produced
    <3>2. Produced(s) \in Int /\ Produced(s) <= MaxEvents
      BY <2>1, <2>2 DEF PendingInv, Produced
    <3> QED  BY <2>2, <3>1, <3>2
  <2>3. CASE t # s
    BY <2>3, <1>4 DEF TypeOK, PendingInv, Produced, Claimed
  <2> QED  BY <2>2, <2>3
<1>9. FifoContents' /\ NoLostWakeup'
  BY <1>4 DEF FifoContents, NoLostWakeup, IsFull, SlotAt
<1>10. ScanInv'
  BY <1>4 DEF ScanInv, Behind
<1> QED
  BY <1>5, <1>6, <1>7, <1>8, <1>9, <1>10

\* What a sub-HAL's write finds: its region is claimed, with room for one more
\* record behind the ones written so far.
LEMMA DeviceWriteRoom ==
  ASSUME IInv, NEW s \in Subs, DeviceWrite(s)
  PROVE  /\ queue[s] \in Queue /\ queue[s].mSize \in 0 .. Capacity
         /\ region[s].first \in Slots /\ region[s].len \in 1 .. Capacity
         /\ written[s] \in 0 .. region[s].len - 1
         /\ Produced(s) \in Nat /\ Produced(s) + written[s] < MaxEvents
         /\ Capacity \in Nat \ {0} /\ MaxEvents \in Nat
         /\ region[s].first = SlotAt(queue[s], queue[s].mSize)
         /\ region[s].first + region[s].len <= Capacity
         /\ queue[s].mSize + region[s].len <= Capacity
<1>1. Claimed(s) /\ written[s] < region[s].len /\ Produced(s) + written[s] < MaxEvents
  BY DEF DeviceWrite, Claimed
<1>2. Capacity \in Nat \ {0} /\ MaxEvents \in Nat
  BY CapacityAssumption, MultiHalAssumption
<1>3. /\ queue[s] \in Queue /\ region[s] \in [first : Slots, len : 0 .. Capacity]
      /\ written[s] \in 0 .. Capacity /\ consumed[s] \in 0 .. MaxEvents
  BY DEF IInv, TypeOK
<1>4. /\ region[s].first = SlotAt(queue[s], queue[s].mSize)
      /\ region[s].first + region[s].len <= Capacity
      /\ queue[s].mSize + region[s].len <= Capacity
      /\ region[s].len >= 1
  BY <1>1 DEF IInv, RegionInv
<1>5. queue[s].mSize \in 0 .. Capacity
  BY <1>3 DEF Queue
<1>6. Produced(s) \in Nat
  BY <1>2, <1>3, <1>5 DEF Produced
<1> QED
  BY <1>1, <1>2, <1>3, <1>4, <1>5, <1>6

\* The slot it writes is the one behind every readable and every pending record.
LEMMA DeviceWriteSlot ==
  ASSUME IInv, NEW s \in Subs, DeviceWrite(s)
  PROVE  /\ region[s].first + written[s] \in Slots
         /\ SlotAt(queue[s], queue[s].mSize + written[s]) = region[s].first + written[s]
<1>1. SlotAt(queue[s], queue[s].mSize + written[s]) = region[s].first + written[s]
  BY DeviceWriteRoom, RegionContinues
<1> QED
  BY <1>1, DeviceWriteRoom DEF Slots

\* What it changes: one slot of the array, and the count of records written.
LEMMA DeviceWriteEffect ==
  ASSUME IInv, NEW s \in Subs, DeviceWrite(s)
  PROVE  /\ UNCHANGED <<queue, wpc, region, consumed>>
         /\ wpc[s] = "polling"
         /\ written' = [written EXCEPT ![s] = written[s] + 1]
         /\ \E e \in Event :
              /\ e.seq = Produced(s) + written[s] + 1
              /\ mData' = [mData EXCEPT ![s] =
                             [mData[s] EXCEPT ![region[s].first + written[s]] = e]]
<1>1. PICK h \in LocalHandles, m \in MetaKinds :
        mData' = [mData EXCEPT ![s][region[s].first + written[s]] =
                    [seq |-> Produced(s) + written[s] + 1, sensor |-> h, meta |-> m]]
  BY Zenon DEF DeviceWrite
<1> DEFINE e == [seq |-> Produced(s) + written[s] + 1, sensor |-> h, meta |-> m]
<1>2. Produced(s) + written[s] + 1 \in 1 .. MaxEvents
  BY DeviceWriteRoom
<1>3. e \in Event
  BY <1>2 DEF Event
<1>4. mData' = [mData EXCEPT ![s] = [mData[s] EXCEPT ![region[s].first + written[s]] = e]]
  BY <1>1 DEF IInv, TypeOK
<1>5. e.seq = Produced(s) + written[s] + 1
  OBVIOUS
<1>6. /\ UNCHANGED <<queue, wpc, region, consumed>> /\ wpc[s] = "polling"
      /\ written' = [written EXCEPT ![s] = written[s] + 1]
  BY DEF DeviceWrite, readerVars, ghostVars
<1> HIDE DEF e
<1> QED
  BY <1>3, <1>4, <1>5, <1>6, Zenon

\* The pending records stay as PendingInv says, with the new one as the last.
LEMMA DeviceWritePending ==
  ASSUME IInv, NEW s \in Subs, DeviceWrite(s)
  PROVE  PendingInv'
<1> DEFINE n == region[s].first + written[s]
<1>1. PICK e \in Event : /\ e.seq = Produced(s) + written[s] + 1
                         /\ mData' = [mData EXCEPT ![s] = [mData[s] EXCEPT ![n] = e]]
  BY DeviceWriteEffect
<1>2. UNCHANGED <<queue, wpc, region, consumed>> /\ Claimed(s)
  BY DeviceWriteEffect DEF Claimed
<1>3. PendingInv
  BY DEF IInv
<1>4. /\ mData \in [Subs -> [Slots -> Event \cup {NoEvent}]]
      /\ written \in [Subs -> 0 .. Capacity]
  BY DEF IInv, TypeOK
<1>5. mData'[s] = [mData[s] EXCEPT ![n] = e] /\ written'[s] = written[s] + 1
  BY <1>1, <1>4, DeviceWriteEffect
<1> SUFFICES ASSUME NEW t \in Subs PROVE PendingInv!(t)'
  BY DEF PendingInv
<1>6. CASE t = s
  <2>1. Produced(s)' = Produced(s) /\ region'[s] = region[s]
    BY <1>2 DEF Produced
  <2>2. ASSUME NEW j \in 0 .. written[s]
        PROVE  mData'[s][region[s].first + j].seq = Produced(s) + j + 1
    <3>1. CASE j = written[s]
      BY <3>1, <1>1, <1>4, <1>5, DeviceWriteSlot
    <3>2. CASE j # written[s]
      <4>1. /\ j \in 0 .. written[s] - 1
            /\ region[s].first + j # n /\ region[s].first + j \in Slots
        BY <3>2, DeviceWriteRoom DEF Slots
      <4>2. mData[s][region[s].first + j].seq = Produced(s) + j + 1
        BY <4>1, <1>2, <1>3 DEF PendingInv
      <4> QED  BY <4>1, <4>2, <1>4, <1>5
    <3> QED  BY <3>1, <3>2
  <2>3. /\ Produced(s) + (written[s] + 1) <= MaxEvents /\ Produced(s) <= MaxEvents
        /\ 0 .. (written[s] + 1) - 1 = 0 .. written[s]
    BY DeviceWriteRoom
  <2> QED  BY <1>5, <1>6, <2>1, <2>2, <2>3, Zenon
<1>7. CASE t # s
  <2>1. mData'[t] = mData[t] /\ written'[t] = written[t]
    BY <1>1, <1>4, <1>7, DeviceWriteEffect
  <2>2. Produced(t)' = Produced(t) /\ Claimed(t)' = Claimed(t) /\ region'[t] = region[t]
    BY <1>2 DEF Produced, Claimed
  <2> QED  BY <2>1, <2>2, <1>3 DEF PendingInv
<1> QED
  BY <1>6, <1>7

\* No readable record is touched.
LEMMA DeviceWriteFifo ==
  ASSUME IInv, NEW s \in Subs, DeviceWrite(s)
  PROVE  FifoContents'
<1> DEFINE n == region[s].first + written[s]
<1>1. PICK e \in Event : mData' = [mData EXCEPT ![s] = [mData[s] EXCEPT ![n] = e]]
  BY DeviceWriteEffect
<1>2. mData \in [Subs -> [Slots -> Event \cup {NoEvent}]]
  BY DEF IInv, TypeOK
<1>3. queue' = queue /\ consumed' = consumed
  BY DeviceWriteEffect
<1>4. FifoContents
  BY DEF IInv
<1>5. n \in Slots /\ SlotAt(queue[s], queue[s].mSize + written[s]) = n
  BY DeviceWriteSlot
<1> HIDE DEF n
<1> SUFFICES ASSUME NEW t \in Subs, NEW i \in 0 .. queue[t].mSize - 1
             PROVE  mData'[t][SlotAt(queue[t], i)].seq = consumed[t] + i + 1
  BY <1>3, Zenon DEF FifoContents, SlotAt
<1>6. mData[t][SlotAt(queue[t], i)].seq = consumed[t] + i + 1
  BY <1>4 DEF FifoContents
<1>7. CASE t = s
  <2>1. /\ i \in 0 .. Capacity - 1 /\ queue[s].mSize + written[s] \in 0 .. Capacity - 1
        /\ i # queue[s].mSize + written[s]
    BY <1>7, DeviceWriteRoom
  <2>2. SlotAt(queue[s], i) \in Slots
    BY <2>1, DeviceWriteRoom, SlotAtValue
  <2>3. SlotAt(queue[s], i) # SlotAt(queue[s], queue[s].mSize + written[s])
    BY <2>1, DeviceWriteRoom, SlotAtInjective
  <2>4. SlotAt(queue[s], i) # n
    BY <2>3, <1>5, Zenon
  <2> QED  BY <1>1, <1>2, <1>5, <1>6, <1>7, <2>2, <2>4
<1>8. CASE t # s
  BY <1>1, <1>2, <1>6, <1>8
<1> QED
  BY <1>7, <1>8

\* A sub-HAL's write lands in the claimed region, behind every readable record.
LEMMA DeviceWriteStep ==
  ASSUME IInv, NEW s \in Subs, DeviceWrite(s)
  PROVE  IInv'
<1>1. /\ UNCHANGED <<queue, mutex, wpc, region, spaceWaiters, rpc, maxReads, empties,
                     nextReadIndex, data, waiting_for_data, dataWaiter, consumed, overtaken>>
      /\ written' = [written EXCEPT ![s] = written[s] + 1]
  BY DEF DeviceWrite, readerVars, ghostVars
<1>2. /\ TypeOK /\ MutexInv /\ RegionInv /\ SleepInv /\ ScanInv /\ NoLostWakeup
  BY DEF IInv
<1>3. TypeOK'
  <2>1. mData' \in [Subs -> [Slots -> Event \cup {NoEvent}]]
    <3>1. PICK e \in Event : mData' = [mData EXCEPT ![s] =
                               [mData[s] EXCEPT ![region[s].first + written[s]] = e]]
      BY DeviceWriteEffect
    <3>2. mData \in [Subs -> [Slots -> Event \cup {NoEvent}]]
      BY <1>2 DEF TypeOK
    <3>3. [mData[s] EXCEPT ![region[s].first + written[s]] = e]
            \in [Slots -> Event \cup {NoEvent}]
      BY <3>2, DeviceWriteSlot
    <3> QED  BY <3>1, <3>2, <3>3
  <2>2. written[s] + 1 \in 0 .. Capacity
    BY DeviceWriteRoom
  <2>3. written' \in [Subs -> 0 .. Capacity]
    BY <1>1, <1>2, <2>2 DEF TypeOK
  <2> QED  BY <1>1, <1>2, <2>1, <2>3, Zenon DEF TypeOK
<1>4. MutexInv' /\ SleepInv'
  BY <1>1, <1>2 DEF MutexInv, SleepInv
<1>5. RegionInv'
  <2> SUFFICES ASSUME NEW t \in Subs, Claimed(t)' PROVE RegionInv!(t)!2'
    BY DEF RegionInv
  <2>1. /\ region'[t] = region[t] /\ wpc'[t] = wpc[t] /\ Claimed(t)
        /\ SlotAt(queue[t], queue[t].mSize)' = SlotAt(queue[t], queue[t].mSize)
        /\ queue'[t] = queue[t]
    BY <1>1 DEF SlotAt, Claimed
  <2>2. RegionInv!(t)!2
    BY <1>2, <2>1 DEF RegionInv
  <2>3. CASE t = s
    <3>1. written'[s] = written[s] + 1
      BY <1>1, <1>2 DEF TypeOK
    <3>2. written[s] + 1 <= region[s].len /\ wpc[s] = "polling"
      BY DeviceWriteRoom, DeviceWriteEffect
    <3> QED  BY <2>1, <2>2, <2>3, <3>1, <3>2
  <2>4. CASE t # s
    <3>1. written'[t] = written[t]
      BY <1>1, <1>2, <2>4 DEF TypeOK
    <3> QED  BY <2>1, <2>2, <3>1
  <2> QED  BY <2>3, <2>4
<1>6. NoLostWakeup' /\ ScanInv'
  BY <1>1, <1>2 DEF NoLostWakeup, IsFull, ScanInv, Behind
<1> QED
  BY <1>3, <1>4, <1>5, <1>6, DeviceWritePending, DeviceWriteFifo DEF IInv

\* What markAsWritten finds: the records it publishes fit into the claimed region.
LEMMA MarkRoom ==
  ASSUME IInv, NEW s \in Subs, MarkAsWritten(s)
  PROVE  /\ Claimed(s)
         /\ queue[s] \in Queue /\ queue[s].mSize \in 0 .. Capacity
         /\ written[s] \in 0 .. Capacity /\ region[s].len \in 1 .. Capacity
         /\ written[s] <= region[s].len
         /\ consumed[s] \in Nat /\ Capacity \in Nat \ {0} /\ MaxEvents \in Nat
         /\ region[s].first = SlotAt(queue[s], queue[s].mSize)
         /\ region[s].first + region[s].len <= Capacity
         /\ queue[s].mSize + region[s].len <= Capacity
<1>1. Claimed(s)
  BY DEF MarkAsWritten, Claimed
<1>2. Capacity \in Nat \ {0} /\ MaxEvents \in Nat
  BY CapacityAssumption, MultiHalAssumption
<1>3. /\ queue[s] \in Queue /\ region[s] \in [first : Slots, len : 0 .. Capacity]
      /\ written[s] \in 0 .. Capacity /\ consumed[s] \in 0 .. MaxEvents
  BY DEF IInv, TypeOK
<1>4. /\ region[s].len >= 1 /\ written[s] <= region[s].len
      /\ region[s].first = SlotAt(queue[s], queue[s].mSize)
      /\ region[s].first + region[s].len <= Capacity
      /\ queue[s].mSize + region[s].len <= Capacity
  BY <1>1 DEF IInv, RegionInv
<1>5. queue[s].mSize \in 0 .. Capacity
  BY <1>3 DEF Queue
<1> QED
  BY <1>1, <1>2, <1>3, <1>4, <1>5

\* The queue it leaves: the same slots, with the pending records behind the
\* readable ones.
LEMMA MarkEffect ==
  ASSUME IInv, NEW s \in Subs, MarkAsWritten(s)
  PROVE  /\ UNCHANGED <<mData, region, written, consumed>>
         /\ queue' \in [Subs -> Queue] /\ wpc'[s] = "claim"
         /\ queue'[s].mSize = queue[s].mSize + written[s]
         /\ \A i \in Int : SlotAt(queue'[s], i) = SlotAt(queue[s], i)
         /\ \A t \in Subs \ {s} : queue'[t] = queue[t] /\ wpc'[t] = wpc[t]
<1> DEFINE q == markAsWritten(queue[s], written[s])
<1>1. /\ UNCHANGED <<mData, region, written, consumed>>
      /\ queue' = [queue EXCEPT ![s] = q]
      /\ wpc' = [wpc EXCEPT ![s] = "claim"]
  BY DEF MarkAsWritten, readerVars, ghostVars
<1>2. queue \in [Subs -> Queue] /\ wpc \in [Subs -> WriterStates]
  BY DEF IInv, TypeOK
<1>3. /\ q \in Queue /\ q.mSize = queue[s].mSize + written[s]
      /\ \A i \in Int : SlotAt(q, i) = SlotAt(queue[s], i)
  <2>1. written[s] \in Nat /\ queue[s].mSize + written[s] <= Capacity
    BY MarkRoom
  <2> QED  BY <2>1, MarkRoom, MarkKeepsSlots
<1> HIDE DEF q
<1>4. queue'[s] = q /\ wpc'[s] = "claim" /\ queue' \in [Subs -> Queue]
  BY <1>1, <1>2, <1>3
<1>5. \A t \in Subs \ {s} : queue'[t] = queue[t] /\ wpc'[t] = wpc[t]
  BY <1>1, <1>2
<1> QED
  BY <1>1, <1>3, <1>4, <1>5, Zenon

\* The records made readable are exactly those that PendingInv describes.
LEMMA MarkFifo ==
  ASSUME IInv, NEW s \in Subs, MarkAsWritten(s)
  PROVE  FifoContents'
<1>1. mData' = mData /\ consumed' = consumed
  BY MarkEffect
<1>2. FifoContents /\ PendingInv
  BY DEF IInv
<1>3. /\ queue'[s].mSize = queue[s].mSize + written[s]
      /\ \A i \in Int : SlotAt(queue'[s], i) = SlotAt(queue[s], i)
  BY MarkEffect
<1> SUFFICES ASSUME NEW t \in Subs, NEW i \in 0 .. queue'[t].mSize - 1
             PROVE  mData[t][SlotAt(queue'[t], i)].seq = consumed[t] + i + 1
  BY <1>1, Zenon DEF FifoContents, SlotAt
<1>4. CASE t = s /\ i < queue[s].mSize
  <2>1. i \in Int /\ i \in 0 .. queue[s].mSize - 1
    BY <1>3, <1>4, MarkRoom
  <2>2. SlotAt(queue'[s], i) = SlotAt(queue[s], i)
    BY <2>1, <1>3, Zenon
  <2>3. mData[s][SlotAt(queue[s], i)].seq = consumed[s] + i + 1
    BY <2>1, <1>2 DEF FifoContents
  <2> QED  BY <1>4, <2>2, <2>3, Zenon
<1>5. CASE t = s /\ ~ i < queue[s].mSize
  <2> DEFINE j == i - queue[s].mSize
  <2>1. j \in 0 .. written[s] - 1 /\ i = queue[s].mSize + j
    BY <1>3, <1>5, MarkRoom
  <2> HIDE DEF j
  <2>2. j \in 0 .. region[s].len - 1 /\ i \in Int
    BY <2>1, MarkRoom
  <2>3. SlotAt(queue[s], queue[s].mSize + j) = region[s].first + j
    BY <2>2, MarkRoom, RegionContinues
  <2>4. SlotAt(queue'[s], i) = region[s].first + j
    BY <2>1, <2>2, <2>3, <1>3, Zenon
  <2>5. mData[s][region[s].first + j].seq = Produced(s) + j + 1
    BY <2>1, <1>2, MarkRoom DEF PendingInv
  <2>6. Produced(s) + j + 1 = consumed[s] + i + 1
    BY <2>1, <2>2, MarkRoom DEF Produced
  <2> QED  BY <1>5, <2>4, <2>5, <2>6, Zenon
<1>6. CASE t # s
  BY <1>2, <1>6, MarkEffect DEF FifoContents
<1> QED
  BY <1>4, <1>5, <1>6

\* markAsWritten keeps the invariant; a poller that waits is woken.
LEMMA MarkAsWrittenStep ==
  ASSUME IInv, NEW s \in Subs, MarkAsWritten(s)
  PROVE  IInv'
<1>1. /\ UNCHANGED <<mData, mutex, region, written, spaceWaiters, rpc, maxReads, empties,
                     nextReadIndex, data, waiting_for_data, consumed, overtaken>>
      /\ wpc' = [wpc EXCEPT ![s] = "claim"] /\ wpc[s] = "mark"
      /\ dataWaiter' = (dataWaiter /\ ~ waiting_for_data)
  BY DEF MarkAsWritten, readerVars, ghostVars
<1>2. TypeOK /\ MutexInv /\ RegionInv /\ PendingInv /\ SleepInv /\ ScanInv /\ NoLostWakeup
  BY DEF IInv
<1>3. ~ dataWaiter'
  BY <1>1, <1>2, Zenon DEF SleepInv
<1>4. queue' \in [Subs -> Queue] /\ wpc'[s] = "claim"
  BY MarkEffect
<1>5. ASSUME NEW t \in Subs, t # s
      PROVE  queue'[t] = queue[t] /\ wpc'[t] = wpc[t]
  BY <1>5, MarkEffect
<1>6. TypeOK'
  BY <1>1, <1>2, <1>4 DEF TypeOK, WriterStates
<1>7. MutexInv' /\ SleepInv'
  BY <1>1, <1>2, <1>3 DEF TypeOK, MutexInv, SleepInv
<1>8. RegionInv'
  <2> SUFFICES ASSUME NEW t \in Subs, Claimed(t)' PROVE RegionInv!(t)!2'
    BY DEF RegionInv
  <2>1. t # s
    BY <1>4 DEF Claimed
  <2> QED  BY <2>1, <1>1, <1>2, <1>5 DEF RegionInv, SlotAt, Claimed
<1>9. PendingInv'
  <2> SUFFICES ASSUME NEW t \in Subs PROVE PendingInv!(t)'
    BY DEF PendingInv
  <2>1. CASE t = s
    <3>1. Produced(s)' = Produced(s) + written[s]
      BY MarkRoom, MarkEffect DEF Produced
    <3>2. Produced(s) + written[s] <= MaxEvents
      BY <1>2, MarkRoom DEF PendingInv
    <3>3. ~ Claimed(s)'
      BY <1>4 DEF Claimed
    <3> QED  BY <2>1, <3>1, <3>2, <3>3
  <2>2. CASE t # s
    <3>1. Produced(t)' = Produced(t)
      BY <2>2, <1>1, <1>5 DEF Produced
    <3>2. Claimed(t)' = Claimed(t)
      BY <2>2, <1>5 DEF Claimed
    <3> QED  BY <3>1, <3>2, <1>1, <1>2 DEF PendingInv
  <2> QED  BY <2>1, <2>2
<1>10. NoLostWakeup'
  <2>1. ASSUME NEW t \in spaceWaiters PROVE IsFull(queue'[t])
    <3>1. t \in Subs /\ wpc[t] = "blocked" /\ t # s
      BY <1>1, <1>2 DEF TypeOK, SleepInv
    <3> QED  BY <3>1, <1>2, <1>5 DEF NoLostWakeup, IsFull
  <2> QED  BY <2>1, <1>1, <1>3 DEF NoLostWakeup, IsFull
<1>11. ScanInv'
  BY <1>1, <1>2 DEF MarkAsWritten, MutexInv, ScanInv
<1> QED
  BY <1>6, <1>7, <1>8, <1>9, <1>10, <1>11, MarkFifo DEF IInv

-----------------------------------------------------------------------------
(* poll().                                                                 *)

\* What one step of nextReadIndex does to the queues behind it.
LEMMA NextIndexBehind ==
  ASSUME nextReadIndex \in Subs, NEW b \in BOOLEAN, nextReadIndex' = NextIndex(b)
  PROVE  /\ nextReadIndex' \in Subs
         /\ \A s \in Subs : \/ s = nextReadIndex
                            \/ Behind(s)' = Behind(s) + 1
<1>1. NumSubs \in Nat \ {0} /\ nextReadIndex \in 0 .. NumSubs - 1
  BY MultiHalAssumption DEF Subs
<1>2. nextReadIndex' = IF nextReadIndex + 1 < NumSubs THEN nextReadIndex + 1
                       ELSE (nextReadIndex + 1) - NumSubs
  <2>1. nextReadIndex + 1 \in 0 .. 2 * NumSubs - 1
    BY <1>1
  <2> QED  BY <1>1, <2>1, WrapOnce DEF NextIndex
<1> QED
  BY <1>1, <1>2 DEF Behind, Subs

\* The queue at nextReadIndex itself is a full turn behind, no queue is at 0.
LEMMA BehindPositive ==
  ASSUME nextReadIndex' \in Subs, NEW s \in Subs
  PROVE  Behind(s)' \in Int /\ Behind(s)' >= 1
<1>1. PICK n \in Subs : n = nextReadIndex'
  OBVIOUS
<1>2. Behind(s)' = IF s < n THEN n - s ELSE (n - s) + NumSubs
  BY <1>1, Zenon DEF Behind
<1>3. NumSubs \in Nat \ {0} /\ n \in 0 .. NumSubs - 1 /\ s \in 0 .. NumSubs - 1
  BY MultiHalAssumption DEF Subs
<1> QED
  BY <1>2, <1>3

\* The steps of poll() that take nothing out of a queue.
LEMMA PollControl ==
  ASSUME IInv, PollEnter \/ PollSkip \/ PollWait \/ PollWakeup \/ PollReturn
  PROVE  IInv'
<1> USE DEF IInv
<1>1. UNCHANGED <<queue, mData, wpc, region, written, spaceWaiters, consumed, overtaken>>
  BY DEF PollEnter, PollSkip, PollWait, PollWakeup, PollReturn, writerVars, ghostVars
<1>2. RegionInv' /\ PendingInv' /\ FifoContents'
  BY <1>1 DEF RegionInv, PendingInv, FifoContents, Claimed, Produced, SlotAt
<1>3. \A s \in spaceWaiters' : wpc'[s] = "blocked" /\ IsFull(queue'[s])
  BY <1>1 DEF SleepInv, NoLostWakeup, IsFull
<1>4. NumSubs \in Nat \ {0} /\ MaxReads \in Nat \ {0}
  BY MultiHalAssumption
<1>5. CASE PollEnter \/ PollWakeup
  <2>1. /\ ~ dataWaiter' /\ mutex' = "poll" /\ rpc' = "scan" /\ empties' = 0
        /\ nextReadIndex' = nextReadIndex
    <3>1. dataWaiter' = dataWaiter /\ mutex' = "poll" /\ rpc' = "scan" /\ empties' = 0
      BY <1>5 DEF PollEnter, PollWakeup
    <3>2. nextReadIndex' = nextReadIndex
      BY <1>5 DEF PollEnter, PollWakeup
    <3>3. ~ dataWaiter
      <4>1. CASE PollEnter   BY <4>1 DEF PollEnter, SleepInv
      <4>2. CASE PollWakeup  BY <4>2 DEF PollWakeup
      <4> QED  BY <1>5, <4>1, <4>2
    <3> QED  BY <3>1, <3>2, <3>3, Zenon
  <2>2. maxReads' \in 1 .. MaxReads
    <3>1. CASE PollEnter   BY <3>1 DEF PollEnter
    <3>2. CASE PollWakeup  BY <3>2, <1>4 DEF PollWakeup, TypeOK, ScanInv, MutexInv
    <3> QED  BY <1>5, <3>1, <3>2
  <2>3. /\ waiting_for_data' \in BOOLEAN
        /\ data' \in Seq([sub : Subs, seq : 0 .. MaxEvents, sensor : Int, nested : Int])
    <3>1. CASE PollEnter   BY <3>1 DEF PollEnter, TypeOK
    <3>2. CASE PollWakeup  BY <3>2 DEF PollWakeup, TypeOK
    <3> QED  BY <1>5, <3>1, <3>2
  <2>4. TypeOK'
    <3>1. dataWaiter' \in BOOLEAN
      BY <1>5 DEF PollEnter, PollWakeup, TypeOK
    <3>2. /\ maxReads' \in 0 .. MaxReads /\ empties' \in 0 .. NumSubs
          /\ nextReadIndex' \in Subs
      BY <1>4, <2>1, <2>2 DEF TypeOK
    <3>3. mutex' \in {"none", "poll"} /\ rpc' \in {"idle", "scan", "wait"}
      BY <2>1
    <3> QED  BY <1>1, <2>3, <3>1, <3>2, <3>3 DEF TypeOK
  <2>5. MutexInv' /\ SleepInv' /\ NoLostWakeup'
    BY <1>1, <1>3, <2>1, Zenon DEF MutexInv, SleepInv, NoLostWakeup
  <2>6. ScanInv'
    <3>1. ASSUME NEW s \in Subs PROVE Behind(s)' \in Int /\ Behind(s)' >= 1
      BY <1>4, <2>1 DEF Behind, Subs, TypeOK
    <3> QED  BY <2>1, <2>2, <3>1, <1>4 DEF ScanInv
  <2> QED  BY <1>2, <2>4, <2>5, <2>6
<1>6. CASE PollSkip
  <2>1. /\ UNCHANGED <<mutex, rpc, maxReads, data, waiting_for_data, dataWaiter>>
        /\ rpc = "scan" /\ empties < NumSubs /\ empties' = empties + 1
        /\ nextReadIndex' = NextIndex(FALSE) /\ queue[nextReadIndex].mSize = 0
    BY <1>6 DEF PollSkip, Scanning, HasRecord
  <2>2. /\ nextReadIndex' \in Subs
        /\ \A s \in Subs : s = nextReadIndex \/ Behind(s)' = Behind(s) + 1
    BY <2>1, NextIndexBehind DEF TypeOK
  <2>3. TypeOK'
    <3>1. empties' \in 0 .. NumSubs
      BY <2>1, <1>4 DEF TypeOK
    <3> QED  BY <1>1, <2>1, <2>2, <3>1 DEF TypeOK
  <2>4. MutexInv' /\ SleepInv' /\ NoLostWakeup'
    BY <1>1, <2>1 DEF MutexInv, SleepInv, NoLostWakeup, IsFull
  <2>5. ScanInv'
    <3> SUFFICES ASSUME NEW s \in Subs, Behind(s)' <= empties + 1
                 PROVE  queue[s].mSize = 0
      BY <1>1, <2>1 DEF ScanInv
    <3>1. empties \in Int /\ Behind(s) \in Int
      BY <1>4 DEF TypeOK, Behind, Subs
    <3>2. CASE s = nextReadIndex
      BY <3>2, <2>1
    <3>3. CASE Behind(s)' = Behind(s) + 1
      BY <3>1, <3>3, <2>1 DEF ScanInv
    <3> QED  BY <2>2, <3>2, <3>3
  <2> QED  BY <1>2, <2>3, <2>4, <2>5
<1>7. CASE PollWait
  <2>1. /\ UNCHANGED <<maxReads, empties, nextReadIndex, data>>
        /\ waiting_for_data' = TRUE /\ dataWaiter' = TRUE
        /\ mutex' = "none" /\ rpc' = "wait" /\ rpc = "scan"
        /\ ~ (empties < NumSubs) \/ ~ (eventsRead < maxReads)
        /\ eventsRead = 0
    BY <1>7 DEF PollWait, Scanning
  <2>2. \A s \in Subs : queue[s].mSize = 0
    <3>1. maxReads >= 1 /\ maxReads \in Nat /\ empties \in 0 .. NumSubs
      BY <2>1 DEF TypeOK, ScanInv
    <3>2. empties = NumSubs
      BY <2>1, <3>1, <1>4
    <3>3. \A s \in Subs : Behind(s) <= NumSubs
      BY <1>4 DEF Behind, Subs, TypeOK
    <3> QED  BY <2>1, <3>2, <3>3 DEF ScanInv
  <2>3. TypeOK'
    BY <1>1, <2>1 DEF TypeOK
  <2>4. MutexInv' /\ SleepInv'
    BY <1>1, <1>3, <2>1, Zenon DEF MutexInv, SleepInv
  <2>5. NoLostWakeup'
    BY <1>1, <1>3, <2>2, Zenon DEF NoLostWakeup
  <2>6. ScanInv'
    BY <1>1, <2>1 DEF ScanInv
  <2> QED  BY <1>2, <2>3, <2>4, <2>5, <2>6
<1>8. CASE PollReturn
  <2>1. /\ UNCHANGED <<maxReads, empties, nextReadIndex, data, waiting_for_data, dataWaiter>>
        /\ mutex' = "none" /\ rpc' = "idle" /\ rpc = "scan"
    BY <1>8 DEF PollReturn
  <2>2. ~ dataWaiter'
    BY <2>1, Zenon DEF SleepInv
  <2>3. TypeOK'
    BY <1>1, <2>1 DEF TypeOK
  <2>4. MutexInv' /\ SleepInv' /\ NoLostWakeup' /\ ScanInv'
    BY <1>1, <1>3, <2>1, <2>2, Zenon DEF MutexInv, SleepInv, NoLostWakeup, ScanInv
  <2> QED  BY <1>2, <2>3, <2>4
<1> QED
  BY <1>5, <1>6, <1>7, <1>8

\* A remapped record has an integer handle in both of its handle fields.
LEMMA RemapRecord ==
  ASSUME NEW s \in Subs, NEW c, c.seq \in 0 .. MaxEvents,
         get_global_handle(s, c.sensor) \in Int
  PROVE  copy_event_remap_handle(s, c)
           \in [sub : Subs, seq : 0 .. MaxEvents, sensor : Int, nested : Int]
  BY SMTT(30) DEF copy_event_remap_handle

\* peek() and dequeue() take the next record of the sub-HAL at nextReadIndex.
LEMMA PollTakeStep ==
  ASSUME IInv, PollTake
  PROVE  IInv'
<1> DEFINE s == nextReadIndex
           q == dequeue(queue[s])
           c == mData[s][queue[s].mStart]
           e == copy_event_remap_handle(s, c)
<1> USE DEF IInv
<1>1. /\ UNCHANGED <<mData, mutex, wpc, region, written, rpc, maxReads,
                     waiting_for_data, dataWaiter>>
      /\ rpc = "scan" /\ HasRecord(queue[s])
      /\ empties' = 0
      /\ data' = IF e.sensor = -1 THEN data ELSE Append(data, e)
      /\ queue' = [queue EXCEPT ![s] = q]
      /\ spaceWaiters' = IF IsFull(queue[s]) THEN spaceWaiters \ {s} ELSE spaceWaiters
      /\ nextReadIndex' = NextIndex(TRUE)
      /\ consumed' = [consumed EXCEPT ![s] = @ + 1]
      /\ overtaken' = [t \in Subs |-> IF t # s /\ HasRecord(queue[t])
                                      THEN overtaken[t] + 1 ELSE 0]
  BY DEF PollTake, Scanning, DequeueBroadcasts
<1>2. /\ s \in Subs /\ queue[s] \in Queue /\ queue[s].mSize \in 1 .. Capacity
      /\ queue[s].mStart \in Slots
      /\ Capacity \in Nat \ {0} /\ NumSubs \in Nat \ {0} /\ MaxEvents \in Nat
      /\ consumed[s] \in Nat
  BY <1>1, CapacityAssumption, MultiHalAssumption DEF TypeOK, HasRecord, Queue
<1>3. /\ q \in Queue /\ q.mSize = queue[s].mSize - 1 /\ ~ IsFull(q)
      /\ \A i \in 0 .. queue[s].mSize - 1 : SlotAt(q, i) = SlotAt(queue[s], i + 1)
  BY <1>1, <1>2, DequeueShifts
<1>4. consumed[s] + queue[s].mSize <= MaxEvents
  BY <1>2 DEF PendingInv, Produced
<1>5. c \in Event
  <2>1. SlotAt(queue[s], 0) = queue[s].mStart
    BY <1>2, SlotAtValue DEF Slots
  <2>2. c.seq = consumed[s] + 0 + 1
    BY <1>2, <2>1 DEF FifoContents
  <2>3. c \in Event \cup {NoEvent}
    BY <1>2 DEF TypeOK
  <2> QED  BY <1>2, <2>2, <2>3 DEF NoEvent
<1>6. e \in [sub : Subs, seq : 0 .. MaxEvents, sensor : Int, nested : Int]
  <2>1. get_global_handle(s, c.sensor) \in Int
    BY MultiHalAssumption DEF get_global_handle
  <2>2. c.seq \in 0 .. MaxEvents
    BY <1>2, <1>5 DEF Event
  <2> QED  BY <1>2, <2>1, <2>2, RemapRecord
<1> HIDE DEF q, e, c
<1>7. nextReadIndex' \in Subs
  BY <1>1, <1>2, NextIndexBehind
<1>8. TypeOK'
  <2>1. queue' \in [Subs -> Queue]
    BY <1>1, <1>3 DEF TypeOK
  <2>2. data' \in Seq([sub : Subs, seq : 0 .. MaxEvents, sensor : Int, nested : Int])
    <3> DEFINE Record == [sub : Subs, seq : 0 .. MaxEvents, sensor : Int, nested : Int]
    <3>1. e \in Record /\ data \in Seq(Record)
      BY <1>6 DEF TypeOK
    <3> SUFFICES data' \in Seq(Record)
      OBVIOUS
    <3> HIDE DEF Record
    <3>2. Append(data, e) \in Seq(Record)
      BY <3>1
    <3> QED  BY <3>1, <3>2, <1>1
  <2>3. consumed' \in [Subs -> 0 .. MaxEvents]
    <3>1. consumed[s] + 1 \in 0 .. MaxEvents
      BY <1>2, <1>4
    <3> QED  BY <1>1, <3>1 DEF TypeOK
  <2>4. overtaken' \in [Subs -> Nat]
    BY <1>1 DEF TypeOK
  <2>5. spaceWaiters' \subseteq Subs
    BY <1>1 DEF TypeOK
  <2>6. empties' \in 0 .. NumSubs
    BY <1>1, <1>2
  <2> QED  BY <1>1, <1>7, <2>1, <2>2, <2>3, <2>4, <2>5, <2>6 DEF TypeOK
<1>9. /\ queue'[s] = q /\ consumed'[s] = consumed[s] + 1
      /\ \A t \in Subs : t # s => queue'[t] = queue[t] /\ consumed'[t] = consumed[t]
  BY <1>1, <1>2 DEF TypeOK
<1>10. ~ dataWaiter'
  BY <1>1 DEF SleepInv
<1>11. MutexInv' /\ SleepInv'
  BY <1>1, <1>10 DEF MutexInv, SleepInv
<1>12. RegionInv'
  <2> SUFFICES ASSUME NEW t \in Subs, Claimed(t)' PROVE RegionInv!(t)!2'
    BY DEF RegionInv
  <2>1. Claimed(t)
    BY <1>1 DEF Claimed
  <2>2. CASE t = s
    <3>1. SlotAt(q, q.mSize) = SlotAt(queue[s], queue[s].mSize)
      <4>1. queue[s].mSize - 1 \in 0 .. queue[s].mSize - 1 /\ (queue[s].mSize - 1) + 1 = queue[s].mSize
        BY <1>2
      <4> QED  BY <4>1, <1>3
    <3>2. q.mSize + region[s].len <= Capacity
      BY <2>1, <2>2, <1>2, <1>3 DEF RegionInv, TypeOK
    <3> QED  BY <2>1, <2>2, <3>1, <3>2, <1>1, <1>9 DEF RegionInv, SlotAt
  <2>3. CASE t # s
    BY <2>1, <2>3, <1>1, <1>9 DEF RegionInv, SlotAt
  <2> QED  BY <2>2, <2>3
<1>13. PendingInv'
  <2> SUFFICES ASSUME NEW t \in Subs PROVE PendingInv!(t)'
    BY DEF PendingInv
  <2>1. Produced(t)' = Produced(t)
    <3>1. CASE t = s
      BY <3>1, <1>2, <1>3, <1>9 DEF Produced
    <3>2. CASE t # s
      BY <3>2, <1>9 DEF Produced
    <3> QED  BY <3>1, <3>2
  <2> QED  BY <2>1, <1>1 DEF PendingInv, Claimed
<1>14. FifoContents'
  <2> SUFFICES ASSUME NEW t \in Subs, NEW i \in 0 .. queue'[t].mSize - 1
               PROVE  mData[t][SlotAt(queue'[t], i)].seq = consumed'[t] + i + 1
    BY <1>1 DEF FifoContents, SlotAt
  <2>1. CASE t = s
    <3>1. i \in 0 .. queue[s].mSize - 1 /\ i + 1 \in 0 .. queue[s].mSize - 1
      BY <2>1, <1>2, <1>3, <1>9
    <3>2. mData[s][SlotAt(queue[s], i + 1)].seq = consumed[s] + (i + 1) + 1
      BY <3>1, <1>2 DEF FifoContents
    <3> QED  BY <2>1, <3>1, <3>2, <1>2, <1>3, <1>9
  <2>2. CASE t # s
    BY <2>2, <1>9 DEF FifoContents
  <2> QED  BY <2>1, <2>2
<1>15. NoLostWakeup'
  <2>1. ASSUME NEW t \in spaceWaiters' PROVE IsFull(queue'[t])
    <3>1. t \in spaceWaiters /\ t \in Subs /\ IsFull(queue[t])
      BY <1>1 DEF NoLostWakeup, TypeOK
    <3>2. t # s
      BY <3>1, <1>1
    <3> QED  BY <3>1, <3>2, <1>9 DEF IsFull
  <2> QED  BY <2>1, <1>10 DEF NoLostWakeup, IsFull
<1>16. ScanInv'
  <2>1. ASSUME NEW t \in Subs PROVE Behind(t)' >= 1 /\ Behind(t)' \in Int
    BY <1>7, BehindPositive
  <2>2. maxReads' >= 1
    BY <1>1 DEF ScanInv
  <2> QED  BY <2>1, <2>2, <1>1 DEF ScanInv
<1> QED
  BY <1>8, <1>11, <1>12, <1>13, <1>14, <1>15, <1>16

\* A spurious wakeup only takes a sleeper away.
LEMMA SpuriousStep ==
  ASSUME IInv, SpuriousWakeup
  PROVE  IInv'
<1> USE DEF IInv
<1>1. /\ UNCHANGED <<queue, mData, mutex, wpc, region, written, rpc, maxReads, empties,
                     nextReadIndex, data, waiting_for_data, consumed, overtaken>>
      /\ spaceWaiters' \subseteq spaceWaiters
      /\ dataWaiter' \in BOOLEAN
  BY DEF SpuriousWakeup, readerVars, ghostVars, TypeOK
<1>2. dataWaiter' => dataWaiter
  BY DEF SpuriousWakeup
<1>3. TypeOK'
  BY <1>1 DEF TypeOK
<1>4. MutexInv' /\ RegionInv' /\ PendingInv' /\ FifoContents' /\ ScanInv'
  BY <1>1 DEF MutexInv, RegionInv, PendingInv, FifoContents, ScanInv, Claimed, Produced,
              SlotAt, Behind
<1>5. SleepInv'
  BY <1>1, <1>2, Zenon DEF SleepInv
<1>6. NoLostWakeup'
  BY <1>1, <1>2, Zenon DEF NoLostWakeup, IsFull
<1> QED
  BY <1>3, <1>4, <1>5, <1>6
=============================================================================
