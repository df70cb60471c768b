-------------------------- MODULE SensorEventQueue --------------------------
(***************************************************************************)
(* The fixed-size circular queue of src/sensors/SensorEventQueue.cpp.      *)
(* A queue is a record of the fields mStart and mSize; the data array      *)
(* mData is kept apart by the modules that use the queue, because it is    *)
(* written outside the lock that protects the two fields.                  *)
(***************************************************************************)
EXTENDS Integers

CONSTANT Capacity      \* mCapacity, SENSOR_EVENT_QUEUE_CAPACITY in multihal.cpp

ASSUME CapacityAssumption == Capacity \in Nat \ {0}

Slots == 0 .. Capacity - 1

\* The fields of a queue, and their values after the constructor.
Queue == [mStart : Slots, mSize : 0 .. Capacity]

EmptyQueue == [mStart |-> 0, mSize |-> 0]

IsFull(q) == q.mSize = Capacity

\* The slot of the i-th readable record, counted from 0.
SlotAt(q, i) == (q.mStart + i) % Capacity

\* The slots that peek() and dequeue() may touch now or later.
Readable(q) == {SlotAt(q, i) : i \in 0 .. q.mSize - 1}

\* What getWritableRegion answers: the first slot and the length of the
\* contiguous region; length 0 stands for the NULL pointer.
NoRegion == [first |-> 0, len |-> 0]

\* Mutant: the region is not cut back where the readable records begin.
getWritableRegionNoClip(q, requestedLength) ==
  LET first == (q.mStart + q.mSize) % Capacity
      last  == first + requestedLength - 1
      cut   == IF last > Capacity - 1 THEN Capacity - 1 ELSE last
  IN IF IsFull(q) \/ requestedLength <= 0
     THEN NoRegion
     ELSE [first |-> first, len |-> cut - first + 1]

getWritableRegion(q, requestedLength) ==
  LET first == (q.mStart + q.mSize) % Capacity
      last  == first + requestedLength - 1
      \* do not go past the end of the data array
      inArray == IF last > Capacity - 1 THEN Capacity - 1 ELSE last
      \* do not go into the readable region
      clipped == IF first < q.mStart /\ inArray >= q.mStart
                 THEN q.mStart - 1 ELSE inArray
  IN IF IsFull(q) \/ requestedLength <= 0
     THEN NoRegion
     ELSE [first |-> first, len |-> clipped - first + 1]

RegionSlots(r) == r.first .. r.first + r.len - 1

markAsWritten(q, count) == [q EXCEPT !.mSize = @ + count]

\* peek() returns a record exactly when this holds, and then it is the one in
\* slot mStart.
HasRecord(q) == q.mSize # 0

\* Mutant: the start of the readable region is not wrapped with the size.
dequeueKeepSize(q) ==
  IF q.mSize = 0 THEN q ELSE [q EXCEPT !.mStart = (@ + 1) % Capacity]

dequeue(q) ==
  IF q.mSize = 0
  THEN q
  ELSE [mStart |-> (q.mStart + 1) % Capacity, mSize |-> q.mSize - 1]

\* Mutant: the test for a full queue comes after mSize was decremented.
DequeueBroadcastsLate(q) == IsFull([q EXCEPT !.mSize = @ - 1])

\* dequeue() broadcasts mSpaceAvailableCondition only when the queue was full.
DequeueBroadcasts(q) == IsFull(q)
=============================================================================
