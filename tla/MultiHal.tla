------------------------------ MODULE MultiHal ------------------------------
(***************************************************************************)
(* The event path of the sensor multi-HAL, src/sensors/multihal.cpp: one   *)
(* writer thread per sub-HAL (writerTask) fills that sub-HAL's queue, and  *)
(* the framework's poll() drains all queues round robin.  queue_mutex      *)
(* protects the queues; the sub-HAL writes its records into the data array *)
(* without holding it.  A writer's critical sections touch only what the   *)
(* mutex protects and are one step each; poll() keeps the mutex over many. *)
(***************************************************************************)
EXTENDS SensorEventQueue, Sequences, FiniteSets

CONSTANTS NumSubs,       \* how many sub-HALs are open (queues.size())
          LocalHandles,  \* the local sensor handles a record may carry
          full_to_global,\* <<sub, local handle>> -> global handle, after lazy_init_sensors_list
          MetaKinds,     \* whether a record may be a SENSOR_TYPE_META_DATA one
          MaxReads,      \* bound on the count the framework passes to poll()
          MaxEvents      \* bound on the records each sub-HAL ever produces

Subs == 0 .. NumSubs - 1

ASSUME MultiHalAssumption ==
  /\ NumSubs \in Nat \ {0}
  /\ MaxReads \in Nat \ {0}
  /\ MaxEvents \in Nat
  /\ MetaKinds \subseteq BOOLEAN
  /\ DOMAIN full_to_global \subseteq Subs \X LocalHandles
  /\ \A h \in DOMAIN full_to_global : full_to_global[h] \in Nat \ {0}

\* A record: the how-manieth of its sub-HAL it is, its local handle (the
\* nested one for a meta-data record) and whether it is a meta-data record.
Event == [seq : 1 .. MaxEvents, sensor : LocalHandles, meta : MetaKinds]

NoEvent == [seq |-> 0]      \* what new sensors_event_t[] leaves in a slot

VARIABLES
  queue,            \* queue[s]: mStart and mSize of the queue of s
  mData,            \* mData[s]: its data array
  mutex,            \* holder of queue_mutex: "none" or "poll"
  wpc,              \* wpc[s]: where writerTask of s is
  region,           \* region[s]: buffer and bufferSize of writerTask
  written,          \* written[s]: records device->poll has stored in the region
  rpc,              \* where poll() is
  maxReads, empties, nextReadIndex,   \* the variables of poll()
  data,             \* the eventsRead records poll() has put in the framework's buffer
  waiting_for_data, \* the global flag
  spaceWaiters,     \* writers blocked on mSpaceAvailableCondition
  dataWaiter,       \* poll() is blocked on data_available_cond
  consumed,         \* consumed[s]: records of s taken by poll()
  overtaken         \* overtaken[s]: records taken from others while s had one

writerVars == <<wpc, region, written, spaceWaiters>>
readerVars == <<rpc, maxReads, empties, nextReadIndex, data>>
ghostVars  == <<consumed, overtaken>>
vars == <<queue, mData, mutex, writerVars, readerVars, waiting_for_data,
          dataWaiter, ghostVars>>

Init == /\ queue = [s \in Subs |-> EmptyQueue]
        /\ mData = [s \in Subs |-> [i \in Slots |-> NoEvent]]
        /\ mutex = "none"
        /\ wpc = [s \in Subs |-> "claim"]
        /\ region = [s \in Subs |-> NoRegion]
        /\ written = [s \in Subs |-> 0]
        /\ rpc = "idle"
        /\ maxReads = 0 /\ empties = 0 /\ nextReadIndex = 0
        /\ data = <<>>
        /\ waiting_for_data = FALSE
        /\ spaceWaiters = {}
        /\ dataWaiter = FALSE
        /\ consumed = [s \in Subs |-> 0]
        /\ overtaken = [s \in Subs |-> 0]

-----------------------------------------------------------------------------
(* writerTask *)

\* How many records of s poll() will be able to read or has read.
Produced(s) == consumed[s] + queue[s].mSize

\* waitForSpace finds the queue full and blocks on its condition variable,
\* which gives queue_mutex back.
WaitForSpace(s) == /\ wpc[s] = "claim" /\ mutex = "none"
                   /\ IsFull(queue[s])
                   /\ wpc' = [wpc EXCEPT ![s] = "blocked"]
                   /\ spaceWaiters' = spaceWaiters \cup {s}
                   /\ UNCHANGED <<queue, mData, mutex, region, written, readerVars,
                                  waiting_for_data, dataWaiter, ghostVars>>

\* pthread_cond_wait returns after a broadcast; the loop then tests again.
SpaceWakeup(s) == /\ wpc[s] = "blocked" /\ s \notin spaceWaiters
                  /\ mutex = "none"
                  /\ wpc' = [wpc EXCEPT ![s] = "claim"]
                  /\ UNCHANGED <<queue, mData, mutex, region, written, spaceWaiters,
                                 readerVars, waiting_for_data, dataWaiter, ghostVars>>

\* There is space: claim a contiguous region and unlock.
ClaimRegion(s) == /\ wpc[s] = "claim" /\ mutex = "none"
                  /\ ~ IsFull(queue[s])
                  /\ region' = [region EXCEPT ![s] = getWritableRegion(queue[s], Capacity)]
                  /\ written' = [written EXCEPT ![s] = 0]
                  /\ wpc' = [wpc EXCEPT ![s] = "polling"]
                  /\ UNCHANGED <<queue, mData, mutex, spaceWaiters, readerVars,
                                 waiting_for_data, dataWaiter, ghostVars>>

\* The sub-HAL stores one more record into the region, without the mutex.
DeviceWrite(s) ==
  /\ wpc[s] = "polling"
  /\ written[s] < region[s].len
  /\ Produced(s) + written[s] < MaxEvents
  /\ \E h \in LocalHandles, m \in MetaKinds :
       mData' = [mData EXCEPT ![s][region[s].first + written[s]] =
                   [seq |-> Produced(s) + written[s] + 1, sensor |-> h, meta |-> m]]
  /\ written' = [written EXCEPT ![s] = @ + 1]
  /\ UNCHANGED <<queue, mutex, wpc, region, readerVars, waiting_for_data,
                 spaceWaiters, dataWaiter, ghostVars>>

\* device->poll returns the number of records it stored.
DeviceReturn(s) == /\ wpc[s] = "polling" /\ written[s] > 0
                   /\ wpc' = [wpc EXCEPT ![s] = "mark"]
                   /\ UNCHANGED <<queue, mData, mutex, region, written, spaceWaiters,
                                  readerVars, waiting_for_data, dataWaiter, ghostVars>>

\* device->poll returns zero or an error, whatever it stored: continue.
DeviceFail(s) == /\ wpc[s] = "polling"
                 /\ wpc' = [wpc EXCEPT ![s] = "claim"]
                 /\ UNCHANGED <<queue, mData, mutex, region, written, spaceWaiters,
                                readerVars, waiting_for_data, dataWaiter, ghostVars>>

\* Publish the records and wake poll() if it says it is waiting.
MarkAsWritten(s) ==
  /\ wpc[s] = "mark" /\ mutex = "none"
  /\ queue' = [queue EXCEPT ![s] = markAsWritten(@, written[s])]
  /\ dataWaiter' = (dataWaiter /\ ~ waiting_for_data)
  /\ wpc' = [wpc EXCEPT ![s] = "claim"]
  /\ UNCHANGED <<mData, mutex, region, written, spaceWaiters, readerVars,
                 waiting_for_data, ghostVars>>

-----------------------------------------------------------------------------
(* sensors_poll_context_t::poll *)

eventsRead == Len(data)

\* get_global_handle: -1 for a handle nobody registered.
get_global_handle(s, h) ==
  IF <<s, h>> \in DOMAIN full_to_global THEN full_to_global[<<s, h>>] ELSE -1

\* copy_event_remap_handle: the handle of a meta-data record is nested, and
\* its own sensor field is 0.
copy_event_remap_handle(s, e) ==
  IF e.meta
  THEN [sub |-> s, seq |-> e.seq, sensor |-> 0, nested |-> get_global_handle(s, e.sensor)]
  ELSE [sub |-> s, seq |-> e.seq, sensor |-> get_global_handle(s, e.sensor), nested |-> 0]

\* The framework calls poll(), which locks queue_mutex.
PollEnter == /\ rpc = "idle" /\ mutex = "none"
             /\ mutex' = "poll"
             /\ maxReads' \in 1 .. MaxReads
             /\ empties' = 0
             /\ data' = <<>>
             /\ rpc' = "scan"
             /\ UNCHANGED <<queue, mData, writerVars, nextReadIndex, waiting_for_data,
                            dataWaiter, ghostVars>>

Scanning == rpc = "scan" /\ empties < NumSubs /\ eventsRead < maxReads

\* Mutant: poll() stays with the queue it read from.
NextIndexSticky(took) == IF took THEN nextReadIndex ELSE (nextReadIndex + 1) % NumSubs

\* nextReadIndex moves on after a queue was looked at, read from or not.
NextIndex(took) == (nextReadIndex + 1) % NumSubs

\* The queue at nextReadIndex is empty.
PollSkip == /\ Scanning
            /\ ~ HasRecord(queue[nextReadIndex])
            /\ empties' = empties + 1
            /\ nextReadIndex' = NextIndex(FALSE)
            /\ UNCHANGED <<queue, mData, mutex, writerVars, rpc, maxReads, data,
                           waiting_for_data, dataWaiter, ghostVars>>

\* It has a record: copy it, keep the copy unless its handle is bad, dequeue.
PollTake ==
  LET s == nextReadIndex
      e == copy_event_remap_handle(s, mData[s][queue[s].mStart])
  IN /\ Scanning
     /\ HasRecord(queue[s])
     /\ empties' = 0
     /\ data' = IF e.sensor = -1 THEN data ELSE Append(data, e)
     /\ queue' = [queue EXCEPT ![s] = dequeue(@)]
     /\ spaceWaiters' = IF DequeueBroadcasts(queue[s]) THEN spaceWaiters \ {s}
                        ELSE spaceWaiters
     /\ nextReadIndex' = NextIndex(TRUE)
     /\ consumed' = [consumed EXCEPT ![s] = @ + 1]
     /\ overtaken' = [t \in Subs |-> IF t # s /\ HasRecord(queue[t])
                                     THEN overtaken[t] + 1 ELSE 0]
     /\ UNCHANGED <<mData, mutex, wpc, region, written, rpc, maxReads,
                    waiting_for_data, dataWaiter>>

\* Mutant: poll() waits without raising the flag the writers look at.
PollWaitNoFlag ==
  /\ rpc = "scan" /\ ~ Scanning /\ eventsRead = 0
  /\ dataWaiter' = TRUE
  /\ mutex' = "none"
  /\ rpc' = "wait"
  /\ UNCHANGED <<queue, mData, writerVars, maxReads, empties, nextReadIndex, data,
                 waiting_for_data, ghostVars>>

\* Every queue was found empty: raise the flag and wait.
PollWait == /\ rpc = "scan" /\ ~ Scanning /\ eventsRead = 0
            /\ waiting_for_data' = TRUE
            /\ dataWaiter' = TRUE
            /\ mutex' = "none"
            /\ rpc' = "wait"
            /\ UNCHANGED <<queue, mData, writerVars, maxReads, empties, nextReadIndex,
                           data, ghostVars>>

\* pthread_cond_wait returns with the mutex.
PollWakeup == /\ rpc = "wait" /\ ~ dataWaiter /\ mutex = "none"
              /\ mutex' = "poll"
              /\ waiting_for_data' = FALSE
              /\ empties' = 0
              /\ rpc' = "scan"
              /\ UNCHANGED <<queue, mData, writerVars, maxReads, nextReadIndex, data,
                             dataWaiter, ghostVars>>

PollReturn == /\ rpc = "scan" /\ ~ Scanning /\ eventsRead # 0
              /\ mutex' = "none"
              /\ rpc' = "idle"
              /\ UNCHANGED <<queue, mData, writerVars, maxReads, empties, nextReadIndex,
                             data, waiting_for_data, dataWaiter, ghostVars>>

\* pthread_cond_wait may also return without a broadcast.
SpuriousWakeup == /\ \/ dataWaiter /\ dataWaiter' = FALSE /\ UNCHANGED spaceWaiters
                     \/ \E s \in spaceWaiters : /\ spaceWaiters' = spaceWaiters \ {s}
                                                /\ UNCHANGED dataWaiter
                  /\ UNCHANGED <<queue, mData, mutex, wpc, region, written, readerVars,
                                 waiting_for_data, ghostVars>>

-----------------------------------------------------------------------------
Writer(s) == \/ WaitForSpace(s) \/ SpaceWakeup(s) \/ ClaimRegion(s)
             \/ DeviceWrite(s) \/ DeviceReturn(s) \/ DeviceFail(s) \/ MarkAsWritten(s)

Poller == \/ PollEnter \/ PollSkip \/ PollTake
          \/ PollWait \/ PollWakeup \/ PollReturn

Next == (\E s \in Subs : Writer(s)) \/ Poller \/ SpuriousWakeup

Spec == Init /\ [][Next]_vars

\* The threads run whenever they can; a thread that waits for queue_mutex gets
\* it if it is free again and again.  Nothing makes a sub-HAL produce records,
\* the framework call poll(), or a condition variable wake spuriously.
Fairness == /\ \A s \in Subs : /\ SF_vars(SpaceWakeup(s))
                               /\ SF_vars(ClaimRegion(s)) /\ SF_vars(WaitForSpace(s))
                               /\ SF_vars(MarkAsWritten(s))
            /\ WF_vars(PollSkip) /\ WF_vars(PollTake)
            /\ WF_vars(PollWait) /\ WF_vars(PollReturn)
            /\ SF_vars(PollWakeup)

FairSpec == Spec /\ Fairness

-----------------------------------------------------------------------------
(* Properties *)

WriterStates == {"claim", "blocked", "polling", "mark"}

\* The type of every variable.  The bounds on mStart, mSize and the region say
\* that SensorEventQueue.cpp never indexes outside its data array.
TypeOK == /\ queue \in [Subs -> Queue]
          /\ mData \in [Subs -> [Slots -> Event \cup {NoEvent}]]
          /\ mutex \in {"none", "poll"}
          /\ wpc \in [Subs -> WriterStates]
          /\ region \in [Subs -> [first : Slots, len : 0 .. Capacity]]
          /\ written \in [Subs -> 0 .. Capacity]
          /\ rpc \in {"idle", "scan", "wait"}
          /\ maxReads \in 0 .. MaxReads
          /\ empties \in 0 .. NumSubs
          /\ nextReadIndex \in Subs
          /\ data \in Seq([sub : Subs, seq : 0 .. MaxEvents, sensor : Int, nested : Int])
          /\ waiting_for_data \in BOOLEAN
          /\ spaceWaiters \subseteq Subs
          /\ dataWaiter \in BOOLEAN
          /\ consumed \in [Subs -> 0 .. MaxEvents]
          /\ overtaken \in [Subs -> Nat]

\* Writer s has a region that its sub-HAL may be writing to.
Claimed(s) == wpc[s] \in {"polling", "mark"}

\* The slots a sub-HAL writes without the lock are never slots that poll() may
\* read meanwhile: the thread-safety claim of SensorEventQueue.h, for which
\* getWritableRegion, markAsWritten and dequeue must agree on the region
\* however many records are dequeued while the sub-HAL is writing.
NoOverlap == \A s \in Subs : Claimed(s) =>
               /\ RegionSlots(region[s]) \subseteq Slots
               /\ RegionSlots(region[s]) \cap Readable(queue[s]) = {}

\* A writer that got past waitForSpace asks its sub-HAL for at least one
\* record: the header's "if there is any writable space, it will return a
\* region of at least one".
RegionNotEmpty == \A s \in Subs : Claimed(s) => region[s].len >= 1

\* The readable records of a queue are, in order, the ones that follow those
\* poll() has already taken: none lost, repeated, reordered or overwritten.
FifoContents == \A s \in Subs : \A i \in 0 .. queue[s].mSize - 1 :
                  mData[s][SlotAt(queue[s], i)].seq = consumed[s] + i + 1

\* No wakeup is lost: poll() sleeps only while every queue is empty, and a
\* writer sleeps only while its own queue is full.
NoLostWakeup == /\ dataWaiter => \A s \in Subs : queue[s].mSize = 0
                /\ \A s \in spaceWaiters : IsFull(queue[s])

\* poll() reads the queues in turn, also across calls: while a queue has a
\* record, no other queue is read from twice.
NotStarved == \A s \in Subs : overtaken[s] <= NumSubs - 1

\* The parts of the inductive invariant behind NoOverlap, FifoContents and
\* NoLostWakeup.  The mutex is held exactly while poll() scans:
MutexInv == (mutex = "poll") <=> (rpc = "scan")

\* a claimed region begins right behind the last readable record and ends
\* before the array does and before the free slots do;
RegionInv == \A s \in Subs : Claimed(s) =>
               /\ region[s].first = SlotAt(queue[s], queue[s].mSize)
               /\ region[s].first + region[s].len <= Capacity
               /\ queue[s].mSize + region[s].len <= Capacity
               /\ region[s].len >= 1
               /\ written[s] <= region[s].len
               /\ wpc[s] = "mark" => written[s] >= 1

\* the records stored there so far are the next ones of their sub-HAL;
PendingInv == \A s \in Subs :
                /\ Produced(s) <= MaxEvents
                /\ Claimed(s) =>
                     /\ Produced(s) + written[s] <= MaxEvents
                     /\ \A j \in 0 .. written[s] - 1 :
                          mData[s][region[s].first + j].seq = Produced(s) + j + 1

\* and who sleeps is where the code sleeps, with the flag raised.
SleepInv == /\ dataWaiter => rpc = "wait" /\ waiting_for_data
            /\ \A s \in spaceWaiters : wpc[s] = "blocked"

\* The last empties queues that the scan looked at are still empty, because it
\* holds the mutex.
Behind(s) == IF s < nextReadIndex THEN nextReadIndex - s
             ELSE (nextReadIndex - s) + NumSubs

ScanInv == /\ rpc # "idle" => maxReads >= 1
           /\ rpc = "scan" =>
                \A s \in Subs : Behind(s) <= empties => queue[s].mSize = 0

IInv == /\ TypeOK /\ MutexInv /\ RegionInv /\ PendingInv /\ SleepInv /\ ScanInv
        /\ FifoContents /\ NoLostWakeup

\* copy_event_remap_handle and the test after it keep every record whose
\* sensor nobody registered away from the framework, as the comment "Bad
\* handle, do not pass corrupted event upstream !" says.
NoBadHandleUpstream ==
  \A i \in 1 .. Len(data) : data[i].sensor # -1 /\ data[i].nested # -1

\* Each queue with its data array is a bounded lossless FIFO channel; a
\* sub-HAL's writes outside the lock change nothing a reader could see.
Contents == [s \in Subs |-> [i \in 1 .. queue[s].mSize |-> mData[s][SlotAt(queue[s], i - 1)]]]

Channel == INSTANCE SensorChannel WITH Bound <- Capacity, chan <- Contents

ImplementsChannel == Channel!Spec

\* A poll() that sleeps while there is a record wakes up and scans.
PollWakes == (rpc = "wait" /\ \E s \in Subs : HasRecord(queue[s])) ~> (rpc = "scan")

\* A writer that found its queue full gets a region once there is space, unless
\* the queue becomes full again.
WriterResumes == \A s \in Subs : (wpc[s] = "blocked" /\ ~ IsFull(queue[s]))
                                   ~> (wpc[s] = "polling" \/ IsFull(queue[s]))
=============================================================================
