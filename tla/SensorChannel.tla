--------------------------- MODULE SensorChannel ---------------------------
(***************************************************************************)
(* What the queues of the sensor multi-HAL promise: each sub-HAL has a     *)
(* bounded, lossless first-in first-out channel to the poller.  Records    *)
(* enter at the back in groups, leave at the front one at a time, and      *)
(* nothing else ever happens to them.                                      *)
(***************************************************************************)
EXTENDS Integers, Sequences

CONSTANTS Subs,       \* the sub-HALs
          Bound       \* how many records a channel can hold

VARIABLE chan         \* chan[s]: the records written by s and not yet read

Init == chan = [s \in Subs |-> <<>>]

\* Sub-HAL s adds one or more records behind those already in its channel.
Put(s) == /\ Len(chan'[s]) \in Len(chan[s]) + 1 .. Bound
          /\ \A i \in 1 .. Len(chan[s]) : chan'[s][i] = chan[s][i]
          /\ \A t \in Subs \ {s} : chan'[t] = chan[t]

\* The poller takes the oldest record of s.
Get(s) == /\ chan[s] # <<>>
          /\ chan' = [chan EXCEPT ![s] = Tail(@)]

Next == \E s \in Subs : Put(s) \/ Get(s)

Spec == Init /\ [][Next]_chan
=============================================================================
