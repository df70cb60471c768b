------------------------------ MODULE CondVar ------------------------------
(* The condition variable of libmocha_libc (src/libmocha/bionic/pthread_cond.cpp): *)
(* a word with two flags and a counter, and a futex.                           *)
EXTENDS Integers, FiniteSets

CONSTANTS Waiters,    \* threads that wait
          Attrs,      \* values of the attributes: flags 0 .. 3
          Counters,   \* the counter's modulus (2^30)
          MaxPulses   \* bound on the pulses between a thread's load and its futex call

STEP == 4
FLAGS == 4

ASSUME CountersAssumption ==
  /\ Attrs \subseteq 0 .. FLAGS - 1 /\ "nobody" \notin Waiters
  /\ MaxPulses \in Nat /\ Counters \in Nat /\ MaxPulses < Counters

VARIABLES word,   \* cond->state
          flags,  \* the attributes it was made with
          wpc,    \* per thread: "run" (holds or wants the mutex), "loaded", "futex", "asleep", "awake"
          old,    \* per thread: old_state
          owner,  \* the owner of the mutex, or "nobody"
          result, \* per thread: what its last wait returned
          pulsed, \* ghost: the waiting threads that a broadcast came for after their load
          pulse,  \* what the pulsing thread has counted but not yet woken: "none", "one" or "all"
          pulses  \* ghost: pulses since the oldest load that has not reached the futex

condVars == <<word, flags, wpc, old, owner, result, pulsed, pulse, pulses>>

CondInit ==
  /\ flags \in Attrs /\ word = flags
  /\ wpc = [t \in Waiters |-> "run"] /\ old = [t \in Waiters |-> 0]
  /\ owner = "nobody" /\ result = [t \in Waiters |-> "none"]
  /\ pulsed = {} /\ pulse = "none" /\ pulses = 0

Waiting == {t \in Waiters : wpc[t] # "run"}
InFlight == {t \in Waiters : wpc[t] \in {"loaded", "futex"}}

Lock(t) ==
  /\ wpc[t] = "run" /\ owner = "nobody" /\ owner' = t
  /\ UNCHANGED <<word, flags, wpc, old, result, pulsed, pulse, pulses>>

\* The absolute time is over already: the mutex was never given up.
LateOwner(t) == t
timedwait_late(t) ==
  /\ wpc[t] = "run" /\ owner = t /\ owner' = LateOwner(t)
  /\ result' = [result EXCEPT ![t] = "ETIMEDOUT"]
  /\ UNCHANGED <<word, flags, wpc, old, pulsed, pulse, pulses>>

\* __pthread_cond_timedwait_relative: the load, the unlock, the futex, the lock.
LoadState(t) ==
  /\ wpc[t] = "run" /\ owner = t
  /\ old' = [old EXCEPT ![t] = word]
  /\ wpc' = [wpc EXCEPT ![t] = "loaded"]
  /\ result' = [result EXCEPT ![t] = "none"]
  /\ pulsed' = pulsed \ {t}
  /\ UNCHANGED <<word, flags, owner, pulse, pulses>>
UnlockMutex(t) ==
  /\ wpc[t] = "loaded" /\ owner' = "nobody"
  /\ wpc' = [wpc EXCEPT ![t] = "futex"]
  /\ UNCHANGED <<word, flags, old, result, pulsed, pulse, pulses>>
futex_wait(t) ==
  /\ wpc[t] = "futex"
  /\ wpc' = [wpc EXCEPT ![t] = IF word = old[t] THEN "asleep" ELSE "awake"]
  /\ pulses' = IF InFlight = {t} THEN 0 ELSE pulses
  /\ UNCHANGED <<word, flags, old, owner, result, pulsed, pulse>>
\* A time-out, or a signal of the system.
WakeUp(t) ==
  /\ wpc[t] = "asleep"
  /\ wpc' = [wpc EXCEPT ![t] = "awake"]
  /\ \E r \in {"OK", "ETIMEDOUT"} : result' = [result EXCEPT ![t] = r]
  /\ UNCHANGED <<word, flags, old, owner, pulsed, pulse, pulses>>
LockMutex(t) ==
  /\ wpc[t] = "awake" /\ owner = "nobody" /\ owner' = t
  /\ wpc' = [wpc EXCEPT ![t] = "run"] /\ old' = [old EXCEPT ![t] = 0]
  /\ pulsed' = pulsed \ {t}
  /\ result' = [result EXCEPT ![t] = IF @ = "none" THEN "OK" ELSE @]
  /\ UNCHANGED <<word, flags, pulse, pulses>>

UnlockAfter(t) ==
  /\ wpc[t] = "run" /\ owner = t /\ owner' = "nobody"
  /\ result' = [result EXCEPT ![t] = "none"]
  /\ UNCHANGED <<word, flags, wpc, old, pulsed, pulse, pulses>>

\* Mutant: the counter stays.
NotCounted(w) == w
\* atomic_fetch_add: the flags stay as they are, the counter overflows.
Counted(w) == (w + STEP) % (FLAGS * Counters)

\* __pthread_cond_pulse: the word is counted up, and then so many sleepers are woken.
CountUp(n) ==
  /\ pulse = "none" /\ pulses < MaxPulses
  /\ word' = Counted(word) /\ pulse' = n
  /\ pulsed' = IF n = "all" THEN pulsed \cup Waiting ELSE pulsed
  /\ pulses' = IF InFlight = {} THEN 0 ELSE pulses + 1
  /\ UNCHANGED <<flags, wpc, old, owner, result>>
futex_wake ==
  /\ pulse # "none" /\ pulse' = "none"
  /\ LET asleep == {t \in Waiters : wpc[t] = "asleep"} IN
     \E woken \in SUBSET asleep :
       /\ IF pulse = "all" THEN woken = asleep ELSE Cardinality(woken) = IF asleep = {} THEN 0 ELSE 1
       /\ wpc' = [t \in Waiters |-> IF t \in woken THEN "awake" ELSE wpc[t]]
  /\ UNCHANGED <<word, flags, old, owner, result, pulsed, pulses>>

pthread_cond_broadcast == CountUp("all")
pthread_cond_signal == CountUp("one")

CondNext ==
  \/ pthread_cond_broadcast \/ pthread_cond_signal \/ futex_wake
  \/ \E t \in Waiters :
       \/ Lock(t) \/ timedwait_late(t) \/ LoadState(t) \/ UnlockMutex(t) \/ futex_wait(t)
       \/ WakeUp(t) \/ LockMutex(t) \/ UnlockAfter(t)
CondSpec == CondInit /\ [][CondNext]_condVars

----------------------------------------------------------------------------
\* No wake-up is lost: a thread that began to wait before a broadcast does not sleep once it
\* is over, wherever between its load, its unlock and its futex call the broadcast came, as long
\* as the counter has not gone round in between.
BroadcastWakes == pulse = "none" => \A t \in pulsed : wpc[t] # "asleep"

\* The flags (shared between processes, monotonic clock) stay as pthread_cond_init set
\* them when the counter overflows.
FlagsKept == word % FLAGS = flags

\* Every wait, the late one too, returns with the mutex of its caller.
ReturnsWithMutex == \A t \in Waiters : wpc[t] = "run" /\ result[t] # "none" => owner = t

\* The condition variable: no wake-up lost, no flag changed, no return without the mutex.
WaitsSound == BroadcastWakes /\ FlagsKept /\ ReturnsWithMutex
=============================================================================
