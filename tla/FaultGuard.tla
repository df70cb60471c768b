----------------------------- MODULE FaultGuard -----------------------------
(* The SIGSEGV/SIGBUS guard around the gralloc calls of the camera HAL         *)
(* (src/camera/MochaCameraHAL.cpp, namespace segv_guard and run_guarded), on   *)
(* several binder threads of one process.                                      *)
EXTENDS Integers

CONSTANT Binders   \* binder threads

VARIABLES gpc,      \* where a thread is: "outside", "set" (after sigsetjmp) or "guarded"
          armed,    \* the flag, per storage slot
          jmpbuf,   \* the thread whose frame the buffer of a slot leads to
          caught,   \* whether a thread's last guarded call ended in -EFAULT
          handler,  \* the disposition of the signal: "default" or "guard"
          died      \* where the thread that ended the process was, or "" while it runs

guardVars == <<gpc, armed, jmpbuf, caught, handler, died>>

GuardInit ==
  /\ gpc = [b \in Binders |-> "outside"]
  /\ armed = [b \in Binders |-> FALSE] /\ jmpbuf = [b \in Binders |-> b]
  /\ caught = [b \in Binders |-> FALSE]
  /\ handler = "default" /\ died = ""

\* Mutant: jmpbuf and armed are plain statics.
SharedSlot(b) == CHOOSE s \in Binders : TRUE

\* jmpbuf and armed are __thread.
Slot(b) == b

\* ensure_installed, and sigsetjmp the first time.
RunGuarded(b) ==
  /\ died = "" /\ gpc[b] = "outside"
  /\ handler' = "guard"
  /\ jmpbuf' = [jmpbuf EXCEPT ![Slot(b)] = b]
  /\ gpc' = [gpc EXCEPT ![b] = "set"]
  /\ caught' = [caught EXCEPT ![b] = FALSE]
  /\ UNCHANGED <<armed, died>>

Arm(b) ==
  /\ died = "" /\ gpc[b] = "set"
  /\ armed' = [armed EXCEPT ![Slot(b)] = TRUE]
  /\ gpc' = [gpc EXCEPT ![b] = "guarded"]
  /\ UNCHANGED <<jmpbuf, caught, handler, died>>

\* The function came to its end.
Completes(b) ==
  /\ died = "" /\ gpc[b] = "guarded"
  /\ armed' = [armed EXCEPT ![Slot(b)] = FALSE]
  /\ gpc' = [gpc EXCEPT ![b] = "outside"]
  /\ UNCHANGED <<jmpbuf, caught, handler, died>>

\* The flag after siglongjmp.
AfterFault(b) == FALSE

\* A fault, in the guarded code or elsewhere: the handler looks at the flag, and jumps to
\* the frame of the buffer, or restores the default and raises the signal again.
SegFault(b) ==
  /\ died = "" /\ gpc[b] # "set"
  /\ IF handler = "guard" /\ armed[Slot(b)]
     THEN LET f == jmpbuf[Slot(b)] IN
          /\ armed' = [armed EXCEPT ![Slot(f)] = AfterFault(f)]
          /\ gpc' = [gpc EXCEPT ![f] = "outside"]
          /\ caught' = [caught EXCEPT ![f] = TRUE]
          /\ UNCHANGED <<handler, died>>
     ELSE /\ died' = gpc[b] /\ handler' = "default"
          /\ UNCHANGED <<gpc, armed, caught>>
  /\ UNCHANGED jmpbuf

\* The provider is started again.
ProviderRestart ==
  /\ died # ""
  /\ gpc' = [b \in Binders |-> "outside"]
  /\ armed' = [b \in Binders |-> FALSE] /\ jmpbuf' = [b \in Binders |-> b]
  /\ caught' = [b \in Binders |-> FALSE]
  /\ handler' = "default" /\ died' = ""

GuardNext ==
  \/ ProviderRestart
  \/ \E b \in Binders : RunGuarded(b) \/ Arm(b) \/ Completes(b) \/ SegFault(b)

GuardSpec == GuardInit /\ [][GuardNext]_guardVars
----------------------------------------------------------------------------
\* A fault inside run_guarded never ends the process, whatever the guards of other threads
\* do at the time.
GuardedFaultSurvived == died # "guarded"

\* The flag of a thread is set only while it is in the guarded call, also after a caught
\* fault, so that a fault anywhere else ends the process and leaves a tombstone.
ArmedOnlyInside == \A b \in Binders : armed[Slot(b)] => gpc[b] = "guarded"

\* run_guarded catches the faults of its own section, all of them and no others.
GuardSound == GuardedFaultSurvived /\ ArmedOnlyInside
=============================================================================
