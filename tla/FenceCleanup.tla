---------------------------- MODULE FenceCleanup ----------------------------
(* The thread of the camera HAL that closes leaked sync_fence descriptors      *)
(* (src/camera/MochaCameraHAL.cpp, namespace fence_cleanup), while the rest of *)
(* the process opens and closes descriptors of its own.                        *)
EXTENDS Integers, FiniteSets, FiniteSetsExt

CONSTANTS Fds,          \* descriptor numbers, 0 .. n
          Threshold,    \* the fences that are left alone (200)
          MaxArrivals   \* bound on the fences that arrive in one round

VARIABLES fdt,      \* the descriptor table: "free", "fence" or "file"
          acqFd,    \* the number of a request's acquire fence that a capture will close, or -1
          sweep,    \* the thread: [pc, at, fenceCount, closed]
          arrived,  \* ghost: fences that came since the count began
          mine,     \* ghost: the files that the rest of the process has open
          reused    \* ghost: those that got a number which somebody was still about to close

fenceVars == <<fdt, acqFd, sweep, arrived, mine, reused>>

Asleep == [pc |-> "sleep", at |-> 0, fenceCount |-> 0, closed |-> 0]

FenceInit == /\ fdt = [f \in Fds |-> "free"] /\ acqFd = -1 /\ sweep = Asleep
             /\ arrived = 0 /\ mine = {} /\ reused = {}

Fences == {f \in Fds : fdt[f] = "fence"}
FreeFds == {f \in Fds : fdt[f] = "free"}
\* The kernel gives out the lowest free number.
OpenedAs(kind) == FreeFds # {} /\ fdt' = [fdt EXCEPT ![Min(FreeFds)] = kind]

\* The fence of a captured frame, which nobody closes, or the one of a request's buffer ...
NewFence(own) ==
  /\ OpenedAs("fence") /\ arrived < MaxArrivals /\ arrived' = arrived + 1
  /\ IF own THEN acqFd = -1 /\ acqFd' = Min(FreeFds) ELSE UNCHANGED acqFd
  /\ UNCHANGED <<sweep, mine, reused>>

\* ... that the capture closes, whatever its number stands for by then.
CloseAcquire ==
  /\ acqFd # -1 /\ acqFd' = -1
  /\ fdt' = [fdt EXCEPT ![acqFd] = "free"]
  /\ UNCHANGED <<sweep, arrived, mine, reused>>

\* The rest of the process.
OpenFile ==
  /\ OpenedAs("file") /\ mine = {}
  /\ mine' = {Min(FreeFds)}
  /\ reused' = mine' \cap ({acqFd} \cup IF sweep.pc = "close" THEN {sweep.at} ELSE {})
  /\ UNCHANGED <<acqFd, sweep, arrived>>
CloseFile ==
  /\ mine # {} /\ mine' = {} /\ reused' = {}
  /\ fdt' = [f \in Fds |-> IF f \in mine THEN "free" ELSE fdt[f]]
  /\ UNCHANGED <<acqFd, sweep, arrived>>

\* After 15 seconds the directory is opened.
OpenDir ==
  /\ sweep.pc = "sleep"
  /\ sweep' = [Asleep EXCEPT !.pc = "count"]
  /\ arrived' = 0
  /\ UNCHANGED <<fdt, acqFd, mine, reused>>

\* readlink says anon_inode:sync_fence.
IsFence(f) == fdt[f] = "fence"

\* Pass 1, and what it decides.
CountFences ==
  /\ sweep.pc = "count"
  /\ sweep' = IF sweep.at \in Fds
              THEN [sweep EXCEPT !.at = @ + 1, !.fenceCount = IF IsFence(sweep.at) THEN @ + 1 ELSE @]
              ELSE IF sweep.fenceCount <= Threshold THEN Asleep
              ELSE [sweep EXCEPT !.pc = "look", !.at = 0]
  /\ UNCHANGED <<fdt, acqFd, arrived, mine, reused>>

\* Mutant: one descriptor too few.
toCloseLess == sweep.fenceCount - Threshold - 1

toClose == sweep.fenceCount - Threshold

\* Pass 2: a link is read, and its number closed if it names a fence.
ReadLink ==
  /\ sweep.pc = "look"
  /\ sweep' = IF sweep.at \notin Fds \/ sweep.closed >= toClose THEN Asleep
              ELSE IF IsFence(sweep.at) THEN [sweep EXCEPT !.pc = "close"]
              ELSE [sweep EXCEPT !.at = @ + 1]
  /\ UNCHANGED <<fdt, acqFd, arrived, mine, reused>>
CloseFence ==
  /\ sweep.pc = "close"
  /\ fdt' = [fdt EXCEPT ![sweep.at] = "free"]
  /\ sweep' = [sweep EXCEPT !.pc = "look", !.at = @ + 1, !.closed = @ + 1]
  /\ UNCHANGED <<acqFd, arrived, mine, reused>>

FenceNext ==
  \/ \E own \in BOOLEAN : NewFence(own)
  \/ CloseAcquire \/ OpenFile \/ CloseFile \/ OpenDir \/ CountFences \/ ReadLink \/ CloseFence

----------------------------------------------------------------------------
\* When the thread of fence_cleanup::loop goes back to sleep there are no more fences
\* than the threshold and those that came since its count began, although fences arrive
\* during both passes and take the numbers that it has just freed.
FencesBounded == sweep.pc = "sleep" => Cardinality(Fences) <= Threshold + arrived

\* Reading a link and closing its number are two steps, and numbers are used again at once:
\* a file of the process can only be closed under it when it got the number of a fence that
\* the thread or the fence's owner was still about to close.  (The thread also takes fences
\* that are in use: new ones get the lowest numbers, and pass 2 starts there.)
FilesTakenOnlyByReuse == \A f \in mine : fdt[f] = "file" \/ f \in reused

\* A round of fence_cleanup closes enough, and nothing but fences.
ClosesOnlyFences == FencesBounded /\ FilesTakenOnlyByReuse
=============================================================================
