----------------------------- MODULE MCMultiHal -----------------------------
(* A small sensor multi-HAL for TLC. *)
EXTENDS MultiHal

CONSTANTS good, bad      \* a registered and an unregistered local handle

MCHandles == {good, bad}
MCGood == {good}

\* Every sub-HAL registers the handle good; global handles count from 1.
MCFullToGlobal == [f \in Subs \X {good} |-> f[1] + 1]

MCNoMeta == {FALSE}
MCMeta == {TRUE}
=============================================================================
