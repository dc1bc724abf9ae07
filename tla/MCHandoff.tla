----------------------------- MODULE MCHandoff ------------------------------
(***************************************************************************)
(* Small instances of Handoff.                                             *)
(***************************************************************************)
EXTENDS HandoffInvariant, TLC

\* Processes are interchangeable.
Symmetry == Permutations(Proc)

\* The system may rest: S idle or down (or out of connections to probe with),
\* every live primitive waiting in accept.  Any other stop is a deadlock.
Quiescent ==
    /\ spc \in {"idle", "down", "boot"}
    /\ \A p \in Proc : pc[p] \in {"unborn", "dead", "accept"}
    /\ UNCHANGED vars

MCSpec == Init /\ [][Next \/ Quiescent]_vars
MCSupervisorFairSpec == MCSpec /\ SupervisorFairness
MCFairSpec == MCSupervisorFairSpec /\ PrimitiveFairness
=============================================================================
