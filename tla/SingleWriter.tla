---------------------------- MODULE SingleWriter ----------------------------
(***************************************************************************)
(* What the handoff promises about a data dir, whatever fails: it has at   *)
(* most one writer, the owner; a process becomes the owner only while      *)
(* there is none; and it stops being the owner only by sealing its writer  *)
(* or by ending.  No step hands the data dir from one writer to the next.  *)
(***************************************************************************)
CONSTANTS Proc, None

VARIABLES
    owner,      \* the owner of the data dir, or None
    status      \* fresh, writing, sealed or gone, for each process

Init ==
    /\ owner = None
    /\ status = [p \in Proc |-> "fresh"]

\* DataDirLock::acquire succeeds and the process opens, or resumes, its writer.
Claim(p) ==
    /\ owner = None
    /\ status[p] \in {"fresh", "sealed"}
    /\ owner' = p
    /\ status' = [status EXCEPT ![p] = "writing"]

\* Drainable::seal closes the writer and the DataDirLock is dropped.
Seal(p) ==
    /\ owner = p
    /\ status[p] = "writing"
    /\ owner' = None
    /\ status' = [status EXCEPT ![p] = "sealed"]

\* The process ends; the kernel releases what it held.
Leave(p) ==
    /\ status[p] # "gone"
    /\ owner' = IF owner = p THEN None ELSE owner
    /\ status' = [status EXCEPT ![p] = "gone"]

Next == \E p \in Proc : Claim(p) \/ Seal(p) \/ Leave(p)

Spec == Init /\ [][Next]_<<owner, status>>
=============================================================================
