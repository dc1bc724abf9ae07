---------------------------- MODULE InheritedFds ----------------------------
(***************************************************************************)
(* The descriptor table of a child between fork and exec:                  *)
(* install_inherited_fds, which puts the listeners and the control socket  *)
(* at 3, 4, ... whatever numbers they have in the supervisor.              *)
(***************************************************************************)
EXTENDS Integers, Sequences

CONSTANTS
    File,       \* open file descriptions
    Closed,     \* what an unused descriptor refers to
    MaxFd       \* the highest descriptor the limits allow

ASSUME FdAssumption == Closed \notin File /\ MaxFd \in Nat

VARIABLES
    stage,      \* where the child is; "idle" when there is none before its exec
    table,      \* its descriptors from 3 on
    cloexec,    \* those that exec closes
    working,    \* the slice install_inherited_fds works on
    slot,       \* the loop index of the current stage
    forked,     \* auxiliary: the table at the fork,
    kept,       \* the descriptors exec did not close then,
    sources     \* and working

forkVars == <<forked, kept, sources>>
fdVars == <<stage, table, cloexec, working, slot, forkVars>>

Fd == 3..MaxFd
Table == [Fd -> File \cup {Closed}]
n == Len(working)
Target(k) == 2 + k              \* SD_LISTEN_FDS_START + i, counting from 1
IsOpen(t, f) == t[f] # Closed

FdTypeOK ==
    /\ stage \in {"idle", "lift", "settle", "close", "exec", "done", "failed"}
    /\ table \in Table /\ forked \in Table
    /\ cloexec \subseteq Fd /\ kept \subseteq Fd
    /\ working \in Seq(Fd) /\ sources \in Seq(Fd)
    /\ slot \in Nat

\* What pre_exec is handed: descriptors that are open in the supervisor.
CanPass(t, src) == t \in Table /\ src \in Seq(Fd) /\ \A k \in 1..Len(src) : IsOpen(t, src[k])

NoChild ==
    /\ stage = "idle" /\ cloexec = {} /\ kept = {} /\ slot = 0
    /\ working = <<>> /\ sources = <<>>
    /\ table = [f \in Fd |-> Closed] /\ forked = table

\* fork: the child has a copy of the table and of working.
Fork(t, ce, src) ==
    /\ stage = "idle"
    /\ CanPass(t, src)
    /\ ce \subseteq Fd
    /\ stage' = IF src = <<>> THEN "exec" ELSE "lift"
    /\ table' = t /\ forked' = t /\ cloexec' = ce /\ kept' = Fd \ ce
    /\ working' = src /\ sources' = src
    /\ slot' = 1

\* Seeded fault: staging_min one short, so that the last target can be a stage.
StagingMin_OffByOne == 2 + n

StagingMin == 3 + n

Loop(next) == IF slot < n THEN slot' = slot + 1 /\ UNCHANGED stage
                          ELSE slot' = 1 /\ stage' = next

\* Stage 1: F_DUPFD, which takes the lowest free descriptor from staging_min on, or
\* fails for want of one.
Lift ==
    /\ stage = "lift"
    /\ \E f \in StagingMin..MaxFd :
          /\ ~IsOpen(table, f) /\ \A g \in StagingMin..(f - 1) : IsOpen(table, g)
          /\ table' = [table EXCEPT ![f] = table[working[slot]]]
          /\ working' = [working EXCEPT ![slot] = f]
          /\ cloexec' = cloexec \ {f}
    /\ Loop("settle")
    /\ UNCHANGED forkVars

LiftFails ==
    /\ stage = "lift"
    /\ \A f \in StagingMin..MaxFd : IsOpen(table, f)
    /\ stage' = "failed"
    /\ UNCHANGED <<table, cloexec, working, slot, forkVars>>

\* Stage 2: dup2 to the target, open or not.
Settle ==
    /\ stage = "settle"
    /\ table' = [table EXCEPT ![Target(slot)] = table[working[slot]]]
    /\ cloexec' = cloexec \ {Target(slot)}
    /\ Loop("close")
    /\ UNCHANGED <<working, forkVars>>

\* Stage 3: close the staging duplicate.
CloseStaged ==
    /\ stage = "close"
    /\ table' = [table EXCEPT ![working[slot]] = Closed]
    /\ Loop("exec")
    /\ UNCHANGED <<cloexec, working, forkVars>>

Exec ==
    /\ stage = "exec"
    /\ stage' = "done"
    /\ table' = [f \in Fd |-> IF f \in cloexec THEN Closed ELSE table[f]]
    /\ UNCHANGED <<cloexec, working, slot, forkVars>>

\* There is no such binary.
ExecFails ==
    /\ stage = "exec"
    /\ stage' = "failed"
    /\ UNCHANGED <<table, cloexec, working, slot, forkVars>>

\* spawn returns in the supervisor.
Spawned ==
    /\ stage \in {"done", "failed"}
    /\ stage' = "idle" /\ cloexec' = {} /\ kept' = {} /\ slot' = 0
    /\ working' = <<>> /\ sources' = <<>>
    /\ table' = [f \in Fd |-> Closed] /\ forked' = [f \in Fd |-> Closed]

FdNext ==
    \/ \E t \in Table, ce \in SUBSET Fd, src \in Seq(Fd) : Fork(t, ce, src)
    \/ Lift \/ LiftFails \/ Settle \/ CloseStaged \/ Exec \/ ExecFails \/ Spawned

FdSpec == NoChild /\ [][FdNext]_fdVars
-----------------------------------------------------------------------------
Wanted(k) == forked[sources[k]]

\* A program starts with the sources in order at 3, 4, ... and, besides them, only
\* with what the supervisor itself leaves open across an exec: no source is
\* overwritten before it is in place, whatever its number, and no duplicate leaks.
ChildInheritsExactly ==
    stage = "done" =>
        /\ \A k \in 1..Len(sources) : Target(k) \in Fd
        /\ \A f \in Fd :
              table[f] = IF f - 2 \in 1..Len(sources) THEN Wanted(f - 2)
                         ELSE IF f \in kept THEN forked[f] ELSE Closed

\* Up to slot s the sources are at their targets.
Placed(s) ==
    \A k \in 1..s :
        Target(k) \in Fd /\ table[Target(k)] = Wanted(k) /\ Target(k) \notin cloexec

\* Every slot of working refers to its source, and up to slot s it is a duplicate
\* above the targets.
Lifted(s) ==
    /\ \A k \in 1..n : table[working[k]] = Wanted(k)
    /\ \A k \in 1..s : working[k] >= StagingMin /\ forked[working[k]] = Closed

Staged(a, b) == {working[k] : k \in a..b}
IsTarget(f) == f - 2 \in 1..n
Untouched(f) == table[f] = forked[f] /\ (f \in cloexec <=> f \notin kept)
Spare(f) == table[f] = Closed /\ forked[f] = Closed

\* In each stage of install_inherited_fds the sources that are not in place yet are
\* safe in working, and nothing else in the table has changed.
InstallInv ==
    /\ FdTypeOK
    /\ n = Len(sources)
    /\ \A k \in 1..n : Wanted(k) # Closed
    /\ stage \in {"lift", "settle", "close"} => slot \in 1..n
    /\ stage = "lift" =>
          /\ Lifted(slot - 1)
          /\ \A f \in Fd : f \notin Staged(1, slot - 1) => Untouched(f)
    /\ stage = "settle" =>
          /\ Lifted(n) /\ Placed(slot - 1)
          /\ \A f \in Fd : f \notin Staged(1, n) /\ ~IsTarget(f) => Untouched(f)
    /\ stage = "close" =>
          /\ Placed(n)
          /\ \A k \in 1..n : working[k] >= StagingMin /\ forked[working[k]] = Closed
          /\ \A f \in Fd : f \notin Staged(slot, n) /\ ~IsTarget(f) => Untouched(f) \/ Spare(f)
    /\ stage = "exec" =>
          /\ Placed(n)
          /\ \A f \in Fd : ~IsTarget(f) => Untouched(f) \/ Spare(f)
    /\ ChildInheritsExactly
=============================================================================
