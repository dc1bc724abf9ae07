---------------------------- MODULE DataDirLock -----------------------------
(***************************************************************************)
(* The writer lock of a data dir: a flock on <data_dir>/.handoff.lock and  *)
(* the pidfile next to it, one system call per step.                       *)
(*                                                                         *)
(* Handoff takes acquire and drop as single steps on the flock.  Here they *)
(* are taken apart: the lockfile is opened before it is locked, the holder *)
(* writes its pid after it has locked, and drop removes the pidfile before *)
(* the flock goes.  Processes die anywhere, and the kernel may give the    *)
(* pid of a dead one to the next.                                          *)
(***************************************************************************)
EXTENDS Naturals

CONSTANTS
    Proc,       \* processes that contend for the data dir
    Pid,        \* process ids the kernel hands out
    MaxFault    \* bound: deaths and failing I/O calls

ASSUME PidAssumption == Pid \subseteq Nat \ {0}
ASSUME FaultAssumption == MaxFault \in Nat

VARIABLES
    pid,        \* the pid of each process, 0 while it is not running
    pc,         \* the system call each process is about to make
    call,       \* the locals of its acquire or acquire_or_break_stale
    locked,     \* the inode its open file description has locked, or 0
    lockfile,   \* the inode .handoff.lock names, and whether it is linked
    pidfile,    \* the pid in .handoff.pidfile; 0 if absent
    faults

vars == <<pid, pc, call, locked, lockfile, pidfile, faults>>

\* A call: a plain acquire, or one of the two of acquire_or_break_stale; the
\* inode it has opened; holder_pid of its LockHeld.
Call == [attempt : {"acquire", "first", "retry"}, inode : Nat, holder : Pid \cup {0}]

NoCall == [attempt |-> "acquire", inode |-> 0, holder |-> 0]

\* From flock(2) to the close of the description.
Locking == {"write_pid", "sync_dir", "held", "release"}

TypeOK ==
    /\ pid \in [Proc -> Pid \cup {0}]
    /\ pc \in [Proc -> {"dead", "idle", "open", "flock", "read_pid", "check"} \cup Locking]
    /\ call \in [Proc -> Call]
    /\ locked \in [Proc -> Nat]
    /\ lockfile \in [inode : Nat, linked : BOOLEAN]
    /\ pidfile \in Pid \cup {0}
    /\ faults \in Nat

Init ==
    /\ pid = [p \in Proc |-> 0]
    /\ pc = [p \in Proc |-> "dead"]
    /\ call = [p \in Proc |-> NoCall]
    /\ locked = [p \in Proc |-> 0]
    /\ lockfile = [inode |-> 0, linked |-> FALSE]
    /\ pidfile = 0
    /\ faults = 0
-----------------------------------------------------------------------------
Goto(p, l) == pc' = [pc EXCEPT ![p] = l]

\* The call is over and its locals are gone.
Return(p, l) == Goto(p, l) /\ call' = [call EXCEPT ![p] = NoCall]

\* Closing the description releases the flock.
Unlock(p) == locked' = [locked EXCEPT ![p] = 0]

Fault == faults < MaxFault /\ faults' = faults + 1

\* kill(pid, 0): anything but ESRCH is a live process.
IsPidAlive(n) == n # 0 /\ \E q \in Proc : pid[q] = n

\* A process starts under any pid that no running process has.
Start(p) ==
    /\ pc[p] = "dead"
    /\ \E n \in Pid :
          /\ \A q \in Proc : pid[q] # n
          /\ pid' = [pid EXCEPT ![p] = n]
    /\ Goto(p, "idle")
    /\ UNCHANGED <<call, locked, lockfile, pidfile, faults>>

\* It dies at any point.  The kernel closes its descriptors; the pidfile stays.
Crash(p) ==
    /\ pc[p] # "dead"
    /\ Fault
    /\ pid' = [pid EXCEPT ![p] = 0]
    /\ Unlock(p)
    /\ Return(p, "dead")
    /\ UNCHANGED <<lockfile, pidfile>>

\* Seeded fault: the pidfile is believed before the flock is tried.
CallAcquire_TrustsPidfile(p, a) ==
    /\ pc[p] = "idle"
    /\ call' = [call EXCEPT ![p] = [NoCall EXCEPT !.attempt = a]]
    /\ Goto(p, IF IsPidAlive(pidfile) THEN "read_pid" ELSE "open")
    /\ UNCHANGED <<pid, locked, lockfile, pidfile, faults>>

\* The process calls acquire or acquire_or_break_stale.
CallAcquire(p, a) ==
    /\ pc[p] = "idle"
    /\ call' = [call EXCEPT ![p] = [NoCall EXCEPT !.attempt = a]]
    /\ Goto(p, "open")
    /\ UNCHANGED <<pid, locked, lockfile, pidfile, faults>>

\* open(2) with O_CREAT: the linked inode, or a new one.
OpenLockfile(p) ==
    /\ pc[p] = "open"
    /\ lockfile' = IF lockfile.linked THEN lockfile
                   ELSE [inode |-> lockfile.inode + 1, linked |-> TRUE]
    /\ call' = [call EXCEPT ![p].inode = lockfile'.inode]
    /\ Goto(p, "flock")
    /\ UNCHANGED <<pid, locked, pidfile, faults>>

\* Seeded fault: the error path leaks the locked description.
AcquireFails_LeaksFlock(p) ==
    /\ pc[p] \in {"open", "flock", "write_pid", "sync_dir"}
    /\ Fault
    /\ Return(p, "idle")
    /\ UNCHANGED <<pid, locked, lockfile, pidfile>>

\* An error of open, of flock other than EWOULDBLOCK, of the pidfile's temporary
\* file or rename, or of the fsync after the rename: acquire returns Err and the
\* description is dropped without a DataDirLock, so the pidfile stays as it is.
AcquireFails(p) ==
    /\ pc[p] \in {"open", "flock", "write_pid", "sync_dir"}
    /\ Fault
    /\ Unlock(p)
    /\ Return(p, "idle")
    /\ UNCHANGED <<pid, lockfile, pidfile>>

\* flock(LOCK_EX | LOCK_NB) on the inode that was opened.
Flock(p) ==
    /\ pc[p] = "flock"
    /\ IF \E q \in Proc : locked[q] = call[p].inode
       THEN Goto(p, "read_pid") /\ UNCHANGED <<locked, call>>
       ELSE Return(p, "write_pid") /\ locked' = [locked EXCEPT ![p] = call[p].inode]
    /\ UNCHANGED <<pid, lockfile, pidfile, faults>>

\* Write and fsync a temporary file of our own, rename it over the pidfile.
WritePidAtomic(p) ==
    /\ pc[p] = "write_pid"
    /\ pidfile' = pid[p]
    /\ Goto(p, "sync_dir")
    /\ UNCHANGED <<pid, call, locked, lockfile, faults>>

\* fsync of the parent directory; acquire returns Ok.
SyncDir(p) ==
    /\ pc[p] = "sync_dir"
    /\ Goto(p, "held")
    /\ UNCHANGED <<pid, call, locked, lockfile, pidfile, faults>>

\* The flock was refused: read whom the pidfile names, or 0 if it cannot be read.
\* Only the first of the two attempts goes on; the others return LockHeld or
\* StaleLockBreakRefused.
ReadPidfile(p) ==
    /\ pc[p] = "read_pid"
    /\ \E h \in {pidfile, 0} :
          IF call[p].attempt = "first"
          THEN Goto(p, "check") /\ call' = [call EXCEPT ![p].holder = h]
          ELSE Return(p, "idle")
    /\ UNCHANGED <<pid, locked, lockfile, pidfile, faults>>

\* Seeded fault: a stale lockfile is unlinked before the retry.
BreakStale_Unlinks(p) ==
    /\ pc[p] = "check"
    /\ IF IsPidAlive(call[p].holder)
       THEN Return(p, "idle") /\ UNCHANGED lockfile
       ELSE /\ call' = [call EXCEPT ![p] = [NoCall EXCEPT !.attempt = "retry"]]
            /\ Goto(p, "open")
            /\ lockfile' = [lockfile EXCEPT !.linked = FALSE]
    /\ UNCHANGED <<pid, locked, pidfile, faults>>

\* StaleLockBreakRefused for a live named holder; else acquire once more, on the
\* same lockfile.
BreakStale(p) ==
    /\ pc[p] = "check"
    /\ IF IsPidAlive(call[p].holder)
       THEN Return(p, "idle")
       ELSE /\ call' = [call EXCEPT ![p] = [NoCall EXCEPT !.attempt = "retry"]]
            /\ Goto(p, "open")
    /\ UNCHANGED <<pid, locked, lockfile, pidfile, faults>>

\* Drop::drop removes the pidfile, best effort ...
DropPidfile(p) ==
    /\ pc[p] = "held"
    /\ \/ pidfile' = 0 /\ UNCHANGED faults
       \/ Fault /\ UNCHANGED pidfile
    /\ Goto(p, "release")
    /\ UNCHANGED <<pid, call, locked, lockfile>>

\* ... and then the field that owns the flock is dropped.
Release(p) ==
    /\ pc[p] = "release"
    /\ Unlock(p)
    /\ Goto(p, "idle")
    /\ UNCHANGED <<pid, call, lockfile, pidfile, faults>>

AcquireStep(p) ==
    \/ \E a \in {"acquire", "first"} : CallAcquire(p, a)
    \/ OpenLockfile(p) \/ Flock(p) \/ WritePidAtomic(p) \/ SyncDir(p)
    \/ ReadPidfile(p) \/ BreakStale(p)

\* Seeded fault: the flock is dropped first, and the pidfile removed after it.
DropStep_FlockFirst(p) ==
    \/ /\ pc[p] = "held" /\ Unlock(p) /\ Goto(p, "release")
       /\ UNCHANGED <<pid, call, lockfile, pidfile, faults>>
    \/ /\ pc[p] = "release" /\ pidfile' = 0 /\ Goto(p, "idle")
       /\ UNCHANGED <<pid, call, locked, lockfile, faults>>

\* drop of the DataDirLock.
DropStep(p) == DropPidfile(p) \/ Release(p)

Next ==
    \E p \in Proc :
        Start(p) \/ Crash(p) \/ AcquireFails(p) \/ AcquireStep(p) \/ DropStep(p)

Spec == Init /\ [][Next]_vars

\* A live process keeps calling acquire, its calls return, and a drop that has
\* begun finishes.  Nothing obliges a holder to drop, or a dead process to start.
Fairness == \A p \in Proc : WF_vars(AcquireStep(p)) /\ WF_vars(Release(p))

FairSpec == Spec /\ Fairness
-----------------------------------------------------------------------------
\* At most one process is inside the lock, over all inodes the lockfile's name
\* may have had: acquire_or_break_stale retries on the inode it found and never
\* makes a second one to lock.
OneHolder ==
    \A p, q \in Proc : (pc[p] \in Locking /\ pc[q] \in Locking) => p = q

\* Once acquire has returned Ok the pidfile names the holder, until it drops the
\* lock: neither the drop of the previous holder nor a contender that failed
\* half way can remove or overwrite it.
HolderIsNamed == \A p \in Proc : pc[p] = "held" => pidfile = pid[p]

\* Whoever is inside the lock has locked the one inode the lockfile's name ever
\* had, alone, and from the rename of write_pid_atomic to the drop the pidfile
\* is its own.
HoldersInv ==
    /\ lockfile.linked <=> lockfile.inode # 0
    /\ \A p \in Proc : pc[p] = "flock" =>
          call[p].inode = lockfile.inode /\ lockfile.inode # 0
    /\ \A p \in Proc : locked[p] \in {0, lockfile.inode} /\ (pc[p] \in Locking <=> locked[p] # 0)
    /\ OneHolder
    /\ \A p \in Proc : pc[p] \in {"sync_dir", "held"} => pidfile = pid[p]

\* The inductive invariant behind OneHolder and HolderIsNamed: acquire,
\* acquire_or_break_stale and drop keep the types and what HoldersInv says of
\* whoever is inside the lock.
LockInv == TypeOK /\ HoldersInv

\* A dead holder does not keep the data dir: while somebody calls acquire or
\* acquire_or_break_stale, somebody gets the lock, whatever the pidfile says and
\* whoever now runs under the pid it names.
StaleLockIsReclaimed ==
    (\E p \in Proc : pc[p] # "dead") ~>
        (\A p \in Proc : pc[p] = "dead") \/ (\E p \in Proc : pc[p] = "held")
=============================================================================
