------------------------- MODULE DataDirLockProofs --------------------------
(***************************************************************************)
(* LockInv is inductive, so acquire_or_break_stale never admits two        *)
(* holders and the pidfile names the holder, for any number of processes,  *)
(* any reuse of pids and any faults.                                       *)
(***************************************************************************)
EXTENDS DataDirLock, TLAPS

\* The initial state, in which nobody runs and there is no lockfile, satisfies
\* the invariant.
LEMMA InitLock == Init => LockInv
BY PidAssumption DEF Init, LockInv, HoldersInv, TypeOK, OneHolder, Call, NoCall, Locking

\* Every system call of acquire, of acquire_or_break_stale and of drop keeps the
\* types of the lock's state, as do deaths and restarts.
LEMMA NextType == TypeOK /\ [Next]_vars => TypeOK'
<1> SUFFICES ASSUME TypeOK, [Next]_vars PROVE TypeOK'
    OBVIOUS
<1> USE PidAssumption, FaultAssumption DEF TypeOK, Call, NoCall, Goto, Return, Unlock, Fault, Locking
<1>1. ASSUME NEW p \in Proc, Start(p) PROVE TypeOK'
    BY <1>1 DEF Start
<1>2. ASSUME NEW p \in Proc, Crash(p) PROVE TypeOK'
    BY <1>2 DEF Crash
<1>3. ASSUME NEW p \in Proc, AcquireFails(p) PROVE TypeOK'
    BY <1>3 DEF AcquireFails
<1>4. ASSUME NEW p \in Proc, NEW a \in {"acquire", "first"}, CallAcquire(p, a) PROVE TypeOK'
    BY <1>4 DEF CallAcquire
<1>5. ASSUME NEW p \in Proc, OpenLockfile(p) PROVE TypeOK'
    <2>1. lockfile' \in [inode : Nat, linked : BOOLEAN]
        BY <1>5 DEF OpenLockfile
    <2>2. lockfile'.inode \in Nat
        BY <2>1
    <2>3. call' \in [Proc -> Call]
        BY <1>5, <2>2, SMTT(30) DEF OpenLockfile
    <2> QED
        BY <1>5, <2>1, <2>3 DEF OpenLockfile
<1>6. ASSUME NEW p \in Proc, Flock(p) PROVE TypeOK'
    <2>1. call[p].inode \in Nat /\ NoCall \in Call
        OBVIOUS
    <2>2. call' \in [Proc -> Call]
        BY <1>6, <2>1 DEF Flock
    <2>3. locked' \in [Proc -> Nat]
        BY <1>6, <2>1 DEF Flock
    <2> QED
        BY <1>6, <2>2, <2>3 DEF Flock
<1>7. ASSUME NEW p \in Proc, WritePidAtomic(p) PROVE TypeOK'
    BY <1>7 DEF WritePidAtomic
<1>8. ASSUME NEW p \in Proc, SyncDir(p) PROVE TypeOK'
    BY <1>8 DEF SyncDir
<1>9. ASSUME NEW p \in Proc, ReadPidfile(p) PROVE TypeOK'
    BY <1>9, SMTT(30) DEF ReadPidfile
<1>10. ASSUME NEW p \in Proc, BreakStale(p) PROVE TypeOK'
    BY <1>10, SMTT(30) DEF BreakStale
<1>11. ASSUME NEW p \in Proc, DropStep(p) PROVE TypeOK'
    BY <1>11 DEF DropStep, DropPidfile, Release
<1>12. CASE UNCHANGED vars
    BY <1>12 DEF vars
<1> HIDE DEF TypeOK, Call, NoCall, Goto, Return, Unlock, Fault, Locking
<1> QED
    BY <1>1, <1>2, <1>3, <1>4, <1>5, <1>6, <1>7, <1>8, <1>9, <1>10, <1>11, <1>12
       DEF Next, AcquireStep

\* Every step keeps what LockInv says of the holders: a refused contender changes
\* neither lockfile nor pidfile, and a holder gives the flock up last.
LEMMA NextHolders == LockInv /\ [Next]_vars => HoldersInv'
<1> SUFFICES ASSUME LockInv, [Next]_vars PROVE HoldersInv'
    OBVIOUS
<1> USE PidAssumption
    DEF LockInv, TypeOK, HoldersInv, OneHolder, Call, NoCall, Goto, Return, Unlock, Locking
<1>1. ASSUME NEW p \in Proc, Start(p) PROVE HoldersInv'
    BY <1>1 DEF Start
<1>2. ASSUME NEW p \in Proc, Crash(p) PROVE HoldersInv'
    BY <1>2 DEF Crash
<1>3. ASSUME NEW p \in Proc, AcquireFails(p) PROVE HoldersInv'
    BY <1>3 DEF AcquireFails
<1>4. ASSUME NEW p \in Proc, NEW a \in {"acquire", "first"}, CallAcquire(p, a)
      PROVE HoldersInv'
    BY <1>4 DEF CallAcquire
<1>5. ASSUME NEW p \in Proc, OpenLockfile(p) PROVE HoldersInv'
    <2>1. /\ lockfile'.linked
          /\ lockfile'.inode # 0
          /\ lockfile.inode # 0 => lockfile'.inode = lockfile.inode
        <3>1. CASE lockfile.linked
            <4>1. lockfile' = lockfile
                BY <1>5, <3>1 DEF OpenLockfile
            <4> QED
                BY <3>1, <4>1
        <3>2. CASE ~lockfile.linked
            <4>1. lockfile' = [inode |-> lockfile.inode + 1, linked |-> TRUE]
                BY <1>5, <3>2 DEF OpenLockfile
            <4> QED
                BY <3>2, <4>1
        <3> QED
            BY <3>1, <3>2
    <2>2. call'[p].inode = lockfile'.inode
        BY <1>5 DEF OpenLockfile
    <2>3. \A q \in Proc \ {p} : call'[q] = call[q] /\ pc'[q] = pc[q]
        BY <1>5 DEF OpenLockfile
    <2>4. /\ pc'[p] = "flock" /\ pc[p] = "open"
          /\ locked' = locked /\ pidfile' = pidfile /\ pid' = pid
        BY <1>5 DEF OpenLockfile
    <2> QED
        BY <2>1, <2>2, <2>3, <2>4
<1>6. ASSUME NEW p \in Proc, Flock(p) PROVE HoldersInv'
    BY <1>6, SMTT(30) DEF Flock
<1>7. ASSUME NEW p \in Proc, WritePidAtomic(p) PROVE HoldersInv'
    BY <1>7 DEF WritePidAtomic
<1>8. ASSUME NEW p \in Proc, SyncDir(p) PROVE HoldersInv'
    BY <1>8 DEF SyncDir
<1>9. ASSUME NEW p \in Proc, ReadPidfile(p) PROVE HoldersInv'
    <2>1. \A q \in Proc \ {p} : call'[q] = call[q] /\ pc'[q] = pc[q]
        BY <1>9 DEF ReadPidfile
    <2>2. /\ pc'[p] \in {"check", "idle"} /\ pc[p] = "read_pid"
          /\ UNCHANGED <<locked, lockfile, pidfile, pid>>
        BY <1>9 DEF ReadPidfile
    <2> QED
        BY <2>1, <2>2
<1>10. ASSUME NEW p \in Proc, BreakStale(p) PROVE HoldersInv'
    BY <1>10, SMTT(30) DEF BreakStale
<1>11. ASSUME NEW p \in Proc, DropPidfile(p) PROVE HoldersInv'
    BY <1>11 DEF DropPidfile
<1>12. ASSUME NEW p \in Proc, Release(p) PROVE HoldersInv'
    BY <1>12 DEF Release
<1>13. CASE UNCHANGED vars
    BY <1>13 DEF vars
<1> HIDE DEF LockInv, TypeOK, HoldersInv, OneHolder, Call, NoCall, Goto, Return, Unlock, Locking
<1> QED
    BY <1>1, <1>2, <1>3, <1>4, <1>5, <1>6, <1>7, <1>8, <1>9, <1>10, <1>11, <1>12, <1>13
       DEF Next, AcquireStep, DropStep

\* The inductive invariant of the data-dir lock.
THEOREM LockInvariance == Spec => []LockInv
<1>1. LockInv /\ [Next]_vars => LockInv'
    <2> SUFFICES ASSUME LockInv, [Next]_vars PROVE LockInv'
        OBVIOUS
    <2>1. TypeOK'
        BY NextType DEF LockInv
    <2>2. HoldersInv'
        BY NextHolders
    <2> QED
        BY <2>1, <2>2 DEF LockInv
<1> QED
    BY InitLock, <1>1, PTL DEF Spec

\* acquire and acquire_or_break_stale exclude: never two processes inside the
\* lock, whatever dies and whatever the pidfile says.
THEOREM LockExcludes == Spec => []OneHolder
BY LockInvariance, PTL DEF LockInv, HoldersInv

\* While a process has its DataDirLock, the pidfile names it.
THEOREM PidfileNamesHolder == Spec => []HolderIsNamed
<1>1. LockInv => HolderIsNamed
    BY DEF LockInv, HoldersInv, HolderIsNamed
<1> QED
    BY LockInvariance, <1>1, PTL
=============================================================================
