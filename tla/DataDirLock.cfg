\* Three processes over three pids, two faults: deaths, restarts under any free
\* pid, failing I/O.
SPECIFICATION FairSpec
CONSTANTS
    Proc = {p1, p2, p3}
    Pid = {1, 2, 3}
    MaxFault = 2
INVARIANTS LockInv OneHolder HolderIsNamed
PROPERTIES StaleLockIsReclaimed
