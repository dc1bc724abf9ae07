CONSTANTS
    p1 = p1
    p2 = p2
    Proc = {p1, p2}
    None = None
    MaxConn = 1
    MaxSupCrash = 0
    MaxProcCrash = 0
    MaxIoError = 0
SPECIFICATION MCSpec
INVARIANT FailedDrainIsResumed
