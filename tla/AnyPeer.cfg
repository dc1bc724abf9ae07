CONSTANTS
    p1 = p1
    p2 = p2
    Proc = {p1, p2}
    None = None
    MaxConn = 2
    MaxSupCrash = 0
    MaxProcCrash = 1
    MaxIoError = 1
    PeerTypes = {"HelloAck", "PrepareHandoff", "SealRequest", "Commit", "ResumeAfterAbort", "Abort", "Heartbeat"}
    SealsAgain = FALSE
    MaxQueue = 1
SPECIFICATION PeerSpec
INVARIANTS
    OwnerIsWriter
    AcceptingIsResumed
PROPERTIES
    ExitOnlyIfReplacedOrCommitted
CHECK_DEADLOCK FALSE
