CONSTANTS
    p1 = p1
    p2 = p2
    Proc = {p1, p2}
    None = None
    MaxConn = 2
    MaxSupCrash = 1
    MaxProcCrash = 1
    MaxIoError = 1
SPECIFICATION MCFairSpec
PROPERTIES
    StoppedConsumerResumes
    ServiceRestored
