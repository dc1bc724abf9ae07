\* The waits for Drained, SealComplete and Ready: three frames on a connection, cut
\* anywhere, and time enough for each of the timeouts to be the one that fires.
SPECIFICATION Spec
CONSTANTS
    Message <- MCMessage
    Bad <- MCBad
    Payload <- MCPayload
    BadBytes <- MCBadBytes
    Version <- MCVersion
    Base = 3
    LenPrefix = 2
    MaxFrameBytes = 2
    MaxFrames = 3
    Heartbeat = "Heartbeat"
    Reply = "Reply"
    Liveness = 3
    MinRead = 1
    Slack = 1
    Grace = 2
    Total = 4
    MaxHello = 1
INVARIANTS WaitInv OnlySilenceIsDeath WaitEndsAtDeadline HandoffWithinBudget
PROPERTIES ImplementsFrameStream
