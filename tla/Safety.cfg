CONSTANTS
    p1 = p1
    p2 = p2
    p3 = p3
    Proc = {p1, p2, p3}
    None = None
    MaxConn = 2
    MaxSupCrash = 1
    MaxProcCrash = 1
    MaxIoError = 1
SPECIFICATION MCSpec
SYMMETRY Symmetry
INVARIANTS
    TypeOK
    OwnerIsWriter
    AcceptingIsResumed
    SealedWhileDriven
    CommittedSuccessorOwns
    NoStraySuccessor
    IncumbentSurvives
    HandoffInv
    SurvivalInv
    NoUnexpectedFrame
    NoOrphanedWait
    DialogueInv
    PairInv
PROPERTIES GivesUpToIncumbent ImplementsSingleWriter
