SPECIFICATION Spec
CONSTANTS
    File <- MCFile
    Closed = "closed"
    MaxFd = 9
    MaxEntry = 3
    Listeners <- MCListeners
    Names <- MCNames
    Control = "control"
    Private = "private"
    Foreign = "foreign"
    Layouts <- MCLayouts
    MaxChild = 3
    MaxFault = 2
INVARIANTS InstallInv ChildInheritsExactly ListenerByName SlotHoldsLatest ChildrenAccounted JournalDurable
PROPERTIES TriggerLoopReturns
