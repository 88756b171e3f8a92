SPECIFICATION Spec
CONSTANTS
    NumPlayers = 3
    Senders = {0, 1, 2}
    Leavers = {0, 2}
    RunAhead = 1
    MaxFrame = 1
    MaxWire = 1
    MayGiveUp = {0}
INVARIANTS
    TypeOK
    NoCommandLost
    LeaverFlushed
    OutOfDateWhileRouterStays
    PendingUntilArrived
CHECK_DEADLOCK FALSE
