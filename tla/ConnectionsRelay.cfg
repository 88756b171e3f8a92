SPECIFICATION FairSpec
CONSTANTS
    NumPlayers = 4
    Senders = {1}
    Leavers = {}
    RunAhead = 1
    MaxFrame = 1
    MaxWire = 3
    MayGiveUp = {}
INVARIANTS
    PendingUntilArrived
PROPERTIES
    EveryCommandArrives
CHECK_DEADLOCK FALSE
