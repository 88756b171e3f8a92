SPECIFICATION Spec
CONSTANTS
    NumPlayers = 4
    Senders = {0, 1, 2, 3}
    Leavers = {0}
    RunAhead = 1
    MaxFrame = 1
    MaxWire = 0
    MayGiveUp = {}
INVARIANTS
    OutOfDateIsUnnecessary
CHECK_DEADLOCK FALSE
