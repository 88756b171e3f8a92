SPECIFICATION Spec
CONSTANTS
    NumPlayers = 3
    MaxFrame = 1
    Delayed = {{0}}
    MayCrash = {0}
    Quitters = {}
    Voters = {}
    Targets = {}
    MaxFaults = 1
INVARIANTS
    DroppedInTheNamedFrame
CHECK_DEADLOCK FALSE
