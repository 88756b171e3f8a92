SPECIFICATION Spec
CONSTANTS
    NumPlayers = 3
    MaxFrame = 1
    Delayed = {{1}}
    MayCrash = {}
    Quitters = {}
    Voters = {1, 2}
    Targets = {0}
    MaxFaults = 0
INVARIANTS VotedOutInOneFrame
CHECK_DEADLOCK FALSE
