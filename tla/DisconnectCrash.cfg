SPECIFICATION FairSpec
CONSTANTS
    NumPlayers = 3
    MaxFrame = 1
    Delayed = {{0}, {2}}
    MayCrash = {0}
    Quitters = {2}
    Voters = {}
    Targets = {}
    MaxFaults = 1
INVARIANTS TypeOK OneDestroyer NobodyDropsEarlier CanCatchUp
PROPERTIES OthersGoOn
CHECK_DEADLOCK FALSE
