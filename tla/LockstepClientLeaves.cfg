SPECIFICATION FairSpec
CONSTANTS
    NumPlayers = 3
    MinRunAhead = 1
    MaxFramesAhead = 4
    InitialRunAhead = 1
    MaxFrame = 4
    Senders = {1}
    MaxGameCommands = 1
    MaxRunAheads = 0
    Leavers = {1}
INVARIANTS
    SameView
PROPERTIES
    ImplementsReplicatedGame
    Progress
CHECK_DEADLOCK FALSE
