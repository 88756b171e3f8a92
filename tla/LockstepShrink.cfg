SPECIFICATION Spec
CONSTANTS
    NumPlayers = 2
    MinRunAhead = 1
    MaxFramesAhead = 6
    InitialRunAhead = 3
    MaxFrame = 7
    Senders = {}
    MaxGameCommands = 0
    MaxRunAheads = 2
    Leavers = {0}
INVARIANTS
    TypeOK
    Agreement
    NeverOvercounted
    SameView
    RingFits
    SkewBounded
PROPERTIES
    NoLateCommand
    ImplementsReplicatedGame
CHECK_DEADLOCK FALSE
