SPECIFICATION Spec
CONSTANTS
    Players = {0, 1, 2}
    Local = 0
    MaxFramesAhead = 2
    InitialRunAhead = 1
    Word = 64
    CommandFrames = {2, 8}
    Leaver = 1
    LeaveFrame = 8
    MaxFrame = 12
INVARIANTS
    TypeOK
    CatchUpFaithful
PROPERTIES
    ImplementsFrameStore
CHECK_DEADLOCK FALSE
