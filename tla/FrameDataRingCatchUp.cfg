SPECIFICATION Spec
CONSTANTS
    Players = {0, 1}
    Local = 0
    MaxFramesAhead = 4
    InitialRunAhead = 1
    Word = 64
    CommandFrames = {1, 2}
    Leaver = 1
    LeaveFrame = 2
    MaxFrame = 5
INVARIANTS
    KeptFramesAreSent
CHECK_DEADLOCK FALSE
