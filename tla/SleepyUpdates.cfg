SPECIFICATION Spec
CONSTANTS
    NumModules = 6
    NumSaved = 4
    Objects = {1, 2, 3}
    ObjectOf <- MCObjectOf
    Phase <- MCPhase
    Delays = {1, 2}
    WakeDelays = {1}
    Forever = 4
    MaxFrame = 3
INVARIANTS
    TypeOK
    IndexInLogic
    HeapOrdered
    CurrentStaysFirst
PROPERTIES
    NobodyOversleeps
    PhasesInOrder
CHECK_DEADLOCK FALSE
