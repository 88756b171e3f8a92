SPECIFICATION Spec
CONSTANTS
    Lists = {l1, l2}
    Commands <- MixedCommands
    MaxLength = 14
INVARIANTS
    TypeOK
    Sorted
    SameOrder
    ContentsExact
