CONSTANTS
    Types <- WithEmptyArrays
    Accepts <- BothAccepted
    Options <- AllOptions
SPECIFICATION Spec
INVARIANTS
    EmptyArraysRemoved
CHECK_DEADLOCK FALSE
