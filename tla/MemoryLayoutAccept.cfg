CONSTANTS
    Types <- ForeignElements
    Accepts <- BothAccepted
    Options <- AllOptions
SPECIFICATION Spec
INVARIANTS
    AcceptedHasLayout
CHECK_DEADLOCK FALSE
