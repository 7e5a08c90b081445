CONSTANTS
    Types <- TwoFields
    Accepts <- BothAccepted
    Options <- AllOptions
SPECIFICATION Spec
INVARIANTS
    TrailingHolesKept
CHECK_DEADLOCK FALSE
