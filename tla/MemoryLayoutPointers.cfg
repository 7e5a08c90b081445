CONSTANTS
    Types <- PlainAndForeign
    Accepts <- BothAccepted
    Options <- AllOptions
SPECIFICATION Spec
INVARIANTS
    PointersSkipped
CHECK_DEADLOCK FALSE
