CONSTANTS
    Types <- PlainAndForeign
    Accepts <- BothAccepted
    Options <- AllOptions
SPECIFICATION Spec
INVARIANTS
    DataKept
    InitKept
    SquashedToMemcpy
CHECK_DEADLOCK FALSE
