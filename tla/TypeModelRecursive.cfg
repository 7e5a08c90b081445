SPECIFICATION Spec
CONSTANTS
    NameOrder <- MCNameOrder
    Derived <- MCDerived
    BaseName <- MCBaseName
    Libraries <- MCLibraries
    MinName <- MCMinName
    NewSizes <- MCNewSizes
    MaxCalls = 4
INVARIANT
    ResizeReturns
CHECK_DEADLOCK FALSE
