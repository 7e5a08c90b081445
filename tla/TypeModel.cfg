SPECIFICATION Spec
CONSTANTS
    NameOrder <- MCNameOrder
    Derived <- MCDerived
    BaseName <- MCBaseName
    Libraries <- MCLibraries
    MinName <- MCMinName
    NewSizes <- MCNewSizes
    MaxCalls = 4
INVARIANTS
    CompareSound
    MinimalExact
PROPERTIES
    MergeExact
    ResizePropagates
CHECK_DEADLOCK FALSE
