SPECIFICATION Spec
CONSTANTS
    NameOrder <- MCNameOrder
    Derived <- MCDerived
    BaseName <- MCBaseName
    Libraries <- MCLibraries
    MinName <- MCMinName
    NewSizes <- MCCancelling
    MaxCalls = 4
PROPERTY
    ResizePropagates
CHECK_DEADLOCK FALSE
