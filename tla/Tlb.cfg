SPECIFICATION Spec
CONSTANTS
    NameOrder <- MCNameOrder
    FieldOrder <- MCFieldOrder
    Derived <- MCDerived
    Parsed <- MCParsed
    Built <- MCBuilt
    Definitions <- MCDefinitions
    Aliases <- MCAliases
    Others <- MCOthers
    MaxEdits = 5
INVARIANTS
    RoundTrip
PROPERTIES
    LoadConservative
CHECK_DEADLOCK FALSE
