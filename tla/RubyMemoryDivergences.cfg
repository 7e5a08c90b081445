SPECIFICATION Spec
CONSTANTS
    MaxAddr = 7
    MaxValues = 3
    MaxZones = 2
    MaxLength = 2
    LowestFit = TRUE
INVARIANT
    TypeOutlivesValues
    NewOwned
    KeptUsable
CHECK_DEADLOCK FALSE
