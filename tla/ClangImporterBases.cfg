CONSTANT Headers <- MCHeaders
SPECIFICATION Spec
INVARIANTS
    MembersPlaced
CHECK_DEADLOCK FALSE
