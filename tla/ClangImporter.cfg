CONSTANT Headers <- MCHeaders
SPECIFICATION Spec
INVARIANTS
    NamesFaithful
    SavedIffTranslatable
    FailsWithCause
CHECK_DEADLOCK FALSE
