SPECIFICATION Spec
CONSTANTS
    Cases <- MCCases
    Containers <- MCContainers
    Strings <- MCStrings
    Bytes = {0, 1}
    MaxElements = 2
INVARIANTS Completes CompareIsEquality
PROPERTIES AssignsValue EditsContainer
