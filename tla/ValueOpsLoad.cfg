SPECIFICATION Spec
CONSTANTS
    Cases <- MCVecCases
    Containers <- MCContainers
    Strings <- MCStrings
    Bytes = {0, 1}
    MaxElements = 2
PROPERTY LoadReplaces
