SPECIFICATION Spec
CONSTANTS
    Cases <- MCUnmergedCases
    Containers <- MCContainers
    Strings <- MCStrings
    Bytes = {0, 1}
    MaxElements = 2
INVARIANT DumpEndsBlock
