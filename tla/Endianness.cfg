CONSTANTS
    Types <- MCTypes
    Rejected <- MCRejected
    Unset = Unset
SPECIFICATION Spec
INVARIANTS
    CompiledSwaps
    InPlaceSwaps
