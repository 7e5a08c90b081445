CONSTANTS
    x = x
    zx = zx
    p = p
    arr = arr
    c = c
    ptr = ptr
    dim2 = dim2
    Type = {x, zx, c}
    NoType = NoType
    Kind = {}
    NoKind = NoKind
    NoName = NoName
    TypeName <- MCTypeName
    Deps <- MCDeps
    KindOf <- MCKindOf
    Base <- MCBase
    Derived <- MCDerived
    Name <- NestedName
    RelName <- MCRelName
    Namespace <- RootAndZ
    Rank <- MCRank
    AliasName <- NestedAlias
    Import <- RootAndZ
    BuildName = {}
    Parsed <- MCParsed
SPECIFICATION Spec
INVARIANTS
    NoDanglingName
    RelativeNameSound
PROPERTIES
    NamesNeverRebound
