CONSTANTS
    x = x
    zx = zx
    p = p
    arr = arr
    c = c
    ptr = ptr
    dim2 = dim2
    Type = {x, p, arr}
    NoType = NoType
    Kind = {ptr, dim2}
    NoKind = NoKind
    NoName = NoName
    TypeName <- MCTypeName
    Deps <- MCDeps
    KindOf <- MCKindOf
    Base <- MCBase
    Derived <- MCDerived
    Name <- DerivedTypeName
    RelName <- MCRelName
    Namespace <- OnlyRoot
    Rank <- MCRank
    AliasName <- DerivedAlias
    Import = {}
    BuildName <- DerivedBuild
    Parsed <- MCParsed
SPECIFICATION FairSpec
INVARIANTS
    DeletedOnce
    DependenciesRegistered
    DerivedNamesBind
    AliasesFollowed
PROPERTIES
    CallsReturn
