CONSTANTS
    num = num
    str = str
    enm = enm
    S = S
    T = T
    V = V
    arr = arr
    sub = sub
    ptr = ptr
    opq = opq
    reserved = reserved
    under = under
    array = array
    seq = seq
    any = any
    int = int
    tag = tag
    Type = {num, str, enm, S, T, V, arr, sub, ptr, opq}
    Alias = {reserved, under, array, seq, any, int, tag}
    Target <- MCTarget
    NsOf <- MCNsOf
    Rank <- MCRank
    NoNs = ""
    Dependencies <- MCDependencies
    Persistence <- MCPersistence
    Category <- MCCategory
    Namespace <- MCNamespace
    Basename <- MCBasename
    NsOrder <- MCNsOrder
    Token <- MCToken
    Configs <- MCConfigs
SPECIFICATION IDLSpec
INVARIANTS
    ReferencesResolved
    EachDeclared
    RefusedIffUnsupported
    RelativeResolves
CHECK_DEADLOCK FALSE
