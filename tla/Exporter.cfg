CONSTANTS
    t1 = t1
    t2 = t2
    t3 = t3
    a1 = a1
    a2 = a2
    Type = {t1, t2, t3}
    Alias = {a1, a2}
    Target <- MCTarget
    NsOf <- MCNsOf
    Rank <- MCRank
    NoNs = ""
    Dependencies <- AllDependencies
    Persistence <- AllPersistence
SPECIFICATION FairSpec
INVARIANTS
    DependenciesFirst
    ExactlyOnce
    ErrorIffRecursive
PROPERTIES
    SaveTerminates
CHECK_DEADLOCK FALSE
