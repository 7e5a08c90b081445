CONSTANTS
    reg = reg
    call = call
    hold = hold
    other = other
    Use = {reg, call, hold, other}
    Single = {"PluginManager", "Other"}
    NoUse = NoUse
    Ty <- MCTy
    Manager = "PluginManager"
    Job <- MCJob
    Char = {":", "a", "b", "none"}
    Env <- MCEnv
    Unset = Unset
    HardcodedPath <- MCHardcodedPath
    Libraries <- MCLibraries
    Library <- MCLibrary
    NoLib = NoLib
SPECIFICATION FairSpec
INVARIANTS
    PluginsUsable
PROPERTIES
    PhoenixSpec
    MutexReleased
