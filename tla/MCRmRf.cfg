SPECIFICATION FairSpec
CONSTANTS
    Char = {"a", "r", "/"}
    Slash = "/"
    Name <- MCName
    Root <- MCRoot
    Target <- MCTarget
    Path <- MCPath
    Height = 4
    Depth = 3
    Capacity = 8
    Initial <- MCInitial
    MaxChanges = 1
    Faults = {"closedir"}
INVARIANTS
    BufferNamesTop
    CrashOnlyWhenTooDeep
PROPERTIES
    RemovalSpec
    WalkEnds
CHECK_DEADLOCK FALSE
