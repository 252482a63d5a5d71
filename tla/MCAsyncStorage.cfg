SPECIFICATION FairSpec
CONSTANTS
    Key = {1, 2}
    Obj = {o1, o2, o3}
    Holder = {h1, h2}
    Null = Null
    HeldSource = TRUE
INVARIANTS
    CountIsExact
    ReferencedIsAlive
    NoneForgotten
PROPERTIES
    ShutdownDrains
    CondemnedIsFreed
    LifetimeSpec
CHECK_DEADLOCK FALSE
