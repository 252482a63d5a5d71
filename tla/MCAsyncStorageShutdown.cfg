SPECIFICATION FairSpec
CONSTANTS
    Key = {1, 2}
    Obj = {o1, o2}
    Holder = {h1}
    Null = Null
    HeldSource = TRUE
PROPERTIES
    ShutdownReturns
CHECK_DEADLOCK FALSE
