SPECIFICATION FairSpec
CONSTANTS
    Name = {n1, n2}
    TooLong = {n2}
    Folder = {f1, f2}
    Id = {1, 2}
    Slot = {s1, s2}
    Req = {r1, r2}
    Null = Null
    Faults = {"unlink"}
    Hub = {"settled"}
    Prompt = TRUE
INVARIANTS
    MapMatchesDisk
    
PROPERTIES
    RequestsAreAnswered
CHECK_DEADLOCK FALSE
