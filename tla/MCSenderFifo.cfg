SPECIFICATION FairSpec
CONSTANTS
    Fifo = {f1, f2}
    Op = {a, b, c, d}
    Null = Null
INVARIANTS
    OneAtATime
    NobodyStranded
PROPERTIES
    LineSpec
    StartedEnds
