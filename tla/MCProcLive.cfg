SPECIFICATION FairSpec
CONSTANTS
    TaskId = {1, 2}
    Child = {p1, p2}
    Req = {r1, r2}
    Null = Null
    Stream = {"out"}
    MaxOutput = 0
    Hub = {"one_cancel"}
PROPERTIES
    CancelEnds
    ProgressEnds
    ShutdownFreesAll
