SPECIFICATION FairSpec
CONSTANTS
    TaskId = {1, 2}
    Child = {p1, p2}
    Req = {r1, r2}
    Null = Null
    Stream = {"out", "err"}
    MaxOutput = 1
    Hub = {"one_cancel"}
PROPERTIES
    OutputBeforeExit
