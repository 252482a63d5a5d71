SPECIFICATION Spec
CONSTANTS
    TaskId = {1, 2}
    Child = {p1, p2}
    Req = {r1, r2}
    Null = Null
    Stream = {"out"}
    MaxOutput = 2
    Hub = {}
SYMMETRY Symmetry
INVARIANTS
    CallbacksHaveProc
    QueueIsContiguous
    NoIdleWaiter
    NoOrphans
