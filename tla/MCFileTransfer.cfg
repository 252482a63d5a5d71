SPECIFICATION Spec
CONSTANTS
    Id = {1, 2}
    Slot = {s1, s2}
    Req = {r1, r2}
    Path = {p, q}
    Null = Null
    Stdin = Stdin
    Fd = {0, 1, 2}
    Size = {1, 2}
    Offset = {1, 7}
    Width = 8
    Chunk = 2
    Blocks = 2
    MaxData = 2
    Faults = {"open", "write", "short", "read"}
    Hub = {"end_is_last", "one_upload", "awaits_cleanup"}
SYMMETRY Symmetry
INVARIANTS
    DescriptorsAreOwn
    SlotsOutliveRequests
    NoDescriptorLeaks
    FailureLeavesNoFile
PROPERTIES
    SuccessMeansStored
