SPECIFICATION FairSpec
CONSTANTS
    Id = {1}
    Slot = {s1, s2}
    Req = {r1, r2, r3}
    Path = {p}
    Null = Null
    Stdin = Stdin
    Fd = {0, 1, 2}
    Size = {0, 1}
    Offset = {0}
    Width = 8
    Chunk = 1
    Blocks = 1
    MaxData = 1
    Faults = {"open", "write", "short", "read"}
    Hub = {"end_is_last", "one_upload", "awaits_cleanup"}
PROPERTIES
    RequestsAreAnswered
    ErasedIsFreed
