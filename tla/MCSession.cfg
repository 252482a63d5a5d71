SPECIFICATION FairSpec
CONSTANTS
    Txn = {t1, t2}
    Error = Error
    Faults = {"send", "network", "silent", "memory"}
INVARIANTS
    OwnReply
    HandlersEndFirst
PROPERTIES
    SlotsAreFreed
    TransactionsEnd
CHECK_DEADLOCK FALSE
