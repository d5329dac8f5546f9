CHECK_DEADLOCK FALSE
CONSTANTS
    huge = huge
    c1 = c1
    c2 = c2
    Clients = {c1, c2}
    Threads = {t1, t2}
    Initial <- MCInitial
    Device <- MCDevice
    ApiValues = {huge}
    Requests <- MCRequests
    MaxRequests <- MCMaxRequests
    MaxAgain = 1
    MaxSets = 1
SPECIFICATION Spec
INVARIANT HandledWriteApplied
