\* One start, so that every interleaving of a waiter is cheap enough for liveness.
CHECK_DEADLOCK FALSE
CONSTANTS
    MaxStarts = 1
    Waiters = {w1}
SPECIFICATION FairSocketSpec
PROPERTIES
    StopServerReturns
    WaiterIsServed
