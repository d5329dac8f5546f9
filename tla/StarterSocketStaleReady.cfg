CHECK_DEADLOCK FALSE
CONSTANTS
    MaxStarts = 1
    Waiters = {}
SPECIFICATION SocketSpec
INVARIANT NotReadyAfterCleanStop
