CHECK_DEADLOCK FALSE
CONSTANTS
    MaxStarts = 1
    Waiters = {}
SPECIFICATION DockerSpec
INVARIANT StopServerCleansUp
