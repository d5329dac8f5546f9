CHECK_DEADLOCK FALSE
CONSTANTS
    MaxStarts = 1
    Waiters = {}
SPECIFICATION FairDockerSpec
PROPERTY ReadyWhenAccepting
