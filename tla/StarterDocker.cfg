\* Starts are bounded, so the controller may have nothing left to do.
CHECK_DEADLOCK FALSE
CONSTANTS
    MaxStarts = 2
    Waiters = {}
SPECIFICATION DockerSpec
INVARIANTS
    ContainerGetsConfig
    LeftContainerHasCause
    RunningHasContainer
