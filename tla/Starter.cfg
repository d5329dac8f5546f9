\* Starts are bounded, so the controller may have nothing left to do.
CHECK_DEADLOCK FALSE
CONSTANTS
    MaxStarts = 2
    Waiters = {}
SPECIFICATION FairSpec
INVARIANTS
    TypeOK
    ErrorBlamesCurrentRun
    StartsOwnBackend
    FailureVisible
    MonitorWatchesLiveRun
    ReadyFromCurrentMonitor
PROPERTIES
    StopTerminates
    MonitorsEnd
