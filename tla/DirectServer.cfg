\* Every thread starts once, so at the end nothing may be left to do.
CHECK_DEADLOCK FALSE
CONSTANTS
    Backends = {b1}
    Threads = {t1, t2}
    Stoppers = {s1, s2}
    NoThread = None
    Main = t1
SPECIFICATION FairSpec
INVARIANTS
    TypeOK
    ServingIsStoppable
    StopStopsRunning
PROPERTY ImplementsLifecycle
