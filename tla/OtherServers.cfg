CONSTANTS
    Stoppers = {s1, s2}
    Main = main
    MaxStarts = 2
SPECIFICATION FairSpec
INVARIANTS
    TypeOK
    MbtcpRaisesOnlyWhenBeaten
    S7ListenerFollowsLoop
    OutstationReleasedOnce
PROPERTY ImplementsLifecycle
