\* Frames are bounded, so the clients may have nothing left to send.
CHECK_DEADLOCK FALSE
CONSTANTS
    Conns = {c1, c2}
    Assemblies = {100}
    Configurations <- MCConfigurations
    IpIsNumeric = FALSE
    Frames <- MCFrames
    ApiData <- MCApiData
    MaxHandle = 2
    MaxPayload = 45
    MaxFrames = 3
    Identity <- MCIdentity
SYMMETRY ConnSymmetry
SPECIFICATION Spec
INVARIANTS
    TypeOK
    NoSessionLeak
    HandlesGrantedOnce
    FramesInOrder
    CrashOnlyAtLimits
    RequestsHaveSession
    PathMeaningKnown
    ServicesAgree
