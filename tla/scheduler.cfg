CONSTANTS
    NumUser = 3
    NumKernel = 2
    Yielders = {4}
    Faulting = {}
    UptimeMod = 2
SPECIFICATION FairSpec
INVARIANTS
    TypeOK
    RunsCurrent
    FramesIntact
    GsPaired
PROPERTIES
    ImplementsPolicy
    ReadyRuns
CHECK_DEADLOCK FALSE
