CONSTANTS
    NumUser = 3
    NumKernel = 0
    Yielders = {}
    Faulting = {2}
    UptimeMod = 2
SPECIFICATION Spec
INVARIANTS
    TaskConservation
    ExitIsFinal
    IInv
CHECK_DEADLOCK FALSE
