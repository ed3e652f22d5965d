CONSTANTS
    NumUser = 2
    NumKernel = 1
    Yielders = {}
    Faulting = {1}
    UptimeMod = 2
SPECIFICATION Spec
INVARIANTS
    KernelGs
CHECK_DEADLOCK FALSE
