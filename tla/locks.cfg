CONSTANTS
    u1 = u1
    u2 = u2
    Heartbeat = Heartbeat
    Worker = Worker
    Boot = Boot
    Irq = Irq
    Free = Free
    User <- MCUser
    TaskOrder <- MCTaskOrder
SPECIFICATION FairSpec
INVARIANTS
    TypeOK
    SpinCulprit
    TickFindsScheduler
PROPERTIES
    TurnsAfterHeartbeat
CHECK_DEADLOCK FALSE
