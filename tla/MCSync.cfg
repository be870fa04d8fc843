CONSTANTS
    Threads = {t1, t2, t3}
    NCores = 2
    None = None
    SpinLocks = {irqs, k1, k2}
    IrqHandlers = irqs
    CoreThreads = {t1, t2}
    BootThread = t1
    Idle = Idle
    MaxSoft = 3
SPECIFICATION SyncSpec
INVARIANTS
    MutualExclusion
    WaitersAnnounced
    WaitListGuarded
    NoGuardPanic
    InterruptsFollowGuards
    SoftRunFirst
PROPERTY SleeperServed
