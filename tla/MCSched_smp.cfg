CONSTANTS
    Cores = {c1, c2}
    Threads = {t0, t1, t2}
    Objs = {w}
    Listers = {}
    InitThread = t0
    BootCore = c1
    None = None
SPECIFICATION Spec
SYMMETRY ThreadSym
INVARIANTS
    NoPanic
    ThreadInOnePlace
    ResumesSavedState
    JoinWakeupNotLost
    DeadlockFree
PROPERTY ImplementsAbs
