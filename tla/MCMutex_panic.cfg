CONSTANTS
    Threads = {t1, t2}
    NCores = 2
    None = None
SPECIFICATION Spec
INVARIANT NoPanic
