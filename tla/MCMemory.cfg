CONSTANTS
    EarlySize = 8
    Junk = Junk
    None = None
    Slots = 3
    Fan = 2
    Page = 4
    HeapFrames = {1, 2, 3, 4, 5, 6}
    KRoot = 100
    BootTable <- Boot
    Batch = 2
    Layouts <- ClientLayouts
    NewSizes = {2, 5, 9}
    MaxLive = 2
    MaxSpaces = 1
    Frames = {f1, f2, f3, f4, f5, f6, f7}
    Callers = {c1, c2}
    P = 3
    Nil = Nil
    Garbage = Garbage
SPECIFICATION MemSpec
SYMMETRY CallerSym
INVARIANTS
    FramesSound
    LiveDisjoint
    OwnerFound
    NothingLeaks
    EarlyMarkReturns
    UpperHalfShared
    ListSound
    RequestsDecided
PROPERTY ImplementsPool
