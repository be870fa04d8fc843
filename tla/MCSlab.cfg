CONSTANTS
    Users = {u1, u2}
    INFO = INFO
    Cores = {c1, c2}
    Blocks = {b1, b2, b3, b4, b5}
    N = 2
    NInfo = 3
    Cap = 4
    WordBits = 2
    None = None
    Junk = Junk
SPECIFICATION Spec
SYMMETRY Sym
INVARIANTS
    FreeListExact
    ObjectsAccounted
    MemoryAccounted
