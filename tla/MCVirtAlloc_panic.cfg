CONSTANTS
    Pages <- Dense
    R = 4
    Ids = {1, 2, 3, 4}
    Null = 0
    MaxRegions = 7
SPECIFICATION Spec
INVARIANTS
    NoPanic
