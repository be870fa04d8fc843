CONSTANTS
    EarlySize = 4
    Junk = Junk
    None = None
    Slots = 3
    Fan = 2
    Page = 4
    HeapFrames = {1, 2, 3, 4, 5, 6, 7, 8, 9}
    KRoot <- Root
    BootTable <- Boot
    Batch = 2
    Layouts <- ThreePages
    NewSizes = {5}
    MaxLive = 2
    MaxSpaces = 0
SPECIFICATION Spec
INVARIANT RegionUnmapped
