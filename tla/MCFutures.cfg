CONSTANTS
    MaxInputs = 4
    UsizeMax = 5
    Handles = {h1, h2, h3, h4, h5}
    First = h1
SPECIFICATION FuturesSpec
CHECK_DEADLOCK FALSE
INVARIANTS
    NoUndefinedBehaviour
    RefsExact
    NothingLeaks
    NobodyLeftWaiting
    JoinSound
PROPERTY ResultResolves
