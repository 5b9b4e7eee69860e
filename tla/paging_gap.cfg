\* A thread whose messages are further apart than the lookback.
SPECIFICATION Spec
CONSTANTS
    MaxTime = 2
    MaxRank = 1
    MaxRefs = 2
    NewestFirst = FALSE
    Lookback = 2
    MaxPageSize = 2
    Limits = {0}
    StoreCap = 2
    Files = FALSE
    Feed = Feed
    Foreign = {}
    MaxFailures = 1
    NoCursor = NoCursor
    NoMore = NoMore
INVARIANT ThreadReadToTheEnd
