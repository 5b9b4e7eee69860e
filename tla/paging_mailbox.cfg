\* A mailbox, newest first, while messages arrive.
SPECIFICATION FairSpec
CONSTANTS
    MaxTime = 2
    MaxRank = 2
    MaxRefs = 3
    NewestFirst = TRUE
    Lookback = 3
    MaxPageSize = 2
    Limits = {0, 1}
    StoreCap = 2
    Files = TRUE
    Feed = Feed
    Foreign <- MCForeign
    MaxFailures = 1
    NoCursor = NoCursor
    NoMore = NoMore
INVARIANTS TypeOK PagesInOrder NothingSkipped
PROPERTY ReadEnds
