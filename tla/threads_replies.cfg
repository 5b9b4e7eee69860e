\* A message with a blank parent, its retry in another process, a reply, and their recipient.
SPECIFICATION FeedsSpec
CONSTANTS
    r1 = r1  r2 = r2  r3 = r3
    c1 = c1  c2 = c2
    i1 = i1  i2 = i2
    None = None
    Blank = Blank
    Requests = {r1, r2, r3}
    Commands = {c1, c2}
    Supplied = {}
    Instances = {i1, i2}
    CommandOf <- MCCommandOf
    Instance <- MCTwoInstances
    Parent <- MCBlankParent
    ThreadId <- MCNoThreads
    ByKey = {c2}
    CreateThread = {}
    Recipients <- MCRecipients
    MaxRecipients = 2
    MaxTime = 1
    AwaitParent = FALSE
    AtomicCreate = FALSE
    Late = {r1}
    Rank <- MCRank
    MaxRank = 2
    PageSize = 1
    Lookback = 2
    NoCursor = NoCursor
    NoMore = NoMore
INVARIANTS TypeOK ReferencesResolve RepliesJoinParent FiledOnce AcknowledgedComplete ListedThreadsExist FiledCanFinish AcknowledgedShown
PROPERTIES ThreadStartFixed ImplementsPaging
