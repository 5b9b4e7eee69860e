\* Two messages open a supplied thread at once.
SPECIFICATION Spec
CONSTANTS
    r1 = r1  r2 = r2  r3 = r3  r4 = r4
    c1 = c1  c2 = c2  c3 = c3
    t1 = t1  t2 = t2  i1 = i1
    None = None
    Blank = Blank
    Requests = {r1, r2, r3, r4}
    Commands = {c1, c2, c3}
    Supplied = {t1, t2}
    Instances = {i1}
    CommandOf <- MCCommandOf
    Instance <- MCOneInstance
    Parent <- MCOneReply
    ThreadId <- MCSharedThread
    ByKey = {}
    CreateThread = {}
    Recipients <- MCRecipients
    MaxRecipients = 2
    MaxTime = 1
    AwaitParent = FALSE
    AtomicCreate = TRUE
    Late = {}
INVARIANT ThreadStartsFirst
