\* A retry projects another read time than its event holds.
SPECIFICATION Spec
CONSTANTS
    r1 = r1  r2 = r2  r3 = r3  r4 = r4
    c1 = c1  c2 = c2  c3 = c3
    t1 = t1  t2 = t2  s1 = s1  s2 = s2  s3 = s3  i1 = i1  i2 = i2
    Unset = Unset
    None = None
    Torn = Torn
    Requests = {r1, r2, r3, r4}
    Commands = {c1, c2, c3}
    Targets = {t1, t2}
    Shards = {s1, s2, s3}
    Instances = {i1}
    CommandOf <- MCCommandOf
    Instance <- MCOneInstance
    Target <- MCSameTarget
    KeyShard <- MCOwnKeyShards
    ShardOf <- MCOneSpelling
    ReadAt <- MCDefaulted
    MaxTime = 2
    AtomicCreate = TRUE
    LateWrites = FALSE
    TornWrites = FALSE
    Reliable = {}
INVARIANT ProjectionFromLog
