\* One process in front of B2 whose dropped PUTs may still land.
SPECIFICATION FairSpec
CONSTANTS
    r1 = r1  r2 = r2  r3 = r3  r4 = r4
    i1 = i1  i2 = i2  k1 = k1  s1 = s1  h1 = h1  h2 = h2
    NoKey = NoKey
    Nobody = Nobody
    Requests = {r1, r2, r3, r4}
    Keys = {k1}
    Hashes = {h1, h2}
    Instances = {i1}
    Shards = {s1}
    IdemKey <- MCIdemKey
    RequestHash <- MCRequestHash
    Instance <- MCOneInstance
    ShardOf <- MCOneShard
    MaxWrites = 2
    Writes <- MCWrites
    AtomicCreate = FALSE
    LateWrites = TRUE
    Reliable = {r2}
    Readers = {}
INVARIANTS ReferenceAfterSource LogTruthful
PROPERTIES EveryCallEnds RetryRepairs
