\* One process in front of B2: HEAD before PUT under the create lock.
SPECIFICATION Spec
CONSTANTS
    r1 = r1  r2 = r2  r3 = r3  r4 = r4
    i1 = i1  i2 = i2  k1 = k1  s1 = s1  h1 = h1  h2 = h2
    NoKey = NoKey
    Nobody = Nobody
    Requests = {r1, r2, r3, r4}
    Keys = {k1}
    Hashes = {h1, h2}
    Instances = {i1}
    Shards = {s1}
    IdemKey <- MCIdemKey
    RequestHash <- MCRequestHash
    Instance <- MCOneInstance
    ShardOf <- MCOneShard
    MaxWrites = 2
    Writes <- MCWrites
    AtomicCreate = FALSE
    LateWrites = FALSE
    Reliable = {}
    Readers = {}
INVARIANTS TypeOK NoDuplicateEntities SameKeySameAnswer AnsweredDurable ReferenceAfterSource LogTruthful
PROPERTIES RecordNeverRebinds RefinesCalls
