\* A torn object is taken for a written one (localfs.rs put, application.rs put_json_create_only).
SPECIFICATION Spec
CONSTANTS
    r1 = r1  r2 = r2  r3 = r3  r4 = r4
    i1 = i1  i2 = i2  k1 = k1  s1 = s1  h1 = h1  h2 = h2
    NoKey = NoKey
    Nobody = Nobody
    Requests = {r1, r2, r3, r4}
    Keys = {k1}
    Hashes = {h1, h2}
    Instances = {i1}
    Shards = {s1}
    IdemKey <- MCIdemKey
    RequestHash <- MCRequestHash
    Instance <- MCOneInstance
    ShardOf <- MCOneShard
    MaxWrites = 2
    Writes <- MCWrites
    AtomicCreate = TRUE
    LateWrites = FALSE
    Reliable = {}
    Readers = {}
INVARIANT AnsweredDurable
