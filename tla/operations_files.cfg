\* Two processes over one directory and a reader: create_new is atomic, the bytes follow.
SPECIFICATION Spec
CONSTANTS
    r1 = r1  r2 = r2  r3 = r3  r4 = r4
    i1 = i1  i2 = i2  k1 = k1  s1 = s1  h1 = h1  h2 = h2
    NoKey = NoKey
    Nobody = Nobody
    Requests = {r1, r2, r3}
    Keys = {k1}
    Hashes = {h1, h2}
    Instances = {i1, i2}
    Shards = {s1}
    IdemKey <- MCIdemKey
    RequestHash <- MCRequestHash
    Instance <- MCTwoInstances
    ShardOf <- MCOneShard
    MaxWrites = 4
    Writes <- MCEntityWrites
    AtomicCreate = TRUE
    LateWrites = FALSE
    Reliable = {}
    d1 = d1  tagA = tagA  spelledA = spelledA  blanks = blanks
    Blank = Blank
    Everyone = Everyone
    Readers = {d1}
    Names = {tagA, spelledA, blanks}
    Trim <- MCTrim
    Command <- MCCommand
INVARIANTS NoDuplicateEntities SameKeySameAnswer AnsweredWritten GetNeverDangles ReadAfterAnswer AudienceReached
PROPERTIES RecordNeverRebinds EntitiesImmutable
