------------------------------ MODULE Operations ------------------------------
(***************************************************************************)
(* The idempotent multi-object write protocol every command of             *)
(* src/src/application.rs runs (send_message, send_broadcast, mark_read,   *)
(* create_attachment): take the in-process idempotency lock, bind the      *)
(* (caller, idempotency key) pair to an operation record, write the        *)
(* command's immutable objects one by one, write the operation result and  *)
(* mark the record completed; a retry finds the record and either decodes  *)
(* its result or continues the operation under the identifiers it holds.   *)
(*                                                                         *)
(* A request is one call of the service; a client's retry is another       *)
(* request with the same key.  An operation is named by the request that   *)
(* drew its identifiers (they are fresh UUIDs, so one request draws them). *)
(* Object contents are abstracted to absent, torn (the file exists, its    *)
(* body is not written yet or was cut short) and whole.                    *)
(*                                                                         *)
(* Readers ask for an entity meanwhile (get_broadcast, get_attachment).    *)
(* They know its id, or the key that an answer told; reading by id is two  *)
(* GETs, and any step of a writer may come between them.                   *)
(***************************************************************************)
EXTENDS Naturals, FiniteSets

CONSTANTS
    Requests,      \* calls of the service
    Keys, NoKey,   \* (caller, idempotency key) pairs; NoKey: the client gave no key
    Hashes,        \* request fingerprints: operation kind and command content
    Instances,     \* service processes sharing one object store
    Shards,        \* positions of the sharded lock vector idempotency_locks
    Nobody,        \* the holder of a free lock, the writer of an absent object
    IdemKey,       \* [Requests -> Keys \cup {NoKey}]
    RequestHash,   \* [Requests -> Hashes]
    Instance,      \* [Requests -> Instances], the process that serves the request
    ShardOf,       \* [Keys -> Shards], the hash of lock_idempotency
    MaxWrites,     \* bound on the objects one command writes
    Writes,        \* [Hashes -> 1..MaxWrites], the objects the command writes
    AtomicCreate,  \* capabilities().create_if_absent_atomic: TRUE for local files only
    LateWrites,    \* may a PUT still land after its handler was dropped
    Reliable,      \* requests the environment neither fails, drops nor crashes
    Readers        \* calls of get_broadcast and get_attachment

ASSUME RequestsAssumption ==
    /\ IdemKey \in [Requests -> Keys \cup {NoKey}]
    /\ RequestHash \in [Requests -> Hashes]
    /\ Instance \in [Requests -> Instances]
    /\ Reliable \subseteq Requests
    /\ Nobody \notin Requests \cup Readers
    /\ NoKey \notin Keys

ASSUME StoreAssumption ==
    /\ ShardOf \in [Keys -> Shards]
    /\ MaxWrites \in Nat
    /\ Writes \in [Hashes -> 1..MaxWrites]
    /\ AtomicCreate \in BOOLEAN
    /\ LateWrites \in BOOLEAN
    /\ LateWrites => ~AtomicCreate   \* the bytes of a file are written before put returns
    /\ Readers # {} => \A h \in Hashes : Writes[h] >= 2   \* an entity and its lookup

VARIABLES
    pc,          \* where the handler of each request is
    op,          \* the operation the handler works for
    at,          \* position in the command's writes
    phase,       \* inside put: "ready", past the create lock ("head"), past HEAD or
                 \* with its file open ("put"), or dropped while on the wire ("late")
    idemLock,    \* holder of each idempotency lock shard of each instance
    createLock,  \* holder of each instance's non_atomic_create_lock
    record,      \* the idempotency record object of each key
    started,     \* operations whose started.json exists
    objects,     \* the immutable objects each operation writes
    steps,       \* step objects <<operation, position>> that exist
    completed,   \* the request that stamped each operation's completed.json
    reading      \* per reader: its next GET, the entity, was it answered before, outcome

store == <<record, started, objects, steps, completed>>
callVars == <<pc, op, at, phase, idemLock, createLock, store>>
vars == <<callVars, reading>>

Positions == 1..MaxWrites
Final == {"ok", "conflict", "failed"}
Creating == {"begin", "start", "write"}      \* put_json(.., create_only = true)
Overwriting == {"record", "complete", "publish"}
Contents == {"absent", "torn", "whole"}

Absent == [op |-> Nobody, status |-> "absent"]
Idle == [get |-> "idle", op |-> Nobody, told |-> FALSE, got |-> "nothing"]

Init ==
    /\ pc = [r \in Requests |-> "lock"]
    /\ op = [r \in Requests |-> r]
    /\ at = [r \in Requests |-> 1]
    /\ phase = [r \in Requests |-> "ready"]
    /\ idemLock = [g \in Instances \X Shards |-> Nobody]
    /\ createLock = [i \in Instances |-> Nobody]
    /\ record = [k \in Keys |-> Absent]
    /\ started = {}
    /\ objects = [w \in Requests \X Positions |-> "absent"]
    /\ steps = {}
    /\ completed = [o \in Requests |-> Nobody]
    /\ reading = [d \in Readers |-> Idle]

-----------------------------------------------------------------------------
(* Helpers.                                                                *)

HasKey(r) == IdemKey[r] # NoKey
Guard(r) == <<Instance[r], ShardOf[IdemKey[r]]>>
Live(r) == pc[r] \notin Final /\ phase[r] # "late"
Running(r) == Live(r) /\ pc[r] # "lock"

(* The guards of a set of handlers are dropped when the handlers end. *)
Unlocked(rs) == [g \in DOMAIN idemLock |->
                    IF idemLock[g] \in rs THEN Nobody ELSE idemLock[g]]
CreateUnlocked(rs) == [i \in Instances |->
                          IF createLock[i] \in rs THEN Nobody ELSE createLock[i]]

(* What the record reads as once its content is put.  Two processes that   *)
(* complete one operation write into one file, both from its start: the    *)
(* later bytes over the earlier, longer ones need not be JSON any more.    *)
RecordAfter(r, content) ==
    IF content = "torn" THEN {"torn"}
    ELSE IF pc[r] = "begin" THEN {"pending"}
    ELSE IF AtomicCreate /\ record[IdemKey[r]].status = "completed"
         THEN {"completed", "torn"}
    ELSE {"completed"}

(* The content stored at the key the current put writes: whole, or torn. *)
StorePut(r, content) ==
    LET o == op[r]  k == IdemKey[r]  whole == content = "whole" IN
    /\ IF pc[r] \in {"begin", "publish"} /\ HasKey(r)
       THEN \E status \in RecordAfter(r, content) :
                record' = [record EXCEPT ![k] = [op |-> o, status |-> status]]
       ELSE record' = record
    /\ started' = IF pc[r] = "start" THEN started \cup {o} ELSE started
    /\ objects' = IF pc[r] = "write"
                  THEN [objects EXCEPT ![<<o, at[r]>>] = content] ELSE objects
    /\ steps' = IF pc[r] # "record" THEN steps
                ELSE IF whole THEN steps \cup {<<o, at[r]>>}
                ELSE steps \ {<<o, at[r]>>}
    /\ completed' = IF pc[r] = "complete"
                    THEN [completed EXCEPT ![o] = IF whole THEN r ELSE Nobody]
                    ELSE completed

(* Is there an object at the key a create-only put is about to write? *)
MutOccupiedByCompleted(r) ==   \* mutant: a pending record does not hold the key
    \/ pc[r] = "begin" /\ record[IdemKey[r]].status = "completed"
    \/ pc[r] = "start" /\ op[r] \in started
    \/ pc[r] = "write" /\ objects[<<op[r], at[r]>>] # "absent"

MutRewriteObjects(r) ==        \* mutant: a repair writes every object anew
    \/ pc[r] = "begin" /\ record[IdemKey[r]].status # "absent"
    \/ pc[r] = "start" /\ op[r] \in started

Occupied(r) ==
    \/ pc[r] = "begin" /\ record[IdemKey[r]].status # "absent"
    \/ pc[r] = "start" /\ op[r] \in started
    \/ pc[r] = "write" /\ objects[<<op[r], at[r]>>] # "absent"

(* Where the store decides whether the key is free: atomically with the    *)
(* write, or at the HEAD under the create lock.                            *)
MayDecide(r) == phase[r] = IF AtomicCreate THEN "ready" ELSE "head"

(* A file is opened: created when the key is free, or truncated. *)
MayOpen(r) ==
    /\ AtomicCreate /\ phase[r] = "ready"
    /\ pc[r] \in Overwriting \/ (pc[r] \in Creating /\ ~Occupied(r))

(* The bytes are being written, or the PUT is being sent. *)
MaySend(r) ==
    \/ pc[r] \in Creating /\ phase[r] = "put"
    \/ pc[r] \in Overwriting /\ phase[r] = IF AtomicCreate THEN "put" ELSE "ready"

MutOneWriteTooMany(r) == at[r] <= Writes[RequestHash[r]]    \* mutant: off by one
MutLastWriteMissing(r) == at[r] + 1 < Writes[RequestHash[r]] \* mutant: off by one

(* Are there objects of the command left to write? *)
MoreToWrite(r) == at[r] < Writes[RequestHash[r]]

(* The step that follows the one at pc[r] when it returns Ok, or an error  *)
(* the code swallows.                                                      *)
NextPc(r) ==
    CASE pc[r] = "begin" -> "start"
      [] pc[r] = "start" -> "write"
      [] pc[r] = "write" -> "record"
      [] pc[r] = "record" -> IF MoreToWrite(r) THEN "write" ELSE "complete"
      [] pc[r] = "complete" -> IF HasKey(r) THEN "publish" ELSE "ok"
      [] pc[r] = "publish" -> "ok"

(* The put returned: its create lock is released; a handler that ends      *)
(* releases its idempotency lock too.                                      *)
GoOn(r, next) ==
    /\ pc' = [pc EXCEPT ![r] = next]
    /\ phase' = [phase EXCEPT ![r] = "ready"]
    /\ at' = IF pc[r] = "record" /\ next = "write"
             THEN [at EXCEPT ![r] = @ + 1] ELSE at
    /\ createLock' = CreateUnlocked({r})
    /\ idemLock' = IF next \in Final THEN Unlocked({r}) ELSE idemLock
    /\ UNCHANGED <<op, reading>>

-----------------------------------------------------------------------------
(* The handler.                                                            *)

(* lock_idempotency: wait for the shard's mutex, held to the end. *)
LockKey(r) ==
    /\ pc[r] = "lock" /\ HasKey(r)
    /\ idemLock[Guard(r)] = Nobody
    /\ idemLock' = [idemLock EXCEPT ![Guard(r)] = r]
    /\ pc' = [pc EXCEPT ![r] = "begin"]
    /\ UNCHANGED <<op, at, phase, createLock, store, reading>>

(* A blank key: no lock, no record; the operation only announces itself. *)
SkipLock(r) ==
    /\ pc[r] = "lock" /\ ~HasKey(r)
    /\ pc' = [pc EXCEPT ![r] = "start"]
    /\ UNCHANGED <<op, at, phase, idemLock, createLock, store, reading>>

(* put_json serializes create-only puts when the adapter is not atomic. *)
TakeCreateLock(r) ==
    /\ ~AtomicCreate
    /\ pc[r] \in Creating /\ phase[r] = "ready"
    /\ createLock[Instance[r]] = Nobody
    /\ createLock' = [createLock EXCEPT ![Instance[r]] = r]
    /\ phase' = [phase EXCEPT ![r] = "head"]
    /\ UNCHANGED <<pc, op, at, idemLock, store, reading>>

(* The HEAD of a create-only put finds nothing: the PUT follows. *)
HeadMiss(r) ==
    /\ pc[r] \in Creating /\ phase[r] = "head"
    /\ ~Occupied(r)
    /\ phase' = [phase EXCEPT ![r] = "put"]
    /\ UNCHANGED <<pc, op, at, idemLock, createLock, store, reading>>

(* LocalFileStore::put opens the file: it is there, with nothing in it. *)
OpenFile(r) ==
    /\ MayOpen(r)
    /\ StorePut(r, "torn")
    /\ phase' = [phase EXCEPT ![r] = "put"]
    /\ UNCHANGED <<pc, op, at, idemLock, createLock, reading>>

(* The put succeeds: the object is stored and the handler goes on. *)
Put(r) ==
    /\ MaySend(r)
    /\ StorePut(r, "whole")
    /\ GoOn(r, NextPc(r))

(* A create-only put meets an object: begin_operation reads the record it  *)
(* lost to; put_json_create_only takes the object for its own.             *)
MutCreateAgain(r) ==           \* mutant: retries the create until it wins
    /\ pc[r] \in Creating /\ MayDecide(r)
    /\ Occupied(r)
    /\ GoOn(r, IF pc[r] = "begin" THEN "begin" ELSE NextPc(r))
    /\ UNCHANGED store

AlreadyExists(r) ==
    /\ pc[r] \in Creating /\ MayDecide(r)
    /\ Occupied(r)
    /\ GoOn(r, IF pc[r] = "begin" THEN "read" ELSE NextPc(r))
    /\ UNCHANGED store

(* begin_operation reads the record: unreadable (torn, or another process  *)
(* is writing it), another command's, completed (its result is decoded),   *)
(* or pending (the handler adopts the operation and repairs it from its    *)
(* first object).                                                          *)
ReadTorn(r) ==
    /\ pc[r] = "read"
    /\ record[IdemKey[r]].status = "torn"
    /\ GoOn(r, "failed")
    /\ UNCHANGED store

ReadConflict(r) ==
    /\ pc[r] = "read"
    /\ record[IdemKey[r]].status \in {"pending", "completed"}
    /\ RequestHash[record[IdemKey[r]].op] # RequestHash[r]
    /\ GoOn(r, "conflict")
    /\ UNCHANGED store

MutKeepOwnIds(r, next) ==      \* mutant: repairs under freshly drawn identifiers
    /\ RequestHash[record[IdemKey[r]].op] = RequestHash[r]
    /\ pc' = [pc EXCEPT ![r] = next]
    /\ idemLock' = IF next = "ok" THEN Unlocked({r}) ELSE idemLock
    /\ UNCHANGED <<op, at, phase, createLock, store, reading>>

MutNoHashCheck(r, next) ==     \* mutant: the fingerprints are not compared
    /\ op' = [op EXCEPT ![r] = record[IdemKey[r]].op]
    /\ pc' = [pc EXCEPT ![r] = next]
    /\ idemLock' = IF next = "ok" THEN Unlocked({r}) ELSE idemLock
    /\ UNCHANGED <<at, phase, createLock, store, reading>>

Adopt(r, next) ==
    /\ RequestHash[record[IdemKey[r]].op] = RequestHash[r]
    /\ op' = [op EXCEPT ![r] = record[IdemKey[r]].op]
    /\ pc' = [pc EXCEPT ![r] = next]
    /\ idemLock' = IF next = "ok" THEN Unlocked({r}) ELSE idemLock
    /\ UNCHANGED <<at, phase, createLock, store, reading>>

ReadCompleted(r) ==
    /\ pc[r] = "read" /\ record[IdemKey[r]].status = "completed"
    /\ Adopt(r, "ok")

MutPendingFails(r) ==          \* mutant: a pending operation is reported, not repaired
    /\ pc[r] = "read" /\ record[IdemKey[r]].status = "pending"
    /\ Adopt(r, "failed")

ReadPending(r) ==
    /\ pc[r] = "read" /\ record[IdemKey[r]].status = "pending"
    /\ Adopt(r, "write")

Handler(r) ==
    \/ LockKey(r) \/ SkipLock(r)
    \/ TakeCreateLock(r) \/ HeadMiss(r) \/ OpenFile(r)
    \/ Put(r) \/ AlreadyExists(r)
    \/ ReadTorn(r) \/ ReadConflict(r) \/ ReadCompleted(r) \/ ReadPending(r)

-----------------------------------------------------------------------------
(* What the environment does.                                              *)

(* A store call fails.  The errors of started.json and of step objects are *)
(* swallowed, every other error ends the handler.                          *)
MutSwallowWrites(r) ==         \* mutant: errors of the objects are swallowed too
    IF pc[r] \in {"start", "write", "record"} THEN NextPc(r) ELSE "failed"
MutSwallowPublish(r) ==        \* mutant: an error of the last PUT is swallowed
    IF pc[r] \in {"start", "record", "publish"} THEN NextPc(r) ELSE "failed"

AfterFault(r) == IF pc[r] \in {"start", "record"} THEN NextPc(r) ELSE "failed"

(* ... having stored nothing (a HEAD, a GET, an open, or a PUT that never  *)
(* arrived), *)
CallFails(r) ==
    /\ r \notin Reliable
    /\ Live(r)
    /\ pc[r] = "read" \/ MayOpen(r) \/ MaySend(r) \/ (pc[r] \in Creating /\ MayDecide(r))
    /\ GoOn(r, AfterFault(r))
    /\ UNCHANGED store

(* ... or after all of it was stored and the reply was lost, or a part of  *)
(* the bytes of a file. *)
PutFails(r) ==
    /\ r \notin Reliable
    /\ MaySend(r)
    /\ StorePut(r, IF AtomicCreate THEN "torn" ELSE "whole")
    /\ GoOn(r, AfterFault(r))

(* The client disconnects and the server drops the handler's future.  The  *)
(* calls of the local adapter never yield: there only the wait for the     *)
(* lock can be dropped. *)
Drop(r) ==
    /\ r \notin Reliable
    /\ Live(r)
    /\ AtomicCreate => pc[r] = "lock"
    /\ GoOn(r, "failed")
    /\ UNCHANGED store

(* ... while a PUT is on the wire: the locks are free, the PUT is not      *)
(* recalled and may land at any later time, or never.                      *)
DropSending(r) ==
    /\ LateWrites
    /\ r \notin Reliable
    /\ MaySend(r)
    /\ phase' = [phase EXCEPT ![r] = "late"]
    /\ idemLock' = Unlocked({r})
    /\ createLock' = CreateUnlocked({r})
    /\ UNCHANGED <<pc, op, at, store, reading>>

LandLate(r) ==
    /\ phase[r] = "late"
    /\ StorePut(r, "whole")
    /\ GoOn(r, "failed")

(* A process dies and comes back: its handlers and its locks are gone. *)
Crash(i) ==
    LET dead == {r \in Requests : Instance[r] = i /\ Running(r)} IN
    /\ dead # {}
    /\ dead \cap Reliable = {}
    /\ pc' = [r \in Requests |-> IF r \in dead THEN "failed" ELSE pc[r]]
    /\ phase' = [r \in Requests |-> IF r \in dead THEN "ready" ELSE phase[r]]
    /\ idemLock' = Unlocked(dead)
    /\ createLock' = CreateUnlocked(dead)
    /\ UNCHANGED <<op, at, store, reading>>

-----------------------------------------------------------------------------
(* Readers.                                                                *)

(* The first objects of a command: the entity itself (broadcast body,      *)
(* attachment metadata), then the lookup from its id to the entity's key.  *)
MutLookupFirst == <<"lookup", "source">>   \* mutant: the id before the entity
Heads == <<"source", "lookup">>

(* The content of the object with this role in an operation. *)
Object(o, role) == objects[<<o, CHOOSE n \in 1..2 : Heads[n] = role>>]

Answered(o) == \E r \in Requests : pc[r] = "ok" /\ op[r] = o

(* A call with the id of an entity, or with the key its answer named. *)
Get(d, o) ==
    /\ reading[d] = Idle
    /\ \E first \in {"lookup", "source"} :
        /\ first = "source" => Answered(o)
        /\ reading' = [reading EXCEPT ![d] =
               [get |-> first, op |-> o, told |-> Answered(o), got |-> "nothing"]]
    /\ UNCHANGED callVars

Return(d, outcome) ==
    reading' = [reading EXCEPT ![d].get = "done", ![d].op = Nobody, ![d].got = outcome]

MutBlindLookup(d) ==           \* mutant: a torn lookup is taken for none
    /\ reading[d].get = "lookup"
    /\ IF Object(reading[d].op, "lookup") = "whole"
       THEN reading' = [reading EXCEPT ![d].get = "source", ![d].got = "lookup"]
       ELSE Return(d, "missing")
    /\ UNCHANGED callVars

(* The GET of the lookup: no such entity, a file not readable, or its key. *)
GetLookup(d) ==
    /\ reading[d].get = "lookup"
    /\ IF Object(reading[d].op, "lookup") = "absent" THEN Return(d, "missing")
       ELSE IF Object(reading[d].op, "lookup") = "torn" THEN Return(d, "unreadable")
       ELSE reading' = [reading EXCEPT ![d].get = "source", ![d].got = "lookup"]
    /\ UNCHANGED callVars

(* The GET of the entity itself; dangling: there is a lookup but no entity. *)
GetSource(d) ==
    /\ reading[d].get = "source"
    /\ IF Object(reading[d].op, "source") = "absent"
       THEN Return(d, IF reading[d].got = "lookup" THEN "dangling" ELSE "missing")
       ELSE Return(d, IF Object(reading[d].op, "source") = "torn" THEN "unreadable"
                      ELSE "entity")
    /\ UNCHANGED callVars

Reader(d) == (\E o \in Requests : Get(d, o)) \/ GetLookup(d) \/ GetSource(d)

-----------------------------------------------------------------------------
(* Nothing is left to run. *)
Finished ==
    /\ \A r \in Requests : ~Live(r)
    /\ UNCHANGED vars

Next ==
    \/ \E r \in Requests :
        \/ Handler(r)
        \/ CallFails(r) \/ PutFails(r)
        \/ Drop(r) \/ DropSending(r) \/ LandLate(r)
    \/ \E i \in Instances : Crash(i)
    \/ \E d \in Readers : Reader(d)
    \/ Finished

Spec == Init /\ [][Next]_vars

(* tokio polls every ready future and its mutexes are first come, first    *)
(* served; every store call returns.  With finitely many requests weak     *)
(* fairness of each handler says as much.                                  *)
Fairness == \A r \in Requests : WF_vars(Handler(r))
FairSpec == Spec /\ Fairness

-----------------------------------------------------------------------------
(* What must hold.                                                         *)

Records == [op : Requests \cup {Nobody},
            status : {"absent", "torn", "pending", "completed"}]

CallsTyped ==
    /\ pc \in [Requests -> {"lock", "read"} \cup Creating \cup Overwriting \cup Final]
    /\ op \in [Requests -> Requests]
    /\ at \in [Requests -> Positions]
    /\ phase \in [Requests -> {"ready", "head", "put", "late"}]
    /\ idemLock \in [Instances \X Shards -> Requests \cup {Nobody}]
    /\ createLock \in [Instances -> Requests \cup {Nobody}]
    /\ record \in [Keys -> Records]
    /\ started \subseteq Requests
    /\ objects \in [Requests \X Positions -> Contents]
    /\ steps \subseteq Requests \X Positions
    /\ completed \in [Requests -> Requests \cup {Nobody}]

ReadersTyped ==
    reading \in [Readers ->
        [get : {"idle", "lookup", "source", "done"}, op : Requests \cup {Nobody},
         told : BOOLEAN,
         got : {"nothing", "lookup", "missing", "unreadable", "dangling", "entity"}]]

(* Every variable, of the handlers and of the readers, has its type. *)
TypeOK == CallsTyped /\ ReadersTyped

HasObjects(o) == \E n \in Positions : objects[<<o, n>>] # "absent"

(* One idempotency key stands for one operation: however often a command   *)
(* is retried, and wherever its earlier attempts stopped, the objects      *)
(* written under the key carry the identifiers of one operation.           *)
NoDuplicateEntities ==
    \A o1, o2 \in Requests :
        /\ HasKey(o1) /\ IdemKey[o1] = IdemKey[o2]
        /\ HasObjects(o1) /\ HasObjects(o2)
        => o1 = o2

(* Two calls that return Ok under one key were the same command and name   *)
(* the same operation (begin_operation's kind and hash comparison).        *)
SameKeySameAnswer ==
    \A r1, r2 \in Requests :
        /\ HasKey(r1) /\ IdemKey[r1] = IdemKey[r2]
        /\ pc[r1] = "ok" /\ pc[r2] = "ok"
        => op[r1] = op[r2] /\ RequestHash[r1] = RequestHash[r2]

AllWhole(o) == \A n \in 1..Writes[RequestHash[o]] : objects[<<o, n>>] = "whole"

(* An Ok answer is durable: every object it names is readable, the result  *)
(* object is there, and a retry under the key finds the completed record.  *)
AnsweredDurable ==
    \A r \in Requests : pc[r] = "ok" =>
        /\ AllWhole(op[r])
        /\ completed[op[r]] # Nobody
        /\ HasKey(r) => record[IdemKey[r]] = [op |-> op[r], status |-> "completed"]

(* Whatever the store tears, an Ok answer was not given before each object *)
(* it names was written by some attempt, and the result as well.           *)
AnsweredWritten ==
    \A r \in Requests : pc[r] = "ok" =>
        /\ \A n \in 1..Writes[RequestHash[op[r]]] : objects[<<op[r], n>>] # "absent"
        /\ HasKey(r) => record[IdemKey[r]].op = op[r]

(* A reference never precedes what it points at: an object is only stored  *)
(* once every earlier object of its operation (body, lookup) is readable.  *)
ReferenceAfterSource ==
    \A w \in DOMAIN objects : objects[w] # "absent" =>
        \A m \in 1..(w[2] - 1) : objects[<<w[1], m>>] = "whole"

(* The operation log never runs ahead of the store: a step object, the     *)
(* result object and a completed record speak of objects that are there.   *)
LogTruthful ==
    /\ \A s \in steps : objects[s] = "whole"
    /\ \A o \in Requests : completed[o] # Nobody => AllWhole(o)
    /\ \A k \in Keys : record[k].status = "completed" =>
            completed[record[k].op] # Nobody

(* An id that can be looked up leads somewhere: whatever broke off between *)
(* the writes, no reader follows a lookup to an entity that is not there.  *)
GetNeverDangles == \A d \in Readers : reading[d].got # "dangling"

(* A reader that begins after the command was answered, by its first call  *)
(* or by any retry, is never told that there is no such entity.            *)
ReadAfterAnswer == \A d \in Readers : reading[d].told => reading[d].got # "missing"

(* What was readable once stays so: no repair, by whatever process, opens  *)
(* a file again that is complete.  It speaks of adapters that create in    *)
(* one call: the contents do not tell a whole object from another whole    *)
(* object that a late PUT stores over it.                                  *)
EntitiesImmutable ==
    [][\A w \in DOMAIN objects : objects[w] = "whole" => objects'[w] = "whole"]_vars

(* A key is bound to its first operation for good: no create, repair or    *)
(* completion ever stores a record of another operation over it, readable  *)
(* or torn.                                                                *)
RecordNeverRebinds ==
    [][\A k \in Keys : record[k].op # Nobody => record'[k].op = record[k].op]_vars

(* Every call ends: no lock is left behind, no two handlers wait for each  *)
(* other, whatever happens to the other calls.                             *)
EveryCallEnds == \A r \in Requests : <>~Live(r)

(* A call that meets no error of its own completes the command, or is told *)
(* of a conflict, wherever the earlier attempts under its key broke off.   *)
RetryRepairs == \A r \in Reliable : <>(pc[r] \in {"ok", "conflict"})

(* The handlers keep the promise of IdempotentCalls: a key is bound by the *)
(* first record that is stored, settled when the record is completed.      *)
Calls == INSTANCE IdempotentCalls WITH
    bound <- [k \in Keys |-> record[k].op],
    settled <- {k \in Keys : record[k].status = "completed"},
    answer <- [r \in Requests |->
        [kind |-> IF pc[r] \in Final THEN pc[r] ELSE "waiting",
         op |-> IF pc[r] = "ok" THEN op[r] ELSE Nobody]]

(* Every behaviour of the handlers is one the callers were promised. *)
RefinesCalls == Calls!Spec

=============================================================================
