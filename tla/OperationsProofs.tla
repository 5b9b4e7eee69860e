--------------------------- MODULE OperationsProofs ---------------------------
(***************************************************************************)
(* Proofs about Operations, for every set of requests, keys, instances and *)
(* shards, every shard function and every length of the commands.          *)
(***************************************************************************)
EXTENDS Operations, TLAPS

-----------------------------------------------------------------------------
(* Type correctness.  Adopting an operation is well typed only because a   *)
(* record that exists names an operation and only keyed calls read one.    *)

KeyedSteps ==
    \A r \in Requests : pc[r] \in {"begin", "read", "publish"} => HasKey(r)

RecordsBound ==
    \A k \in Keys : record[k].status # "absent" => record[k].op \in Requests

Typed == CallsTyped /\ KeyedSteps /\ RecordsBound

Pcs == {"lock", "read"} \cup Creating \cup Overwriting \cup Final

(* Releasing guards leaves the lock tables well typed. *)
LEMMA UnlockedTyped ==
    ASSUME CallsTyped, NEW rs
    PROVE  /\ Unlocked(rs) \in [Instances \X Shards -> Requests \cup {Nobody}]
           /\ CreateUnlocked(rs) \in [Instances -> Requests \cup {Nobody}]
  BY DEF CallsTyped, Unlocked, CreateUnlocked

(* A record that is written exists. *)
LEMMA RecordAfterWritten ==
    ASSUME NEW r \in Requests, NEW content, NEW status \in RecordAfter(r, content)
    PROVE  status \in {"torn", "pending", "completed"}
  BY DEF RecordAfter

(* A put leaves the store well typed and its records bound. *)
LEMMA StorePutTyped ==
    ASSUME Typed, NEW r \in Requests, NEW content \in {"torn", "whole"},
           StorePut(r, content)
    PROVE  /\ record' \in [Keys -> Records]
           /\ started' \subseteq Requests
           /\ objects' \in [Requests \X Positions -> Contents]
           /\ steps' \subseteq Requests \X Positions
           /\ completed' \in [Requests -> Requests \cup {Nobody}]
           /\ RecordsBound'
  <1>0. /\ CallsTyped /\ RecordsBound
        /\ op[r] \in Requests /\ at[r] \in Positions
        /\ HasKey(r) => IdemKey[r] \in Keys
    BY RequestsAssumption DEF Typed, CallsTyped, HasKey
  <1>1. /\ record' \in [Keys -> Records] /\ RecordsBound'
    <2>1. CASE pc[r] \in {"begin", "publish"} /\ HasKey(r)
      <3>1. PICK status \in RecordAfter(r, content) :
                record' = [record EXCEPT ![IdemKey[r]] = [op |-> op[r], status |-> status]]
        BY <2>1 DEF StorePut
      <3> DEFINE new == [op |-> op[r], status |-> status]
      <3>2. new \in Records /\ new.op \in Requests
        BY <1>0, RecordAfterWritten DEF Records
      <3>3. record' = [record EXCEPT ![IdemKey[r]] = new]
        BY <3>1
      <3> HIDE DEF new
      <3> QED BY <1>0, <2>1, <3>2, <3>3 DEF CallsTyped, RecordsBound
    <2>2. CASE ~(pc[r] \in {"begin", "publish"} /\ HasKey(r))
      BY <1>0, <2>2 DEF StorePut, CallsTyped, RecordsBound
    <2> QED BY <2>1, <2>2
  <1>2. started' \subseteq Requests /\ steps' \subseteq Requests \X Positions
    BY <1>0 DEF StorePut, CallsTyped
  <1>3. /\ objects' \in [Requests \X Positions -> Contents]
        /\ completed' \in [Requests -> Requests \cup {Nobody}]
    BY <1>0 DEF StorePut, CallsTyped, Contents
  <1> QED BY <1>1, <1>2, <1>3

(* Where a put leads when it returns, and that the position stays in the   *)
(* command: the reference loop goes round only while objects are left.     *)
LEMMA NextPcTyped ==
    ASSUME CallsTyped, NEW r \in Requests, pc[r] \in Creating \cup Overwriting
    PROVE  /\ NextPc(r) \in {"start", "write", "record", "complete", "publish", "ok"}
           /\ NextPc(r) = "publish" => HasKey(r)
           /\ pc[r] = "record" /\ NextPc(r) = "write" => at[r] + 1 \in Positions
  <1>1. pc[r] \in {"begin", "start", "write", "record", "complete", "publish"}
    BY DEF Creating, Overwriting
  <1>2. CASE pc[r] # "record"
    BY <1>1, <1>2 DEF NextPc
  <1>3. CASE pc[r] = "record"
    <2>1. NextPc(r) = IF MoreToWrite(r) THEN "write" ELSE "complete"
      BY <1>3 DEF NextPc
    <2>2. MoreToWrite(r) => at[r] + 1 \in Positions
      BY RequestsAssumption, StoreAssumption DEF MoreToWrite, CallsTyped, Positions
    <2> QED BY <1>3, <2>1, <2>2
  <1> QED BY <1>2, <1>3

LEMMA GoOnTyped ==
    ASSUME Typed, NEW r \in Requests, NEW next \in Pcs, GoOn(r, next),
           next \in {"begin", "read", "publish"} => HasKey(r),
           pc[r] = "record" /\ next = "write" => at[r] + 1 \in Positions
    PROVE  /\ pc' \in [Requests -> Pcs]
           /\ op' \in [Requests -> Requests]
           /\ at' \in [Requests -> Positions]
           /\ phase' \in [Requests -> {"ready", "head", "put", "late"}]
           /\ idemLock' \in [Instances \X Shards -> Requests \cup {Nobody}]
           /\ createLock' \in [Instances -> Requests \cup {Nobody}]
           /\ KeyedSteps'
  <1>1. /\ pc' \in [Requests -> Pcs] /\ op' \in [Requests -> Requests]
        /\ at' \in [Requests -> Positions]
        /\ phase' \in [Requests -> {"ready", "head", "put", "late"}]
    BY DEF GoOn, Typed, CallsTyped, Pcs
  <1>2. /\ idemLock' \in [Instances \X Shards -> Requests \cup {Nobody}]
        /\ createLock' \in [Instances -> Requests \cup {Nobody}]
    BY UnlockedTyped DEF GoOn, Typed, CallsTyped
  <1>3. KeyedSteps'
    BY DEF GoOn, Typed, CallsTyped, KeyedSteps, HasKey
  <1> QED BY <1>1, <1>2, <1>3

(* A put of the handler or of a fault that goes on to next. *)
LEMMA PutTyped ==
    ASSUME Typed, NEW r \in Requests, NEW content \in {"torn", "whole"},
           NEW next \in Pcs, StorePut(r, content), GoOn(r, next),
           next \in {"begin", "read", "publish"} => HasKey(r),
           pc[r] = "record" /\ next = "write" => at[r] + 1 \in Positions
    PROVE  Typed'
  BY StorePutTyped, GoOnTyped DEF Typed, CallsTyped, Pcs

(* A step that ends or continues a handler and leaves the store alone. *)
LEMMA GoOnOnlyTyped ==
    ASSUME Typed, NEW r \in Requests, NEW next \in Pcs, GoOn(r, next), UNCHANGED store,
           next \in {"begin", "read", "publish"} => HasKey(r),
           pc[r] = "record" /\ next = "write" => at[r] + 1 \in Positions
    PROVE  Typed'
  BY GoOnTyped DEF Typed, CallsTyped, RecordsBound, store, Pcs

LEMMA TypedInit == Init => Typed
  <1> SUFFICES ASSUME Init PROVE Typed
    OBVIOUS
  <1>1. MaxWrites \in Nat /\ (Requests # {} => 1 \in Positions)
    BY RequestsAssumption, StoreAssumption DEF Positions
  <1>2. CallsTyped
    BY <1>1 DEF Init, CallsTyped, Absent, Records, Contents
  <1>3. KeyedSteps /\ RecordsBound
    BY DEF Init, KeyedSteps, RecordsBound, Absent
  <1> QED BY <1>2, <1>3 DEF Typed

LEMMA SendingPcs ==
    ASSUME NEW r \in Requests, MayOpen(r) \/ MaySend(r)
    PROVE  pc[r] \in Creating \cup Overwriting
  BY DEF MayOpen, MaySend

LEMMA AfterFaultTyped ==
    ASSUME Typed, NEW r \in Requests,
           pc[r] \in Creating \cup Overwriting \cup {"read"}
    PROVE  /\ AfterFault(r) \in Pcs
           /\ AfterFault(r) \notin {"begin", "read", "publish"}
           /\ pc[r] = "record" /\ AfterFault(r) = "write" => at[r] + 1 \in Positions
  <1>1. CASE pc[r] \in {"start", "record"}
    <2>1. AfterFault(r) = NextPc(r)
      BY <1>1 DEF AfterFault
    <2>2. NextPc(r) \in {"write", "complete"}
      BY <1>1 DEF NextPc
    <2> QED BY <1>1, <2>1, <2>2, NextPcTyped DEF Typed, Pcs, Creating, Overwriting
  <1>2. CASE pc[r] \notin {"start", "record"}
    BY <1>2 DEF AfterFault, Pcs, Final
  <1> QED BY <1>1, <1>2

LEMMA HandlerTyped ==
    ASSUME Typed, NEW r \in Requests, Handler(r)
    PROVE  Typed'
  <1>1. CASE LockKey(r)
    BY <1>1 DEF LockKey, Typed, CallsTyped, KeyedSteps, RecordsBound, HasKey, store, Creating
  <1>2. CASE SkipLock(r)
    BY <1>2 DEF SkipLock, Typed, CallsTyped, KeyedSteps, RecordsBound, HasKey, store, Creating
  <1>3. CASE TakeCreateLock(r)
    BY <1>3 DEF TakeCreateLock, Typed, CallsTyped, KeyedSteps, RecordsBound, HasKey, store
  <1>4. CASE HeadMiss(r)
    BY <1>4 DEF HeadMiss, Typed, CallsTyped, KeyedSteps, RecordsBound, HasKey, store
  <1>12. CASE OpenFile(r)
    <2>1. StorePut(r, "torn") /\ phase' = [phase EXCEPT ![r] = "put"]
          /\ UNCHANGED <<pc, op, at, idemLock, createLock>>
      BY <1>12 DEF OpenFile
    <2>2. /\ record' \in [Keys -> Records] /\ started' \subseteq Requests
          /\ objects' \in [Requests \X Positions -> Contents]
          /\ steps' \subseteq Requests \X Positions
          /\ completed' \in [Requests -> Requests \cup {Nobody}] /\ RecordsBound'
      BY <2>1, StorePutTyped
    <2> QED BY <2>1, <2>2 DEF Typed, CallsTyped, KeyedSteps, HasKey
  <1>5. CASE Put(r)
    BY <1>5, NextPcTyped, SendingPcs, PutTyped
       DEF Put, Typed, Pcs, Creating, Overwriting, Final
  <1>6. CASE AlreadyExists(r)
    <2>1. /\ pc[r] \in Creating /\ UNCHANGED store
          /\ GoOn(r, IF pc[r] = "begin" THEN "read" ELSE NextPc(r))
      BY <1>6 DEF AlreadyExists
    <2>2. CASE pc[r] = "begin"
      <3>1. GoOn(r, "read") /\ HasKey(r)
        BY <2>1, <2>2 DEF Typed, KeyedSteps
      <3> QED BY <2>1, <2>2, <3>1, GoOnOnlyTyped DEF Pcs
    <2>3. CASE pc[r] # "begin"
      <3>1. GoOn(r, NextPc(r))
        BY <2>1, <2>3
      <3>2. NextPc(r) \in Pcs \ {"begin", "read"}
        BY <2>1, NextPcTyped DEF Typed, Pcs, Creating, Overwriting, Final
      <3> QED BY <2>1, <3>1, <3>2, NextPcTyped, GoOnOnlyTyped DEF Typed, Creating
    <2> QED BY <2>2, <2>3
  <1>7. CASE ReadTorn(r)
    BY <1>7, GoOnOnlyTyped DEF ReadTorn, Pcs, Final
  <1>8. CASE ReadConflict(r)
    BY <1>8, GoOnOnlyTyped DEF ReadConflict, Pcs, Final
  <1>9. ASSUME NEW next \in {"ok", "write"}, pc[r] = "read", Adopt(r, next),
               record[IdemKey[r]].status # "absent"
        PROVE  Typed'
    <2>1. IdemKey[r] \in Keys
      BY <1>9, RequestsAssumption DEF Typed, KeyedSteps, HasKey
    <2>2. record[IdemKey[r]].op \in Requests
      BY <1>9, <2>1 DEF Typed, RecordsBound
    <2>3. idemLock' \in [Instances \X Shards -> Requests \cup {Nobody}]
      BY <1>9, UnlockedTyped DEF Adopt, Typed, CallsTyped
    <2> QED BY <1>9, <2>2, <2>3
            DEF Adopt, Typed, CallsTyped, KeyedSteps, RecordsBound, HasKey, store, Creating, Final
  <1>10. CASE ReadCompleted(r)
    BY <1>9, <1>10 DEF ReadCompleted
  <1>11. CASE ReadPending(r)
    BY <1>9, <1>11 DEF ReadPending
  <1> QED BY <1>1, <1>2, <1>3, <1>4, <1>5, <1>6, <1>7, <1>8, <1>10, <1>11, <1>12 DEF Handler

(* A reader changes nothing a handler sees, and keeps its own type. *)
LEMMA ReadersOnlyRead ==
    ASSUME NEW d \in Readers, Reader(d)
    PROVE  UNCHANGED callVars
  BY DEF Reader, Get, GetLookup, GetSource

LEMMA ReadersTypedNext == ReadersTyped /\ [Next]_vars => ReadersTyped'
  <1> SUFFICES ASSUME ReadersTyped, [Next]_vars PROVE ReadersTyped'
    OBVIOUS
  <1>1. ASSUME NEW d \in Readers, NEW o \in Requests, Get(d, o) PROVE ReadersTyped'
    <2>1. PICK first \in {"lookup", "source"} :
              reading' = [reading EXCEPT ![d] =
                  [get |-> first, op |-> o, told |-> Answered(o), got |-> "nothing"]]
      BY <1>1 DEF Get
    <2>2. Answered(o) \in BOOLEAN
      BY DEF Answered
    <2> QED BY <2>1, <2>2 DEF ReadersTyped
  <1>2. ASSUME NEW d \in Readers,
               NEW outcome \in {"missing", "unreadable", "dangling", "entity"},
               Return(d, outcome)
        PROVE  ReadersTyped'
    BY <1>2 DEF Return, ReadersTyped
  <1>3. ASSUME NEW d \in Readers, GetLookup(d) PROVE ReadersTyped'
    <2>1. CASE reading' = [reading EXCEPT ![d].get = "source", ![d].got = "lookup"]
      BY <2>1 DEF ReadersTyped
    <2> QED BY <1>2, <1>3, <2>1 DEF GetLookup
  <1>4. ASSUME NEW d \in Readers, GetSource(d) PROVE ReadersTyped'
    BY <1>2, <1>4 DEF GetSource
  <1>5. CASE UNCHANGED reading
    BY <1>5 DEF ReadersTyped
  <1>6. ASSUME NEW r \in Requests, Handler(r) PROVE UNCHANGED reading
    BY <1>6 DEF Handler, LockKey, SkipLock, TakeCreateLock, HeadMiss, OpenFile, Put,
          AlreadyExists, ReadTorn, ReadConflict, ReadCompleted, ReadPending, Adopt, GoOn
  <1> QED BY <1>1, <1>3, <1>4, <1>5, <1>6
          DEF Next, Reader, CallFails, PutFails, Drop, DropSending, LandLate, Crash,
              GoOn, Finished, vars

LEMMA TypedNext == Typed /\ [Next]_vars => Typed'
  <1> SUFFICES ASSUME Typed, [Next]_vars PROVE Typed'
    OBVIOUS
  <1>1. ASSUME NEW r \in Requests, Handler(r) PROVE Typed'
    BY <1>1, HandlerTyped
  <1>2. ASSUME NEW r \in Requests, CallFails(r) PROVE Typed'
    <2>1. pc[r] \in Creating \cup Overwriting \cup {"read"}
      BY <1>2, SendingPcs DEF CallFails
    <2>2. GoOn(r, AfterFault(r)) /\ UNCHANGED store
      BY <1>2 DEF CallFails
    <2> QED BY <2>1, <2>2, AfterFaultTyped, GoOnOnlyTyped
  <1>3. ASSUME NEW r \in Requests, PutFails(r)
        PROVE  Typed'
    <2>1. PICK content \in {"torn", "whole"} : StorePut(r, content)
      BY <1>3 DEF PutFails
    <2>2. pc[r] \in Creating \cup Overwriting \cup {"read"}
      BY <1>3, SendingPcs DEF PutFails
    <2>3. GoOn(r, AfterFault(r))
      BY <1>3 DEF PutFails
    <2> QED BY <2>1, <2>2, <2>3, AfterFaultTyped, PutTyped
  <1>4. ASSUME NEW r \in Requests, Drop(r) PROVE Typed'
    BY <1>4, GoOnOnlyTyped DEF Drop, Pcs, Final
  <1>5. ASSUME NEW r \in Requests, DropSending(r) PROVE Typed'
    BY <1>5, UnlockedTyped
       DEF DropSending, Typed, CallsTyped, KeyedSteps, RecordsBound, HasKey, store
  <1>6. ASSUME NEW r \in Requests, LandLate(r) PROVE Typed'
    BY <1>6, PutTyped DEF LandLate, Pcs, Final
  <1>7. ASSUME NEW i \in Instances, Crash(i) PROVE Typed'
    BY <1>7, UnlockedTyped
       DEF Crash, Typed, CallsTyped, KeyedSteps, RecordsBound, HasKey, store, Final
  <1>8. CASE (\E d \in Readers : Reader(d)) \/ Finished \/ UNCHANGED vars
    <2>1. UNCHANGED callVars
      BY <1>8, ReadersOnlyRead DEF Finished, vars
    <2> QED BY <2>1 DEF callVars, store, Typed, CallsTyped, KeyedSteps, RecordsBound, HasKey
  <1> QED BY <1>1, <1>2, <1>3, <1>4, <1>5, <1>6, <1>7, <1>8 DEF Next

LEMMA TypedAlways == Spec => []Typed
  BY TypedInit, TypedNext, PTL DEF Spec

(* Every variable keeps its type, on every adapter and deployment: crashes, *)
(* torn files, late PUTs and several processes included.                    *)
THEOREM TypeCorrect == Spec => []TypeOK
  <1>1. Init => ReadersTyped
    BY DEF Init, ReadersTyped, Idle
  <1>2. Typed /\ ReadersTyped => TypeOK
    BY DEF Typed, TypeOK
  <1> QED BY <1>1, <1>2, ReadersTypedNext, TypedAlways, PTL DEF Spec

-----------------------------------------------------------------------------
(* One key, one operation.  The promise needs either an adapter that       *)
(* decides atomically whether a key is free, or one process whose create   *)
(* lock covers HEAD and PUT; and it needs a PUT to be over when the        *)
(* handler that sent it has let its locks go.                              *)

OneWriterPerKey ==
    /\ ~LateWrites
    /\ AtomicCreate \/ \A r1, r2 \in Requests : Instance[r1] = Instance[r2]

(* Handlers past begin_operation, the answered ones included. *)
Begun == {"start", "write", "ok"} \cup Overwriting

(* A handler between HEAD and PUT holds its process's create lock, one with *)
(* an open file needs none ... *)
CreateSerialized ==
    \A r \in Requests :
        /\ phase[r] # "late"
        /\ phase[r] # "ready" =>
            IF AtomicCreate
            THEN phase[r] = "put" /\ pc[r] \in Creating \cup Overwriting
            ELSE pc[r] \in Creating /\ createLock[Instance[r]] = r

(* ... so what the HEAD of a record found is still so at its PUT, and a     *)
(* record whose file a handler has created is still that handler's.         *)
HeadStillTrue ==
    \A r \in Requests : phase[r] = "put" /\ pc[r] = "begin" =>
        IF AtomicCreate
        THEN record[IdemKey[r]].status # "absent" /\ record[IdemKey[r]].op = r
        ELSE record[IdemKey[r]].status = "absent"

OwnIds ==
    \A r \in Requests :
        pc[r] \in {"lock", "begin", "read"} \/ ~HasKey(r) => op[r] = r

ReadsARecord ==
    \A r \in Requests : pc[r] = "read" => record[IdemKey[r]].status # "absent"

(* A handler that writes, or has answered, works for the operation its key *)
(* is bound to, and that operation is the same command.                    *)
WorksForTheBound ==
    \A r \in Requests : HasKey(r) /\ pc[r] \in Begun =>
        /\ record[IdemKey[r]].status # "absent"
        /\ record[IdemKey[r]].op = op[r]
        /\ RequestHash[op[r]] = RequestHash[r]

RecordsOwnKey ==
    \A k \in Keys :
        IF record[k].status = "absent" THEN record[k].op = Nobody
                                       ELSE IdemKey[record[k].op] = k

ObjectsBound ==
    \A w \in Requests \X Positions : objects[w] # "absent" /\ HasKey(w[1]) =>
        /\ record[IdemKey[w[1]]].status # "absent"
        /\ record[IdemKey[w[1]]].op = w[1]

Binding ==
    /\ Typed /\ CreateSerialized /\ HeadStillTrue /\ OwnIds /\ ReadsARecord
    /\ WorksForTheBound /\ RecordsOwnKey /\ ObjectsBound

BindingsKept ==
    \A k \in Keys : record[k].status # "absent" =>
        record'[k].status # "absent" /\ record'[k].op = record[k].op


(* A put that is sent never takes a key from the operation it is bound to: *)
(* the create of a record only goes out while there is none, and the final *)
(* put of a record is that of its own operation.                           *)
LEMMA SentPut ==
    ASSUME Binding, OneWriterPerKey, NEW r \in Requests,
           NEW content \in {"torn", "whole"}, MayOpen(r) \/ MaySend(r),
           StorePut(r, content)
    PROVE  /\ BindingsKept
           /\ pc[r] = "begin" => /\ record'[IdemKey[r]].status # "absent"
                                /\ record'[IdemKey[r]].op = r
           /\ \A k \in Keys : record'[k] = record[k] \/ (k = IdemKey[r] /\ HasKey(r)
                  /\ pc[r] \in {"begin", "publish"}
                  /\ record'[k].op = op[r] /\ record'[k].status # "absent")
  <1>1. CASE pc[r] \in {"begin", "publish"} /\ HasKey(r)
    <2> DEFINE k == IdemKey[r]
    <2>1. k \in Keys
      BY <1>1, RequestsAssumption DEF HasKey
    <2>2. PICK status \in RecordAfter(r, content) :
              record' = [record EXCEPT ![k] = [op |-> op[r], status |-> status]]
      BY <1>1 DEF StorePut
    <2>3. record'[k].op = op[r] /\ record'[k].status # "absent"
      BY <2>1, <2>2, RecordAfterWritten DEF Binding, Typed, CallsTyped
    <2>4. \A j \in Keys \ {k} : record'[j] = record[j]
      BY <2>1, <2>2 DEF Binding, Typed, CallsTyped
    <2>5. pc[r] = "begin" =>
              op[r] = r /\ (record[k].status = "absent" \/ record[k].op = r)
      <3>1. pc[r] = "begin" /\ MayOpen(r) => record[k].status = "absent"
        BY DEF MayOpen, Occupied, Overwriting
      <3>2. pc[r] = "begin" /\ MaySend(r) =>
                record[k].status = "absent" \/ record[k].op = r
        BY DEF MaySend, Overwriting, Binding, HeadStillTrue
      <3> QED BY <3>1, <3>2 DEF Binding, OwnIds
    <2>6. pc[r] = "publish" => record[k].op = op[r]
      BY <1>1 DEF Binding, WorksForTheBound, Begun, Overwriting
    <2>7. BindingsKept
      BY <1>1, <2>3, <2>4, <2>5, <2>6 DEF BindingsKept
    <2> QED BY <1>1, <2>3, <2>4, <2>5, <2>7
  <1>2. CASE ~(pc[r] \in {"begin", "publish"} /\ HasKey(r))
    <2>1. record' = record
      BY <1>2 DEF StorePut
    <2>2. pc[r] # "begin"
      BY <1>2 DEF Binding, Typed, KeyedSteps
    <2> QED BY <2>1, <2>2 DEF BindingsKept
  <1> QED BY <1>1, <1>2

(* What it stores, in a record or an object, belongs to the bound operation. *)
LEMMA StoredBound ==
    ASSUME Binding, OneWriterPerKey, NEW r \in Requests,
           NEW content \in {"torn", "whole"}, MayOpen(r) \/ MaySend(r),
           StorePut(r, content)
    PROVE  RecordsOwnKey' /\ ObjectsBound'
  <1>1. /\ BindingsKept
        /\ \A k \in Keys : record'[k] = record[k] \/ (k = IdemKey[r] /\ HasKey(r)
                /\ pc[r] \in {"begin", "publish"}
                /\ record'[k].op = op[r] /\ record'[k].status # "absent")
    BY SentPut
  <1>2. RecordsOwnKey'
    <2> SUFFICES ASSUME NEW k \in Keys, record'[k] # record[k]
                 PROVE  record'[k].status # "absent" /\ IdemKey[record'[k].op] = k
      BY DEF Binding, RecordsOwnKey
    <2>1. /\ k = IdemKey[r] /\ HasKey(r) /\ pc[r] \in {"begin", "publish"}
          /\ record'[k].op = op[r] /\ record'[k].status # "absent"
      BY <1>1
    <2>2. CASE pc[r] = "begin"
      BY <2>1, <2>2 DEF Binding, OwnIds
    <2>3. CASE pc[r] = "publish"
      <3>1. record[k].op = op[r] /\ record[k].status # "absent"
        BY <2>1, <2>3 DEF Binding, WorksForTheBound, Begun, Overwriting
      <3> QED BY <2>1, <3>1 DEF Binding, RecordsOwnKey
    <2> QED BY <2>1, <2>2, <2>3
  <1>3. ObjectsBound'
    <2> SUFFICES ASSUME NEW w \in Requests \X Positions, objects'[w] # "absent", HasKey(w[1])
                 PROVE  /\ record'[IdemKey[w[1]]].status # "absent"
                        /\ record'[IdemKey[w[1]]].op = w[1]
      BY DEF ObjectsBound, HasKey
    <2>1. w[1] \in Requests /\ IdemKey[w[1]] \in Keys
      BY RequestsAssumption DEF HasKey
    <2>2. CASE objects[w] # "absent"
      BY <1>1, <2>1, <2>2 DEF Binding, ObjectsBound, BindingsKept
    <2>3. CASE objects[w] = "absent"
      <3>1. pc[r] = "write" /\ w = <<op[r], at[r]>>
        BY <2>3 DEF StorePut, Binding, Typed, CallsTyped
      <3>2. w[1] = op[r] /\ HasKey(r)
        BY <3>1 DEF Binding, OwnIds
      <3>3. /\ record[IdemKey[r]].status # "absent" /\ record[IdemKey[r]].op = op[r]
            /\ IdemKey[r] \in Keys
        BY <3>1, <3>2, RequestsAssumption DEF Binding, WorksForTheBound, Begun, HasKey
      <3>4. IdemKey[op[r]] = IdemKey[r]
        BY <3>3 DEF Binding, RecordsOwnKey
      <3> QED BY <1>1, <3>2, <3>3, <3>4 DEF BindingsKept
    <2> QED BY <2>2, <2>3
  <1> QED BY <1>2, <1>3
(* What holds of the handlers as they go on, when bindings are kept.       *)
LEMMA GoOnBinding ==
    ASSUME Binding, BindingsKept, NEW r \in Requests, NEW next \in Pcs, GoOn(r, next),
           next \notin {"lock", "begin"},
           next = "read" => record'[IdemKey[r]].status # "absent" /\ pc[r] = "begin",
           next \in Begun /\ HasKey(r) =>
              \/ pc[r] \in Begun
              \/ /\ pc[r] = "begin" /\ record'[IdemKey[r]].status # "absent"
                 /\ record'[IdemKey[r]].op = r
    PROVE  CreateSerialized' /\ OwnIds' /\ ReadsARecord' /\ WorksForTheBound'
  <1>1. CreateSerialized'
    BY RequestsAssumption DEF GoOn, CreateUnlocked, Binding, Typed, CallsTyped, CreateSerialized
  <1>2. OwnIds'
    BY DEF GoOn, Binding, Typed, CallsTyped, OwnIds, HasKey
  <1>3. ReadsARecord'
    BY RequestsAssumption
       DEF GoOn, Binding, Typed, CallsTyped, ReadsARecord, BindingsKept, KeyedSteps, HasKey
  <1>4. ASSUME NEW q \in Requests, HasKey(q), pc'[q] \in Begun
        PROVE  /\ record'[IdemKey[q]].status # "absent"
               /\ record'[IdemKey[q]].op = op'[q]
               /\ RequestHash[op'[q]] = RequestHash[q]
    <2>1. IdemKey[q] \in Keys /\ op' = op
      BY <1>4, RequestsAssumption DEF HasKey, GoOn
    <2>2. CASE pc[q] \in Begun
      BY <1>4, <2>1, <2>2 DEF Binding, WorksForTheBound, BindingsKept
    <2>3. CASE pc[q] \notin Begun
      <3>1. q = r /\ next \in Begun
        BY <1>4, <2>3 DEF GoOn, Binding, Typed, CallsTyped
      <3>2. pc[r] = "begin" /\ op[r] = r
        BY <1>4, <2>3, <3>1 DEF Binding, OwnIds
      <3> QED BY <1>4, <2>1, <2>3, <3>1, <3>2
    <2> QED BY <2>2, <2>3
  <1> QED BY <1>1, <1>2, <1>3, <1>4 DEF WorksForTheBound, HasKey

(* A put of the handler, or of a fault, keeps the bindings. *)
LEMMA PutBinding ==
    ASSUME Binding, OneWriterPerKey, NEW r \in Requests,
           NEW content \in {"torn", "whole"}, NEW next \in {NextPc(r), "failed"},
           MaySend(r), StorePut(r, content), GoOn(r, next), Typed'
    PROVE  Binding'
  <1>1. /\ BindingsKept
        /\ pc[r] = "begin" => /\ record'[IdemKey[r]].status # "absent"
                             /\ record'[IdemKey[r]].op = r
        /\ \A k \in Keys : record'[k] = record[k] \/ (k = IdemKey[r] /\ HasKey(r)
                /\ pc[r] \in {"begin", "publish"}
                /\ record'[k].op = op[r] /\ record'[k].status # "absent")
    BY SentPut
  <1>2. pc[r] \in Creating \cup Overwriting
    BY SendingPcs
  <1>3. next \in {"start", "write", "record", "complete", "publish", "ok", "failed"}
    BY <1>2, NextPcTyped DEF Binding, Typed
  <1>4. CreateSerialized' /\ OwnIds' /\ ReadsARecord' /\ WorksForTheBound'
    <2>1. next \in Pcs /\ next \notin {"lock", "begin", "read"}
      BY <1>3 DEF Pcs, Creating, Overwriting, Final
    <2>2. pc[r] \in Begun \/ pc[r] = "begin"
      BY <1>2 DEF Begun, Creating, Overwriting
    <2> QED BY <1>1, <2>1, <2>2, GoOnBinding
  <1>5. HeadStillTrue'
    <2> SUFFICES ASSUME NEW q \in Requests, phase'[q] = "put", pc'[q] = "begin"
                 PROVE  IF AtomicCreate
                        THEN record'[IdemKey[q]].status # "absent"
                             /\ record'[IdemKey[q]].op = q
                        ELSE record'[IdemKey[q]].status = "absent"
      BY DEF HeadStillTrue
    <2>1. q # r /\ phase[q] = "put" /\ pc[q] = "begin"
      BY <1>3 DEF GoOn, Binding, Typed, CallsTyped
    <2>2. IdemKey[q] \in Keys /\ HasKey(q)
      BY <2>1, RequestsAssumption DEF Binding, Typed, KeyedSteps, HasKey
    <2>3. CASE AtomicCreate
      BY <1>1, <2>1, <2>2, <2>3 DEF Binding, HeadStillTrue, BindingsKept
    <2>4. CASE ~AtomicCreate
      <3>1. createLock[Instance[q]] = q /\ record[IdemKey[q]].status = "absent"
        BY <2>1, <2>4 DEF Binding, CreateSerialized, HeadStillTrue
      <3>2. pc[r] # "begin" \/ createLock[Instance[r]] = r
        BY <2>4 DEF MaySend, Overwriting, Binding, CreateSerialized
      <3>3. pc[r] # "begin"
        BY <2>1, <2>4, <3>1, <3>2 DEF OneWriterPerKey
      <3>4. pc[r] = "publish" /\ HasKey(r) => record[IdemKey[r]].status # "absent"
        BY DEF Binding, WorksForTheBound, Begun, Overwriting
      <3> QED BY <1>1, <2>2, <2>4, <3>1, <3>3, <3>4
    <2> QED BY <2>3, <2>4
  <1>6. RecordsOwnKey' /\ ObjectsBound'
    BY StoredBound
  <1> QED BY <1>4, <1>5, <1>6 DEF Binding

(* So does a step that ends or continues a handler and stores nothing.     *)
LEMMA GoOnOnlyBinding ==
    ASSUME Binding, NEW r \in Requests, NEW next \in Pcs, GoOn(r, next), UNCHANGED store,
           next \notin {"lock", "begin"},
           next = "read" => record[IdemKey[r]].status # "absent" /\ pc[r] = "begin",
           next \in Begun /\ HasKey(r) => pc[r] \in Begun,
           Typed'
    PROVE  Binding'
  <1>1. BindingsKept /\ record' = record /\ objects' = objects
    BY DEF BindingsKept, store
  <1>2. CreateSerialized' /\ OwnIds' /\ ReadsARecord' /\ WorksForTheBound'
    BY <1>1, GoOnBinding
  <1>3. HeadStillTrue'
    BY <1>1 DEF HeadStillTrue, Binding, GoOn, Typed, CallsTyped
  <1>4. RecordsOwnKey' /\ ObjectsBound'
    BY <1>1 DEF Binding, RecordsOwnKey, ObjectsBound, HasKey
  <1> QED BY <1>2, <1>3, <1>4 DEF Binding

LEMMA BindingInit == Init => Binding
  <1> SUFFICES ASSUME Init PROVE Binding
    OBVIOUS
  <1>1. Typed
    BY TypedInit
  <1>2. CreateSerialized /\ HeadStillTrue /\ OwnIds /\ ReadsARecord
    BY DEF Init, CreateSerialized, HeadStillTrue, OwnIds, ReadsARecord
  <1>3. WorksForTheBound /\ RecordsOwnKey /\ ObjectsBound
    BY DEF Init, WorksForTheBound, Begun, Overwriting, RecordsOwnKey, ObjectsBound, Absent
  <1> QED BY <1>1, <1>2, <1>3 DEF Binding

LEMMA HandlerBinding ==
    ASSUME Binding, OneWriterPerKey, NEW r \in Requests, Handler(r)
    PROVE  Binding'
  <1>0. Typed /\ Typed'
    BY HandlerTyped DEF Binding
  <1>1. CASE LockKey(r)
    <2>1. UNCHANGED <<op, phase, createLock, record, objects>>
          /\ pc' = [pc EXCEPT ![r] = "begin"] /\ pc[r] = "lock"
      BY <1>1 DEF LockKey, store
    <2>2. CreateSerialized' /\ HeadStillTrue'
      BY <2>1 DEF Binding, CreateSerialized, HeadStillTrue, Typed, CallsTyped, Creating,
                  Overwriting
    <2>3. OwnIds' /\ ReadsARecord' /\ WorksForTheBound'
      BY <2>1 DEF Binding, OwnIds, ReadsARecord, WorksForTheBound, Typed, CallsTyped, Begun,
                  Overwriting, HasKey
    <2>4. RecordsOwnKey' /\ ObjectsBound'
      BY <2>1 DEF Binding, RecordsOwnKey, ObjectsBound, HasKey
    <2> QED BY <1>0, <2>2, <2>3, <2>4 DEF Binding
  <1>2. CASE SkipLock(r)
    <2>1. UNCHANGED <<op, phase, createLock, record, objects>>
          /\ pc' = [pc EXCEPT ![r] = "start"] /\ pc[r] = "lock" /\ ~HasKey(r)
      BY <1>2 DEF SkipLock, store
    <2>2. CreateSerialized' /\ HeadStillTrue'
      BY <2>1 DEF Binding, CreateSerialized, HeadStillTrue, Typed, CallsTyped, Creating,
                  Overwriting
    <2>3. OwnIds' /\ ReadsARecord' /\ WorksForTheBound'
      BY <2>1 DEF Binding, OwnIds, ReadsARecord, WorksForTheBound, Typed, CallsTyped, Begun,
                  Overwriting, HasKey
    <2>4. RecordsOwnKey' /\ ObjectsBound'
      BY <2>1 DEF Binding, RecordsOwnKey, ObjectsBound, HasKey
    <2> QED BY <1>0, <2>2, <2>3, <2>4 DEF Binding
  <1>3. CASE TakeCreateLock(r)
    <2>1. /\ UNCHANGED <<pc, op, record, objects>>
          /\ phase' = [phase EXCEPT ![r] = "head"] /\ ~AtomicCreate
          /\ createLock' = [createLock EXCEPT ![Instance[r]] = r]
          /\ createLock[Instance[r]] = Nobody /\ pc[r] \in Creating
      BY <1>3 DEF TakeCreateLock, store
    <2>2. CreateSerialized'
      <3> SUFFICES ASSUME NEW q \in Requests
                   PROVE  /\ phase'[q] # "late"
                          /\ phase'[q] # "ready" =>
                               pc'[q] \in Creating /\ createLock'[Instance[q]] = q
        BY <2>1 DEF CreateSerialized
      <3>1. createLock \in [Instances -> Requests \cup {Nobody}]
            /\ Instance[q] \in Instances /\ phase \in [Requests -> {"ready", "head", "put", "late"}]
        BY <1>0, RequestsAssumption DEF Typed, CallsTyped
      <3>2. CASE q = r
        BY <2>1, <3>1, <3>2
      <3>3. CASE q # r
        <4>1. phase'[q] = phase[q]
          BY <2>1, <3>1, <3>3
        <4>2. createLock[Instance[q]] = q => createLock'[Instance[q]] = q
          BY <2>1, <3>1, RequestsAssumption
        <4> QED BY <2>1, <4>1, <4>2 DEF Binding, CreateSerialized
      <3> QED BY <3>2, <3>3
    <2>3. HeadStillTrue'
      BY <2>1 DEF Binding, HeadStillTrue, Typed, CallsTyped
    <2>4. OwnIds' /\ ReadsARecord' /\ WorksForTheBound' /\ RecordsOwnKey' /\ ObjectsBound'
      BY <2>1 DEF Binding, OwnIds, ReadsARecord, WorksForTheBound, RecordsOwnKey,
                  ObjectsBound, HasKey
    <2> QED BY <1>0, <2>2, <2>3, <2>4 DEF Binding
  <1>4. CASE HeadMiss(r)
    <2>1. /\ UNCHANGED <<pc, op, createLock, record, objects>>
          /\ phase' = [phase EXCEPT ![r] = "put"]
          /\ pc[r] \in Creating /\ phase[r] = "head" /\ ~Occupied(r)
      BY <1>4 DEF HeadMiss, store
    <2>2. CreateSerialized'
      BY <2>1 DEF Binding, CreateSerialized, Typed, CallsTyped
    <2>3. HeadStillTrue'
      BY <2>1 DEF Binding, CreateSerialized, HeadStillTrue, Typed, CallsTyped, Occupied
    <2>4. OwnIds' /\ ReadsARecord' /\ WorksForTheBound' /\ RecordsOwnKey' /\ ObjectsBound'
      BY <2>1 DEF Binding, OwnIds, ReadsARecord, WorksForTheBound, RecordsOwnKey,
                  ObjectsBound, HasKey
    <2> QED BY <1>0, <2>2, <2>3, <2>4 DEF Binding
  <1>12. CASE OpenFile(r)
    <2>1. /\ AtomicCreate /\ MayOpen(r) /\ StorePut(r, "torn")
          /\ phase' = [phase EXCEPT ![r] = "put"] /\ UNCHANGED <<pc, op, createLock>>
      BY <1>12 DEF OpenFile, MayOpen
    <2>2. /\ BindingsKept /\ RecordsOwnKey' /\ ObjectsBound'
          /\ pc[r] = "begin" => /\ record'[IdemKey[r]].status # "absent"
                               /\ record'[IdemKey[r]].op = r
      BY <2>1, SentPut, StoredBound
    <2>3. CreateSerialized'
      BY <2>1, SendingPcs DEF Binding, CreateSerialized, Typed, CallsTyped
    <2>4. HeadStillTrue'
      <3> SUFFICES ASSUME NEW q \in Requests, phase'[q] = "put", pc[q] = "begin"
                   PROVE  record'[IdemKey[q]].status # "absent"
                          /\ record'[IdemKey[q]].op = q
        BY <2>1 DEF HeadStillTrue
      <3>1. IdemKey[q] \in Keys
        BY RequestsAssumption DEF Binding, Typed, KeyedSteps, HasKey
      <3>2. q # r => phase[q] = "put"
        BY <2>1 DEF Binding, Typed, CallsTyped
      <3> QED BY <2>1, <2>2, <3>1, <3>2 DEF Binding, HeadStillTrue, BindingsKept
    <2>5. OwnIds' /\ ReadsARecord'
      BY <2>1, <2>2, RequestsAssumption
         DEF Binding, OwnIds, ReadsARecord, BindingsKept, Typed, KeyedSteps, HasKey
    <2>6. WorksForTheBound'
      BY <2>1, <2>2, RequestsAssumption
         DEF Binding, WorksForTheBound, BindingsKept, HasKey
    <2> QED BY <1>0, <2>2, <2>3, <2>4, <2>5, <2>6 DEF Binding
  <1>5. CASE Put(r)
    BY <1>0, <1>5, PutBinding DEF Put
  <1>6. CASE AlreadyExists(r)
    <2>1. /\ pc[r] \in Creating /\ UNCHANGED store /\ Occupied(r)
          /\ GoOn(r, IF pc[r] = "begin" THEN "read" ELSE NextPc(r))
      BY <1>6 DEF AlreadyExists
    <2>2. CASE pc[r] = "begin"
      <3>1. GoOn(r, "read") /\ record[IdemKey[r]].status # "absent"
        BY <2>1, <2>2 DEF Occupied
      <3> QED BY <1>0, <2>1, <2>2, <3>1, GoOnOnlyBinding DEF Pcs, Begun, Overwriting
    <2>3. CASE pc[r] # "begin"
      <3>1. GoOn(r, NextPc(r)) /\ pc[r] \in Begun
        BY <2>1, <2>3 DEF Creating, Begun
      <3>2. NextPc(r) \in Pcs \ {"lock", "begin", "read"}
        BY <2>1, <1>0, NextPcTyped DEF Typed, Pcs, Creating, Overwriting, Final
      <3> QED BY <1>0, <2>1, <3>1, <3>2, GoOnOnlyBinding
    <2> QED BY <2>2, <2>3
  <1>7. CASE ReadTorn(r)
    BY <1>0, <1>7, GoOnOnlyBinding DEF ReadTorn, Pcs, Final, Begun, Overwriting
  <1>8. CASE ReadConflict(r)
    BY <1>0, <1>8, GoOnOnlyBinding DEF ReadConflict, Pcs, Final, Begun, Overwriting
  <1>9. ASSUME NEW next \in {"ok", "write"}, pc[r] = "read", Adopt(r, next),
               record[IdemKey[r]].status # "absent"
        PROVE  Binding'
    <2>1. /\ UNCHANGED <<phase, createLock, record, objects>>
          /\ pc' = [pc EXCEPT ![r] = next]
          /\ op' = [op EXCEPT ![r] = record[IdemKey[r]].op]
          /\ RequestHash[record[IdemKey[r]].op] = RequestHash[r]
      BY <1>9 DEF Adopt, store
    <2>2. HasKey(r) /\ IdemKey[r] \in Keys
      BY <1>0, <1>9, RequestsAssumption DEF Typed, KeyedSteps, HasKey
    <2>3. CreateSerialized' /\ HeadStillTrue'
      BY <1>9, <2>1 DEF Binding, CreateSerialized, HeadStillTrue, Typed, CallsTyped, Creating,
                        Overwriting
    <2>4. OwnIds' /\ ReadsARecord'
      BY <1>9, <2>1, <2>2 DEF Binding, OwnIds, ReadsARecord, Typed, CallsTyped, HasKey
    <2>5. WorksForTheBound'
      BY <1>9, <2>1, <2>2 DEF Binding, WorksForTheBound, Typed, CallsTyped, HasKey
    <2>6. RecordsOwnKey' /\ ObjectsBound'
      BY <2>1 DEF Binding, RecordsOwnKey, ObjectsBound, HasKey
    <2> QED BY <1>0, <2>3, <2>4, <2>5, <2>6 DEF Binding
  <1>10. CASE ReadCompleted(r)
    BY <1>9, <1>10 DEF ReadCompleted
  <1>11. CASE ReadPending(r)
    BY <1>9, <1>11 DEF ReadPending
  <1> QED BY <1>1, <1>2, <1>3, <1>4, <1>5, <1>6, <1>7, <1>8, <1>10, <1>11, <1>12 DEF Handler

LEMMA BindingNext == OneWriterPerKey /\ Binding /\ [Next]_vars => Binding'
  <1> SUFFICES ASSUME OneWriterPerKey, Binding, [Next]_vars PROVE Binding'
    OBVIOUS
  <1>0. Typed /\ Typed'
    BY TypedNext DEF Binding
  <1>1. ASSUME NEW r \in Requests, Handler(r) PROVE Binding'
    BY <1>1, HandlerBinding
  <1>2. ASSUME NEW r \in Requests, CallFails(r) PROVE Binding'
    <2>1. /\ pc[r] \in Creating \cup Overwriting \cup {"read"}
          /\ GoOn(r, AfterFault(r)) /\ UNCHANGED store
      BY <1>2, SendingPcs DEF CallFails
    <2>2. /\ AfterFault(r) \in Pcs
          /\ AfterFault(r) \notin {"lock", "begin", "read"}
          /\ AfterFault(r) \in Begun => pc[r] \in Begun
      <3>1. CASE pc[r] \in {"start", "record"}
        BY <3>1, <1>0, NextPcTyped
           DEF AfterFault, Typed, Creating, Overwriting, Pcs, Final, Begun
      <3>2. CASE pc[r] \notin {"start", "record"}
        BY <3>2 DEF AfterFault, Pcs, Final, Begun, Overwriting
      <3> QED BY <3>1, <3>2
    <2> QED BY <1>0, <2>1, <2>2, GoOnOnlyBinding
  <1>3. ASSUME NEW r \in Requests, PutFails(r)
        PROVE  Binding'
    <2>1. AfterFault(r) \in {NextPc(r), "failed"}
      BY DEF AfterFault
    <2> QED BY <1>0, <1>3, <2>1, PutBinding DEF PutFails
  <1>4. ASSUME NEW r \in Requests, Drop(r) PROVE Binding'
    BY <1>0, <1>4, GoOnOnlyBinding DEF Drop, Pcs, Final, Begun, Overwriting
  <1>5. ASSUME NEW r \in Requests, DropSending(r) \/ LandLate(r) PROVE Binding'
    BY <1>5 DEF DropSending, LandLate, OneWriterPerKey, Binding, CreateSerialized
  <1>6. ASSUME NEW i \in Instances, Crash(i) PROVE Binding'
    <2>1. UNCHANGED <<op, record, objects>>
      BY <1>6 DEF Crash, store
    <2>2. \A r \in Requests :
             \/ pc'[r] = "failed" /\ phase'[r] = "ready"
             \/ /\ pc'[r] = pc[r] /\ phase'[r] = phase[r]
                /\ createLock[Instance[r]] = r => createLock'[Instance[r]] = r
      BY <1>6, RequestsAssumption DEF Crash, CreateUnlocked, Binding, Typed, CallsTyped
    <2>3. CreateSerialized' /\ HeadStillTrue'
      BY <2>1, <2>2 DEF Binding, CreateSerialized, HeadStillTrue
    <2>4. OwnIds' /\ ReadsARecord' /\ WorksForTheBound'
      BY <2>1, <2>2
         DEF Binding, OwnIds, ReadsARecord, WorksForTheBound, Begun, Overwriting, HasKey
    <2>5. RecordsOwnKey' /\ ObjectsBound'
      BY <2>1 DEF Binding, RecordsOwnKey, ObjectsBound, HasKey
    <2> QED BY <1>0, <2>3, <2>4, <2>5 DEF Binding
  <1>7. CASE (\E d \in Readers : Reader(d)) \/ Finished \/ UNCHANGED vars
    <2>1. UNCHANGED <<pc, op, phase, createLock, record, objects>>
      BY <1>7, ReadersOnlyRead DEF Finished, vars, callVars, store
    <2> QED BY <1>0, <2>1
            DEF Binding, CreateSerialized, HeadStillTrue, OwnIds, ReadsARecord,
                WorksForTheBound, RecordsOwnKey, ObjectsBound, HasKey
  <1> QED BY <1>1, <1>2, <1>3, <1>4, <1>5, <1>6, <1>7 DEF Next

LEMMA BindingAlways == ASSUME OneWriterPerKey PROVE Spec => []Binding
  <1>1. Binding /\ [Next]_vars => Binding'
    BY BindingNext
  <1> QED BY <1>1, BindingInit, PTL DEF Spec

(* However often a command is retried, and whatever fails, all objects     *)
(* written under its key carry one operation's identifiers.                *)
THEOREM OneOperationPerKey == ASSUME OneWriterPerKey PROVE Spec => []NoDuplicateEntities
  <1>1. Binding => NoDuplicateEntities
    <2> SUFFICES ASSUME Binding, NEW o1 \in Requests, NEW o2 \in Requests,
                        HasKey(o1), IdemKey[o1] = IdemKey[o2],
                        HasObjects(o1), HasObjects(o2)
                 PROVE  o1 = o2
      BY DEF NoDuplicateEntities
    <2>1. HasKey(o2)
      BY DEF HasKey
    <2>2. ASSUME NEW o \in Requests, HasObjects(o), HasKey(o)
          PROVE  record[IdemKey[o]].op = o
      <3>1. PICK n \in Positions : objects[<<o, n>>] # "absent"
        BY <2>2 DEF HasObjects
      <3> QED BY <2>2, <3>1 DEF Binding, ObjectsBound
    <2> QED BY <2>1, <2>2
  <1> QED BY <1>1, BindingAlways, PTL

(* Two calls answered under one key were one command and are told of one   *)
(* operation.                                                              *)
THEOREM OneAnswerPerKey == ASSUME OneWriterPerKey PROVE Spec => []SameKeySameAnswer
  <1>1. Binding => SameKeySameAnswer
    <2> SUFFICES ASSUME Binding, NEW r1 \in Requests, NEW r2 \in Requests,
                        HasKey(r1), IdemKey[r1] = IdemKey[r2],
                        pc[r1] = "ok", pc[r2] = "ok"
                 PROVE  op[r1] = op[r2] /\ RequestHash[r1] = RequestHash[r2]
      BY DEF SameKeySameAnswer
    <2>1. HasKey(r2) /\ "ok" \in Begun
      BY DEF HasKey, Begun
    <2> QED BY <2>1 DEF Binding, WorksForTheBound
  <1> QED BY <1>1, BindingAlways, PTL

(* No create, repair or completion ever rebinds a key: the record that is  *)
(* stored over a record names the same operation.                          *)
THEOREM KeysNeverRebind == ASSUME OneWriterPerKey PROVE Spec => RecordNeverRebinds
  <1>1. ASSUME Binding, [Next]_vars PROVE BindingsKept
    <2>1. ASSUME NEW r \in Requests, NEW content \in {"torn", "whole"},
                 MayOpen(r) \/ MaySend(r), StorePut(r, content)
          PROVE  BindingsKept
      BY <1>1, <2>1, SentPut
    <2>2. ASSUME NEW r \in Requests, LandLate(r) PROVE FALSE
      BY <1>1, <2>2 DEF LandLate, Binding, CreateSerialized
    <2>3. CASE UNCHANGED record
      BY <2>3 DEF BindingsKept
    <2>4. ASSUME NEW r \in Requests, Handler(r), ~UNCHANGED record PROVE BindingsKept
      BY <2>1, <2>4 DEF Handler, LockKey, SkipLock, TakeCreateLock, HeadMiss, OpenFile, Put, AlreadyExists,
            ReadTorn, ReadConflict, ReadCompleted, ReadPending, Adopt, store
    <2>5. ASSUME NEW r \in Requests, PutFails(r) PROVE BindingsKept
      BY <2>1, <2>5 DEF PutFails
    <2>6. ASSUME NEW d \in Readers, Reader(d) PROVE UNCHANGED record
      BY <2>6, ReadersOnlyRead DEF callVars, store
    <2> QED BY <1>1, <2>2, <2>3, <2>4, <2>5, <2>6
            DEF Next, CallFails, Drop, DropSending, Crash, Finished, vars, callVars, store
  <1>2. Binding /\ BindingsKept =>
            \A k \in Keys : record[k].op # Nobody => record'[k].op = record[k].op
    BY DEF Binding, RecordsOwnKey, BindingsKept
  <1>3. Binding /\ [Next]_vars =>
            [\A k \in Keys : record[k].op # Nobody => record'[k].op = record[k].op]_vars
    BY <1>1, <1>2
  <1> QED BY <1>3, BindingAlways, PTL DEF Spec, RecordNeverRebinds

=============================================================================
