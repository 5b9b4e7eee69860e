------------------------- MODULE OperationsDurability -------------------------
(***************************************************************************)
(* Proofs about what Operations leaves in the store: in which order the    *)
(* objects of a command come to exist, what an answer, a reference, a      *)
(* lookup or an entry of the operation log says of them, and that none is  *)
(* reopened.  As in OperationsProofs for every set of requests and every   *)
(* length of the commands.                                                 *)
(***************************************************************************)
EXTENDS OperationsProofs

There(o, n) == objects[<<o, n>>] # "absent"
Written(o) == \A n \in 1..Writes[RequestHash[o]] : There(o, n)

(* The objects a handler relies on, by its place in the protocol. *)
Known(r) ==
    IF pc[r] = "write" THEN 1..(at[r] - 1)
    ELSE IF pc[r] = "record" THEN 1..at[r]
    ELSE IF pc[r] \in {"complete", "publish", "ok"} THEN 1..Writes[RequestHash[r]]
    ELSE {}

(* A handler works for the command it was sent, from its first object, and *)
(* the objects it has passed are there.                                    *)
Sound(r) ==
    /\ RequestHash[op[r]] = RequestHash[r]
    /\ pc[r] \in {"lock", "begin", "read", "start"} => at[r] = 1
    /\ \A n \in Known(r) : There(op[r], n)

SourceFirst ==
    \A w \in Requests \X Positions : objects[w] # "absent" =>
        \A m \in 1..(w[2] - 1) : There(w[1], m)

LogWritten ==
    /\ \A s \in steps : objects[s] # "absent"
    /\ \A o \in Requests : completed[o] # Nobody => Written(o)
    /\ \A k \in Keys : record[k].status = "completed" => Written(record[k].op)

(* On every adapter, whatever it tears and however late a PUT lands. *)
Ordered == Typed /\ (\A r \in Requests : Sound(r)) /\ SourceFirst /\ LogWritten

(* No object is ever taken away. *)
ObjectsGrow ==
    \A w \in Requests \X Positions : objects[w] # "absent" => objects'[w] # "absent"

-----------------------------------------------------------------------------
LEMMA Lengths ==
    ASSUME NEW o \in Requests
    PROVE  /\ Writes[RequestHash[o]] \in Nat /\ Writes[RequestHash[o]] >= 1
           /\ MaxWrites \in Nat /\ Writes[RequestHash[o]] <= MaxWrites
           /\ \A n \in 1..Writes[RequestHash[o]] : n \in Positions
  BY RequestsAssumption, StoreAssumption DEF Positions

LEMMA WrittenKept ==
    ASSUME ObjectsGrow, NEW o \in Requests, Written(o)
    PROVE  Written(o)'
  BY Lengths DEF ObjectsGrow, Written, There

(* The positions a handler relies on are positions. *)
LEMMA KnownTyped ==
    ASSUME Typed, NEW r \in Requests, NEW n \in Known(r)
    PROVE  n \in Positions
  BY Lengths DEF Known, Typed, CallsTyped, Positions

(* A handler that does not move loses nothing. *)
LEMMA SoundKept ==
    ASSUME Typed, ObjectsGrow, NEW r \in Requests, Sound(r),
           pc'[r] = pc[r], op'[r] = op[r], at'[r] = at[r]
    PROVE  Sound(r)'
  <1>1. \A n \in Known(r) : There(op[r], n)'
    BY KnownTyped DEF Sound, ObjectsGrow, There, Typed, CallsTyped
  <1> QED BY <1>1 DEF Sound, Known, There

(* A handler that ends without a success relies on nothing. *)
LEMMA SoundEnded ==
    ASSUME NEW r \in Requests, Sound(r), op'[r] = op[r], pc'[r] \in {"failed", "conflict"}
    PROVE  Sound(r)'
  BY DEF Sound, Known

(* When a put has returned, or met its object, the handler goes on. *)
LEMMA SoundNext ==
    ASSUME Typed, ObjectsGrow, NEW r \in Requests, Sound(r),
           pc[r] \in Creating \cup Overwriting, GoOn(r, NextPc(r)),
           pc[r] = "write" => objects'[<<op[r], at[r]>>] # "absent"
    PROVE  Sound(r)'
  <1>0. /\ op' = op /\ pc'[r] = NextPc(r) /\ at[r] \in Nat /\ at[r] >= 1
        /\ op[r] \in Requests
        /\ at'[r] = IF pc[r] = "record" /\ NextPc(r) = "write" THEN at[r] + 1 ELSE at[r]
    BY DEF GoOn, Typed, CallsTyped, Positions
  <1>1. \A n \in Known(r) : There(op[r], n)'
    BY KnownTyped, <1>0 DEF Sound, ObjectsGrow, There
  <1>2. NextPc(r) \in {"start", "write", "record", "complete", "publish", "ok"}
    BY NextPcTyped DEF Typed
  <1>3. CASE pc[r] = "begin"
    <2>1. pc'[r] = "start" /\ at'[r] = 1
      BY <1>0, <1>3 DEF NextPc, Sound
    <2> QED BY <1>0, <2>1 DEF Sound, Known
  <1>4. CASE pc[r] = "start"
    <2>1. pc'[r] = "write" /\ at'[r] = 1
      BY <1>0, <1>4 DEF NextPc, Sound
    <2> QED BY <1>0, <2>1 DEF Sound, Known
  <1>5. CASE pc[r] = "write"
    <2>1. pc'[r] = "record" /\ at'[r] = at[r]
      BY <1>0, <1>5 DEF NextPc
    <2>2. \A n \in 1..at[r] : n = at[r] \/ n \in 1..(at[r] - 1)
      BY <1>0
    <2>3. \A n \in 1..at[r] : objects'[<<op[r], n>>] # "absent"
      BY <1>0, <1>1, <1>5, <2>2 DEF Known, There
    <2>4. \A n \in Known(r)' : There(op[r], n)'
      BY <1>0, <2>1, <2>3 DEF Known, There
    <2> QED BY <1>0, <2>1, <2>4 DEF Sound
  <1>6. CASE pc[r] = "record"
    <2>1. NextPc(r) = IF MoreToWrite(r) THEN "write" ELSE "complete"
      BY <1>6 DEF NextPc
    <2>2. \A n \in 1..at[r] : There(op[r], n)'
      BY <1>1, <1>6 DEF Known
    <2>3. CASE MoreToWrite(r)
      <3>1. pc'[r] = "write" /\ at'[r] = at[r] + 1 /\ (at[r] + 1) - 1 = at[r]
        BY <1>0, <1>6, <2>1, <2>3
      <3> QED BY <1>0, <2>2, <3>1 DEF Sound, Known, There
    <2>4. CASE ~MoreToWrite(r)
      <3>1. pc'[r] = "complete"
        BY <1>0, <2>1, <2>4
      <3>2. \A n \in 1..Writes[RequestHash[r]] : n \in 1..at[r]
        BY <1>0, <2>4, Lengths DEF MoreToWrite
      <3> QED BY <1>0, <2>2, <3>1, <3>2 DEF Sound, Known, There
    <2> QED BY <2>3, <2>4
  <1>7. CASE pc[r] \in {"complete", "publish"}
    <2>1. pc'[r] \in {"publish", "ok"}
      BY <1>0, <1>7 DEF NextPc
    <2>2. \A n \in 1..Writes[RequestHash[r]] : There(op[r], n)'
      BY <1>1, <1>7 DEF Known
    <2> QED BY <1>0, <2>1, <2>2 DEF Sound, Known, There
  <1> QED BY <1>3, <1>4, <1>5, <1>6, <1>7 DEF Creating, Overwriting

(* What a put does to the order of the objects and to the log. *)
LEMMA StorePutOrdered ==
    ASSUME Ordered, NEW r \in Requests, NEW content \in {"torn", "whole"},
           StorePut(r, content)
    PROVE  /\ ObjectsGrow /\ SourceFirst' /\ LogWritten'
           /\ pc[r] = "write" => objects'[<<op[r], at[r]>>] # "absent"
  <1>0. /\ Typed /\ CallsTyped /\ Sound(r) /\ op[r] \in Requests /\ at[r] \in Positions
        /\ HasKey(r) => IdemKey[r] \in Keys
        /\ RequestHash[op[r]] = RequestHash[r]
    BY RequestsAssumption DEF Ordered, Typed, CallsTyped, HasKey, Sound
  <1>1. /\ ObjectsGrow
        /\ pc[r] = "write" => objects'[<<op[r], at[r]>>] # "absent"
        /\ \A w \in Requests \X Positions : objects'[w] # objects[w] =>
                pc[r] = "write" /\ w = <<op[r], at[r]>>
    BY <1>0 DEF StorePut, CallsTyped, ObjectsGrow
  <1>2. SourceFirst'
    <2> SUFFICES ASSUME NEW w \in Requests \X Positions, objects'[w] # "absent",
                        NEW m \in 1..(w[2] - 1)
                 PROVE  objects'[<<w[1], m>>] # "absent"
      BY DEF SourceFirst, There
    <2>1. <<w[1], m>> \in Requests \X Positions
      BY StoreAssumption DEF Positions
    <2>2. CASE objects[w] # "absent"
      BY <1>1, <2>1, <2>2 DEF Ordered, SourceFirst, There, ObjectsGrow
    <2>3. CASE objects[w] = "absent"
      <3>1. pc[r] = "write" /\ w = <<op[r], at[r]>>
        BY <1>1, <2>3
      <3>2. m \in Known(r) /\ w[1] = op[r]
        BY <3>1 DEF Known
      <3> QED BY <1>0, <1>1, <2>1, <3>2 DEF Sound, There, ObjectsGrow
    <2> QED BY <2>2, <2>3
  <1>3. pc[r] \in {"complete", "publish"} => Written(op[r])
    BY <1>0 DEF Sound, Known, Written
  <1>4. \A s \in steps' : objects'[s] # "absent"
    <2> SUFFICES ASSUME NEW s \in steps' PROVE objects'[s] # "absent"
      OBVIOUS
    <2>1. s \in steps \/ (pc[r] = "record" /\ s = <<op[r], at[r]>>)
      BY DEF StorePut
    <2>2. CASE s \in steps
      BY <1>0, <1>1, <2>2 DEF Ordered, LogWritten, ObjectsGrow, CallsTyped
    <2>3. CASE pc[r] = "record" /\ s = <<op[r], at[r]>>
      <3>1. at[r] \in Known(r)
        BY <1>0, <2>3 DEF Known, Positions
      <3> QED BY <1>0, <1>1, <2>3, <3>1 DEF Sound, There, ObjectsGrow
    <2> QED BY <2>1, <2>2, <2>3
  <1>5. \A o \in Requests : completed'[o] # Nobody => Written(o)'
    <2> SUFFICES ASSUME NEW o \in Requests, completed'[o] # Nobody PROVE Written(o)
      BY <1>1, WrittenKept
    <2>1. completed[o] # Nobody \/ (pc[r] = "complete" /\ o = op[r])
      BY <1>0 DEF StorePut, CallsTyped
    <2> QED BY <1>3, <2>1 DEF Ordered, LogWritten
  <1>6. ASSUME NEW k \in Keys, record'[k].status = "completed" PROVE Written(record[k].op)'
    <2>1. CASE record'[k] = record[k]
      <3>1. PICK o \in Requests : o = record[k].op /\ Written(o)
        BY <1>0, <1>6, <2>1 DEF Ordered, LogWritten, Typed, RecordsBound
      <3>2. Written(o)' /\ record'[k].op = o
        BY <1>1, <2>1, <3>1, WrittenKept
      <3> QED BY <3>2 DEF Written, There
    <2>2. CASE record'[k] # record[k]
      <3>1. pc[r] \in {"begin", "publish"} /\ HasKey(r) /\ k = IdemKey[r]
        BY <1>0, <2>2 DEF StorePut, CallsTyped
      <3>2. PICK status \in RecordAfter(r, content) :
                record' = [record EXCEPT ![k] = [op |-> op[r], status |-> status]]
        BY <3>1 DEF StorePut
      <3>3. record'[k].op = op[r] /\ status = "completed"
        BY <1>0, <1>6, <3>2 DEF CallsTyped
      <3>4. pc[r] = "publish"
        BY <3>1, <3>2, <3>3 DEF RecordAfter
      <3>5. PICK o \in Requests : o = op[r] /\ Written(o)
        BY <1>0, <1>3, <3>4
      <3>6. Written(o)' /\ record'[k].op = o
        BY <1>1, <3>3, <3>5, WrittenKept
      <3> QED BY <3>6 DEF Written, There
    <2> QED BY <2>1, <2>2
  <1>7. LogWritten'
    BY <1>4, <1>5, <1>6 DEF LogWritten
  <1> QED BY <1>1, <1>2, <1>7

(* A step that leaves the store alone keeps what is said of it. *)
LEMMA StoreUnchanged ==
    ASSUME Ordered, UNCHANGED store
    PROVE  ObjectsGrow /\ SourceFirst' /\ LogWritten'
  BY DEF Ordered, store, ObjectsGrow, SourceFirst, LogWritten, Written, There

(* One handler moves on, after a put or after a step that stores nothing.  *)
LEMMA OneGoesOn ==
    ASSUME Ordered, NEW r \in Requests, NEW next, GoOn(r, next), ObjectsGrow, Sound(r)'
    PROVE  \A q \in Requests : Sound(q)'
  <1> SUFFICES ASSUME NEW q \in Requests, q # r PROVE Sound(q)'
    OBVIOUS
  <1>1. pc'[q] = pc[q] /\ op'[q] = op[q] /\ at'[q] = at[q]
    BY DEF GoOn, Ordered, Typed, CallsTyped
  <1> QED BY <1>1, SoundKept DEF Ordered

LEMMA GoOnSound ==
    ASSUME Ordered, NEW r \in Requests, NEW next, GoOn(r, next), ObjectsGrow,
           \/ next \in {"failed", "conflict"}
           \/ next = "read" /\ pc[r] = "begin"
           \/ /\ next = NextPc(r) /\ pc[r] \in Creating \cup Overwriting
              /\ pc[r] = "write" => objects'[<<op[r], at[r]>>] # "absent"
    PROVE  \A q \in Requests : Sound(q)'
  <1>0. Typed /\ Sound(r) /\ op' = op /\ pc'[r] = next
    BY DEF Ordered, GoOn, Typed, CallsTyped
  <1>1. CASE next \in {"failed", "conflict"}
    BY <1>0, <1>1, SoundEnded, OneGoesOn
  <1>2. CASE next = "read" /\ pc[r] = "begin"
    <2>1. at' = at
      BY <1>2 DEF GoOn
    <2> QED BY <1>0, <1>2, <2>1, OneGoesOn DEF Sound, Known
  <1>3. CASE /\ next = NextPc(r) /\ pc[r] \in Creating \cup Overwriting
             /\ pc[r] = "write" => objects'[<<op[r], at[r]>>] # "absent"
    BY <1>0, <1>3, SoundNext, OneGoesOn
  <1> QED BY <1>1, <1>2, <1>3

LEMMA OrderedInit == Init => Ordered
  <1> SUFFICES ASSUME Init PROVE Ordered
    OBVIOUS
  <1>1. \A r \in Requests : Sound(r)
    BY DEF Init, Sound, Known
  <1>2. SourceFirst /\ LogWritten
    BY DEF Init, SourceFirst, LogWritten, Absent
  <1> QED BY <1>1, <1>2, TypedInit DEF Ordered

LEMMA HandlerOrdered ==
    ASSUME Ordered, NEW r \in Requests, Handler(r), Typed'
    PROVE  Ordered'
  <1>0. Typed /\ CallsTyped /\ Sound(r)
    BY DEF Ordered, Typed
  <1>1. ASSUME UNCHANGED store, \A q \in Requests : Sound(q)' PROVE Ordered'
    BY <1>1, StoreUnchanged DEF Ordered
  (* A step before the first object, or inside a put. *)
  <1>2. ASSUME UNCHANGED <<op, at>>, ObjectsGrow,
               \/ pc' = pc
               \/ pc[r] = "lock" /\ pc' = [pc EXCEPT ![r] = "begin"]
               \/ pc[r] = "lock" /\ pc' = [pc EXCEPT ![r] = "start"]
        PROVE  \A q \in Requests : Sound(q)'
    <2>1. ASSUME NEW q \in Requests, pc'[q] = pc[q] PROVE Sound(q)'
      BY <1>2, <2>1, SoundKept DEF Ordered
    <2>2. CASE pc[r] = "lock" /\ pc'[r] \in {"begin", "start"}
      <3>1. Sound(r)'
        BY <1>0, <1>2, <2>2 DEF Sound, Known
      <3>2. \A q \in Requests : q # r => pc'[q] = pc[q]
        BY <1>0, <1>2 DEF CallsTyped
      <3> QED BY <2>1, <3>1, <3>2
    <2> QED BY <1>0, <1>2, <2>1, <2>2 DEF CallsTyped
  <1>3. CASE LockKey(r) \/ SkipLock(r) \/ TakeCreateLock(r) \/ HeadMiss(r)
    <2>1. UNCHANGED store /\ UNCHANGED <<op, at>>
      BY <1>3 DEF LockKey, SkipLock, TakeCreateLock, HeadMiss
    <2>2. \/ pc' = pc
          \/ pc[r] = "lock" /\ pc' = [pc EXCEPT ![r] = "begin"]
          \/ pc[r] = "lock" /\ pc' = [pc EXCEPT ![r] = "start"]
      BY <1>3 DEF LockKey, SkipLock, TakeCreateLock, HeadMiss
    <2> QED BY <1>1, <1>2, <2>1, <2>2, StoreUnchanged
  <1>4. CASE OpenFile(r)
    <2>1. StorePut(r, "torn") /\ UNCHANGED <<pc, op, at>>
      BY <1>4 DEF OpenFile
    <2> QED BY <1>2, <2>1, StorePutOrdered DEF Ordered
  <1>5. CASE Put(r)
    <2>1. StorePut(r, "whole") /\ GoOn(r, NextPc(r)) /\ pc[r] \in Creating \cup Overwriting
      BY <1>5, SendingPcs DEF Put
    <2> QED BY <2>1, StorePutOrdered, GoOnSound DEF Ordered
  <1>6. CASE AlreadyExists(r)
    <2>1. /\ pc[r] \in Creating /\ UNCHANGED store /\ Occupied(r)
          /\ GoOn(r, IF pc[r] = "begin" THEN "read" ELSE NextPc(r))
      BY <1>6 DEF AlreadyExists
    <2>2. pc[r] = "write" => objects'[<<op[r], at[r]>>] # "absent"
      BY <2>1 DEF Occupied, store
    <2> QED BY <1>1, <2>1, <2>2, StoreUnchanged, GoOnSound
  <1>7. CASE ReadTorn(r) \/ ReadConflict(r)
    <2>1. UNCHANGED store /\ (GoOn(r, "failed") \/ GoOn(r, "conflict"))
      BY <1>7 DEF ReadTorn, ReadConflict
    <2> QED BY <1>1, <2>1, StoreUnchanged, GoOnSound
  <1>8. CASE ReadCompleted(r) \/ ReadPending(r)
    <2>1. PICK next \in {"ok", "write"} :
              /\ pc[r] = "read" /\ Adopt(r, next)
              /\ next = "ok" => record[IdemKey[r]].status = "completed"
              /\ record[IdemKey[r]].status # "absent"
      BY <1>8 DEF ReadCompleted, ReadPending
    <2>2. /\ UNCHANGED store /\ UNCHANGED at
          /\ pc' = [pc EXCEPT ![r] = next]
          /\ op' = [op EXCEPT ![r] = record[IdemKey[r]].op]
          /\ RequestHash[record[IdemKey[r]].op] = RequestHash[r]
      BY <2>1 DEF Adopt
    <2>3. IdemKey[r] \in Keys /\ UNCHANGED objects
      BY <1>0, <2>1, <2>2, RequestsAssumption DEF Typed, KeyedSteps, HasKey, store
    <2>4. ASSUME NEW q \in Requests, q # r PROVE Sound(q)'
      BY <1>0, <2>2, <2>4, StoreUnchanged, SoundKept DEF Ordered, CallsTyped
    <2>5. at'[r] = 1 /\ pc'[r] = next /\ op'[r] = record[IdemKey[r]].op
      BY <1>0, <2>1, <2>2 DEF Sound, CallsTyped
    <2>6. next = "ok" => \A n \in 1..Writes[RequestHash[r]] : There(record[IdemKey[r]].op, n)
      BY <2>1, <2>2, <2>3 DEF Ordered, LogWritten, Written
    <2>7. Sound(r)'
      BY <2>2, <2>3, <2>5, <2>6 DEF Sound, Known, There
    <2> QED BY <1>1, <2>2, <2>4, <2>7
  <1> QED BY <1>3, <1>4, <1>5, <1>6, <1>7, <1>8 DEF Handler

LEMMA OrderedNext == Ordered /\ [Next]_vars => Ordered'
  <1> SUFFICES ASSUME Ordered, [Next]_vars PROVE Ordered'
    OBVIOUS
  <1>0. Typed /\ Typed' /\ CallsTyped
    BY TypedNext DEF Ordered, Typed
  <1>1. ASSUME NEW r \in Requests, Handler(r) PROVE Ordered'
    BY <1>0, <1>1, HandlerOrdered
  <1>2. ASSUME NEW r \in Requests, CallFails(r) PROVE Ordered'
    <2>1. /\ UNCHANGED store /\ GoOn(r, AfterFault(r))
          /\ AfterFault(r) = IF pc[r] \in {"start", "record"} THEN NextPc(r) ELSE "failed"
      BY <1>2 DEF CallFails, AfterFault
    <2> QED BY <1>0, <2>1, StoreUnchanged, GoOnSound DEF Ordered, Creating, Overwriting
  <1>3. ASSUME NEW r \in Requests, PutFails(r) PROVE Ordered'
    <2>1. PICK content \in {"torn", "whole"} : StorePut(r, content)
      BY <1>3 DEF PutFails
    <2>2. /\ GoOn(r, AfterFault(r)) /\ pc[r] \in Creating \cup Overwriting
          /\ AfterFault(r) = IF pc[r] \in {"start", "record"} THEN NextPc(r) ELSE "failed"
      BY <1>3, SendingPcs DEF PutFails, AfterFault
    <2> QED BY <1>0, <2>1, <2>2, StorePutOrdered, GoOnSound DEF Ordered
  <1>4. ASSUME NEW r \in Requests, Drop(r) PROVE Ordered'
    BY <1>0, <1>4, StoreUnchanged, GoOnSound DEF Drop, Ordered
  <1>5. ASSUME NEW r \in Requests, DropSending(r) PROVE Ordered'
    <2>1. UNCHANGED <<pc, op, at>> /\ UNCHANGED store
      BY <1>5 DEF DropSending
    <2> QED BY <1>0, <2>1, StoreUnchanged, SoundKept DEF Ordered
  <1>6. ASSUME NEW r \in Requests, LandLate(r) PROVE Ordered'
    BY <1>0, <1>6, StorePutOrdered, GoOnSound DEF LandLate, Ordered
  <1>7. ASSUME NEW i \in Instances, Crash(i) PROVE Ordered'
    <2>1. /\ UNCHANGED <<op, at>> /\ UNCHANGED store
          /\ \A r \in Requests : pc'[r] \in {pc[r], "failed"}
      BY <1>7 DEF Crash
    <2>2. ASSUME NEW r \in Requests PROVE Sound(r)'
      BY <1>0, <2>1, StoreUnchanged, SoundKept, SoundEnded DEF Ordered
    <2> QED BY <1>0, <2>1, <2>2, StoreUnchanged DEF Ordered
  <1>8. CASE (\E d \in Readers : Reader(d)) \/ Finished \/ UNCHANGED vars
    <2>1. UNCHANGED <<pc, op, at>> /\ UNCHANGED store
      BY <1>8, ReadersOnlyRead DEF Finished, vars, callVars
    <2> QED BY <1>0, <2>1, StoreUnchanged, SoundKept DEF Ordered
  <1> QED BY <1>1, <1>2, <1>3, <1>4, <1>5, <1>6, <1>7, <1>8 DEF Next

LEMMA OrderedAlways == Spec => []Ordered
  BY OrderedInit, OrderedNext, PTL DEF Spec

-----------------------------------------------------------------------------
(* What a step can do to the store, and how a handler comes to answer.     *)

(* The store changes by one put: a file is opened, or a put is over. *)
LEMMA StoreSteps ==
    ASSUME [Next]_vars, ~UNCHANGED store
    PROVE  \E r \in Requests :
              \/ OpenFile(r)
              \/ /\ StorePut(r, "whole") /\ GoOn(r, NextPc(r)) /\ MaySend(r)
              \/ /\ StorePut(r, IF AtomicCreate THEN "torn" ELSE "whole")
                 /\ GoOn(r, AfterFault(r)) /\ MaySend(r)
              \/ LandLate(r)
  <1>1. ASSUME NEW r \in Requests, Handler(r)
        PROVE  OpenFile(r) \/ Put(r)
    BY <1>1 DEF Handler, LockKey, SkipLock, TakeCreateLock, HeadMiss, AlreadyExists,
          ReadTorn, ReadConflict, ReadCompleted, ReadPending, Adopt
  <1>2. ASSUME NEW d \in Readers, Reader(d) PROVE FALSE
    BY <1>2, ReadersOnlyRead DEF callVars
  <1>3. ~Finished /\ ~UNCHANGED vars
    BY DEF Finished, vars, callVars
  <1>4. PICK r \in Requests : Handler(r) \/ PutFails(r) \/ LandLate(r)
    BY <1>2, <1>3 DEF Next, CallFails, Drop, DropSending, Crash
  <1> QED BY <1>1, <1>4 DEF Put, PutFails

(* A handler comes to the answer, or to the last put before it, by its own *)
(* put of the result or of the record, or by reading a completed record.   *)
LEMMA Answering ==
    ASSUME Typed, [Next]_vars, NEW r \in Requests, pc'[r] \in {"publish", "ok"}
    PROVE  \/ pc'[r] = pc[r] /\ op'[r] = op[r]
           \/ /\ pc[r] = "complete" /\ op'[r] = op[r] /\ StorePut(r, "whole")
              /\ HasKey(r) => pc'[r] = "publish"
           \/ pc[r] = "publish" /\ op'[r] = op[r] /\ StorePut(r, "whole")
           \/ /\ pc[r] = "read" /\ op'[r] = record[IdemKey[r]].op
              /\ record[IdemKey[r]].status = "completed" /\ UNCHANGED store
  <1>0. CallsTyped
    BY DEF Typed
  <1>1. ASSUME NEW q \in Requests, NEW next, GoOn(q, next), q # r \/ next = pc[r]
        PROVE  pc'[r] = pc[r] /\ op'[r] = op[r]
    BY <1>0, <1>1 DEF GoOn, CallsTyped
  <1>2. ASSUME GoOn(r, "failed") \/ GoOn(r, "conflict") \/ GoOn(r, "read") PROVE FALSE
    BY <1>0, <1>2 DEF GoOn, CallsTyped
  <1>3. ASSUME pc[r] \in {"begin", "start", "write", "record"}, GoOn(r, NextPc(r)) PROVE FALSE
    <2>1. pc'[r] = NextPc(r)
      BY <1>0, <1>3 DEF GoOn, CallsTyped
    <2>2. NextPc(r) \in {"start", "write", "record", "complete"}
      BY <1>3 DEF NextPc
    <2> QED BY <2>1, <2>2
  <1>4. ASSUME NEW q \in Requests, Put(q) PROVE
               \/ pc'[r] = pc[r] /\ op'[r] = op[r]
               \/ /\ pc[r] = "complete" /\ op'[r] = op[r] /\ StorePut(r, "whole")
                  /\ HasKey(r) => pc'[r] = "publish"
               \/ pc[r] = "publish" /\ op'[r] = op[r] /\ StorePut(r, "whole")
    <2>1. CASE q # r
      BY <1>1, <1>4, <2>1 DEF Put
    <2>2. CASE q = r
      <3>1. StorePut(r, "whole") /\ GoOn(r, NextPc(r)) /\ op'[r] = op[r]
            /\ pc'[r] = NextPc(r) /\ pc[r] \in Creating \cup Overwriting
        BY <1>0, <1>4, <2>2, SendingPcs DEF Put, GoOn, CallsTyped
      <3>2. CASE pc[r] = "complete"
        <4>1. NextPc(r) = IF HasKey(r) THEN "publish" ELSE "ok"
          BY <3>2 DEF NextPc
        <4> QED BY <3>1, <3>2, <4>1
      <3> QED BY <1>3, <3>1, <3>2 DEF Creating, Overwriting
    <2> QED BY <2>1, <2>2
  <1>5. ASSUME NEW q \in Requests, AlreadyExists(q) PROVE pc'[r] = pc[r] /\ op'[r] = op[r]
    <2>1. pc[q] \in {"begin", "start", "write"}
      BY <1>5 DEF AlreadyExists, Creating
    <2> QED BY <1>1, <1>2, <1>3, <1>5, <2>1 DEF AlreadyExists
  <1>6. ASSUME NEW q \in Requests, ReadCompleted(q) \/ ReadPending(q)
        PROVE  \/ pc'[r] = pc[r] /\ op'[r] = op[r]
               \/ /\ pc[r] = "read" /\ op'[r] = record[IdemKey[r]].op
                  /\ record[IdemKey[r]].status = "completed" /\ UNCHANGED store
    BY <1>0, <1>6 DEF ReadCompleted, ReadPending, Adopt, CallsTyped
  <1>7. ASSUME NEW q \in Requests, LockKey(q) \/ SkipLock(q) \/ TakeCreateLock(q)
                                   \/ HeadMiss(q) \/ OpenFile(q) \/ DropSending(q)
        PROVE  pc'[r] = pc[r] /\ op'[r] = op[r]
    BY <1>0, <1>7 DEF LockKey, SkipLock, TakeCreateLock, HeadMiss, OpenFile, DropSending,
          CallsTyped
  <1>8. ASSUME NEW q \in Requests, GoOn(q, AfterFault(q)) PROVE pc'[r] = pc[r] /\ op'[r] = op[r]
    BY <1>1, <1>2, <1>3, <1>8 DEF AfterFault
  <1>9. ASSUME NEW q \in Requests, GoOn(q, "failed") \/ GoOn(q, "conflict")
        PROVE  pc'[r] = pc[r] /\ op'[r] = op[r]
    BY <1>1, <1>2, <1>9
  <1>10. ASSUME NEW i \in Instances, Crash(i) PROVE pc'[r] = pc[r] /\ op'[r] = op[r]
    BY <1>10 DEF Crash
  <1>11. CASE (\E d \in Readers : Reader(d)) \/ Finished \/ UNCHANGED vars
    <2>1. UNCHANGED <<pc, op>>
      BY <1>11, ReadersOnlyRead DEF Finished, vars, callVars
    <2> QED BY <2>1
  <1>12. CASE \E q \in Requests : Handler(q)
    BY <1>4, <1>5, <1>6, <1>7, <1>9, <1>12 DEF Handler, ReadTorn, ReadConflict
  <1>13. CASE \E q \in Requests : CallFails(q) \/ PutFails(q) \/ Drop(q) \/ LandLate(q)
    BY <1>8, <1>9, <1>13 DEF CallFails, PutFails, Drop, LandLate
  <1> QED BY <1>7, <1>10, <1>11, <1>12, <1>13 DEF Next

(* No step takes an object away. *)
LEMMA Growing == ASSUME Ordered, [Next]_vars PROVE ObjectsGrow
  <1>1. CASE UNCHANGED store
    BY <1>1, StoreUnchanged
  <1>2. CASE ~UNCHANGED store
    <2>1. PICK r \in Requests, content \in {"torn", "whole"} : StorePut(r, content)
      BY <1>2, StoreSteps DEF OpenFile, LandLate
    <2> QED BY <2>1, StorePutOrdered
  <1> QED BY <1>1, <1>2

-----------------------------------------------------------------------------
(* Answers and readers, on every adapter.                                  *)

(* Whatever is torn or retried, an Ok answer is not given before every     *)
(* object it names was written, and its key stands for its operation.      *)
THEOREM AnswersAreWritten == ASSUME OneWriterPerKey PROVE Spec => []AnsweredWritten
  <1>1. Ordered /\ Binding => AnsweredWritten
    <2> SUFFICES ASSUME Ordered, Binding, NEW r \in Requests, pc[r] = "ok"
                 PROVE  /\ \A n \in 1..Writes[RequestHash[op[r]]] :
                               objects[<<op[r], n>>] # "absent"
                        /\ HasKey(r) => record[IdemKey[r]].op = op[r]
      BY DEF AnsweredWritten
    <2>1. \A n \in 1..Writes[RequestHash[op[r]]] : objects[<<op[r], n>>] # "absent"
      BY DEF Ordered, Sound, Known, There
    <2>2. HasKey(r) => record[IdemKey[r]].op = op[r]
      BY DEF Binding, WorksForTheBound, Begun
    <2> QED BY <2>1, <2>2
  <1> QED BY <1>1, OrderedAlways, BindingAlways, PTL

(* What a reader knows between its two GETs, and what it may be told. *)
Follows(d) ==
    LET o == reading[d].op IN
    /\ reading[d].got # "dangling"
    /\ reading[d].told => reading[d].got # "missing"
    /\ reading[d].get \in {"lookup", "source"} =>
        /\ o \in Requests
        /\ reading[d].told => Written(o)
        /\ reading[d].got = "lookup" => There(o, 1)

ReadersFollow == \A d \in Readers : Follows(d)

LEMMA HeadPositions ==
    ASSUME NEW o
    PROVE  /\ Object(o, "source") = objects[<<o, 1>>]
           /\ Object(o, "lookup") = objects[<<o, 2>>]
  <1>1. (CHOOSE n \in 1..2 : Heads[n] = "source") = 1
    BY DEF Heads
  <1>2. (CHOOSE n \in 1..2 : Heads[n] = "lookup") = 2
    BY DEF Heads
  <1> QED BY <1>1, <1>2 DEF Object

(* An entity consists of at least itself and its lookup. *)
LEMMA EntityObjects ==
    ASSUME NEW d \in Readers, NEW o \in Requests
    PROVE  /\ 1 \in Positions /\ 2 \in Positions
           /\ 1 \in 1..Writes[RequestHash[o]] /\ 2 \in 1..Writes[RequestHash[o]]
  BY Lengths, RequestsAssumption, StoreAssumption DEF Positions

LEMMA ReaderFollows ==
    ASSUME Ordered, ReadersTyped, NEW d \in Readers, Follows(d), Reader(d)
    PROVE  Follows(d)' /\ \A e \in Readers : e # d => reading'[e] = reading[e]
  <1>0. UNCHANGED callVars
    BY ReadersOnlyRead
  <1>1. UNCHANGED objects
    BY <1>0 DEF callVars, store
  <1>2. ASSUME NEW o \in Requests, Get(d, o)
        PROVE  Follows(d)' /\ \A e \in Readers : e # d => reading'[e] = reading[e]
    <2>1. PICK first \in {"lookup", "source"} :
              reading' = [reading EXCEPT ![d] =
                  [get |-> first, op |-> o, told |-> Answered(o), got |-> "nothing"]]
      BY <1>2 DEF Get
    <2>2. Answered(o) => Written(o)
      BY DEF Answered, Ordered, Sound, Known, Written
    <2>3. /\ reading'[d].op = o /\ reading'[d].told = Answered(o)
          /\ reading'[d].got = "nothing"
          /\ \A e \in Readers : e # d => reading'[e] = reading[e]
      BY <2>1 DEF ReadersTyped
    <2> QED BY <1>1, <2>2, <2>3 DEF Follows, Written, There
  <1>3. ASSUME NEW outcome \in {"missing", "unreadable", "entity"}, Return(d, outcome),
               outcome = "missing" => ~reading[d].told
        PROVE  Follows(d)' /\ \A e \in Readers : e # d => reading'[e] = reading[e]
    BY <1>3 DEF Return, Follows, ReadersTyped
  <1>4. CASE GetLookup(d)
    <2>1. PICK o \in Requests : o = reading[d].op
      BY <1>4 DEF GetLookup, Follows
    <2>2. Object(reading[d].op, "lookup") = objects[<<o, 2>>]
      BY <2>1, HeadPositions
    <2>3. CASE objects[<<o, 2>>] = "absent"
      <3>1. ~Written(o)
        BY <2>3, EntityObjects DEF Written, There
      <3> QED BY <1>3, <1>4, <2>1, <2>2, <2>3, <3>1 DEF GetLookup, Follows
    <2>4. CASE objects[<<o, 2>>] = "torn"
      BY <1>3, <1>4, <2>2, <2>4 DEF GetLookup
    <2>5. CASE objects[<<o, 2>>] \notin {"absent", "torn"}
      <3>1. reading' = [reading EXCEPT ![d].get = "source", ![d].got = "lookup"]
        BY <1>4, <2>2, <2>5 DEF GetLookup
      <3>2. <<o, 2>> \in Requests \X Positions
        BY EntityObjects
      <3>3. There(o, 1)
        BY <2>5, <3>2 DEF Ordered, SourceFirst
      <3>4. /\ reading'[d].op = o /\ reading'[d].told = reading[d].told
            /\ reading'[d].got = "lookup"
            /\ \A e \in Readers : e # d => reading'[e] = reading[e]
        BY <2>1, <3>1 DEF ReadersTyped
      <3>5. reading[d].told => Written(o)
        BY <1>4, <2>1 DEF GetLookup, Follows
      <3> QED BY <1>1, <3>3, <3>4, <3>5 DEF Follows, Written, There
    <2> QED BY <2>3, <2>4, <2>5
  <1>5. CASE GetSource(d)
    <2>1. PICK o \in Requests : o = reading[d].op
      BY <1>5 DEF GetSource, Follows
    <2>2. Object(reading[d].op, "source") = objects[<<o, 1>>]
      BY <2>1, HeadPositions
    <2>3. CASE objects[<<o, 1>>] = "absent"
      <3>1. reading[d].got # "lookup" /\ ~reading[d].told
        BY <1>5, <2>1, <2>3, EntityObjects DEF GetSource, Follows, Written, There
      <3> QED BY <1>3, <1>5, <2>2, <2>3, <3>1 DEF GetSource
    <2>4. CASE objects[<<o, 1>>] # "absent"
      BY <1>3, <1>5, <2>2, <2>4 DEF GetSource
    <2> QED BY <2>3, <2>4
  <1> QED BY <1>2, <1>4, <1>5 DEF Reader

LEMMA ReadersFollowNext ==
    Ordered /\ ReadersTyped /\ ReadersFollow /\ [Next]_vars => ReadersFollow'
  <1> SUFFICES ASSUME Ordered, ReadersTyped, ReadersFollow, [Next]_vars PROVE ReadersFollow'
    OBVIOUS
  <1>1. ASSUME NEW d \in Readers, reading'[d] = reading[d] PROVE Follows(d)'
    <2>1. PICK seen : seen = reading[d] /\ seen = reading'[d]
      BY <1>1
    <2>2. CASE seen.get \in {"lookup", "source"}
      <3>1. PICK o \in Requests : o = seen.op
        BY <2>1, <2>2 DEF ReadersFollow, Follows
      <3>2. (Written(o) => Written(o)') /\ (There(o, 1) => There(o, 1)')
        BY Growing, WrittenKept, EntityObjects DEF ObjectsGrow, There
      <3>3. /\ seen.got # "dangling" /\ (seen.told => seen.got # "missing")
            /\ seen.told => Written(o)'
            /\ seen.got = "lookup" => There(o, 1)'
        BY <2>1, <2>2, <3>1, <3>2 DEF ReadersFollow, Follows
      <3> QED BY <2>1, <3>1, <3>3 DEF Follows, Written, There
    <2>3. CASE seen.get \notin {"lookup", "source"}
      BY <2>1, <2>3 DEF ReadersFollow, Follows
    <2> QED BY <2>2, <2>3
  <1>2. ASSUME NEW d \in Readers, Reader(d) PROVE ReadersFollow'
    BY <1>1, <1>2, ReaderFollows DEF ReadersFollow
  <1>3. CASE UNCHANGED reading
    BY <1>1, <1>3 DEF ReadersFollow
  <1>4. ASSUME NEW r \in Requests, Handler(r) PROVE UNCHANGED reading
    BY <1>4 DEF Handler, LockKey, SkipLock, TakeCreateLock, HeadMiss, OpenFile, Put,
          AlreadyExists, ReadTorn, ReadConflict, ReadCompleted, ReadPending, Adopt, GoOn
  <1> QED BY <1>2, <1>3, <1>4
          DEF Next, CallFails, PutFails, Drop, DropSending, LandLate, Crash, GoOn, Finished,
              vars

LEMMA ReadersAlways == Spec => []ReadersFollow
  <1>1. Init => ReadersTyped /\ ReadersFollow
    BY DEF Init, ReadersTyped, ReadersFollow, Follows, Idle
  <1> QED BY <1>1, ReadersTypedNext, ReadersFollowNext, OrderedAlways, PTL DEF Spec

(* An id that can be looked up leads to an entity, on every adapter and    *)
(* whatever broke off between the two writes: create_broadcast and         *)
(* create_attachment store the entity before its lookup.                   *)
THEOREM LookupsLeadSomewhere == Spec => []GetNeverDangles
  <1>1. ReadersFollow => GetNeverDangles
    BY DEF ReadersFollow, Follows, GetNeverDangles
  <1> QED BY <1>1, ReadersAlways, PTL

(* A reader that begins after an answer, of the first call or of any       *)
(* retry, is never told that there is no such entity.                      *)
THEOREM AnswersAreFound == Spec => []ReadAfterAnswer
  <1>1. ReadersFollow => ReadAfterAnswer
    BY DEF ReadersFollow, Follows, ReadAfterAnswer
  <1> QED BY <1>1, ReadersAlways, PTL

-----------------------------------------------------------------------------
(* The adapter whose puts are all or nothing (~AtomicCreate).  However     *)
(* many processes share the store and however late a PUT lands, nothing is *)
(* torn, and the result object is there before anybody says so.            *)

NothingTorn ==
    /\ \A w \in Requests \X Positions : objects[w] # "torn"
    /\ \A k \in Keys : record[k].status # "torn"

Published ==
    /\ \A r \in Requests : pc[r] \in {"publish", "ok"} => completed[op[r]] # Nobody
    /\ \A k \in Keys : record[k].status = "completed" => completed[record[k].op] # Nobody

ResultsGrow ==
    \A o \in Requests : completed[o] # Nobody => completed'[o] # Nobody

(* A put that is not torn completes results and objects, and tears no      *)
(* record.                                                                 *)
LEMMA WholePut ==
    ASSUME ~AtomicCreate, Typed, NEW r \in Requests, StorePut(r, "whole")
    PROVE  /\ NothingTorn => NothingTorn'
           /\ ResultsGrow
           /\ pc[r] = "complete" => completed'[op[r]] # Nobody
           /\ \A k \in Keys : record'[k] # record[k] =>
                  /\ pc[r] \in {"begin", "publish"} /\ k = IdemKey[r] /\ record'[k].op = op[r]
                  /\ record'[k].status = IF pc[r] = "begin" THEN "pending" ELSE "completed"
           /\ pc[r] = "publish" => record'[IdemKey[r]] = [op |-> op[r], status |-> "completed"]
  <1>0. /\ CallsTyped /\ op[r] \in Requests /\ r # Nobody
        /\ pc[r] \in {"begin", "publish"} => HasKey(r)
        /\ HasKey(r) => IdemKey[r] \in Keys
    BY RequestsAssumption DEF Typed, CallsTyped, KeyedSteps, HasKey
  <1>1. /\ ResultsGrow
        /\ pc[r] = "complete" => completed'[op[r]] # Nobody
        /\ \A w \in Requests \X Positions : objects'[w] \in {objects[w], "whole"}
    BY <1>0 DEF StorePut, CallsTyped, ResultsGrow
  <1>2. CASE pc[r] \in {"begin", "publish"}
    <2>1. PICK status \in RecordAfter(r, "whole") :
              record' = [record EXCEPT ![IdemKey[r]] = [op |-> op[r], status |-> status]]
      BY <1>0, <1>2 DEF StorePut
    <2>2. status = IF pc[r] = "begin" THEN "pending" ELSE "completed"
      BY DEF RecordAfter
    <2>3. record'[IdemKey[r]] = [op |-> op[r], status |-> status]
      BY <1>0, <1>2, <2>1 DEF CallsTyped
    <2>4. \A k \in Keys : k # IdemKey[r] => record'[k] = record[k]
      BY <1>0, <2>1 DEF CallsTyped
    <2>5. NothingTorn => NothingTorn'
      <3> SUFFICES ASSUME NothingTorn PROVE NothingTorn'
        OBVIOUS
      <3>1. \A k \in Keys : record'[k].status # "torn"
        BY <2>2, <2>3, <2>4 DEF NothingTorn
      <3> QED BY <1>1, <3>1 DEF NothingTorn
    <2> QED BY <1>1, <1>2, <2>2, <2>3, <2>4, <2>5
  <1>3. CASE pc[r] \notin {"begin", "publish"}
    <2>1. record' = record
      BY <1>3 DEF StorePut
    <2> QED BY <1>1, <1>3, <2>1 DEF NothingTorn
  <1> QED BY <1>2, <1>3

(* On this adapter every put is whole. *)
LEMMA WholeSteps ==
    ASSUME ~AtomicCreate, [Next]_vars, ~UNCHANGED store
    PROVE  \E r \in Requests : StorePut(r, "whole")
  BY StoreSteps DEF OpenFile, MayOpen, LandLate

LEMMA PublishedNext ==
    ~AtomicCreate /\ Typed /\ NothingTorn /\ Published /\ [Next]_vars
        => NothingTorn' /\ Published'
  <1> SUFFICES ASSUME ~AtomicCreate, Typed, NothingTorn, Published, [Next]_vars
               PROVE  NothingTorn' /\ Published'
    OBVIOUS
  <1>0. Typed' /\ CallsTyped /\ CallsTyped'
    BY TypedNext DEF Typed
  <1>1. NothingTorn' /\ ResultsGrow
    BY WholeSteps, WholePut DEF NothingTorn, ResultsGrow, store
  <1>2. ASSUME NEW r \in Requests, pc'[r] \in {"publish", "ok"} PROVE completed'[op'[r]] # Nobody
    <2>1. PICK o \in Requests : o = op'[r]
      BY <1>0 DEF CallsTyped
    <2>2. CASE pc'[r] = pc[r] /\ op'[r] = op[r]
      BY <1>1, <1>2, <2>1, <2>2 DEF Published, ResultsGrow
    <2>3. CASE pc[r] = "complete" /\ op'[r] = op[r] /\ StorePut(r, "whole")
      BY <2>1, <2>3, WholePut
    <2>4. CASE pc[r] = "publish" /\ op'[r] = op[r]
      BY <1>1, <2>1, <2>4 DEF Published, ResultsGrow
    <2>5. CASE /\ pc[r] = "read" /\ op'[r] = record[IdemKey[r]].op
               /\ record[IdemKey[r]].status = "completed" /\ UNCHANGED store
      <3>1. IdemKey[r] \in Keys
        BY <2>5, RequestsAssumption DEF Typed, KeyedSteps, HasKey
      <3> QED BY <1>1, <2>1, <2>5, <3>1 DEF Published, ResultsGrow
    <2> QED BY <1>2, <2>2, <2>3, <2>4, <2>5, Answering
  <1>3. ASSUME NEW k \in Keys, record'[k].status = "completed"
        PROVE  completed'[record'[k].op] # Nobody
    <2>1. PICK o \in Requests : o = record'[k].op
      BY <1>0, <1>3 DEF Typed, RecordsBound
    <2>2. CASE record'[k] = record[k]
      BY <1>1, <1>3, <2>1, <2>2 DEF Published, ResultsGrow
    <2>3. CASE record'[k] # record[k]
      <3>1. PICK r \in Requests : StorePut(r, "whole")
        BY <2>3, WholeSteps DEF store
      <3>2. pc[r] = "publish" /\ o = op[r]
        BY <1>3, <2>1, <2>3, <3>1, WholePut
      <3> QED BY <1>1, <2>1, <3>2 DEF Published, ResultsGrow
    <2> QED BY <2>2, <2>3
  <1> QED BY <1>1, <1>2, <1>3 DEF Published

LEMMA PublishedAlways ==
    ASSUME ~AtomicCreate PROVE Spec => [](NothingTorn /\ Published)
  <1>1. Init => NothingTorn /\ Published
    BY DEF Init, NothingTorn, Published, Absent
  <1>2. Typed /\ (NothingTorn /\ Published) /\ [Next]_vars => (NothingTorn /\ Published)'
    BY PublishedNext
  <1> QED BY <1>1, <1>2, TypedAlways, PTL DEF Spec

LEMMA WrittenIsWhole ==
    ASSUME Typed, NothingTorn, NEW o \in Requests, Written(o)
    PROVE  AllWhole(o)
  BY Lengths DEF NothingTorn, Written, There, AllWhole, Typed, CallsTyped, Contents

(* A reference is only stored once everything before it is readable, also  *)
(* when several processes repair one operation and dropped PUTs land late. *)
THEOREM SourcesComeFirst == ASSUME ~AtomicCreate PROVE Spec => []ReferenceAfterSource
  <1>1. Ordered /\ NothingTorn => ReferenceAfterSource
    <2> SUFFICES ASSUME Ordered, NothingTorn, NEW w \in Requests \X Positions,
                        objects[w] # "absent", NEW m \in 1..(w[2] - 1)
                 PROVE  objects[<<w[1], m>>] = "whole"
      BY DEF ReferenceAfterSource, Ordered, Typed, CallsTyped
    <2>1. <<w[1], m>> \in Requests \X Positions
      BY StoreAssumption DEF Positions
    <2>2. There(w[1], m)
      BY DEF Ordered, SourceFirst
    <2> QED BY <2>1, <2>2 DEF Ordered, NothingTorn, There, Typed, CallsTyped, Contents
  <1> QED BY <1>1, OrderedAlways, PublishedAlways, PTL

(* The operation log never runs ahead of the store: step objects, results  *)
(* and completed records speak of objects that are there.                  *)
THEOREM LogTellsTheTruth == ASSUME ~AtomicCreate PROVE Spec => []LogTruthful
  <1>1. Ordered /\ NothingTorn /\ Published => LogTruthful
    <2> SUFFICES ASSUME Ordered, NothingTorn, Published PROVE LogTruthful
      OBVIOUS
    <2>1. \A s \in steps : objects[s] = "whole"
      BY DEF Ordered, LogWritten, NothingTorn, Typed, CallsTyped, Contents
    <2>2. \A o \in Requests : completed[o] # Nobody => AllWhole(o)
      BY WrittenIsWhole DEF Ordered, LogWritten
    <2> QED BY <2>1, <2>2 DEF Published, LogTruthful
  <1> QED BY <1>1, OrderedAlways, PublishedAlways, PTL

(* With one process and no late PUT a completed record stays completed,    *)
(* and every answered call under the key has seen it completed.            *)
AnswerSettled ==
    \A r \in Requests : pc[r] = "ok" /\ HasKey(r) => record[IdemKey[r]].status = "completed"

CompletedStays ==
    \A k \in Keys : record[k].status = "completed" => record'[k].status = "completed"

LEMMA CompletedNext ==
    ASSUME ~AtomicCreate, OneWriterPerKey, Binding, [Next]_vars
    PROVE  CompletedStays
  <1> SUFFICES ASSUME NEW k \in Keys, record[k].status = "completed", record'[k] # record[k]
               PROVE  record'[k].status = "completed"
    BY DEF CompletedStays
  <1>1. PICK r \in Requests : StorePut(r, "whole") /\ MaySend(r)
    BY StoreSteps DEF OpenFile, MayOpen, LandLate, Binding, CreateSerialized, store
  <1>2. pc[r] # "begin"
    <2> SUFFICES ASSUME pc[r] = "begin" PROVE FALSE
      OBVIOUS
    <2>1. phase[r] = "put"
      BY <1>1 DEF MaySend, Overwriting
    <2>2. k = IdemKey[r]
      BY <1>1, WholePut DEF Binding
    <2> QED BY <2>1, <2>2 DEF Binding, HeadStillTrue
  <1> QED BY <1>1, <1>2, WholePut DEF Binding

LEMMA SettledNext ==
    ~AtomicCreate /\ OneWriterPerKey /\ Binding /\ AnswerSettled /\ [Next]_vars
        => AnswerSettled'
  <1> SUFFICES ASSUME ~AtomicCreate, OneWriterPerKey, Binding, AnswerSettled, [Next]_vars,
                      NEW r \in Requests, pc'[r] = "ok", HasKey(r)
               PROVE  record'[IdemKey[r]].status = "completed"
    BY DEF AnswerSettled, HasKey
  <1>1. CompletedStays /\ Typed /\ IdemKey[r] \in Keys
    BY CompletedNext, RequestsAssumption DEF Binding, HasKey
  <1>2. CASE pc[r] = "publish" /\ StorePut(r, "whole")
    <2>1. record'[IdemKey[r]] = [op |-> op[r], status |-> "completed"]
      BY <1>1, <1>2, WholePut
    <2> QED BY <2>1
  <1> QED BY <1>1, <1>2, Answering DEF AnswerSettled, CompletedStays

(* An Ok answer is durable: the objects it names are readable, the result  *)
(* is there, and every later retry under the key finds the completed       *)
(* record of that operation.                                               *)
THEOREM AnswersAreDurable ==
    ASSUME ~AtomicCreate, OneWriterPerKey PROVE Spec => []AnsweredDurable
  <1>1. Init => AnswerSettled
    BY DEF Init, AnswerSettled
  <1>2. Binding /\ AnswerSettled /\ [Next]_vars => AnswerSettled'
    BY SettledNext
  <1>3. Ordered /\ Binding /\ NothingTorn /\ Published /\ AnswerSettled => AnsweredDurable
    <2> SUFFICES ASSUME Ordered, Binding, NothingTorn, Published, AnswerSettled,
                        NEW r \in Requests, pc[r] = "ok"
                 PROVE  /\ AllWhole(op[r]) /\ completed[op[r]] # Nobody
                        /\ HasKey(r) =>
                             record[IdemKey[r]] = [op |-> op[r], status |-> "completed"]
      BY DEF AnsweredDurable
    <2>1. PICK o \in Requests : o = op[r]
      BY DEF Ordered, Typed, CallsTyped
    <2>2. Written(o)
      BY <2>1 DEF Ordered, Sound, Known, Written
    <2>3. HasKey(r) => record[IdemKey[r]] = [op |-> op[r], status |-> "completed"]
      BY RequestsAssumption
         DEF Binding, WorksForTheBound, Begun, AnswerSettled, HasKey, Typed, CallsTyped, Records
    <2> QED BY <2>1, <2>2, <2>3, WrittenIsWhole DEF Ordered, Published
  <1> QED BY <1>1, <1>2, <1>3, OrderedAlways, BindingAlways, PublishedAlways, PTL DEF Spec

-----------------------------------------------------------------------------
(* No object that is complete is ever opened again, on any adapter.        *)

Opens(r) == phase[r] = "put" /\ pc[r] = "write"

(* A file that a handler has open holds no complete object, and no other   *)
(* handler has it open: it was created by the open.                        *)
FilesOpen ==
    \A r \in Requests :
        /\ phase[r] \in {"ready", "put"}
        /\ phase[r] = "put" => pc[r] \in Creating \cup Overwriting
        /\ Opens(r) => /\ objects[<<op[r], at[r]>>] = "torn"
                       /\ \A q \in Requests :
                             Opens(q) /\ op[q] = op[r] /\ at[q] = at[r] => q = r

FilesOpened == AtomicCreate => FilesOpen

(* A put of one handler leaves the files that others hold open. *)
LEMMA OpenFilesKept ==
    ASSUME Typed, FilesOpen, NEW r \in Requests, NEW content \in {"torn", "whole"},
           StorePut(r, content), Opens(r) \/ pc[r] # "write" \/ ~Occupied(r),
           NEW q \in Requests, q # r, Opens(q)
    PROVE  objects'[<<op[q], at[q]>>] = "torn"
  <1>0. <<op[q], at[q]>> \in Requests \X Positions
    BY DEF Typed, CallsTyped
  <1>1. pc[r] = "write" => <<op[r], at[r]>> # <<op[q], at[q]>>
    BY DEF FilesOpen, Occupied
  <1> QED BY <1>0, <1>1 DEF StorePut, Typed, CallsTyped, FilesOpen

LEMMA FilesOpenNext == Typed /\ FilesOpened /\ [Next]_vars => FilesOpened'
  <1> SUFFICES ASSUME AtomicCreate, Typed, FilesOpen, [Next]_vars PROVE FilesOpen'
    BY DEF FilesOpened
  <1>0. CallsTyped /\ ~LateWrites
    BY StoreAssumption DEF Typed
  (* The handler r ends its put, or a step that has no file open; every    *)
  (* other handler stays where it is.                                      *)
  <1>1. ASSUME NEW r \in Requests,
               phase'[r] = "ready",
               \A q \in Requests : q # r =>
                  /\ pc'[q] = pc[q] /\ op'[q] = op[q] /\ at'[q] = at[q]
                  /\ phase'[q] = phase[q]
                  /\ Opens(q) => objects'[<<op[q], at[q]>>] = "torn"
        PROVE  FilesOpen'
    <2>1. ~Opens(r)' /\ \A q \in Requests : q # r => (Opens(q)' <=> Opens(q))
      BY <1>1 DEF Opens
    <2>2. ASSUME NEW p \in Requests, NEW q \in Requests, Opens(p)', Opens(q)',
                 op'[p] = op'[q], at'[p] = at'[q]
          PROVE  p = q
      BY <1>1, <2>1, <2>2 DEF FilesOpen
    <2>3. ASSUME NEW q \in Requests
          PROVE  /\ phase'[q] \in {"ready", "put"}
                 /\ phase'[q] = "put" => pc'[q] \in Creating \cup Overwriting
                 /\ Opens(q)' => objects'[<<op'[q], at'[q]>>] = "torn"
      BY <1>1, <2>1 DEF FilesOpen
    <2> QED BY <2>2, <2>3 DEF FilesOpen, Opens
  <1>2. ASSUME NEW r \in Requests, NEW next, GoOn(r, next),
               \/ UNCHANGED store
               \/ MaySend(r) /\ \E content \in {"torn", "whole"} : StorePut(r, content)
        PROVE  FilesOpen'
    <2>1. /\ phase'[r] = "ready"
          /\ \A q \in Requests : q # r =>
                pc'[q] = pc[q] /\ op'[q] = op[q] /\ at'[q] = at[q] /\ phase'[q] = phase[q]
      BY <1>0, <1>2 DEF GoOn, CallsTyped
    <2>2. ASSUME NEW q \in Requests, q # r, Opens(q)
          PROVE  objects'[<<op[q], at[q]>>] = "torn"
      <3>1. CASE UNCHANGED store
        BY <2>2, <3>1 DEF store, FilesOpen
      <3>2. CASE MaySend(r) /\ \E content \in {"torn", "whole"} : StorePut(r, content)
        <4>1. Opens(r) \/ pc[r] # "write"
          BY <3>2 DEF MaySend, Opens, Overwriting
        <4> QED BY <2>2, <3>2, <4>1, OpenFilesKept
      <3> QED BY <1>2, <3>1, <3>2
    <2> QED BY <1>1, <2>1, <2>2
  <1>3. ASSUME NEW r \in Requests, OpenFile(r) PROVE FilesOpen'
    <2>1. /\ StorePut(r, "torn") /\ phase' = [phase EXCEPT ![r] = "put"]
          /\ UNCHANGED <<pc, op, at>> /\ MayOpen(r) /\ phase[r] = "ready"
      BY <1>3 DEF OpenFile, MayOpen
    <2>2. pc[r] \in Creating \cup Overwriting /\ (pc[r] # "write" \/ ~Occupied(r))
      BY <2>1 DEF MayOpen, Overwriting
    <2>3. \A q \in Requests : q # r /\ Opens(q) => objects'[<<op[q], at[q]>>] = "torn"
      BY <2>1, <2>2, OpenFilesKept
    <2>4. pc[r] = "write" => /\ objects'[<<op[r], at[r]>>] = "torn"
                             /\ objects[<<op[r], at[r]>>] = "absent"
      BY <1>0, <2>1, <2>2 DEF StorePut, CallsTyped, Occupied
    <2>5. \A q \in Requests : Opens(q)' => q = r \/ Opens(q)
      BY <1>0, <2>1 DEF Opens, CallsTyped
    <2>6. ASSUME NEW p \in Requests, NEW q \in Requests, Opens(p)', Opens(q)',
                 op[p] = op[q], at[p] = at[q]
          PROVE  p = q
      <3>1. (p = r \/ Opens(p)) /\ (q = r \/ Opens(q))
        BY <2>5, <2>6
      <3>2. pc[r] = "write" \/ (p # r /\ q # r)
        BY <2>1, <2>6 DEF Opens
      <3>3. \A o \in Requests : Opens(o) => objects[<<op[o], at[o]>>] = "torn"
        BY DEF FilesOpen
      <3>4. p = r <=> q = r
        BY <2>4, <2>6, <3>1, <3>2, <3>3
      <3> QED BY <2>6, <3>1, <3>4 DEF FilesOpen
    <2>7. \A q \in Requests : phase'[q] = IF q = r THEN "put" ELSE phase[q]
      BY <1>0, <2>1 DEF CallsTyped
    <2>8. ASSUME NEW p \in Requests, Opens(p)' PROVE objects'[<<op[p], at[p]>>] = "torn"
      BY <2>1, <2>3, <2>4, <2>5, <2>8 DEF Opens
    <2>9. \A p \in Requests : /\ phase'[p] \in {"ready", "put"}
                              /\ phase'[p] = "put" => pc[p] \in Creating \cup Overwriting
      BY <2>2, <2>7 DEF FilesOpen
    <2> QED BY <2>1, <2>6, <2>8, <2>9 DEF FilesOpen, Opens
  <1>4. ASSUME NEW r \in Requests,
               LockKey(r) \/ SkipLock(r) \/ ReadCompleted(r) \/ ReadPending(r)
        PROVE  FilesOpen'
    <2>1. /\ phase[r] = "ready" /\ phase' = phase /\ at' = at /\ UNCHANGED store
          /\ \A q \in Requests : q # r => pc'[q] = pc[q] /\ op'[q] = op[q]
      BY <1>0, <1>4 DEF LockKey, SkipLock, ReadCompleted, ReadPending, Adopt, FilesOpen,
            Creating, Overwriting, CallsTyped
    <2> QED BY <1>1, <2>1 DEF store, FilesOpen
  <1>5. ASSUME NEW r \in Requests, Handler(r) PROVE FilesOpen'
    <2>1. ~TakeCreateLock(r) /\ ~HeadMiss(r)
      BY DEF TakeCreateLock, HeadMiss, FilesOpen
    <2>2. CASE Put(r)
      BY <1>2, <2>2 DEF Put
    <2>3. CASE AlreadyExists(r) \/ ReadTorn(r) \/ ReadConflict(r)
      BY <1>2, <2>3 DEF AlreadyExists, ReadTorn, ReadConflict
    <2> QED BY <1>3, <1>4, <1>5, <2>1, <2>2, <2>3 DEF Handler
  <1>6. ASSUME NEW r \in Requests, CallFails(r) \/ PutFails(r) \/ Drop(r) PROVE FilesOpen'
    BY <1>2, <1>6 DEF CallFails, PutFails, Drop
  <1>7. ASSUME NEW r \in Requests PROVE ~DropSending(r) /\ ~LandLate(r)
    BY <1>0 DEF DropSending, LandLate, FilesOpen
  <1>8. ASSUME NEW i \in Instances, Crash(i) PROVE FilesOpen'
    <2>1. /\ UNCHANGED <<op, at>> /\ UNCHANGED store
          /\ \A r \in Requests : \/ phase'[r] = "ready"
                                 \/ pc'[r] = pc[r] /\ phase'[r] = phase[r]
      BY <1>8 DEF Crash
    <2> QED BY <2>1 DEF store, FilesOpen, Opens
  <1>9. CASE (\E d \in Readers : Reader(d)) \/ Finished \/ UNCHANGED vars
    <2>1. UNCHANGED <<pc, op, at, phase>> /\ UNCHANGED store
      BY <1>9, ReadersOnlyRead DEF Finished, vars, callVars
    <2> QED BY <2>1 DEF store, FilesOpen, Opens
  <1> QED BY <1>5, <1>6, <1>7, <1>8, <1>9 DEF Next

LEMMA FilesOpenAlways == Spec => []FilesOpened
  <1>1. Init => FilesOpened
    BY DEF Init, FilesOpened, FilesOpen, Opens
  <1> QED BY <1>1, TypedAlways, FilesOpenNext, PTL DEF Spec

(* On files what was readable once stays so: no repair, by whatever        *)
(* process and however it breaks off, opens a file that is complete.  With *)
(* an adapter that creates in two steps a late PUT does store a whole      *)
(* object over a whole one; the contents modelled here cannot tell the     *)
(* two apart, so nothing is claimed for it.                                *)
THEOREM ObjectsImmutable == ASSUME AtomicCreate PROVE Spec => EntitiesImmutable
  <1>1. ASSUME Typed, FilesOpened, [Next]_vars, NEW w \in DOMAIN objects, objects[w] = "whole"
        PROVE  objects'[w] = "whole"
    <2>0. CallsTyped
      BY <1>1 DEF Typed
    <2>1. ASSUME NEW r \in Requests, StorePut(r, "whole") PROVE objects'[w] = "whole"
      BY <1>1, <2>0, <2>1 DEF StorePut, CallsTyped
    <2>2. ASSUME NEW r \in Requests, StorePut(r, "torn"),
                 pc[r] = "write" => objects[<<op[r], at[r]>>] # "whole"
          PROVE  objects'[w] = "whole"
      BY <1>1, <2>0, <2>2 DEF StorePut, CallsTyped
    <2>3. ASSUME NEW r \in Requests, OpenFile(r) PROVE objects'[w] = "whole"
      BY <2>2, <2>3 DEF OpenFile, MayOpen, Overwriting, Occupied
    <2>4. ASSUME NEW r \in Requests, MaySend(r)
          PROVE  pc[r] = "write" => objects[<<op[r], at[r]>>] # "whole"
      BY <1>1, <2>4 DEF FilesOpened, FilesOpen, Opens, MaySend, Overwriting
    <2>5. CASE UNCHANGED store
      BY <1>1, <2>5 DEF store
    <2>6. CASE ~UNCHANGED store
      BY <1>1, <2>1, <2>2, <2>3, <2>4, <2>6, StoreSteps DEF LandLate
    <2> QED BY <2>5, <2>6
  <1>2. Typed /\ FilesOpened /\ [Next]_vars =>
           [\A w \in DOMAIN objects : objects[w] = "whole" => objects'[w] = "whole"]_vars
    BY <1>1
  <1> QED BY <1>2, TypedAlways, FilesOpenAlways, PTL DEF Spec, EntitiesImmutable

=============================================================================
