------------------------- MODULE OperationsRefinement -------------------------
(***************************************************************************)
(* The handlers of Operations implement IdempotentCalls: every step of     *)
(* their locks, HEADs, puts, repairs, faults and crashes is one step of    *)
(* what the callers were promised, or none.  On the adapter whose puts are *)
(* all or nothing, with one writer per key (see OneWriterPerKey).          *)
(***************************************************************************)
EXTENDS OperationsDurability

(* The promised state, as the mapping of Calls reads it off the code's.    *)
Bound == [k \in Keys |-> record[k].op]
Settled == {k \in Keys : record[k].status = "completed"}
AnswerOf(r) == [kind |-> IF pc[r] \in Final THEN pc[r] ELSE "waiting",
                op |-> IF pc[r] = "ok" THEN op[r] ELSE Nobody]
Answers == [r \in Requests |-> AnswerOf(r)]

Waits(r) == pc[r] \notin Final

(* Handlers under way are waiting; a call is told once. *)
LEMMA WaitingAnswer ==
    ASSUME NEW r \in Requests, Waits(r)
    PROVE  Answers[r] = Calls!Waiting
  BY DEF Waits, Answers, AnswerOf, Calls!Waiting, Final

LEMMA OtherAnswers ==
    ASSUME NEW r \in Requests,
           \A q \in Requests : q # r => pc'[q] = pc[q] /\ op'[q] = op[q]
    PROVE  Answers' = [Answers EXCEPT ![r] = AnswerOf(r)']
  BY DEF Answers, AnswerOf

(* What the caller of r is told by a step. *)
LEMMA NewAnswer ==
    ASSUME NEW r \in Requests
    PROVE  /\ pc'[r] \notin Final => AnswerOf(r)' = Calls!Waiting
           /\ pc'[r] = "failed" => AnswerOf(r)' = Calls!Failure
           /\ pc'[r] = "conflict" => AnswerOf(r)' = Calls!Conflict
           /\ pc'[r] = "ok" => AnswerOf(r)' = Calls!Outcome(op'[r])
  BY DEF AnswerOf, Final, Calls!Waiting, Calls!Failure, Calls!Conflict, Calls!Outcome

LEMMA SameRecords ==
    ASSUME UNCHANGED record
    PROVE  Bound' = Bound /\ Settled' = Settled
  BY DEF Bound, Settled

(* A step that puts no record and tells nobody anything stutters. *)
LEMMA Stutters ==
    ASSUME UNCHANGED record,
           \A q \in Requests : \/ pc'[q] = pc[q] /\ op'[q] = op[q]
                               \/ Waits(q) /\ Waits(q)'
    PROVE  UNCHANGED Calls!callVars
  <1>1. Answers' = Answers
    BY DEF Answers, AnswerOf, Waits, Final
  <1> QED BY <1>1, SameRecords DEF Calls!callVars, Bound, Settled, Answers, AnswerOf

LEMMA Loses ==
    ASSUME UNCHANGED record, NEW lost \in SUBSET Requests,
           \A q \in lost : Waits(q) /\ pc'[q] = "failed",
           \A q \in Requests \ lost : pc'[q] = pc[q] /\ op'[q] = op[q]
    PROVE  Calls!Lose(lost)
  <1>1. \A q \in lost : Answers[q] = Calls!Waiting
    BY WaitingAnswer
  <1>2. Answers' = [q \in Requests |-> IF q \in lost THEN Calls!Failure ELSE Answers[q]]
    BY NewAnswer DEF Answers, AnswerOf
  <1> QED BY <1>1, <1>2, SameRecords DEF Calls!Lose, Bound, Settled, Answers, AnswerOf

(* A handler goes on, or breaks off, without a put of a record. *)
LEMMA GoesOn ==
    ASSUME Typed, UNCHANGED record, NEW r \in Requests, Waits(r),
           NEW next, GoOn(r, next), next \notin {"ok", "conflict"}
    PROVE  Calls!Next \/ UNCHANGED Calls!callVars
  <1>1. /\ pc'[r] = next
        /\ \A q \in Requests : q # r => pc'[q] = pc[q] /\ op'[q] = op[q]
    BY DEF GoOn, Typed, CallsTyped
  <1>2. CASE next = "failed"
    <2>1. Calls!Lose({r})
      BY <1>1, <1>2, Loses
    <2> QED BY <2>1 DEF Calls!Next
  <1>3. CASE next # "failed"
    BY <1>1, <1>3, Stutters DEF Waits, Final
  <1> QED BY <1>2, <1>3

(* The put of a record: of a new one, or of the completed one. *)
LEMMA PutsRecord ==
    ASSUME ~AtomicCreate, OneWriterPerKey, Binding, NEW r \in Requests,
           pc[r] \in {"begin", "publish"}, MaySend(r), StorePut(r, "whole"),
           NEW next \in {NextPc(r), "failed"}, GoOn(r, next)
    PROVE  Calls!Next
  <1> DEFINE k == IdemKey[r]
  <1>0. /\ Typed /\ CallsTyped /\ k \in Keys /\ HasKey(r) /\ Waits(r)
        /\ \A o \in Requests : o # Nobody
    BY RequestsAssumption DEF Binding, Typed, KeyedSteps, HasKey, Waits, Final
  <1>1. /\ record'[k] # record[k] => record'[k].op = op[r] /\
              record'[k].status = IF pc[r] = "begin" THEN "pending" ELSE "completed"
        /\ \A j \in Keys : j # k => record'[j] = record[j]
        /\ pc[r] = "publish" => record'[k] = [op |-> op[r], status |-> "completed"]
    BY <1>0, WholePut
  <1>2. /\ pc'[r] = next /\ op'[r] = op[r]
        /\ \A q \in Requests : q # r => pc'[q] = pc[q] /\ op'[q] = op[q]
    BY <1>0 DEF GoOn, CallsTyped
  <1>3. Answers[r] = Calls!Waiting /\ Answers' = [Answers EXCEPT ![r] = AnswerOf(r)']
    BY <1>0, <1>2, WaitingAnswer, OtherAnswers
  <1>4. CASE pc[r] = "begin"
    <2>1. record[k].status = "absent" /\ record[k].op = Nobody
      BY <1>0, <1>4 DEF MaySend, Overwriting, Binding, HeadStillTrue, RecordsOwnKey
    <2>2. record'[k].status # "absent" /\ op[r] = r
      BY <1>4, SentPut DEF Binding, OwnIds
    <2>3. record'[k].op = r /\ record'[k].status = "pending"
      BY <1>1, <1>4, <2>1, <2>2
    <2>4. Bound' = [Bound EXCEPT ![k] = r] /\ Settled' = Settled /\ Bound[k] = Nobody
      BY <1>0, <1>1, <2>1, <2>3 DEF Bound, Settled
    <2>5. next \in {"start", "failed"}
      BY <1>4 DEF NextPc
    <2>6. AnswerOf(r)' \in {Calls!Waiting, Calls!Failure}
      BY <1>2, <2>5, NewAnswer DEF Final
    <2>7. Answers' \in {[Answers EXCEPT ![r] = Calls!Waiting], [Answers EXCEPT ![r] = Calls!Failure]}
      BY <1>3, <2>6
    <2>8. Calls!Bind(r, k)
      BY <1>3, <2>4, <2>7
         DEF Calls!Bind, Calls!AnswerOrLose, Bound, Settled, Answers, AnswerOf
    <2> QED BY <1>0, <2>8 DEF Calls!Next
  <1>5. CASE pc[r] = "publish"
    <2>1. record[k].op = op[r] /\ RequestHash[op[r]] = RequestHash[r] /\ op[r] \in Requests
      BY <1>0, <1>5 DEF Binding, WorksForTheBound, Begun, Overwriting, CallsTyped
    <2>2. record'[k].op = op[r] /\ record'[k].status = "completed"
      BY <1>1, <1>5
    <2>3. Bound' = Bound /\ Settled' = Settled \cup {k}
      BY <1>0, <1>1, <2>1, <2>2 DEF Bound, Settled
    <2>4. Bound[k] = op[r] /\ op[r] # Nobody
      BY <1>0, <2>1 DEF Bound
    <2>5. next \in {"ok", "failed"}
      BY <1>5 DEF NextPc
    <2>6. AnswerOf(r)' \in {Calls!Outcome(Bound[k]), Calls!Failure}
      BY <1>2, <2>4, <2>5, NewAnswer
    <2>7. Answers' \in {[Answers EXCEPT ![r] = Calls!Outcome(Bound[k])],
                        [Answers EXCEPT ![r] = Calls!Failure]}
      BY <1>3, <2>6
    <2>8. Calls!SameCommand(r, k)
      BY <2>1, <2>4 DEF Calls!SameCommand, Bound
    <2>9. Calls!Settle(r, k)
      BY <1>3, <2>3, <2>7, <2>8
         DEF Calls!Settle, Calls!AnswerOrLose, Bound, Settled, Answers, AnswerOf
    <2> QED BY <1>0, <2>9 DEF Calls!Next
  <1> QED BY <1>4, <1>5

(* Any other put. *)
LEMMA PutsObject ==
    ASSUME Binding, NEW r \in Requests, Waits(r),
           pc[r] \in (Creating \cup Overwriting) \ {"begin", "publish"},
           UNCHANGED record, GoOn(r, NextPc(r))
    PROVE  Calls!Next \/ UNCHANGED Calls!callVars
  <1>0. Typed /\ CallsTyped
    BY DEF Binding, Typed
  <1>1. CASE NextPc(r) # "ok"
    <2>1. NextPc(r) # "conflict"
      BY <1>0, NextPcTyped
    <2> QED BY <1>0, <1>1, <2>1, GoesOn
  <1>2. CASE NextPc(r) = "ok"
    <2>1. ~HasKey(r) /\ op[r] = r
      BY <1>2 DEF NextPc, Creating, Overwriting, Binding, OwnIds
    <2>2. /\ pc'[r] = "ok" /\ op'[r] = r
          /\ \A q \in Requests : q # r => pc'[q] = pc[q] /\ op'[q] = op[q]
      BY <1>0, <1>2, <2>1 DEF GoOn, CallsTyped
    <2>3. Answers' = [Answers EXCEPT ![r] = Calls!Outcome(r)]
      BY <2>2, OtherAnswers, NewAnswer
    <2>4. Calls!AnswerKeyless(r)
      BY <2>1, <2>3, WaitingAnswer, SameRecords
         DEF Calls!AnswerKeyless, HasKey, Bound, Settled, Answers, AnswerOf
    <2> QED BY <2>4 DEF Calls!Next
  <1> QED BY <1>1, <1>2

(* What a handler reads in the record it lost to: the operation of its key *)
(* and whether it is settled.                                              *)
LEMMA ReadsRecord ==
    ASSUME Binding, NEW r \in Requests, ReadConflict(r) \/ ReadCompleted(r)
    PROVE  Calls!Next
  <1> DEFINE k == IdemKey[r]
  <1>0. /\ CallsTyped /\ pc[r] = "read" /\ k \in Keys /\ Waits(r) /\ UNCHANGED record
        /\ \A o \in Requests : o # Nobody
    BY RequestsAssumption
       DEF ReadConflict, ReadCompleted, Adopt, Binding, Typed, KeyedSteps, HasKey, Waits,
           Final, store
  <1>1. /\ Answers[r] = Calls!Waiting /\ record[k].op \in Requests
        /\ Bound[k] = record[k].op
    BY <1>0, WaitingAnswer DEF Bound, ReadConflict, ReadCompleted, Binding, Typed, RecordsBound
  <1>2. CASE ReadConflict(r)
    <2>1. /\ pc'[r] = "conflict"
          /\ \A q \in Requests : q # r => pc'[q] = pc[q] /\ op'[q] = op[q]
      BY <1>0, <1>2 DEF ReadConflict, GoOn, CallsTyped
    <2>2. Answers' = [Answers EXCEPT ![r] = Calls!Conflict]
      BY <2>1, OtherAnswers, NewAnswer
    <2>3. Bound[k] # Nobody /\ ~Calls!SameCommand(r, k)
      BY <1>0, <1>1, <1>2 DEF ReadConflict, Calls!SameCommand, Bound
    <2>4. Calls!Refuse(r, k)
      BY <1>0, <1>1, <2>2, <2>3, SameRecords
         DEF Calls!Refuse, Bound, Settled, Answers, AnswerOf
    <2> QED BY <1>0, <2>4 DEF Calls!Next
  <1>3. CASE ReadCompleted(r)
    <2>1. /\ pc'[r] = "ok" /\ op'[r] = record[k].op
          /\ \A q \in Requests : q # r => pc'[q] = pc[q] /\ op'[q] = op[q]
      BY <1>0, <1>3 DEF ReadCompleted, Adopt, CallsTyped
    <2>2. Answers' = [Answers EXCEPT ![r] = Calls!Outcome(Bound[k])]
      BY <1>1, <2>1, OtherAnswers, NewAnswer
    <2>3. Calls!SameCommand(r, k) /\ k \in Settled
      BY <1>0, <1>1, <1>3 DEF ReadCompleted, Adopt, Calls!SameCommand, Bound, Settled
    <2>4. Calls!Replay(r, k)
      BY <1>0, <1>1, <2>2, <2>3, SameRecords
         DEF Calls!Replay, Bound, Settled, Answers, AnswerOf
    <2> QED BY <1>0, <2>4 DEF Calls!Next
  <1> QED BY <1>2, <1>3

LEMMA HandlerRefines ==
    ASSUME ~AtomicCreate, OneWriterPerKey, Binding, NEW r \in Requests, Handler(r)
    PROVE  Calls!Next \/ UNCHANGED Calls!callVars
  <1>0. Typed /\ CallsTyped
    BY DEF Binding, Typed
  <1>1. CASE LockKey(r) \/ SkipLock(r) \/ TakeCreateLock(r) \/ HeadMiss(r) \/ ReadPending(r)
    <2>1. /\ UNCHANGED record
          /\ \A q \in Requests : \/ pc'[q] = pc[q] /\ op'[q] = op[q]
                                 \/ Waits(q) /\ Waits(q)'
      BY <1>0, <1>1 DEF LockKey, SkipLock, TakeCreateLock, HeadMiss, ReadPending, Adopt, store,
            CallsTyped, Waits, Final
    <2> QED BY <2>1, Stutters
  <1>2. ~OpenFile(r)
    BY DEF OpenFile, MayOpen
  <1>3. CASE Put(r)
    <2>1. /\ MaySend(r) /\ StorePut(r, "whole") /\ GoOn(r, NextPc(r))
          /\ pc[r] \in Creating \cup Overwriting /\ Waits(r)
      BY <1>3, SendingPcs DEF Put, Waits, Creating, Overwriting, Final
    <2>2. CASE pc[r] \in {"begin", "publish"}
      BY <2>1, <2>2, PutsRecord
    <2>3. CASE pc[r] \notin {"begin", "publish"}
      <3>1. UNCHANGED record
        BY <2>1, <2>3 DEF StorePut
      <3> QED BY <2>1, <2>3, <3>1, PutsObject
    <2> QED BY <2>2, <2>3
  <1>4. CASE AlreadyExists(r)
    <2>1. /\ pc[r] \in Creating /\ Waits(r) /\ UNCHANGED record
          /\ GoOn(r, IF pc[r] = "begin" THEN "read" ELSE NextPc(r))
      BY <1>4 DEF AlreadyExists, Waits, Creating, Final, store
    <2> QED BY <1>0, <2>1, GoesOn, PutsObject DEF Creating
  <1>5. CASE ReadTorn(r)
    BY <1>0, <1>5, GoesOn DEF ReadTorn, Waits, Final, store
  <1>6. CASE ReadConflict(r) \/ ReadCompleted(r)
    BY <1>6, ReadsRecord
  <1> QED BY <1>1, <1>2, <1>3, <1>4, <1>5, <1>6 DEF Handler

LEMMA NextRefines ==
    ASSUME ~AtomicCreate, OneWriterPerKey, Binding, [Next]_vars
    PROVE  [Calls!Next]_(Calls!callVars)
  <1>0. Typed /\ CallsTyped
    BY DEF Binding, Typed
  <1>1. ASSUME NEW r \in Requests, Handler(r)
        PROVE  Calls!Next \/ UNCHANGED Calls!callVars
    BY <1>1, HandlerRefines
  <1>2. ASSUME NEW r \in Requests, CallFails(r) \/ Drop(r)
        PROVE  Calls!Next \/ UNCHANGED Calls!callVars
    <2>1. UNCHANGED record /\ Waits(r) /\ (GoOn(r, AfterFault(r)) \/ GoOn(r, "failed"))
      BY <1>2 DEF CallFails, Drop, Live, Waits, store
    <2>2. AfterFault(r) \notin {"ok", "conflict"}
      BY DEF AfterFault, NextPc
    <2> QED BY <1>0, <2>1, <2>2, GoesOn
  <1>3. ASSUME NEW r \in Requests, PutFails(r)
        PROVE  Calls!Next \/ UNCHANGED Calls!callVars
    <2>1. /\ MaySend(r) /\ StorePut(r, "whole") /\ GoOn(r, AfterFault(r)) /\ Waits(r)
          /\ pc[r] \in Creating \cup Overwriting
      BY <1>3, SendingPcs DEF PutFails, Waits, Creating, Overwriting, Final
    <2>2. CASE pc[r] \in {"begin", "publish"}
      BY <2>1, <2>2, PutsRecord DEF AfterFault
    <2>3. CASE pc[r] \notin {"begin", "publish"}
      <3>1. UNCHANGED record
        BY <2>1, <2>3 DEF StorePut
      <3>2. AfterFault(r) \notin {"ok", "conflict"}
        BY DEF AfterFault, NextPc
      <3> QED BY <1>0, <2>1, <3>1, <3>2, GoesOn
    <2> QED BY <2>2, <2>3
  <1>4. ASSUME NEW r \in Requests PROVE ~DropSending(r) /\ ~LandLate(r)
    BY DEF DropSending, LandLate, OneWriterPerKey, Binding, CreateSerialized
  <1>5. ASSUME NEW i \in Instances, Crash(i)
        PROVE  Calls!Next
    <2>1. PICK dead \in SUBSET Requests : dead = {r \in Requests : Instance[r] = i /\ Running(r)}
      OBVIOUS
    <2>2. /\ UNCHANGED <<op, record>>
          /\ pc' = [r \in Requests |-> IF r \in dead THEN "failed" ELSE pc[r]]
      BY <1>5, <2>1 DEF Crash, store
    <2>3. \A q \in dead : Waits(q) /\ pc'[q] = "failed"
      BY <2>1, <2>2 DEF Running, Live, Waits
    <2>4. \A q \in Requests \ dead : pc'[q] = pc[q] /\ op'[q] = op[q]
      BY <2>2
    <2>5. Calls!Lose(dead)
      BY <2>2, <2>3, <2>4, Loses
    <2> QED BY <2>5 DEF Calls!Next
  <1>6. CASE (\E d \in Readers : Reader(d)) \/ Finished \/ UNCHANGED vars
    <2>1. UNCHANGED <<pc, op, record>>
      BY <1>6, ReadersOnlyRead DEF Finished, vars, callVars, store
    <2> QED BY <2>1, Stutters
  <1> QED BY <1>1, <1>2, <1>3, <1>4, <1>5, <1>6 DEF Next

(* Every behaviour of the handlers, through all repairs, faults and        *)
(* crashes, is one the callers were promised: a key is bound once, its     *)
(* operation settled at most once, every call told once and rightly.       *)
THEOREM HandlersKeepThePromise ==
    ASSUME ~AtomicCreate, OneWriterPerKey PROVE Spec => RefinesCalls
  <1>1. Init => Calls!Init
    <2> SUFFICES ASSUME Init PROVE Calls!Init
      OBVIOUS
    <2>1. Bound = [k \in Keys |-> Nobody] /\ Settled = {}
      BY DEF Init, Bound, Settled, Absent
    <2>2. Answers = [r \in Requests |-> Calls!Waiting]
      BY DEF Init, Answers, AnswerOf, Final, Calls!Waiting
    <2> QED BY <2>1, <2>2 DEF Calls!Init, Bound, Settled, Answers, AnswerOf
  <1>2. Binding /\ [Next]_vars => [Calls!Next]_(Calls!callVars)
    BY NextRefines
  <1> QED BY <1>1, <1>2, BindingAlways, PTL DEF Spec, RefinesCalls, Calls!Spec

=============================================================================
