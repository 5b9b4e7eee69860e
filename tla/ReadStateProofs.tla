---------------------------- MODULE ReadStateProofs ----------------------------
(* Proofs about ReadState, for every set of requests, marks and targets.      *)
EXTENDS ReadState, TLAPS

(* Type correctness is inductive as it stands. *)
LEMMA FreedTyped ==
    ASSUME TypeOK, NEW rs
    PROVE  /\ Freed(idemLock, rs) \in [Instances \X Shards -> Requests \cup {None}]
           /\ Freed(createLock, rs) \in [Instances -> Requests \cup {None}]
           /\ Freed(stateLock, rs) \in [Instances \X Shards -> Requests \cup {None}]
  BY DEF TypeOK, Freed

LEMMA TypeInit == Init => TypeOK
  BY RequestsAssumption DEF Init, TypeOK, Final, Sent

LEMMA TypeHandler == ASSUME TypeOK, NEW r \in Requests, Handler(r) PROVE TypeOK'
  <1> USE DEF GoTo, locks, store, Final, Sent
  <1>0. /\ CommandOf[r] \in Commands /\ Instance[r] \in Instances /\ TargetOf(r) \in Targets
        /\ ShardOf[CommandOf[r]] \in Shards /\ KeyShard[CommandOf[r]] \in Shards
        /\ readAt[r] \in Nat
    BY RequestsAssumption DEF TargetOf, TypeOK
  <1>1. CASE LockCommand(r)
    <2>1. readAt' \in [Requests -> Nat]
      <3>0. now \in 0..MaxTime
        BY DEF TypeOK
      <3>1. now \in Nat /\ ReadAt[CommandOf[r]] \in Nat \cup {Unset}
        BY <1>0, <3>0, RequestsAssumption
      <3>2. (IF ReadAt[CommandOf[r]] = Unset THEN now ELSE ReadAt[CommandOf[r]]) \in Nat
        BY <3>1
      <3> QED BY <1>1, <3>2 DEF LockCommand, TypeOK
    <2>2. idemLock' \in [Instances \X Shards -> Requests \cup {None}]
      BY <1>1 DEF LockCommand, TypeOK
    <2>3. pc' = [pc EXCEPT ![r] = "begin"] /\ UNCHANGED <<now, seen, createLock, stateLock, store>>
      BY <1>1 DEF LockCommand
    <2> QED BY <2>1, <2>2, <2>3 DEF TypeOK
  <1>2. CASE Begin(r)
    BY <1>0, <1>2 DEF Begin, TypeOK
  <1>3. CASE Replay(r)
    BY <1>3, FreedTyped DEF Replay, Release, TypeOK
  <1>4. CASE WriteEvent(r)
    BY <1>0, <1>4, FreedTyped DEF WriteEvent, StoreEvent, TypeOK
  <1>5. CASE LockState(r)
    BY <1>0, <1>5 DEF LockState, StateGuard, TypeOK
  <1>6. CASE ReadTorn(r)
    BY <1>6, FreedTyped DEF ReadTorn, Release, TypeOK
  <1>7. CASE ReadCurrent(r)
    BY <1>0, <1>7 DEF ReadCurrent, TypeOK
  <1>8. CASE Project(r)
    <2>1. [cmd |-> CommandOf[r], readAt |-> readAt[r]] \in States
      BY <1>0 DEF States
    <2> QED BY <1>0, <1>8, <2>1 DEF Project, StoreCurrent, TypeOK
  <1>9. CASE KeepCurrent(r)
    BY <1>9 DEF KeepCurrent, TypeOK
  <1>10. CASE Complete(r)
    BY <1>0, <1>10, FreedTyped DEF Complete, Release, TypeOK
  <1>11. CASE TakeCreateLock(r)
    BY <1>0, <1>11 DEF TakeCreateLock, TypeOK
  <1>12. CASE EventExists(r)
    BY <1>12, FreedTyped DEF EventExists, TypeOK
  <1>13. CASE HeadMiss(r)
    BY <1>13 DEF HeadMiss, TypeOK
  <1> QED BY <1>1, <1>2, <1>3, <1>4, <1>5, <1>6, <1>7, <1>8, <1>9, <1>10, <1>11, <1>12, <1>13
          DEF Handler

LEMMA TypeNext == TypeOK /\ [Next]_vars => TypeOK'
  <1> SUFFICES ASSUME TypeOK, [Next]_vars PROVE TypeOK'
    OBVIOUS
  <1> USE DEF GoTo, locks, store, Final, Sent, Release
  <1>0. ASSUME NEW r \in Requests
        PROVE  /\ CommandOf[r] \in Commands /\ TargetOf(r) \in Targets
               /\ readAt[r] \in Nat
               /\ [cmd |-> CommandOf[r], readAt |-> readAt[r]] \in States
    BY RequestsAssumption DEF TargetOf, TypeOK, States
  <1>1. ASSUME NEW r \in Requests, Handler(r) PROVE TypeOK'
    BY <1>1, TypeHandler
  <1>2. ASSUME NEW r \in Requests, Stop(r) PROVE TypeOK'
    BY <1>2, FreedTyped DEF Stop, TypeOK
  <1>3. ASSUME NEW r \in Requests, StopAfterPut(r) PROVE TypeOK'
    <2>1. begun' \subseteq Commands /\ done' \subseteq Commands
      BY <1>0, <1>3 DEF StopAfterPut, TypeOK
    <2>2. event' \in [Commands -> Nat \cup {None, Torn}]
      BY <1>0, <1>3 DEF StopAfterPut, StoreEvent, TypeOK
    <2>3. current' \in [Targets -> States \cup {None, Torn}]
      BY <1>0, <1>3 DEF StopAfterPut, StoreCurrent, TypeOK
    <2> QED BY <1>3, <2>1, <2>2, <2>3, FreedTyped DEF StopAfterPut, TypeOK
  <1>4. ASSUME NEW r \in Requests, StopTorn(r) PROVE TypeOK'
    BY <1>0, <1>4, FreedTyped DEF StopTorn, TypeOK
  <1>5. ASSUME NEW r \in Requests, DropSending(r) PROVE TypeOK'
    BY <1>5, FreedTyped DEF DropSending, TypeOK
  <1>6. ASSUME NEW r \in Requests, LandLate(r) PROVE TypeOK'
    BY <1>0, <1>6 DEF LandLate, StoreCurrent, StoreEvent, TypeOK
  <1>7. ASSUME NEW i \in Instances, Crash(i) PROVE TypeOK'
    BY <1>7, FreedTyped DEF Crash, TypeOK
  <1>8. CASE Tick
    <2>1. now' \in 0..MaxTime
      <3>1. now \in 0..MaxTime
        BY DEF TypeOK
      <3> QED BY <1>8, <3>1, RequestsAssumption DEF Tick
    <2>2. UNCHANGED <<pc, readAt, seen, locks, store>>
      BY <1>8 DEF Tick
    <2> QED BY <2>1, <2>2 DEF TypeOK
  <1>9. CASE Finished \/ UNCHANGED vars
    BY <1>9 DEF Finished, vars, locks, store, TypeOK
  <1> QED BY <1>1, <1>2, <1>3, <1>4, <1>5, <1>6, <1>7, <1>8, <1>9 DEF Next

(* Every variable of mark_read keeps its type. *)
THEOREM TypeCorrect == Spec => []TypeOK
  BY TypeInit, TypeNext, PTL DEF Spec

-----------------------------------------------------------------------------
(* The projection is monotone as long as one process serves the target,    *)
(* all clients spell the ids of a target alike and a PUT does not outlive  *)
(* its handler: the state lock then makes the read of the projection and   *)
(* its replacement one step.                                               *)

OneProcess == \A r1, r2 \in Requests : Instance[r1] = Instance[r2]

OneLockPerTarget ==
    /\ ~LateWrites /\ ~TornWrites
    /\ OneProcess
    /\ \A c1, c2 \in Commands : Target[c1] = Target[c2] => ShardOf[c1] = ShardOf[c2]

Projecting == {"read", "project", "complete"}

LockHeld ==
    \A r \in Requests : pc[r] \in Projecting => stateLock[StateGuard(r)] = r

SeenIsCurrent ==
    \A r \in Requests : pc[r] = "project" => seen[r] = current[TargetOf(r)]

NothingLate == \A r \in Requests : pc[r] \notin Sent

NothingTorn == \A t \in Targets : current[t] # Torn

Exclusive == TypeOK /\ LockHeld /\ SeenIsCurrent /\ NothingLate /\ NothingTorn

(* Two handlers of one target are never both past the state lock. *)
LEMMA OneProjector ==
    ASSUME OneLockPerTarget, Exclusive, NEW r \in Requests, NEW q \in Requests,
           pc[r] \in Projecting, pc[q] \in Projecting, TargetOf(r) = TargetOf(q)
    PROVE  r = q
  <1>1. CommandOf[r] \in Commands /\ CommandOf[q] \in Commands
    BY RequestsAssumption
  <1>2. StateGuard(r) = StateGuard(q)
    BY <1>1 DEF OneLockPerTarget, OneProcess, StateGuard, TargetOf
  <1>3. stateLock[StateGuard(r)] = r /\ stateLock[StateGuard(q)] = q
    BY DEF Exclusive, LockHeld
  <1> QED BY <1>2, <1>3

(* Replacing the projection disturbs no other handler's view of it. *)
LEMMA StoreCurrentExclusive ==
    ASSUME OneLockPerTarget, Exclusive, NEW r \in Requests, pc[r] = "project", StoreCurrent(r),
           NEW q \in Requests \ {r}, pc[q] = "project"
    PROVE  current'[TargetOf(q)] = current[TargetOf(q)]
  <1>1. TargetOf(q) # TargetOf(r)
    BY OneProjector DEF Projecting
  <1> QED BY <1>1, RequestsAssumption DEF StoreCurrent, Exclusive, TypeOK, TargetOf

(* The guards of the others survive the end of a set of handlers. *)
LEMMA FreedHeld ==
    ASSUME TypeOK, NEW rs, NEW q \in Requests, q \notin rs, stateLock[StateGuard(q)] = q
    PROVE  Freed(stateLock, rs)[StateGuard(q)] = q
  BY RequestsAssumption DEF TypeOK, Freed, StateGuard, TargetOf

LEMMA ExclusiveInit == Init => Exclusive
  <1> SUFFICES ASSUME Init PROVE Exclusive
    OBVIOUS
  <1>1. TypeOK
    BY TypeInit
  <1>2. LockHeld /\ SeenIsCurrent /\ NothingLate
    BY DEF Init, LockHeld, SeenIsCurrent, NothingLate, Projecting, Sent
  <1>3. NothingTorn
    BY RequestsAssumption DEF Init, NothingTorn
  <1> QED BY <1>1, <1>2, <1>3 DEF Exclusive

LEMMA ExclusiveNext == OneLockPerTarget /\ Exclusive /\ [Next]_vars => Exclusive'
  <1> SUFFICES ASSUME OneLockPerTarget, Exclusive, [Next]_vars PROVE Exclusive'
    OBVIOUS
  <1>0. TypeOK /\ TypeOK' /\ LockHeld /\ SeenIsCurrent /\ NothingLate /\ NothingTorn
    BY TypeNext DEF Exclusive
  (* A handler ends and stores nothing in the projection. *)
  <1>1. ASSUME NEW rs \in SUBSET Requests, Release(rs), UNCHANGED <<seen, current>>,
               \A q \in Requests : IF q \in rs THEN pc'[q] \in Final ELSE pc'[q] = pc[q]
        PROVE  Exclusive'
    <2>1. LockHeld'
      BY <1>0, <1>1, FreedHeld DEF LockHeld, Release, Projecting, Final, StateGuard, TargetOf
    <2>2. SeenIsCurrent' /\ NothingLate' /\ NothingTorn'
      BY <1>0, <1>1 DEF SeenIsCurrent, NothingLate, NothingTorn, Final, Sent, TargetOf
    <2> QED BY <1>0, <2>1, <2>2 DEF Exclusive
  (* The projection is stored, by the handler or by a failing one. *)
  <1>2. ASSUME NEW r \in Requests, pc[r] = "project", StoreCurrent(r), UNCHANGED seen,
               NEW next \in {"complete", "failed"}, GoTo(r, next),
               \A q \in Requests : stateLock[StateGuard(q)] = q /\ (q # r \/ next = "complete")
                    => stateLock'[StateGuard(q)] = q
        PROVE  Exclusive'
    <2>1. LockHeld'
      BY <1>0, <1>2 DEF LockHeld, Projecting, GoTo, TypeOK, StateGuard, TargetOf
    <2>2. SeenIsCurrent'
      <3> SUFFICES ASSUME NEW q \in Requests, pc'[q] = "project"
                   PROVE  seen'[q] = current'[TargetOf(q)]
        BY DEF SeenIsCurrent, TargetOf
      <3>1. q # r /\ pc[q] = "project"
        BY <1>0, <1>2 DEF GoTo, TypeOK
      <3>2. current'[TargetOf(q)] = current[TargetOf(q)]
        BY <1>2, <3>1, StoreCurrentExclusive
      <3> QED BY <1>0, <1>2, <3>1, <3>2 DEF SeenIsCurrent
    <2>3. NothingLate'
      BY <1>0, <1>2 DEF NothingLate, Sent, GoTo, TypeOK
    <2>4. NothingTorn'
      <3>1. [cmd |-> CommandOf[r], readAt |-> readAt[r]] \in States
        BY <1>0, RequestsAssumption DEF States, TypeOK
      <3>2. [cmd |-> CommandOf[r], readAt |-> readAt[r]] # Torn
        BY <3>1, RequestsAssumption DEF States
      <3> QED BY <1>0, <1>2, <3>2 DEF StoreCurrent, NothingTorn, TypeOK
    <2> QED BY <1>0, <2>1, <2>2, <2>3, <2>4 DEF Exclusive
  (* A step that moves one handler and leaves the projection alone. *)
  <1>3. ASSUME NEW r \in Requests, UNCHANGED <<seen, stateLock, current>>,
               NEW next \in {"begin", "event", "head", "send", "state", "complete"},
               GoTo(r, next),
               next = "complete" => pc[r] = "project"
        PROVE  Exclusive'
    <2>1. LockHeld'
      BY <1>0, <1>3 DEF LockHeld, Projecting, GoTo, TypeOK, StateGuard, TargetOf
    <2>2. SeenIsCurrent' /\ NothingLate' /\ NothingTorn'
      BY <1>0, <1>3 DEF SeenIsCurrent, NothingLate, NothingTorn, Sent, GoTo, TypeOK, TargetOf
    <2> QED BY <1>0, <2>1, <2>2 DEF Exclusive
  <1>4. ASSUME NEW r \in Requests, LockState(r) PROVE Exclusive'
    <2>1. /\ stateLock' = [stateLock EXCEPT ![StateGuard(r)] = r]
          /\ stateLock[StateGuard(r)] = None /\ GoTo(r, "read") /\ UNCHANGED <<seen, current>>
      BY <1>4 DEF LockState, store
    <2>2. StateGuard(r) \in Instances \X Shards
      BY RequestsAssumption DEF StateGuard, TargetOf
    <2>3. LockHeld'
      BY <1>0, <2>1, <2>2, RequestsAssumption
         DEF LockHeld, Projecting, GoTo, TypeOK, StateGuard, TargetOf
    <2>4. SeenIsCurrent' /\ NothingLate' /\ NothingTorn'
      BY <1>0, <2>1 DEF SeenIsCurrent, NothingLate, NothingTorn, Sent, GoTo, TypeOK, TargetOf
    <2> QED BY <1>0, <2>3, <2>4 DEF Exclusive
  <1>5. ASSUME NEW r \in Requests, ReadCurrent(r) PROVE Exclusive'
    <2>1. /\ pc[r] = "read" /\ GoTo(r, "project") /\ UNCHANGED <<stateLock, current>>
          /\ seen' = [seen EXCEPT ![r] = current[TargetOf(r)]]
      BY <1>5 DEF ReadCurrent, locks, store
    <2>2. LockHeld'
      BY <1>0, <2>1 DEF LockHeld, Projecting, GoTo, TypeOK, StateGuard, TargetOf
    <2>3. SeenIsCurrent' /\ NothingLate' /\ NothingTorn'
      BY <1>0, <2>1 DEF SeenIsCurrent, NothingLate, NothingTorn, Sent, GoTo, TypeOK, TargetOf
    <2> QED BY <1>0, <2>2, <2>3 DEF Exclusive
  <1>6. ASSUME NEW r \in Requests, NEW next \in Final, GoTo(r, next), Release({r}),
               UNCHANGED <<seen, current>>
        PROVE  Exclusive'
    <2>1. \A q \in Requests : IF q \in {r} THEN pc'[q] \in Final ELSE pc'[q] = pc[q]
      BY <1>0, <1>6 DEF GoTo, TypeOK
    <2> QED BY <1>1, <1>6, <2>1
  <1>7. ASSUME NEW r \in Requests, Handler(r) PROVE Exclusive'
    <2>1. CASE LockCommand(r)
      BY <1>3, <2>1 DEF LockCommand, store
    <2>2. CASE Begin(r)
      BY <1>3, <2>2 DEF Begin, locks
    <2>3. CASE Replay(r)
      BY <1>6, <2>3 DEF Replay, store, Final
    <2>4. CASE WriteEvent(r)
      BY <1>3, <2>4 DEF WriteEvent, locks
    <2>5. CASE LockState(r)
      BY <1>4, <2>5
    <2>6. CASE ReadTorn(r)
      BY <1>6, <2>6 DEF ReadTorn, store, Final
    <2>7. CASE ReadCurrent(r)
      BY <1>5, <2>7
    <2>8. CASE Project(r)
      BY <1>2, <2>8 DEF Project, locks
    <2>9. CASE KeepCurrent(r)
      BY <1>3, <2>9 DEF KeepCurrent, locks, store
    <2>10. CASE Complete(r)
      BY <1>6, <2>10 DEF Complete, Final
    <2>11. CASE TakeCreateLock(r)
      BY <1>3, <2>11 DEF TakeCreateLock, store
    <2>12. CASE EventExists(r)
      BY <1>3, <2>12 DEF EventExists, store
    <2>13. CASE HeadMiss(r)
      BY <1>3, <2>13 DEF HeadMiss, locks, store
    <2> QED BY <1>7, <2>1, <2>2, <2>3, <2>4, <2>5, <2>6, <2>7, <2>8, <2>9, <2>10, <2>11, <2>12,
               <2>13 DEF Handler
  <1>8. ASSUME NEW r \in Requests, Stop(r) PROVE Exclusive'
    BY <1>6, <1>8 DEF Stop, store, Final
  <1>9. ASSUME NEW r \in Requests, StopAfterPut(r) PROVE Exclusive'
    <2>1. GoTo(r, "failed") /\ Release({r}) /\ UNCHANGED seen
      BY <1>9 DEF StopAfterPut
    <2>2. CASE UNCHANGED current
      BY <1>6, <2>1, <2>2 DEF Final
    <2>3. CASE ~UNCHANGED current
      <3>1. pc[r] = "project" /\ StoreCurrent(r)
        BY <1>9, <2>3 DEF StopAfterPut
      <3>2. \A q \in Requests : stateLock[StateGuard(q)] = q /\ q # r
                => stateLock'[StateGuard(q)] = q
        BY <1>0, <2>1, FreedHeld DEF Release
      <3> QED BY <1>2, <2>1, <3>1, <3>2
    <2> QED BY <2>2, <2>3
  <1>10. ASSUME NEW r \in Requests, StopTorn(r) \/ DropSending(r) \/ LandLate(r)
         PROVE  Exclusive'
    BY <1>0, <1>10 DEF StopTorn, DropSending, LandLate, OneLockPerTarget, NothingLate, Sent
  <1>11. ASSUME NEW i \in Instances, Crash(i) PROVE Exclusive'
    <2> DEFINE dead == {r \in Requests : Instance[r] = i /\ Running(r)}
    <2>1. /\ Release(dead) /\ UNCHANGED <<seen, current>>
          /\ pc' = [r \in Requests |-> IF r \in dead THEN "failed" ELSE pc[r]]
      BY <1>11 DEF Crash, store
    <2>2. \A q \in Requests : IF q \in dead THEN pc'[q] \in Final ELSE pc'[q] = pc[q]
      BY <2>1 DEF Final
    <2>3. dead \in SUBSET Requests
      OBVIOUS
    <2> HIDE DEF dead
    <2> QED BY <1>1, <2>1, <2>2, <2>3
  <1>12. CASE Tick \/ Finished \/ UNCHANGED vars
    <2>1. UNCHANGED <<pc, seen, stateLock, current>>
      BY <1>12 DEF Tick, Finished, vars, locks, store
    <2> QED BY <1>0, <2>1
            DEF Exclusive, LockHeld, SeenIsCurrent, NothingLate, NothingTorn, StateGuard, TargetOf
  <1> QED BY <1>7, <1>8, <1>9, <1>10, <1>11, <1>12 DEF Next

LEMMA ExclusiveAlways == ASSUME OneLockPerTarget PROVE Spec => []Exclusive
  <1>1. Exclusive /\ [Next]_vars => Exclusive'
    BY ExclusiveNext
  <1> QED BY <1>1, ExclusiveInit, PTL DEF Spec

(* A step from an exclusive state never moves a projection back. *)
LEMMA StepForward ==
    ASSUME OneLockPerTarget, Exclusive, [Next]_vars, NEW t \in Targets, current[t] # None
    PROVE  current'[t] # None /\ current[t].readAt <= current'[t].readAt
  <1>0. TypeOK /\ SeenIsCurrent /\ NothingLate /\ current[t] \in States
    BY DEF Exclusive, TypeOK, NothingTorn
  <1>1. CASE current'[t] = current[t]
    BY <1>0, <1>1 DEF States
  <1>2. CASE current'[t] # current[t]
    <2>1. PICK r \in Requests : pc[r] = "project" /\ Newer(r) /\ StoreCurrent(r)
      BY <1>0, <1>2 DEF Next, Handler, LockCommand, Begin, Replay, WriteEvent, LockState,
            TakeCreateLock, EventExists, HeadMiss, ReadTorn, ReadCurrent, Project,
            KeepCurrent, Complete, Stop, StopAfterPut, StopTorn, DropSending, LandLate, Crash,
            Tick, Finished, vars, store, locks, OneLockPerTarget, NothingLate, Sent
    <2>2. t = TargetOf(r) /\ current'[t] = [cmd |-> CommandOf[r], readAt |-> readAt[r]]
      BY <1>0, <1>2, <2>1 DEF StoreCurrent, TypeOK
    <2>3. seen[r] = current[t] /\ readAt[r] \in Nat
      BY <1>0, <2>1, <2>2 DEF SeenIsCurrent, TypeOK
    <2>4. current[t].readAt <= readAt[r]
      BY <2>1, <2>3 DEF Newer
    <2>5. current'[t] \in States /\ CommandOf[r] \in Commands
      BY <2>2, <2>3, RequestsAssumption DEF States
    <2> QED BY <2>2, <2>4, <2>5, RequestsAssumption DEF States
  <1> QED BY <1>1, <1>2

(* When one lock guards a target its projection never goes back in time,   *)
(* whatever order marks, retries, disconnects and crashes come in.         *)
THEOREM NeverBackwardsUnderOneLock == ASSUME OneLockPerTarget PROVE Spec => NeverBackwards
  <1>1. Exclusive /\ [Next]_vars =>
            [\A t \in Targets : current[t] # None =>
                current'[t] # None /\ current[t].readAt <= current'[t].readAt]_vars
    BY StepForward
  <1> QED BY <1>1, ExclusiveAlways, PTL DEF Spec, NeverBackwards

-----------------------------------------------------------------------------
(* An event is written once: the idempotency lock admits one attempt at a   *)
(* command at a time, so that what HEAD said of its event is still so when  *)
(* the PUT is carried out.                                                  *)

OneWriterPerEvent == AtomicCreate \/ (~LateWrites /\ OneProcess)

OneAttempt == \A r \in Requests : Running(r) => idemLock[IdemGuard(r)] = r

(* No event has appeared since HEAD found none. *)
HeadStands ==
    \A r \in Requests :
        /\ pc[r] = "send" => ~AtomicCreate /\ event[CommandOf[r]] = None
        /\ pc[r] # "late event"

Written == TypeOK /\ OneAttempt /\ HeadStands

(* Only one handler of a command runs. *)
LEMMA OneHandler ==
    ASSUME OneProcess, OneAttempt, NEW r \in Requests, NEW q \in Requests,
           Running(r), Running(q), CommandOf[r] = CommandOf[q]
    PROVE  r = q
  <1>1. IdemGuard(r) = IdemGuard(q)
    BY DEF OneProcess, IdemGuard
  <1> QED BY <1>1 DEF OneAttempt

(* The idempotency locks of the others survive the end of some handlers. *)
LEMMA FreedIdem ==
    ASSUME TypeOK, NEW rs, NEW q \in Requests, q \notin rs, idemLock[IdemGuard(q)] = q
    PROVE  Freed(idemLock, rs)[IdemGuard(q)] = q
  <1>1. IdemGuard(q) \in Instances \X Shards
    BY RequestsAssumption DEF IdemGuard
  <1> QED BY <1>1 DEF TypeOK, Freed

Onward == {"event", "head", "send", "state", "read", "project", "complete"}

(* Some handlers end, and leave what they had sent. *)
Ending(rs) ==
    /\ idemLock' = Freed(idemLock, rs) /\ UNCHANGED <<readAt, now>>
    /\ \A q \in Requests :
            IF q \in rs
            THEN /\ Running(q) /\ pc'[q] \in Final \cup Sent
                 /\ pc'[q] = "late event" => pc[q] = "send" /\ LateWrites
            ELSE pc'[q] = pc[q]
    /\ \/ UNCHANGED event
       \/ \E r \in rs :
            /\ Sending(r)
            /\ \/ StoreEvent(r)
               \/ TornWrites /\ event' = [event EXCEPT ![CommandOf[r]] = Torn]

(* What one step does to locks, handlers and events, whatever the action. *)
LEMMA OneStep ==
    ASSUME TypeOK, [Next]_vars
    PROVE  \/ UNCHANGED <<pc, idemLock, readAt, event>> /\ now' >= now
           \/ \E r \in Requests : LockCommand(r)
           \/ \E r \in Requests : WriteEvent(r)
           \/ /\ UNCHANGED <<idemLock, readAt, event, now>>
              /\ \E r \in Requests, next \in Onward :
                    Running(r) /\ GoTo(r, next) /\ (next = "send" => HeadMiss(r))
           \/ \E rs \in SUBSET Requests : Ending(rs)
           \/ \E r \in Requests : LandLate(r)
  <1> USE DEF locks, store, GoTo
  <1>1. ASSUME NEW r \in Requests, Handler(r), ~LockCommand(r), ~WriteEvent(r)
        PROVE  \/ /\ UNCHANGED <<idemLock, readAt, event, now>>
                  /\ \E next \in Onward :
                        Running(r) /\ GoTo(r, next) /\ (next = "send" => HeadMiss(r))
               \/ /\ UNCHANGED <<readAt, now, event>> /\ idemLock' = Freed(idemLock, {r})
                  /\ Running(r) /\ \E next \in Final : GoTo(r, next)
    <2> USE DEF Onward, Running, Final, Sent
    <2>1. CASE HeadMiss(r)
      BY <2>1 DEF HeadMiss, Asking
    <2>2. CASE TakeCreateLock(r) \/ EventExists(r) \/ Begin(r) \/ LockState(r)
      BY <2>2 DEF TakeCreateLock, EventExists, Asking, Begin, LockState
    <2>3. CASE ReadCurrent(r) \/ Project(r) \/ KeepCurrent(r)
      BY <2>3 DEF ReadCurrent, Project, KeepCurrent
    <2>4. CASE Replay(r) \/ ReadTorn(r) \/ Complete(r)
      BY <2>4 DEF Replay, ReadTorn, Complete, Release
    <2> QED BY <1>1, <2>1, <2>2, <2>3, <2>4 DEF Handler
  <1>2. ASSUME NEW r \in Requests, NEW next \in Final \cup Sent, GoTo(r, next), Running(r),
               next = "late event" => pc[r] = "send" /\ LateWrites,
               idemLock' = Freed(idemLock, {r}), UNCHANGED <<readAt, now>>,
               \/ UNCHANGED event
               \/ /\ Sending(r)
                  /\ \/ StoreEvent(r)
                     \/ TornWrites /\ event' = [event EXCEPT ![CommandOf[r]] = Torn]
        PROVE  \E rs \in SUBSET Requests : Ending(rs)
    <2>1. Ending({r})
      BY <1>2 DEF Ending, TypeOK
    <2> QED BY <2>1
  <1>3. ASSUME NEW r \in Requests, Handler(r), ~LockCommand(r), ~WriteEvent(r)
        PROVE  \/ /\ UNCHANGED <<idemLock, readAt, event, now>>
                  /\ \E next \in Onward :
                        Running(r) /\ GoTo(r, next) /\ (next = "send" => HeadMiss(r))
               \/ \E rs \in SUBSET Requests : Ending(rs)
    <2>1. CASE /\ UNCHANGED <<readAt, now, event>> /\ idemLock' = Freed(idemLock, {r})
               /\ Running(r) /\ \E next \in Final : GoTo(r, next)
      <3>1. PICK next \in Final : GoTo(r, next)
        BY <2>1
      <3> HIDE DEF GoTo
      <3> QED BY <1>2, <2>1, <3>1 DEF Final
    <2> QED BY <1>1, <1>3, <2>1
  <1>4. ASSUME NEW r \in Requests,
               Stop(r) \/ StopAfterPut(r) \/ StopTorn(r) \/ DropSending(r)
        PROVE  \E rs \in SUBSET Requests : Ending(rs)
    <2> HIDE DEF GoTo
    <2>1. CASE Stop(r)
      BY <1>2, <2>1 DEF Stop, Release, Final
    <2>2. CASE StopAfterPut(r)
      BY <1>2, <2>2 DEF StopAfterPut, Release, Final
    <2>3. CASE StopTorn(r)
      BY <1>2, <2>3 DEF StopTorn, Release, Final
    <2>4. CASE DropSending(r)
      BY <1>2, <2>4 DEF DropSending, Release, Running, Final, Sent
    <2> QED BY <1>4, <2>1, <2>2, <2>3, <2>4
  <1>5. ASSUME NEW i \in Instances, Crash(i)
        PROVE  \E rs \in SUBSET Requests : Ending(rs)
    <2> DEFINE dead == {r \in Requests : Instance[r] = i /\ Running(r)}
    <2>1. /\ idemLock' = Freed(idemLock, dead) /\ UNCHANGED <<event, readAt, now>>
          /\ pc' = [r \in Requests |-> IF r \in dead THEN "failed" ELSE pc[r]]
      BY <1>5 DEF Crash, Release
    <2>2. dead \in SUBSET Requests /\ \A q \in dead : Running(q)
      OBVIOUS
    <2> HIDE DEF dead
    <2>3. Ending(dead)
      BY <2>1, <2>2 DEF Ending, Final
    <2> QED BY <2>2, <2>3
  <1>6. CASE Tick \/ Finished \/ UNCHANGED vars
    BY <1>6 DEF Tick, Finished, vars, TypeOK
  <1>7. ASSUME NEW r \in Requests, Handler(r)
        PROVE  LockCommand(r) \/ WriteEvent(r) \/ (~LockCommand(r) /\ ~WriteEvent(r))
    OBVIOUS
  <1> QED BY <1>3, <1>4, <1>5, <1>6, <1>7 DEF Next

(* A step stores an event only where there is none. *)
LEMMA EventKept ==
    ASSUME Written, [Next]_vars, NEW c \in Commands, event[c] # None
    PROVE  event'[c] = event[c]
  <1>1. ASSUME NEW r \in Requests, Sending(r) PROVE event[CommandOf[r]] = None
    BY <1>1 DEF Sending, Written, HeadStands
  <1>2. ASSUME NEW r \in Requests, LandLate(r) PROVE UNCHANGED event
    BY <1>2 DEF LandLate, Written, HeadStands
  <1>3. CASE \E r \in Requests : WriteEvent(r)
    BY <1>1, <1>3 DEF WriteEvent, StoreEvent, Written, TypeOK
  <1>4. CASE \E rs \in SUBSET Requests : Ending(rs)
    BY <1>1, <1>4 DEF Ending, StoreEvent, Written, TypeOK
  <1> QED BY <1>2, <1>3, <1>4, OneStep DEF LockCommand, store, Written

(* What HEAD said stands until the PUT: any other handler that could store *)
(* an event of the command would have to hold the same idempotency lock.   *)
LEMMA WrittenNext == OneWriterPerEvent /\ Written /\ [Next]_vars => Written'
  <1> SUFFICES ASSUME OneWriterPerEvent, Written, [Next]_vars PROVE Written'
    OBVIOUS
  <1>0. /\ TypeOK /\ TypeOK' /\ OneAttempt /\ HeadStands
        /\ \A r \in Requests : CommandOf[r] \in Commands
    BY TypeNext, RequestsAssumption DEF Written
  (* No event of a handler that is about to send its own changes. *)
  <1>1. ASSUME NEW q \in Requests, pc[q] = "send", NEW r \in Requests, Sending(r), q # r,
               \/ StoreEvent(r)
               \/ event' = [event EXCEPT ![CommandOf[r]] = Torn]
        PROVE  event'[CommandOf[q]] = None
    <2>1. ~AtomicCreate /\ OneProcess
      BY <1>0, <1>1 DEF HeadStands, OneWriterPerEvent
    <2>2. Running(q) /\ Running(r)
      BY <1>1, <2>1 DEF Running, Sending, Final, Sent
    <2>3. CommandOf[q] # CommandOf[r]
      BY <1>0, <1>1, <2>1, <2>2, OneHandler
    <2> QED BY <1>0, <1>1, <2>3 DEF StoreEvent, HeadStands, TypeOK
  <1>2. CASE UNCHANGED <<pc, idemLock, readAt, event>> /\ now' >= now
    BY <1>0, <1>2 DEF Written, OneAttempt, HeadStands, Running, IdemGuard
  <1>3. ASSUME NEW r \in Requests, LockCommand(r) PROVE Written'
    <2>1. /\ idemLock[IdemGuard(r)] = None /\ idemLock' = [idemLock EXCEPT ![IdemGuard(r)] = r]
          /\ UNCHANGED event /\ pc' = [pc EXCEPT ![r] = "begin"]
      BY <1>3 DEF LockCommand, store, GoTo
    <2>2. OneAttempt'
      BY <1>0, <2>1, RequestsAssumption DEF OneAttempt, Running, IdemGuard, TypeOK
    <2>3. HeadStands'
      BY <1>0, <2>1 DEF HeadStands, TypeOK
    <2> QED BY <1>0, <2>2, <2>3 DEF Written
  <1>4. ASSUME NEW r \in Requests, WriteEvent(r) PROVE Written'
    <2>1. /\ Sending(r) /\ StoreEvent(r) /\ UNCHANGED idemLock
          /\ pc' = [pc EXCEPT ![r] = "state"]
      BY <1>4 DEF WriteEvent, GoTo
    <2>2. Running(r)
      BY <2>1 DEF Running, Sending, Asking, Final, Sent
    <2>3. OneAttempt'
      BY <1>0, <2>1, <2>2 DEF OneAttempt, Running, IdemGuard, TypeOK
    <2>4. HeadStands'
      BY <1>0, <1>1, <2>1 DEF HeadStands, TypeOK
    <2> QED BY <1>0, <2>3, <2>4 DEF Written
  <1>5. ASSUME NEW r \in Requests, NEW next \in Onward, Running(r), GoTo(r, next),
               next = "send" => HeadMiss(r), UNCHANGED <<idemLock, event>>
        PROVE  Written'
    <2>1. OneAttempt'
      BY <1>0, <1>5 DEF OneAttempt, Running, IdemGuard, GoTo, TypeOK
    <2>2. HeadStands'
      BY <1>0, <1>5 DEF HeadStands, HeadMiss, GoTo, Onward, TypeOK
    <2> QED BY <1>0, <2>1, <2>2 DEF Written
  <1>6. ASSUME NEW rs \in SUBSET Requests, Ending(rs) PROVE Written'
    <2>1. OneAttempt'
      <3> SUFFICES ASSUME NEW q \in Requests, Running(q)' PROVE idemLock'[IdemGuard(q)] = q
        BY DEF OneAttempt, IdemGuard
      <3>1. q \notin rs /\ Running(q)
        BY <1>6 DEF Ending, Running
      <3>2. idemLock[IdemGuard(q)] = q
        BY <1>0, <3>1 DEF OneAttempt
      <3> QED BY <1>0, <1>6, <3>1, <3>2, FreedIdem DEF Ending
    <2>2. ASSUME NEW q \in Requests PROVE pc'[q] # "late event"
      BY <1>0, <1>6, <2>2 DEF Ending, HeadStands, OneWriterPerEvent
    <2>3. ASSUME NEW q \in Requests, pc'[q] = "send"
          PROVE  ~AtomicCreate /\ event'[CommandOf[q]] = None
      <3>1. q \notin rs /\ pc[q] = "send"
        BY <1>6, <2>3 DEF Ending, Final, Sent
      <3> QED BY <1>0, <1>1, <1>6, <3>1 DEF Ending, HeadStands
    <2> QED BY <1>0, <2>1, <2>2, <2>3 DEF Written, HeadStands
  <1>7. ASSUME NEW r \in Requests, LandLate(r) PROVE Written'
    <2>1. /\ UNCHANGED <<idemLock, event>> /\ pc[r] = "late" /\ pc' = [pc EXCEPT ![r] = "failed"]
      BY <1>0, <1>7 DEF LandLate, HeadStands, locks, GoTo
    <2>2. OneAttempt'
      BY <1>0, <2>1 DEF OneAttempt, Running, IdemGuard, TypeOK, Final
    <2>3. HeadStands'
      BY <1>0, <2>1 DEF HeadStands, TypeOK
    <2> QED BY <1>0, <2>2, <2>3 DEF Written
  <1> QED BY <1>2, <1>3, <1>4, <1>5, <1>6, <1>7, OneStep, <1>0

LEMMA WrittenInit == Init => Written
  BY TypeInit DEF Init, Written, OneAttempt, HeadStands, Running

(* An event in the log is never replaced, by a retry with another time or  *)
(* by any other attempt, whether the store creates atomically, for any     *)
(* number of processes and PUTs that outlive their handlers, or answers a  *)
(* HEAD before the PUT to one process whose PUTs end with their handlers.  *)
THEOREM LogIsAppendOnly == ASSUME OneWriterPerEvent PROVE Spec => EventsAppendOnly
  <1>1. Written /\ [Next]_vars => Written'
    BY WrittenNext
  <1>2. Written /\ [Next]_vars =>
            [\A c \in Commands : event[c] # None => event'[c] = event[c]]_vars
    BY EventKept
  <1> QED BY <1>1, <1>2, WrittenInit, PTL DEF Spec, EventsAppendOnly

-----------------------------------------------------------------------------
(* An acknowledged mark is reflected, for the same reason as the projection *)
(* is monotone and two more: its event stays, and no later attempt works    *)
(* with an earlier time than the event it finds.                            *)

EventTimed ==
    \A c \in Commands : event[c] # None =>
        event[c] \in Nat /\ IF ReadAt[c] = Unset THEN event[c] <= now
                            ELSE event[c] = ReadAt[c]

ReadTimed ==
    \A r \in Requests : Running(r) =>
        IF ReadAt[CommandOf[r]] = Unset
        THEN /\ readAt[r] <= now
             /\ event[CommandOf[r]] # None => event[CommandOf[r]] <= readAt[r]
        ELSE readAt[r] = ReadAt[CommandOf[r]]

Timed == Exclusive /\ Written /\ EventTimed /\ ReadTimed

Reflected(c) ==
    /\ event[c] # None
    /\ current[Target[c]] # None
    /\ current[Target[c]].readAt >= event[c]

Marked ==
    /\ \A r \in Requests : pc[r] \in {"state", "read", "project"} =>
            event[CommandOf[r]] # None
    /\ \A r \in Requests : pc[r] = "complete" => Reflected(CommandOf[r])
    /\ \A c \in done : Reflected(c)

(* No attempt ever carries a time before the event's. *)
LEMMA TimedNext == OneLockPerTarget /\ Timed /\ [Next]_vars => Timed'
  <1> SUFFICES ASSUME OneLockPerTarget, Timed, [Next]_vars PROVE Timed'
    OBVIOUS
  <1> USE DEF GoTo, Final
  <1>0. /\ TypeOK /\ NothingLate /\ OneAttempt /\ EventTimed /\ ReadTimed
        /\ Exclusive' /\ Written' /\ TypeOK' /\ OneProcess /\ ~TornWrites
        /\ \A r \in Requests : CommandOf[r] \in Commands
    BY ExclusiveNext, WrittenNext, RequestsAssumption
       DEF Timed, Exclusive, Written, OneLockPerTarget, OneWriterPerEvent
  <1>1. CASE UNCHANGED <<pc, idemLock, readAt, event>> /\ now' >= now
    <2>1. EventTimed' /\ ReadTimed'
      BY <1>0, <1>1, RequestsAssumption DEF EventTimed, ReadTimed, Running, TypeOK
    <2> QED BY <1>0, <2>1 DEF Timed
  <1>2. ASSUME NEW r \in Requests, LockCommand(r) PROVE Timed'
    <2>1. /\ UNCHANGED <<event, now>> /\ pc' = [pc EXCEPT ![r] = "begin"]
          /\ readAt' = [readAt EXCEPT ![r] = IF ReadAt[CommandOf[r]] = Unset THEN now
                                              ELSE ReadAt[CommandOf[r]]]
      BY <1>2 DEF LockCommand, store
    <2>3. EventTimed'
      BY <1>0, <2>1 DEF EventTimed
    <2>4. ReadTimed'
      <3> SUFFICES ASSUME NEW q \in Requests, Running(q)'
                   PROVE  IF ReadAt[CommandOf[q]] = Unset
                          THEN /\ readAt'[q] <= now'
                               /\ event'[CommandOf[q]] # None =>
                                    event'[CommandOf[q]] <= readAt'[q]
                          ELSE readAt'[q] = ReadAt[CommandOf[q]]
        BY DEF ReadTimed
      <3>1. CASE q = r
        BY <1>0, <2>1, <3>1 DEF EventTimed, TypeOK
      <3>2. CASE q # r
        BY <1>0, <2>1, <3>2 DEF ReadTimed, Running, TypeOK
      <3> QED BY <3>1, <3>2
    <2> QED BY <1>0, <2>3, <2>4 DEF Timed
  <1>3. ASSUME NEW r \in Requests, Sending(r), StoreEvent(r), UNCHANGED <<readAt, now>>,
               \A q \in Requests : Running(q)' => Running(q)
        PROVE  EventTimed' /\ ReadTimed'
    <2>0. Running(r)
      BY <1>3 DEF Running, Sending, Asking, Sent
    <2>1. EventTimed'
      BY <1>0, <1>3, <2>0, RequestsAssumption DEF EventTimed, ReadTimed, StoreEvent, TypeOK
    <2>2. ReadTimed'
      <3> SUFFICES ASSUME NEW q \in Requests, Running(q)
                   PROVE  IF ReadAt[CommandOf[q]] = Unset
                          THEN /\ readAt[q] <= now
                               /\ event'[CommandOf[q]] # None =>
                                    event'[CommandOf[q]] <= readAt[q]
                          ELSE readAt[q] = ReadAt[CommandOf[q]]
        BY <1>3 DEF ReadTimed
      <3>1. CASE CommandOf[q] = CommandOf[r]
        <4>1. q = r
          BY <1>0, <2>0, <3>1, OneHandler
        <4> QED BY <1>0, <1>3, <2>0, <4>1 DEF ReadTimed, StoreEvent, TypeOK
      <3>2. CASE CommandOf[q] # CommandOf[r]
        BY <1>0, <1>3, <3>2 DEF ReadTimed, StoreEvent, TypeOK
      <3> QED BY <3>1, <3>2
    <2> QED BY <2>1, <2>2
  <1>4. ASSUME NEW r \in Requests, WriteEvent(r) PROVE Timed'
    <2>1. /\ Sending(r) /\ StoreEvent(r) /\ UNCHANGED <<readAt, now>>
          /\ pc' = [pc EXCEPT ![r] = "state"]
      BY <1>4 DEF WriteEvent
    <2>2. Running(r)
      BY <2>1 DEF Running, Sending, Asking, Sent
    <2>3. \A q \in Requests : Running(q)' => Running(q)
      BY <1>0, <2>1, <2>2 DEF Running, TypeOK
    <2> QED BY <1>0, <1>3, <2>1, <2>3 DEF Timed
  <1>5. ASSUME NEW r \in Requests, NEW next \in Onward, Running(r), GoTo(r, next),
               UNCHANGED <<readAt, event, now>>
        PROVE  Timed'
    <2>1. \A q \in Requests : Running(q)' => Running(q)
      BY <1>0, <1>5 DEF Running, TypeOK
    <2>2. EventTimed' /\ ReadTimed'
      BY <1>0, <1>5, <2>1 DEF EventTimed, ReadTimed
    <2> QED BY <1>0, <2>2 DEF Timed
  <1>6. ASSUME NEW rs \in SUBSET Requests, Ending(rs) PROVE Timed'
    <2>1. \A q \in Requests : Running(q)' => Running(q)
      BY <1>6 DEF Ending, Running
    <2>2. EventTimed' /\ ReadTimed'
      <3>1. CASE UNCHANGED event
        BY <1>0, <1>6, <2>1, <3>1 DEF Ending, EventTimed, ReadTimed
      <3>2. CASE \E r \in rs : Sending(r) /\ StoreEvent(r)
        BY <1>3, <1>6, <2>1, <3>2 DEF Ending
      <3> QED BY <1>0, <1>6, <3>1, <3>2 DEF Ending
    <2> QED BY <1>0, <2>2 DEF Timed
  <1>7. ASSUME NEW r \in Requests, LandLate(r) PROVE FALSE
    BY <1>0, <1>7 DEF LandLate, NothingLate, Sent
  <1> QED BY <1>0, <1>1, <1>2, <1>4, <1>5, <1>6, <1>7, OneStep

(* What is reflected stays so: events are kept, the projection is monotone. *)
LEMMA ReflectedKept ==
    ASSUME OneLockPerTarget, Timed, [Next]_vars, NEW c \in Commands, Reflected(c)
    PROVE  Reflected(c)' /\ event'[c] = event[c]
  <1>0. TypeOK /\ NothingLate /\ Target[c] \in Targets
    BY RequestsAssumption DEF Timed, Exclusive
  <1>1. event'[c] = event[c]
    BY EventKept DEF Reflected, Timed
  <1>2. /\ current'[Target[c]] # None
        /\ current[Target[c]].readAt <= current'[Target[c]].readAt
    BY <1>0, StepForward DEF Reflected, Timed
  <1>3. event[c] \in Nat /\ current[Target[c]].readAt \in Nat /\ current'[Target[c]].readAt \in Nat
    <2>1. current[Target[c]] \in States /\ current'[Target[c]] \in States
      BY <1>0, <1>2, ExclusiveNext DEF Timed, Exclusive, TypeOK, NothingTorn, Reflected
    <2> QED BY <2>1 DEF States, Timed, EventTimed, Reflected
  <1> QED BY <1>1, <1>2, <1>3 DEF Reflected

(* A handler that goes on has moved itself. *)
LEMMA OwnMove ==
    ASSUME OneLockPerTarget, TypeOK, NothingLate, [Next]_vars, NEW r \in Requests,
           pc'[r] # pc[r], pc'[r] \notin Final
    PROVE  Handler(r)
  <1> USE DEF GoTo, TypeOK
  <1>1. ASSUME NEW q \in Requests, NEW next, GoTo(q, next) PROVE q = r \/ pc'[r] = pc[r]
    BY <1>1
  <1>2. ASSUME NEW q \in Requests, Handler(q) PROVE q = r
    <2>1. \E next : GoTo(q, next)
      BY <1>2 DEF Handler, LockCommand, Begin, Replay, WriteEvent, LockState, ReadTorn,
                  ReadCurrent, Project, KeepCurrent, Complete, TakeCreateLock, EventExists,
                  HeadMiss
    <2> QED BY <1>1, <2>1
  <1>3. ASSUME NEW q \in Requests, Stop(q) \/ StopAfterPut(q) \/ StopTorn(q) \/ LandLate(q)
        PROVE  FALSE
    BY <1>3 DEF Stop, StopAfterPut, StopTorn, LandLate, Final
  <1>4. ASSUME NEW q \in Requests, DropSending(q) PROVE FALSE
    BY <1>4 DEF DropSending, OneLockPerTarget
  <1>5. ASSUME NEW i \in Instances, Crash(i) PROVE FALSE
    BY <1>5 DEF Crash, Final
  <1>6. CASE Tick \/ Finished \/ UNCHANGED vars
    BY <1>6 DEF Tick, Finished, vars
  <1> QED BY <1>2, <1>3, <1>4, <1>5, <1>6 DEF Next

(* What an acknowledged mark needs is there when its handler completes it. *)
LEMMA MarkedNext == OneLockPerTarget /\ Timed /\ Marked /\ [Next]_vars => Marked'
  <1> SUFFICES ASSUME OneLockPerTarget, Timed, Marked, [Next]_vars PROVE Marked'
    OBVIOUS
  <1> USE DEF GoTo, Final, locks, store
  <1>0. /\ TypeOK /\ TypeOK' /\ SeenIsCurrent /\ NothingLate
        /\ \A r \in Requests : CommandOf[r] \in Commands
        /\ \A c \in Commands : Target[c] \in Targets
    BY ExclusiveNext, RequestsAssumption DEF Timed, Exclusive
  <1>1. \A c \in Commands : event[c] # None => event'[c] # None
    BY EventKept DEF Timed
  <1>2. \A r \in Requests : pc'[r] \in {"state", "read", "project"} => event'[CommandOf[r]] # None
    <2> SUFFICES ASSUME NEW r \in Requests, pc'[r] \in {"state", "read", "project"}
                 PROVE  event'[CommandOf[r]] # None
      OBVIOUS
    <2>1. CASE pc[r] \in {"state", "read", "project"}
      BY <1>0, <1>1, <2>1 DEF Marked
    <2>2. CASE pc[r] \notin {"state", "read", "project"}
      <3>1. WriteEvent(r) \/ EventExists(r)
        BY <1>0, <2>2, OwnMove DEF Handler, LockCommand, Begin, Replay, WriteEvent, LockState,
            ReadTorn, ReadCurrent, Project, KeepCurrent, Complete, TakeCreateLock, EventExists,
            HeadMiss, TypeOK
      <3> QED BY <1>0, <1>1, <3>1, RequestsAssumption
              DEF WriteEvent, EventExists, StoreEvent, TypeOK
    <2> QED BY <2>1, <2>2
  <1>3. ASSUME NEW r \in Requests, pc'[r] = "complete" PROVE Reflected(CommandOf[r])'
    <2>1. CASE pc[r] = "complete"
      BY <1>0, <2>1, ReflectedKept DEF Marked
    <2>2. CASE pc[r] # "complete"
      <3>1. Project(r) \/ KeepCurrent(r)
        BY <1>0, <1>3, <2>2, OwnMove DEF Handler, LockCommand, Begin, Replay, WriteEvent, LockState,
            ReadTorn, ReadCurrent, Project, KeepCurrent, Complete, TakeCreateLock, EventExists,
            HeadMiss, TypeOK
      <3>2. /\ event[CommandOf[r]] # None /\ event[CommandOf[r]] \in Nat
            /\ readAt[r] >= event[CommandOf[r]] /\ readAt[r] \in Nat /\ UNCHANGED event
        <4>1. pc[r] = "project" /\ Running(r)
          BY <3>1 DEF Project, KeepCurrent, Running, Sent
        <4> QED BY <1>0, <3>1, <4>1 DEF Marked, Timed, EventTimed, ReadTimed, Project, KeepCurrent,
                    TypeOK
      <3>3. CASE Project(r)
        <4>1. current'[TargetOf(r)] = [cmd |-> CommandOf[r], readAt |-> readAt[r]]
          BY <1>0, <3>3 DEF Project, StoreCurrent, TypeOK, TargetOf
        <4>2. [cmd |-> CommandOf[r], readAt |-> readAt[r]] # None
          BY <1>0, <3>2, RequestsAssumption
        <4> QED BY <3>2, <4>1, <4>2 DEF Reflected, TargetOf
      <3>4. CASE KeepCurrent(r)
        <4>1. /\ seen[r] # None /\ ~(seen[r].readAt <= readAt[r])
              /\ seen[r] = current[TargetOf(r)] /\ UNCHANGED current
          BY <1>0, <3>4 DEF KeepCurrent, Newer, SeenIsCurrent
        <4>2. current[TargetOf(r)].readAt \in Nat
          BY <1>0, <4>1 DEF TypeOK, States
        <4> QED BY <3>2, <4>1, <4>2 DEF Reflected, TargetOf
      <3> QED BY <3>1, <3>3, <3>4
    <2> QED BY <2>1, <2>2
  <1>4. ASSUME NEW c \in done' PROVE Reflected(c)'
    <2>0. c \in Commands
      BY <1>0 DEF TypeOK
    <2>1. CASE c \in done
      BY <2>0, <2>1, ReflectedKept DEF Marked
    <2>2. CASE c \notin done
      <3>1. PICK r \in Requests : pc[r] = "complete" /\ CommandOf[r] = c
        BY <1>0, <2>2 DEF Next, Handler, LockCommand, Begin, Replay, WriteEvent, LockState,
            ReadTorn, ReadCurrent, Project, KeepCurrent, Complete, TakeCreateLock, EventExists,
            HeadMiss, Stop, StopAfterPut, StopTorn, DropSending, LandLate, Crash, Tick, Finished, vars, OneLockPerTarget
      <3> QED BY <2>0, <3>1, ReflectedKept DEF Marked
    <2> QED BY <2>1, <2>2
  <1> QED BY <1>2, <1>3, <1>4 DEF Marked

(* When one lock guards a target, every acknowledged mark is reflected in  *)
(* the projection of its target, now and after whatever follows.           *)
THEOREM CompletedAreReflected ==
    ASSUME OneLockPerTarget PROVE Spec => []CompletedReflected
  <1>1. Init => Timed /\ Marked
    BY ExclusiveInit, WrittenInit DEF Init, Timed, Marked, EventTimed, ReadTimed, Running
  <1>2. Timed /\ Marked /\ [Next]_vars => (Timed /\ Marked)'
    BY TimedNext, MarkedNext
  <1>3. Marked => CompletedReflected
    BY DEF Marked, Reflected, CompletedReflected
  <1> QED BY <1>1, <1>2, <1>3, PTL DEF Spec

-----------------------------------------------------------------------------
(* The event log, on any store: failed puts may tear, PUTs of dropped      *)
(* handlers may land late, many processes may serve one target.            *)

(* What a step can do to the log and to the projections. *)
LEMMA LogStep ==
    ASSUME [Next]_vars
    PROVE  /\ \/ UNCHANGED event
              \/ \E r \in Requests :
                    /\ Sending(r) \/ pc[r] = "late event"
                    /\ StoreEvent(r)
              \/ \E r \in Requests : event' = [event EXCEPT ![CommandOf[r]] = Torn]
           /\ \/ UNCHANGED current
              \/ \E r \in Requests : pc[r] \in {"project", "late"} /\ StoreCurrent(r)
              \/ \E r \in Requests : current' = [current EXCEPT ![TargetOf(r)] = Torn]
  <1> USE DEF store, locks
  <1>1. ASSUME NEW r \in Requests, Handler(r)
        PROVE  /\ UNCHANGED event \/ (Sending(r) /\ StoreEvent(r))
               /\ UNCHANGED current \/ (pc[r] = "project" /\ StoreCurrent(r))
    BY <1>1 DEF Handler, LockCommand, Begin, Replay, WriteEvent, LockState, ReadTorn,
          ReadCurrent, Project, KeepCurrent, Complete, TakeCreateLock, EventExists, HeadMiss
  <1>2. ASSUME NEW r \in Requests, Stop(r) \/ StopAfterPut(r) \/ DropSending(r) \/ LandLate(r)
        PROVE  /\ \/ UNCHANGED event
                  \/ (Sending(r) \/ pc[r] = "late event") /\ StoreEvent(r)
               /\ UNCHANGED current \/ (pc[r] \in {"project", "late"} /\ StoreCurrent(r))
    BY <1>2 DEF Stop, StopAfterPut, DropSending, LandLate
  <1>3. ASSUME NEW r \in Requests, StopTorn(r)
        PROVE  /\ UNCHANGED event \/ event' = [event EXCEPT ![CommandOf[r]] = Torn]
               /\ UNCHANGED current \/ current' = [current EXCEPT ![TargetOf(r)] = Torn]
    BY <1>3 DEF StopTorn
  <1> QED BY <1>1, <1>2, <1>3 DEF Next, Crash, Tick, Finished, vars

(* All attempts at a mark carry one time when the client names it.  (A     *)
(* mark without a readAt takes the time of each attempt: run               *)
(* readstate_default_log.)                                                 *)
ReadAtNamed == \A c \in Commands : ReadAt[c] # Unset

EventsNamed == \A c \in Commands : event[c] \in {None, Torn, ReadAt[c]}

(* A handler past its event has that event in the log, and projects it.    *)
Attempts ==
    \A r \in Requests :
        /\ pc[r] # "lock" => readAt[r] = ReadAt[CommandOf[r]]
        /\ pc[r] \in {"state", "read", "project", "late"} => event[CommandOf[r]] # None

Projected ==
    \A t \in Targets : current[t] \notin {None, Torn} =>
        /\ Target[current[t].cmd] = t
        /\ current[t].readAt = ReadAt[current[t].cmd]
        /\ event[current[t].cmd] # None

Logged == TypeOK /\ EventsNamed /\ Attempts /\ Projected

(* How an attempt moves on.                                                *)
LEMMA AttemptStep ==
    ASSUME TypeOK, [Next]_vars, NEW r \in Requests
    PROVE  \/ UNCHANGED <<pc[r], readAt[r]>>
           \/ LockCommand(r)
           \/ WriteEvent(r) \/ EventExists(r)
           \/ /\ UNCHANGED readAt[r] /\ pc[r] # "lock"
              /\ pc'[r] \notin {"lock", "state"}
              /\ pc'[r] \in {"read", "project", "late"} => pc[r] \in {"state", "read", "project"}
  <1> USE DEF TypeOK, GoTo, Final, Sent
  <1>1. ASSUME NEW q \in Requests, q # r, Handler(q)
        PROVE  UNCHANGED <<pc[r], readAt[r]>>
    BY <1>1 DEF Handler, LockCommand, Begin, Replay, WriteEvent, LockState, ReadTorn,
          ReadCurrent, Project, KeepCurrent, Complete, TakeCreateLock, EventExists, HeadMiss
  <1>2. ASSUME Handler(r), ~LockCommand(r), ~WriteEvent(r), ~EventExists(r)
        PROVE  /\ UNCHANGED readAt[r] /\ pc[r] # "lock" /\ pc'[r] \notin {"lock", "state"}
               /\ pc'[r] \in {"read", "project", "late"} => pc[r] \in {"state", "read", "project"}
    BY <1>2 DEF Handler, Begin, Replay, LockState, ReadTorn, ReadCurrent, Project, KeepCurrent,
          Complete, TakeCreateLock, HeadMiss, Asking
  <1>3. ASSUME NEW q \in Requests,
               Stop(q) \/ StopAfterPut(q) \/ StopTorn(q) \/ DropSending(q) \/ LandLate(q)
        PROVE  \/ UNCHANGED <<pc[r], readAt[r]>>
               \/ /\ UNCHANGED readAt[r] /\ pc[r] # "lock" /\ pc'[r] \notin {"lock", "state"}
                  /\ pc'[r] \in {"read", "project", "late"} =>
                        pc[r] \in {"state", "read", "project"}
    BY <1>3 DEF Stop, StopAfterPut, StopTorn, DropSending, LandLate, Running, Sending, Asking
  <1>4. ASSUME NEW i \in Instances, Crash(i)
        PROVE  \/ UNCHANGED <<pc[r], readAt[r]>>
               \/ UNCHANGED readAt[r] /\ pc[r] # "lock" /\ pc'[r] = "failed"
    BY <1>4 DEF Crash, Running
  <1>5. CASE Tick \/ Finished \/ UNCHANGED vars
    BY <1>5 DEF Tick, Finished, vars
  <1> QED BY <1>1, <1>2, <1>3, <1>4, <1>5 DEF Next

LEMMA LoggedNext == ReadAtNamed /\ Logged /\ [Next]_vars => Logged'
  <1> SUFFICES ASSUME ReadAtNamed, Logged, [Next]_vars PROVE Logged'
    OBVIOUS
  <1>0. /\ TypeOK /\ TypeOK' /\ EventsNamed /\ Attempts /\ Projected
        /\ \A r \in Requests : CommandOf[r] \in Commands /\ TargetOf(r) \in Targets
        /\ \A c \in Commands : ReadAt[c] \in Nat /\ ReadAt[c] # None /\ ReadAt[c] # Torn
        /\ None # Torn
    BY TypeNext, RequestsAssumption DEF Logged, ReadAtNamed, TargetOf
  <1>1. \A c \in Commands : event[c] # None => event'[c] # None
    <2>1. ASSUME NEW r \in Requests, StoreEvent(r)
          PROVE  \A c \in Commands : event[c] # None => event'[c] # None
      <3>1. readAt[r] \in Nat /\ readAt[r] # None
        BY <1>0, RequestsAssumption DEF TypeOK
      <3> QED BY <1>0, <2>1, <3>1 DEF StoreEvent, TypeOK
    <2>2. ASSUME NEW r \in Requests, event' = [event EXCEPT ![CommandOf[r]] = Torn]
          PROVE  \A c \in Commands : event[c] # None => event'[c] # None
      BY <1>0, <2>2 DEF TypeOK
    <2> QED BY <1>0, <2>1, <2>2, LogStep
  <1>2. EventsNamed'
    <2>1. CASE \E r \in Requests : (Sending(r) \/ pc[r] = "late event") /\ StoreEvent(r)
      <3>1. PICK r \in Requests : (Sending(r) \/ pc[r] = "late event") /\ StoreEvent(r)
        BY <2>1
      <3>2. pc[r] # "lock"
        BY <3>1 DEF Sending, Asking
      <3>3. readAt[r] = ReadAt[CommandOf[r]]
        BY <1>0, <3>2 DEF Attempts
      <3> QED BY <1>0, <3>1, <3>3 DEF EventsNamed, StoreEvent, TypeOK
    <2>2. CASE \E r \in Requests : event' = [event EXCEPT ![CommandOf[r]] = Torn]
      BY <1>0, <2>2 DEF EventsNamed, TypeOK
    <2> QED BY <1>0, <2>1, <2>2, LogStep DEF EventsNamed
  <1>3. Attempts'
    <2> SUFFICES ASSUME NEW r \in Requests
                 PROVE  /\ pc'[r] # "lock" => readAt'[r] = ReadAt[CommandOf[r]]
                        /\ pc'[r] \in {"state", "read", "project", "late"} =>
                              event'[CommandOf[r]] # None
      BY DEF Attempts
    <2>1. CASE UNCHANGED <<pc[r], readAt[r]>>
      BY <1>0, <1>1, <2>1 DEF Attempts
    <2>2. CASE LockCommand(r)
      BY <1>0, <2>2 DEF LockCommand, GoTo, TypeOK, ReadAtNamed
    <2>3. CASE WriteEvent(r)
      BY <1>0, <2>3, RequestsAssumption
         DEF WriteEvent, StoreEvent, Sending, Asking, GoTo, TypeOK, Attempts
    <2>5. CASE EventExists(r)
      BY <1>0, <1>1, <2>5 DEF EventExists, Asking, store, GoTo, TypeOK, Attempts
    <2>4. CASE /\ UNCHANGED readAt[r] /\ pc[r] # "lock"
               /\ pc'[r] \notin {"lock", "state"}
               /\ pc'[r] \in {"read", "project", "late"} =>
                     pc[r] \in {"state", "read", "project"}
      BY <1>0, <1>1, <2>4 DEF Attempts
    <2> QED BY <1>0, <2>1, <2>2, <2>3, <2>4, <2>5, AttemptStep
  <1>4. Projected'
    <2> SUFFICES ASSUME NEW t \in Targets, current'[t] \notin {None, Torn}
                 PROVE  /\ Target[current'[t].cmd] = t
                        /\ current'[t].readAt = ReadAt[current'[t].cmd]
                        /\ event'[current'[t].cmd] # None
      BY DEF Projected
    <2>1. CASE current'[t] = current[t]
      BY <1>0, <1>1, <2>1 DEF Projected, TypeOK, States
    <2>2. CASE current'[t] # current[t]
      <3>1. PICK r \in Requests : pc[r] \in {"project", "late"} /\ StoreCurrent(r)
        BY <1>0, <2>2, LogStep DEF TypeOK
      <3>2. t = TargetOf(r) /\ current'[t] = [cmd |-> CommandOf[r], readAt |-> readAt[r]]
        BY <1>0, <2>2, <3>1 DEF StoreCurrent, TypeOK
      <3>3. readAt[r] = ReadAt[CommandOf[r]] /\ event[CommandOf[r]] # None
        BY <1>0, <3>1 DEF Attempts
      <3> QED BY <1>0, <1>1, <3>2, <3>3 DEF TargetOf
    <2> QED BY <2>1, <2>2
  <1> QED BY <1>0, <1>2, <1>3, <1>4 DEF Logged

(* The event log is the source of truth: whatever is torn, dropped or      *)
(* repaired, a projection that can be read shows what an event in the log  *)
(* says, as long as clients name the time of their marks.                  *)
THEOREM ProjectionsComeFromTheLog ==
    ASSUME ReadAtNamed PROVE Spec => []ProjectionFromLog
  <1>1. Init => Logged
    <2> SUFFICES ASSUME Init PROVE Logged
      OBVIOUS
    <2>1. EventsNamed /\ Attempts /\ Projected
      BY DEF Init, EventsNamed, Attempts, Projected
    <2> QED BY <2>1, TypeInit DEF Logged
  <1>2. Logged /\ [Next]_vars => Logged'
    BY LoggedNext
  <1>3. Logged => ProjectionFromLog
    BY DEF Logged, EventsNamed, Projected, ProjectionFromLog, TypeOK, States
  <1> QED BY <1>1, <1>2, <1>3, PTL DEF Spec

=============================================================================
