------------------------------ MODULE ThreadsProofs ------------------------------
(* Proofs about Threads, for any number of messages, replies, attempts and     *)
(* processes.                                                                  *)
EXTENDS Threads, TLAPS

Past == Writing \cup {"complete", "late"}

Pcs == [Requests -> Final \cup Writing \cup {"lock", "resolve", "begin", "complete", "late"}]

Metadata == [root : Commands, at : Times, by : Instances \cup {None}]

Records == [at : Times, drawn : BOOLEAN, ref : BOOLEAN]

(* The record of the operation a handler would bind. *)
Drawn(r) == [at |-> created[r], drawn |-> DrawsThread(r), ref |-> DrawsReference(r)]

(* The thread that resolving finds for a command. *)
Resolves(c, t) ==
    IF IsReply(c)
    THEN \E b \in body :
            /\ b.msg = Parent[c]
            /\ ThreadId[c] = None \/ b.thread = None \/ ThreadId[c] = b.thread
            /\ t = IF ThreadId[c] = None THEN b.thread ELSE ThreadId[c]
    ELSE t = ThreadId[c]

(* The thread its operation works for: that one, or one it drew itself. *)
Placed(c, t) ==
    \E found \in ThreadOrNone :
        /\ Resolves(c, found)
        /\ t = IF found = None /\ bound[c].drawn THEN c ELSE found

Stored(c, at, t) == \E b \in body : b.msg = c /\ b.at = at /\ b.thread = t

(* What a handler knows, by its place in send_message. *)
Knows(r) ==
    LET c == CommandOf[r] IN
    /\ pc[r] = "resolve" => IsReply(c) /\ thread[r] = ThreadId[c]
    /\ pc[r] = "begin" => Resolves(c, thread[r])
    /\ pc[r] \in Past =>
            bound[c] # None /\ created[r] = bound[c].at /\ Placed(c, thread[r])
    /\ pc[r] \in Past \ {"body"} => Stored(c, created[r], thread[r])
    /\ pc[r] \in {"meta", "send", "ref", "late"} => thread[r] # None

(* Every message object is the one its operation describes. *)
BodiesPlaced ==
    \A b \in body :
        /\ bound[b.msg] # None /\ b.at = bound[b.msg].at
        /\ Placed(b.msg, b.thread)
        /\ b.parent = IF IsReply(b.msg) THEN Parent[b.msg] ELSE None

OneBody == \A x, y \in body : x.msg = y.msg => x = y

Inv == /\ TypeOK
       /\ \A r \in Requests : Knows(r)
       /\ BodiesPlaced /\ OneBody /\ ReferencesResolve

-----------------------------------------------------------------------------
LEMMA Constants ==
    ASSUME NEW r \in Requests
    PROVE  /\ CommandOf[r] \in Commands /\ Instance[r] \in Instances
           /\ Recipients[CommandOf[r]] \in Nat /\ Recipients[CommandOf[r]] <= MaxRecipients
           /\ ThreadId[CommandOf[r]] \in ThreadOrNone
           /\ CommandOf[r] \in Threads
           /\ None \notin Commands /\ None \notin Requests /\ None \notin Threads
           /\ None \notin Instances
  BY RequestsAssumption, NamesAssumption DEF Threads, ThreadOrNone

LEMMA LockTyped ==
    ASSUME TypeOK, NEW r, NEW answer, End(r, answer)
    PROVE  /\ idemLock' \in [Instances \X Commands -> Requests \cup {None}]
           /\ createLock' \in [Instances -> Requests \cup {None}]
  BY DEF TypeOK, End, Freed

(* Type correctness of one step of a handler. *)
LEMMA TypeStart ==
    ASSUME TypeOK, NEW r \in Requests,
           LockCommand(r) \/ Resolve(r) \/ ResolveFails(r) \/ Bind(r) \/ Adopt(r) \/ Replay(r)
    PROVE  TypeOK'
  <1> USE Constants DEF GoTo, objects, locks
  <1>1. CASE LockCommand(r)
    <2>1. idemLock' \in [Instances \X Commands -> Requests \cup {None}]
      BY <1>1 DEF LockCommand, TypeOK, Guard
    <2>2. pc' \in Pcs
      BY <1>1 DEF LockCommand, TypeOK, Pcs
    <2> QED BY <1>1, <2>1, <2>2 DEF LockCommand, TypeOK, Pcs
  <1>2. CASE Resolve(r)
    <2>1. PICK b \in body : thread' = [thread EXCEPT ![r] = ResolvedThread(r, b)]
      BY <1>2 DEF Resolve, ParentBodies
    <2>2. ResolvedThread(r, b) \in ThreadOrNone
      BY DEF ResolvedThread, TypeOK
    <2> QED BY <1>2, <2>1, <2>2 DEF Resolve, TypeOK
  <1>3. CASE ResolveFails(r)
    BY <1>3, LockTyped DEF ResolveFails, End, TypeOK, Final
  <1>4. ASSUME NEW o \in Records, WorkFor(r, o)
        PROVE  created' \in [Requests -> Times] /\ thread' \in [Requests -> ThreadOrNone]
    BY <1>4 DEF WorkFor, TypeOK, ThreadOrNone, Records
  <1>5. CASE Bind(r)
    <2>1. Drawn(r) \in Records
      BY DEF TypeOK, Drawn, Records, DrawsThread, DrawsReference
    <2>2. bound' \in [Commands -> Records \cup {None}]
      BY <1>5, <2>1 DEF Bind, TypeOK, Records, Drawn
    <2>3. created' \in [Requests -> Times] /\ thread' \in [Requests -> ThreadOrNone]
      BY <1>4, <1>5, <2>1 DEF Bind, Drawn
    <2> QED BY <1>5, <2>2, <2>3 DEF Bind, TypeOK, Writing, Records
  <1>6. CASE Adopt(r)
    <2>1. bound[CommandOf[r]] \in Records
      BY <1>6 DEF Adopt, TypeOK, Records
    <2>2. created' \in [Requests -> Times] /\ thread' \in [Requests -> ThreadOrNone]
      BY <1>4, <1>6, <2>1 DEF Adopt
    <2> QED BY <1>6, <2>2 DEF Adopt, TypeOK, Writing
  <1>7. CASE Replay(r)
    BY <1>7, LockTyped DEF Replay, End, TypeOK, Final
  <1> QED BY <1>1, <1>2, <1>3, <1>5, <1>6, <1>7

LEMMA MetadataTyped ==
    ASSUME TypeOK, NEW r \in Requests, thread[r] \in Threads,
           NEW by \in Instances \cup {None}, StoreMetadata(r, by)
    PROVE  meta' \in [Threads -> Metadata \cup {None}]
  <1>1. meta \in [Threads -> Metadata \cup {None}]
    BY DEF TypeOK, Metadata
  <1>2. created[r] \in Times /\ CommandOf[r] \in Commands
    BY Constants DEF TypeOK
  <1>3. PICK root \in Commands :
            root = IF IsReply(CommandOf[r]) THEN Parent[CommandOf[r]] ELSE CommandOf[r]
    BY <1>2 DEF IsReply
  <1>4. [root |-> root, at |-> created[r], by |-> by] \in Metadata
    BY <1>2 DEF Metadata
  <1> QED BY <1>1, <1>3, <1>4 DEF StoreMetadata

LEMMA StoreTyped ==
    ASSUME TypeOK, NEW r \in Requests, Knows(r), Store(r)
    PROVE  /\ body' \subseteq [msg : Commands, at : Times, thread : ThreadOrNone,
                               parent : Commands \cup {None}]
           /\ lookup' \in [Commands -> Times \cup {None}]
           /\ mail' \subseteq [msg : Commands, copy : 0..MaxRecipients, at : Times]
           /\ members' \subseteq [thread : Threads, msg : Commands, at : Times]
           /\ meta' \in [Threads -> Metadata \cup {None}]
  <1>0. /\ CommandOf[r] \in Commands /\ created[r] \in Times /\ copy[r] \in 0..MaxRecipients
        /\ thread[r] \in ThreadOrNone /\ Instance[r] \in Instances
        /\ pc[r] \in {"meta", "send", "ref"} => thread[r] \in Threads
    BY Constants DEF TypeOK, Knows, ThreadOrNone
  <1>1. CASE pc[r] = "body"
    BY <1>0, <1>1 DEF Store, Sending, TypeOK, Metadata, IsReply
  <1>2. CASE pc[r] = "lookup"
    BY <1>0, <1>2 DEF Store, Sending, TypeOK, Metadata
  <1>3. CASE pc[r] = "mail"
    BY <1>0, <1>3 DEF Store, Sending, TypeOK, Metadata
  <1>4. CASE pc[r] \in {"meta", "send"}
    <2>1. StoreMetadata(r, Instance[r]) /\ UNCHANGED <<body, lookup, mail, members>>
      BY <1>4 DEF Store, Sending
    <2> QED BY <1>0, <1>4, <2>1, MetadataTyped DEF TypeOK
  <1>5. CASE pc[r] = "ref"
    BY <1>0, <1>5 DEF Store, Sending, TypeOK, Metadata
  <1> QED BY <1>1, <1>2, <1>3, <1>4, <1>5 DEF Store, Sending

LEMMA NextPcTyped ==
    ASSUME NEW r, pc[r] \in Writing
    PROVE  /\ NextPc(r) \in Past \ {"body", "send", "late"}
           /\ NextPc(r) \in {"meta", "ref"} => pc[r] \in {"meta", "send"} \/ thread[r] # None
  BY Zenon DEF NextPc, Writing, Past

LEMMA TypeWrite == ASSUME TypeOK, NEW r \in Requests, Knows(r), Write(r) PROVE TypeOK'
  <1>1. pc[r] \in Writing
    BY DEF Write, Store, Sending, Writing
  <1>2. pc' \in Pcs
    BY <1>1, NextPcTyped DEF Write, GoTo, TypeOK, Past, Pcs
  <1>3. copy' \in [Requests -> 0..MaxRecipients]
    <2>1. MoreCopies(r) => copy[r] + 1 \in 0..MaxRecipients
      BY Constants, RequestsAssumption DEF MoreCopies, TypeOK
    <2> QED BY <2>1 DEF Write, TypeOK
  <1>4. createLock' \in [Instances -> Requests \cup {None}]
    BY DEF Write, TypeOK
  <1>5. UNCHANGED <<created, thread, now, idemLock, bound, done>> /\ Store(r)
    BY DEF Write
  <1> QED BY <1>2, <1>3, <1>4, <1>5, StoreTyped DEF TypeOK, Pcs, Metadata

LEMMA TypeEnd ==
    ASSUME TypeOK, NEW r \in Requests, Complete(r) \/ Stop(r) \/ AnswerLost(r)
    PROVE  TypeOK'
  <1>0. /\ CommandOf[r] \in Commands
        /\ idemLock' \in [Instances \X Commands -> Requests \cup {None}]
        /\ createLock' \in [Instances -> Requests \cup {None}]
        /\ pc' \in Pcs
    BY Constants, LockTyped DEF Complete, Stop, AnswerLost, End, GoTo, TypeOK, Final, Pcs
  <1>1. CASE Complete(r) \/ AnswerLost(r)
    BY <1>0, <1>1 DEF Complete, AnswerLost, objects, TypeOK, Pcs
  <1>2. CASE Stop(r)
    BY <1>0, <1>2 DEF Stop, objects, TypeOK, Pcs
  <1> QED BY <1>1, <1>2

(* The steps from HEAD to a PUT of the metadata, or past it. *)
Turns(r) == MetadataExists(r) \/ HeadMiss(r) \/ DropSending(r) \/ LandLate(r)

LEMMA TurnMoves ==
    ASSUME TypeOK, NEW r \in Requests, Turns(r)
    PROVE  /\ UNCHANGED <<copy, created, thread, now, bound, done, body, lookup, mail, members>>
           /\ \E next \in {"ref", "send", "late", "failed"} :
                pc' = [pc EXCEPT ![r] = next] /\ (next = "ref" => MetadataExists(r))
           /\ pc[r] \in {"meta", "send", "late"}
  BY DEF Turns, MetadataExists, HeadMiss, DropSending, LandLate, End, GoTo, objects

LEMMA TurnSends ==
    ASSUME TypeOK, NEW r \in Requests, Turns(r), pc'[r] = "send"
    PROVE  pc[r] = "meta" /\ HeadMiss(r)
  BY DEF Turns, MetadataExists, HeadMiss, DropSending, LandLate, End, GoTo, TypeOK

LEMMA TypeTurn == ASSUME TypeOK, NEW r \in Requests, Knows(r), Turns(r) PROVE TypeOK'
  <1>1. pc' \in Pcs
    BY TurnMoves DEF TypeOK, Pcs, Final, Writing
  <1>2. /\ idemLock' \in [Instances \X Commands -> Requests \cup {None}]
        /\ createLock' \in [Instances -> Requests \cup {None}]
    BY LockTyped DEF Turns, MetadataExists, HeadMiss, DropSending, LandLate, locks, TypeOK
  <1>3. meta' \in [Threads -> Metadata \cup {None}]
    <2>1. CASE LandLate(r)
      <3>1. thread[r] \in Threads /\ StoreMetadata(r, None)
        BY <2>1 DEF LandLate, Knows, TypeOK, ThreadOrNone
      <3> QED BY <3>1, MetadataTyped
    <2>2. CASE ~LandLate(r)
      BY <2>2 DEF Turns, MetadataExists, HeadMiss, DropSending, objects, TypeOK, Metadata
    <2> QED BY <2>1, <2>2
  <1> QED BY <1>1, <1>2, <1>3, TurnMoves DEF TypeOK, Pcs, Metadata

-----------------------------------------------------------------------------
(* Message objects and operation records are never taken back, and what    *)
(* follows from them stays true. *)
Grown == /\ body \subseteq body'
         /\ \A c \in Commands : bound[c] # None => bound'[c] = bound[c]

LEMMA ResolvesKept ==
    ASSUME Grown, NEW c \in Commands, NEW t, Resolves(c, t)
    PROVE  Resolves(c, t)'
  BY DEF Grown, Resolves, IsReply

LEMMA PlacedKept ==
    ASSUME Grown, NEW c \in Commands, bound[c] # None, NEW t, Placed(c, t)
    PROVE  Placed(c, t)'
  <1>1. PICK found \in ThreadOrNone :
            Resolves(c, found) /\ t = IF found = None /\ bound[c].drawn THEN c ELSE found
    BY DEF Placed
  <1>2. Resolves(c, found)' /\ bound'[c] = bound[c]
    BY <1>1, ResolvesKept DEF Grown
  <1> QED BY <1>1, <1>2 DEF Placed

LEMMA KnowsKept ==
    ASSUME Grown, NEW r \in Requests, Knows(r),
           pc'[r] = pc[r], created'[r] = created[r], thread'[r] = thread[r]
    PROVE  Knows(r)'
  <1>0. CommandOf[r] \in Commands
    BY Constants
  <1>1. pc[r] = "begin" => Resolves(CommandOf[r], thread[r])'
    BY <1>0, ResolvesKept DEF Knows
  <1>2. pc[r] \in Past => /\ bound[CommandOf[r]] # None
                          /\ bound'[CommandOf[r]] = bound[CommandOf[r]]
                          /\ Placed(CommandOf[r], thread[r])'
    BY <1>0, PlacedKept DEF Knows, Grown
  <1>3. pc[r] \in Past \ {"body"} => Stored(CommandOf[r], created[r], thread[r])'
    BY DEF Knows, Stored, Grown
  <1> QED BY <1>1, <1>2, <1>3 DEF Knows, IsReply, Resolves, Placed, Stored

LEMMA EndedKnows ==
    ASSUME NEW r, pc'[r] \in Final \cup {"lock"} PROVE Knows(r)'
  BY DEF Knows, Final, Past, Writing

(* A step that stores no message object and no reference. *)
LEMMA StoreKept ==
    ASSUME TypeOK, BodiesPlaced, OneBody, ReferencesResolve, Grown, TypeOK',
           UNCHANGED <<body, lookup, mail, members>>
    PROVE  BodiesPlaced' /\ OneBody' /\ ReferencesResolve'
  <1>1. ASSUME NEW b \in body
        PROVE  /\ bound'[b.msg] # None /\ b.at = bound'[b.msg].at
               /\ Placed(b.msg, b.thread)'
    <2>1. b.msg \in Commands /\ bound[b.msg] # None
      BY DEF TypeOK, BodiesPlaced
    <2> QED BY <2>1, PlacedKept DEF BodiesPlaced, Grown
  <1>2. BodiesPlaced'
    BY <1>1 DEF BodiesPlaced, IsReply
  <1> QED BY <1>2 DEF OneBody, ReferencesResolve, Readable

(* All attempts at a command find the same thread. *)
LEMMA OneThread ==
    ASSUME TypeOK, OneBody, NEW c \in Commands, NEW t, NEW u, Placed(c, t), Placed(c, u)
    PROVE  t = u
  <1>1. ASSUME NEW x, NEW y, Resolves(c, x), Resolves(c, y) PROVE x = y
    BY <1>1 DEF Resolves, OneBody
  <1> QED BY <1>1 DEF Placed

-----------------------------------------------------------------------------
(* The steps of a handler before its first object. *)
LEMMA StartKnows ==
    ASSUME Inv, NEW r \in Requests,
           LockCommand(r) \/ Resolve(r) \/ ResolveFails(r) \/ Bind(r) \/ Adopt(r) \/ Replay(r)
    PROVE  Knows(r)' /\ Grown
  <1>0. /\ CommandOf[r] \in Commands /\ TypeOK /\ Knows(r)
        /\ thread[r] \in ThreadOrNone
    BY Constants DEF Inv, TypeOK
  <1> USE DEF GoTo, objects
  <1>1. CASE LockCommand(r)
    <2>1. thread'[r] = ThreadId[CommandOf[r]] /\ Grown
      BY <1>0, <1>1 DEF LockCommand, TypeOK, Grown
    <2>2. pc'[r] = IF IsReply(CommandOf[r]) THEN "resolve" ELSE "begin"
      BY <1>0, <1>1 DEF LockCommand, TypeOK
    <2> QED BY <2>1, <2>2 DEF Knows, Resolves, IsReply, Past, Writing
  <1>2. CASE Resolve(r)
    <2>1. /\ thread[r] = ThreadId[CommandOf[r]] /\ IsReply(CommandOf[r])
          /\ pc'[r] = "begin" /\ Grown
      BY <1>0, <1>2 DEF Resolve, Knows, TypeOK, Grown
    <2>2. PICK b \in body : /\ b.msg = Parent[CommandOf[r]] /\ ThreadAgrees(r, b)
                            /\ thread' = [thread EXCEPT ![r] = ResolvedThread(r, b)]
      BY <1>2 DEF Resolve, ParentBodies
    <2>3. thread'[r] = ResolvedThread(r, b)
      BY <1>0, <2>2 DEF TypeOK
    <2>4. PICK t : t = thread'[r]
      OBVIOUS
    <2>5. Resolves(CommandOf[r], t)'
      BY <1>0, <2>1, <2>2, <2>3, <2>4, ResolvesKept DEF Resolves, ThreadAgrees, ResolvedThread
    <2> QED BY <2>1, <2>4, <2>5 DEF Knows, Past, Writing, Resolves
  <1>3. CASE ResolveFails(r) \/ Replay(r)
    <2>1. pc'[r] \in Final /\ Grown
      BY <1>0, <1>3 DEF ResolveFails, Replay, End, TypeOK, Final, Grown
    <2> QED BY <2>1, EndedKnows
  <1>4. ASSUME NEW o, WorkFor(r, o), pc'[r] = "body", Grown, pc[r] = "begin",
               bound'[CommandOf[r]] = o, o # None
        PROVE  Knows(r)'
    <2>1. PICK found \in ThreadOrNone : found = thread[r]
      BY <1>0
    <2>2. Resolves(CommandOf[r], found)'
      BY <1>0, <1>4, <2>1, ResolvesKept DEF Knows
    <2>3. PICK t : t = thread'[r]
      OBVIOUS
    <2>4. created'[r] = o.at /\ t = IF found = None /\ o.drawn THEN CommandOf[r] ELSE found
      BY <1>0, <1>4, <2>1, <2>3 DEF WorkFor, TypeOK
    <2>5. Placed(CommandOf[r], t)'
      BY <1>4, <2>2, <2>4 DEF Placed
    <2> QED BY <1>4, <2>3, <2>4, <2>5 DEF Knows, Placed, Resolves
  <1>5. CASE Bind(r)
    <2>1. PICK o : o = Drawn(r)
      OBVIOUS
    <2>2. o \in Records
      BY <1>0, <2>1 DEF TypeOK, Drawn, Records, DrawsThread, DrawsReference
    <2>3. /\ WorkFor(r, o) /\ pc'[r] = "body" /\ pc[r] = "begin" /\ Grown
          /\ bound'[CommandOf[r]] = o
      BY <1>0, <1>5, <2>1 DEF Bind, TypeOK, Grown, Drawn
    <2>4. o # None
      BY <2>2, NamesAssumption DEF Times, Records
    <2> QED BY <1>4, <2>3, <2>4
  <1>6. CASE Adopt(r)
    <2>1. PICK o : o = bound[CommandOf[r]]
      OBVIOUS
    <2>2. /\ WorkFor(r, o) /\ pc'[r] = "body" /\ pc[r] = "begin" /\ Grown
          /\ bound'[CommandOf[r]] = o /\ o # None
      BY <1>0, <1>6, <2>1 DEF Adopt, TypeOK, Grown
    <2> QED BY <1>4, <2>2
  <1> QED BY <1>1, <1>2, <1>3, <1>5, <1>6

(* Writing an object: its handler knows what it put, the others lose       *)
(* nothing. *)
LEMMA WriteKnows ==
    ASSUME Inv, NEW r \in Requests, Write(r)
    PROVE  Grown /\ \A q \in Requests : Knows(q)'
  <1>0. /\ CommandOf[r] \in Commands /\ TypeOK /\ Knows(r)
        /\ pc[r] \in Writing /\ Grown
    BY Constants DEF Inv, Write, Store, Sending, Writing, Grown
  <1>1. /\ UNCHANGED <<created, thread, bound>>
        /\ pc' = [pc EXCEPT ![r] = NextPc(r)]
    BY DEF Write, GoTo
  <1>2. ASSUME NEW q \in Requests, q # r PROVE Knows(q)'
    BY <1>0, <1>1, <1>2, KnowsKept DEF Inv, TypeOK
  <1>3. Knows(r)'
    <2>1. pc'[r] = NextPc(r) /\ pc[r] \in Past
      BY <1>0, <1>1 DEF TypeOK, Past
    <2>2. /\ pc'[r] \in Past \ {"body", "send", "late"}
          /\ pc'[r] \in {"meta", "ref"} => thread[r] # None
      BY <1>0, <2>1, NextPcTyped DEF Knows
    <2>3. PICK at, t : at = created[r] /\ t = thread[r]
      OBVIOUS
    <2>4. bound[CommandOf[r]] # None /\ at = bound[CommandOf[r]].at /\ Placed(CommandOf[r], t)
      BY <1>0, <2>1, <2>3 DEF Knows
    <2>5. Placed(CommandOf[r], t)'
      BY <1>0, <2>4, PlacedKept
    <2>6. Stored(CommandOf[r], at, t)'
      <3>1. CASE pc[r] = "body"
        <4>1. PICK new : /\ new.msg = CommandOf[r] /\ new.at = created[r]
                         /\ new.thread = thread[r] /\ new \in body'
          BY <3>1 DEF Write, Store, Sending
        <4> QED BY <2>3, <4>1 DEF Stored
      <3>2. CASE pc[r] # "body"
        BY <1>0, <2>1, <2>3, <3>2 DEF Knows, Stored, Grown
      <3> QED BY <3>1, <3>2
    <2>7. created'[r] = at /\ thread'[r] = t /\ UNCHANGED bound
      BY <1>1, <2>3
    <2> QED BY <2>2, <2>3, <2>4, <2>5, <2>6, <2>7
            DEF Knows, Placed, Resolves, Stored, Past, Writing
  <1> QED BY <1>0, <1>2, <1>3

(* The handler knows at each turn what it knew when it came to the metadata. *)
LEMMA TurnKnows ==
    ASSUME Inv, NEW r \in Requests, Turns(r)
    PROVE  Grown /\ \A q \in Requests : Knows(q)'
  <1>0. TypeOK /\ Knows(r) /\ CommandOf[r] \in Commands /\ pc[r] \in {"meta", "send", "late"}
    BY Constants, TurnMoves DEF Inv
  <1>1. Grown /\ UNCHANGED <<created, thread, bound, body>>
    BY <1>0, TurnMoves DEF Grown
  <1>2. ASSUME NEW q \in Requests, q # r PROVE Knows(q)'
    <2>1. pc'[q] = pc[q]
      BY <1>0, <1>2, TurnMoves DEF TypeOK
    <2> QED BY <1>1, <2>1, KnowsKept DEF Inv
  <1>3. Knows(r)'
    <2>1. pc'[r] \in {"ref", "send", "late", "failed"}
      BY <1>0, TurnMoves DEF TypeOK
    <2>2. /\ thread[r] # None /\ Stored(CommandOf[r], created[r], thread[r])
          /\ bound[CommandOf[r]] # None /\ created[r] = bound[CommandOf[r]].at
          /\ Placed(CommandOf[r], thread[r])
      BY <1>0 DEF Knows, Past, Writing
    <2>3. Stored(CommandOf[r], created[r], thread[r])' /\ Placed(CommandOf[r], thread[r])'
      BY <1>1, <2>2 DEF Stored, Placed, Resolves
    <2> QED BY <1>1, <2>1, <2>2, <2>3 DEF Knows, Past, Writing
  <1> QED BY <1>1, <1>2, <1>3

(* The message object it puts is the one earlier attempts would have put. *)
LEMMA BodyKept ==
    ASSUME Inv, NEW r \in Requests, Write(r)
    PROVE  BodiesPlaced' /\ OneBody'
  <1>0. /\ CommandOf[r] \in Commands /\ TypeOK /\ Knows(r) /\ Grown
        /\ BodiesPlaced /\ OneBody /\ UNCHANGED bound
    BY Constants, WriteKnows DEF Inv, Write
  <1>1. PICK new : new = [msg |-> CommandOf[r], at |-> created[r], thread |-> thread[r],
                          parent |-> IF IsReply(CommandOf[r])
                                     THEN Parent[CommandOf[r]] ELSE None]
    OBVIOUS
  <1>2. CASE pc[r] # "body"
    <2>1. body' = body
      BY <1>2 DEF Write, Store, Sending
    <2>2. ASSUME NEW b \in body PROVE Placed(b.msg, b.thread)'
      BY <1>0, PlacedKept DEF BodiesPlaced, TypeOK
    <2> QED BY <1>0, <2>1, <2>2 DEF BodiesPlaced, OneBody, IsReply
  <1>3. CASE pc[r] = "body"
    <2>1. body' = body \cup {new}
      BY <1>1, <1>3 DEF Write, Store, Sending
    <2>2. /\ bound[CommandOf[r]] # None /\ created[r] = bound[CommandOf[r]].at
          /\ Placed(CommandOf[r], thread[r])
      BY <1>0, <1>3 DEF Knows, Past, Writing
    <2>3. ASSUME NEW b \in body' PROVE
              /\ bound[b.msg] # None /\ b.at = bound[b.msg].at
              /\ b.msg \in Commands /\ Placed(b.msg, b.thread)
              /\ b.parent = IF IsReply(b.msg) THEN Parent[b.msg] ELSE None
      BY <1>0, <1>1, <2>1, <2>2 DEF BodiesPlaced, TypeOK
    <2>4. ASSUME NEW b \in body' PROVE Placed(b.msg, b.thread)'
      BY <1>0, <2>3, PlacedKept
    <2>5. BodiesPlaced'
      BY <1>0, <2>3, <2>4 DEF BodiesPlaced, IsReply
    <2>6. ASSUME NEW b \in body, b.msg = CommandOf[r] PROVE b = new
      <3>1. b.at = created[r] /\ b.thread = thread[r]
        BY <1>0, <2>1, <2>2, <2>3, <2>6, OneThread
      <3>2. b.parent = new.parent
        BY <1>1, <2>1, <2>3, <2>6
      <3> QED BY <1>0, <1>1, <2>6, <3>1, <3>2 DEF TypeOK
    <2> QED BY <1>0, <1>1, <2>1, <2>5, <2>6 DEF OneBody
  <1> QED BY <1>2, <1>3

(* A reference is written by a handler that has stored the message. *)
LEMMA ReferenceKept ==
    ASSUME Inv, NEW r \in Requests, Write(r)
    PROVE  ReferencesResolve'
  <1>0. /\ CommandOf[r] \in Commands /\ TypeOK /\ Knows(r) /\ Grown /\ ReferencesResolve
    BY Constants, WriteKnows DEF Inv
  <1>1. ASSUME pc[r] \in {"lookup", "mail", "ref"}
        PROVE  Stored(CommandOf[r], created[r], thread[r])
    BY <1>0, <1>1 DEF Knows, Past, Writing
  <1>2. ASSUME NEW c \in Commands, lookup'[c] # None
        PROVE  \E b \in body : b.msg = c /\ b.at = lookup'[c]
    BY <1>0, <1>1, <1>2 DEF Write, Store, Sending, Stored, ReferencesResolve, Readable, TypeOK
  <1>3. ASSUME NEW m \in mail' PROVE \E b \in body : b.msg = m.msg /\ b.at = m.at
    BY <1>0, <1>1 DEF Write, Store, Sending, Stored, ReferencesResolve, Readable
  <1>4. ASSUME NEW m \in members'
        PROVE  \E b \in body : b.msg = m.msg /\ b.at = m.at /\ b.thread = m.thread
    BY <1>0, <1>1 DEF Write, Store, Sending, Stored, ReferencesResolve
  <1> QED BY <1>0, <1>2, <1>3, <1>4 DEF ReferencesResolve, Readable, Grown

-----------------------------------------------------------------------------
LEMMA InvInit == Init => Inv
  <1> SUFFICES ASSUME Init PROVE Inv
    OBVIOUS
  <1>1. TypeOK
    BY RequestsAssumption DEF Init, TypeOK, Times, ThreadOrNone
  <1>2. \A r \in Requests : Knows(r)
    BY DEF Init, Knows, Past, Writing
  <1> QED BY <1>1, <1>2 DEF Inv, Init, BodiesPlaced, OneBody, ReferencesResolve

LEMMA InvNext == Inv /\ [Next]_vars => Inv'
  <1> SUFFICES ASSUME Inv, [Next]_vars PROVE Inv'
    OBVIOUS
  <1>0. TypeOK /\ BodiesPlaced /\ OneBody /\ ReferencesResolve
    BY DEF Inv
  <1>1. ASSUME NEW r \in Requests,
               LockCommand(r) \/ Resolve(r) \/ ResolveFails(r)
                 \/ Bind(r) \/ Adopt(r) \/ Replay(r)
        PROVE  Inv'
    <2>1. TypeOK' /\ Knows(r)' /\ Grown
      BY <1>0, <1>1, TypeStart, StartKnows
    <2>2. ASSUME NEW q \in Requests, q # r PROVE Knows(q)'
      <3>1. pc'[q] = pc[q] /\ created'[q] = created[q] /\ thread'[q] = thread[q]
        BY <1>0, <1>1, <2>2
           DEF LockCommand, Resolve, ResolveFails, Bind, Adopt, Replay, WorkFor, End, GoTo,
               TypeOK
      <3> QED BY <2>1, <3>1, KnowsKept DEF Inv
    <2>3. UNCHANGED <<body, lookup, mail, members>>
      BY <1>1 DEF LockCommand, Resolve, ResolveFails, Bind, Adopt, Replay, objects
    <2> QED BY <1>0, <2>1, <2>2, <2>3, StoreKept DEF Inv
  <1>2. ASSUME NEW r \in Requests, Write(r) PROVE Inv'
    BY <1>0, <1>2, TypeWrite, WriteKnows, BodyKept, ReferenceKept DEF Inv
  <1>5. ASSUME NEW r \in Requests, Turns(r) PROVE Inv'
    BY <1>0, <1>5, TypeTurn, TurnKnows, TurnMoves, StoreKept DEF Inv
  <1>3. ASSUME NEW r \in Requests, Complete(r) \/ Stop(r) \/ AnswerLost(r) PROVE Inv'
    <2>1. TypeOK'
      BY <1>0, <1>3, TypeEnd
    <2>2. UNCHANGED <<created, thread, bound, body, lookup, mail, members>> /\ Grown
      BY <1>3 DEF Complete, Stop, AnswerLost, objects, Grown
    <2>3. pc'[r] \in Final /\ \A q \in Requests : q # r => pc'[q] = pc[q]
      BY <1>0, <1>3 DEF Complete, Stop, AnswerLost, End, GoTo, TypeOK, Final
    <2>4. ASSUME NEW q \in Requests PROVE Knows(q)'
      BY <2>2, <2>3, KnowsKept, EndedKnows DEF Inv
    <2> QED BY <1>0, <2>1, <2>2, <2>4, StoreKept DEF Inv
  <1>4. CASE Tick \/ Finished \/ UNCHANGED vars
    <2>1. TypeOK'
      BY <1>0, <1>4, RequestsAssumption DEF Tick, Finished, vars, locks, objects, TypeOK, Times
    <2>2. UNCHANGED <<pc, created, thread, bound, body, lookup, mail, members>> /\ Grown
      BY <1>4 DEF Tick, Finished, vars, objects, Grown
    <2>3. ASSUME NEW q \in Requests PROVE Knows(q)'
      BY <2>2, KnowsKept DEF Inv
    <2> QED BY <1>0, <2>1, <2>2, <2>3, StoreKept DEF Inv
  <1> QED BY <1>1, <1>2, <1>3, <1>4, <1>5 DEF Next, Handler, Turns

LEMMA InvAlways == Spec => []Inv
  BY InvInit, InvNext, PTL DEF Spec

(* Every variable has its type, whatever the messages, their parents and   *)
(* the attempts at them. *)
THEOREM TypeCorrect == Spec => []TypeOK
  <1>1. Inv => TypeOK
    BY DEF Inv
  <1> QED BY <1>1, InvAlways, PTL

(* Whatever send_message has written and wherever it stopped, a lookup or  *)
(* a reference that is in the store leads to a message object, and a       *)
(* thread lists only messages that belong to it. *)
THEOREM ReferencesAlwaysResolve == Spec => []ReferencesResolve
  <1>1. Inv => ReferencesResolve
    BY DEF Inv
  <1> QED BY <1>1, InvAlways, PTL

(* Every stored reply is in the thread of its parent. *)
THEOREM RepliesAlwaysJoin == Spec => []RepliesJoinParent
  <1>1. Inv => RepliesJoinParent
    <2> SUFFICES ASSUME Inv, NEW b \in body, NEW p \in body,
                        b.parent = p.msg, p.thread # None
                 PROVE  b.thread = p.thread
      BY DEF RepliesJoinParent
    <2>0. /\ b.msg \in Commands /\ p.msg \in Commands /\ None \notin Commands
          /\ OneBody /\ Placed(b.msg, b.thread)
          /\ b.parent = IF IsReply(b.msg) THEN Parent[b.msg] ELSE None
      BY NamesAssumption DEF Inv, TypeOK, BodiesPlaced
    <2>1. IsReply(b.msg) /\ Parent[b.msg] = p.msg
      BY <2>0
    <2>2. PICK found \in ThreadOrNone :
              /\ Resolves(b.msg, found)
              /\ b.thread = IF found = None /\ bound[b.msg].drawn THEN b.msg ELSE found
      BY <2>0 DEF Placed
    <2>3. found = p.thread
      BY <2>0, <2>1, <2>2 DEF Resolves, OneBody
    <2> QED BY <2>2, <2>3
  <1> QED BY <1>1, InvAlways, PTL

(* Retries never file a message twice. *)
THEOREM OneFiling == Spec => []FiledOnce
  <1>1. Inv => FiledOnce
    <2> SUFFICES ASSUME Inv PROVE FiledOnce
      OBVIOUS
    <2>1. OneBody /\ ReferencesResolve /\ TypeOK
      BY DEF Inv
    <2>2. ASSUME NEW x \in mail, NEW y \in mail, x.msg = y.msg PROVE x.at = y.at
      BY <2>1, <2>2 DEF OneBody, ReferencesResolve, Readable
    <2>3. ASSUME NEW x \in members, NEW y \in members, x.msg = y.msg PROVE x = y
      <3>1. x.at = y.at /\ x.thread = y.thread
        BY <2>1, <2>3 DEF OneBody, ReferencesResolve
      <3> QED BY <2>1, <2>3, <3>1 DEF TypeOK
    <2> QED BY <2>1, <2>2, <2>3 DEF FiledOnce, OneBody
  <1> QED BY <1>1, InvAlways, PTL

-----------------------------------------------------------------------------
(* What an acknowledged message and a listed thread can rely on.           *)

HasCopy(c, i) == \E m \in mail : m.msg = c /\ m.copy = i
Listed(c, t) == \E m \in members : m.msg = c /\ m.thread = t

(* What a handler has stored so far, by its place in send_message. *)
Delivered(r) ==
    LET c == CommandOf[r] IN
    /\ pc[r] \in {"lock", "resolve", "begin", "body", "lookup"} => copy[r] = 0
    /\ pc[r] \in {"mail", "meta", "send", "ref", "complete"} => lookup[c] # None
    /\ pc[r] = "mail" => \A i \in 0..(copy[r] - 1) : HasCopy(c, i)
    /\ pc[r] \in {"meta", "send", "ref", "complete"} =>
            \A i \in 0..Recipients[c] : HasCopy(c, i)
    /\ pc[r] = "ref" => meta[thread[r]] # None
    /\ pc[r] = "complete" => thread[r] = None \/ Listed(c, thread[r])

(* Thread metadata names a root that is readable. *)
Rooted == \A t \in Threads : meta[t] # None => \E b \in body : b.msg = meta[t].root

ThreadsOpened == \A m \in members : meta[m.thread] # None

Acknowledged(c) ==
    /\ lookup[c] # None
    /\ \A i \in 0..Recipients[c] : HasCopy(c, i)
    /\ \A b \in body : b.msg = c /\ b.thread # None => Listed(c, b.thread)

Full == /\ Inv
        /\ \A r \in Requests : Delivered(r)
        /\ \A c \in done : Acknowledged(c)
        /\ Rooted /\ ThreadsOpened

(* Nothing that is stored is taken back, though metadata may be replaced. *)
Kept == /\ body \subseteq body' /\ mail \subseteq mail' /\ members \subseteq members'
        /\ \A c \in Commands : lookup[c] # None => lookup'[c] # None
        /\ \A t \in Threads : meta[t] # None => meta'[t] # None

(* Metadata that is put is there.                                          *)
LEMMA Put ==
    ASSUME TypeOK, NEW r \in Requests, thread[r] \in Threads,
           NEW by \in Instances \cup {None}, StoreMetadata(r, by)
    PROVE  /\ meta'[thread[r]] # None /\ meta'[thread[r]].by = by
           /\ meta'[thread[r]].root = IF IsReply(CommandOf[r])
                                     THEN Parent[CommandOf[r]] ELSE CommandOf[r]
           /\ \A t \in Threads : t # thread[r] => meta'[t] = meta[t]
  <1>1. created[r] \in Nat /\ CommandOf[r] \in Commands
    BY Constants, RequestsAssumption DEF TypeOK, Times
  <1>2. PICK root \in Commands :
            root = IF IsReply(CommandOf[r]) THEN Parent[CommandOf[r]] ELSE CommandOf[r]
    BY <1>1 DEF IsReply
  <1>3. PICK new : new = [root |-> root, at |-> created[r], by |-> by]
    OBVIOUS
  <1>4. new # None /\ new.by = by /\ new.root = root
    BY <1>1, <1>3, NamesAssumption
  <1>5. meta' = [meta EXCEPT ![thread[r]] = new]
    BY <1>2, <1>3 DEF StoreMetadata
  <1> QED BY <1>2, <1>4, <1>5 DEF TypeOK

LEMMA WriteKeeps == ASSUME TypeOK, NEW r \in Requests, Knows(r), Write(r) PROVE Kept
  <1>1. /\ CommandOf[r] \in Commands /\ created[r] \in Times /\ None \notin Times
        /\ pc[r] \in {"meta", "send"} => thread[r] \in Threads
        /\ Instance[r] \in Instances
    BY Constants, NamesAssumption DEF TypeOK, Knows, ThreadOrNone, Times
  <1>2. CASE pc[r] \in {"meta", "send"}
    <2>1. StoreMetadata(r, Instance[r]) /\ UNCHANGED <<body, lookup, mail, members>>
      BY <1>2 DEF Write, Store, Sending
    <2>2. \A t \in Threads : meta[t] # None => meta'[t] # None
      <3>1. thread[r] \in Threads /\ Instance[r] \in Instances \cup {None}
        BY <1>1, <1>2, Constants
      <3>2. /\ meta'[thread[r]] # None
            /\ \A t \in Threads : t # thread[r] => meta'[t] = meta[t]
        BY <2>1, <3>1, Put
      <3> QED BY <3>2
    <2> QED BY <2>1, <2>2 DEF Kept
  <1>3. CASE pc[r] \notin {"meta", "send"}
    BY <1>1, <1>3 DEF Write, Store, Sending, Kept, TypeOK
  <1> QED BY <1>2, <1>3

LEMMA StepKeeps == ASSUME Inv, [Next]_vars PROVE Kept
  <1>1. ASSUME NEW r \in Requests, Write(r) PROVE Kept
    BY <1>1, WriteKeeps DEF Inv
  <1>2. ASSUME UNCHANGED objects PROVE Kept
    BY <1>2 DEF objects, Kept
  <1>3. ASSUME NEW r \in Requests, LandLate(r) PROVE Kept
    <2>1. thread[r] \in Threads /\ StoreMetadata(r, None) /\ TypeOK
      BY <1>3 DEF LandLate, Inv, Knows, TypeOK, ThreadOrNone
    <2>2. \A t \in Threads : meta[t] # None => meta'[t] # None
      BY <2>1, Put
    <2> QED BY <1>3, <2>2 DEF LandLate, Kept
  <1> QED BY <1>1, <1>2, <1>3
          DEF Next, Handler, MetadataExists, HeadMiss, DropSending, LockCommand, Resolve, ResolveFails, Bind, Adopt, Replay, Complete,
              Stop, AnswerLost, Tick, Finished, vars

(* A handler that stays where it is loses nothing. *)
LEMMA DeliveredKept ==
    ASSUME TypeOK, Kept, NEW r \in Requests, Knows(r), Delivered(r),
           pc'[r] = pc[r], copy'[r] = copy[r], thread'[r] = thread[r]
    PROVE  Delivered(r)'
  <1>1. /\ CommandOf[r] \in Commands
        /\ pc[r] = "ref" => thread[r] \in Threads
    BY Constants DEF Knows, TypeOK, ThreadOrNone
  <1> QED BY <1>1 DEF Delivered, Kept, HasCopy, Listed

LEMMA StartDelivered ==
    ASSUME Full, NEW r \in Requests,
           LockCommand(r) \/ Resolve(r) \/ ResolveFails(r) \/ Bind(r) \/ Adopt(r) \/ Replay(r)
    PROVE  Delivered(r)'
  <1>1. /\ pc'[r] \in {"resolve", "begin", "body"} \cup Final
        /\ copy' = copy
        /\ pc'[r] \notin Final => copy[r] = 0
    BY DEF LockCommand, Resolve, ResolveFails, Bind, Adopt, Replay, End, GoTo, Full, Inv,
           TypeOK, Delivered, Final
  <1> QED BY <1>1 DEF Delivered, Final

(* A put, and what the handler may say of it afterwards. *)
LEMMA WriteDelivered ==
    ASSUME Full, NEW r \in Requests, Write(r)
    PROVE  Delivered(r)'
  <1>0. /\ TypeOK /\ Knows(r) /\ Kept /\ Delivered(r) /\ CommandOf[r] \in Commands
        /\ thread' = thread /\ pc'[r] = NextPc(r) /\ copy[r] \in Nat
        /\ created[r] \in Times /\ None \notin Times
        /\ copy'[r] = IF pc[r] = "mail" /\ MoreCopies(r) THEN copy[r] + 1 ELSE copy[r]
        /\ Recipients[CommandOf[r]] \in Nat
    <2>1. TypeOK /\ Knows(r) /\ Delivered(r) /\ Kept
      BY WriteKeeps DEF Full, Inv
    <2>2. copy[r] \in Nat /\ created[r] \in Times /\ None \notin Times
      BY <2>1, NamesAssumption, RequestsAssumption DEF TypeOK, Times
    <2> QED BY <2>1, <2>2, Constants DEF Write, GoTo, TypeOK
  <1>1. CASE pc[r] = "body"
    <2>1. NextPc(r) = "lookup"
      BY <1>1 DEF NextPc
    <2> QED BY <1>0, <1>1, <2>1 DEF Delivered
  <1>2. CASE pc[r] = "lookup"
    <2>1. NextPc(r) = "mail"
      BY <1>2 DEF NextPc
    <2>2. lookup'[CommandOf[r]] # None
      BY <1>0, <1>2 DEF Write, Store, Sending, TypeOK
    <2> QED BY <1>0, <1>2, <2>1, <2>2 DEF Delivered
  <1>3. CASE pc[r] = "mail"
    <2>1. NextPc(r) = IF MoreCopies(r) THEN "mail"
                      ELSE IF thread[r] # None THEN "meta" ELSE "complete"
      BY <1>3 DEF NextPc
    <2>2. lookup'[CommandOf[r]] # None
      BY <1>0, <1>3 DEF Delivered, Kept
    <2>3. \A i \in 0..copy[r] : HasCopy(CommandOf[r], i)'
      <3>1. [msg |-> CommandOf[r], copy |-> copy[r], at |-> created[r]] \in mail'
        BY <1>3 DEF Write, Store, Sending
      <3>2. \A i \in 0..(copy[r] - 1) : HasCopy(CommandOf[r], i)'
        BY <1>0, <1>3 DEF Delivered, Kept, HasCopy
      <3>3. \A i \in {copy[r]} : HasCopy(CommandOf[r], i)'
        BY <3>1 DEF HasCopy
      <3>4. \A i \in 0..copy[r] : i = copy[r] \/ i \in 0..(copy[r] - 1)
        BY <1>0
      <3> QED BY <3>2, <3>3, <3>4 DEF HasCopy
    <2>4. CASE MoreCopies(r)
      <3>1. pc'[r] = "mail" /\ copy'[r] = copy[r] + 1 /\ (copy[r] + 1) - 1 = copy[r]
        BY <1>0, <1>3, <2>1, <2>4
      <3> QED BY <2>2, <2>3, <3>1 DEF Delivered, HasCopy
    <2>5. CASE ~MoreCopies(r)
      <3>1. \A i \in 0..Recipients[CommandOf[r]] : i \in 0..copy[r]
        BY <1>0, <2>5 DEF MoreCopies
      <3>2. \A i \in 0..Recipients[CommandOf[r]] : HasCopy(CommandOf[r], i)'
        BY <2>3, <3>1
      <3>3. pc'[r] = IF thread[r] # None THEN "meta" ELSE "complete"
        BY <1>0, <2>1, <2>5
      <3> QED BY <1>0, <2>2, <3>2, <3>3 DEF Delivered, HasCopy
    <2> QED BY <2>4, <2>5
  <1>4. CASE pc[r] \in {"meta", "send", "ref"}
    <2>1. pc'[r] = IF pc[r] = "ref" THEN "complete" ELSE "ref"
      BY <1>0, <1>4 DEF NextPc
    <2>2. /\ lookup'[CommandOf[r]] # None
          /\ \A i \in 0..Recipients[CommandOf[r]] : HasCopy(CommandOf[r], i)'
      BY <1>0, <1>4 DEF Delivered, Kept, HasCopy
    <2>3. thread[r] \in Threads /\ Instance[r] \in Instances
      BY <1>0, <1>4, Constants DEF Knows, TypeOK, ThreadOrNone
    <2>4. pc[r] # "ref" => meta'[thread[r]] # None
      <3> SUFFICES ASSUME pc[r] # "ref" PROVE meta'[thread[r]] # None
        OBVIOUS
      <3>1. StoreMetadata(r, Instance[r])
        BY <1>4 DEF Write, Store, Sending
      <3> QED BY <1>0, <2>3, <3>1, Put
    <2>5. pc[r] = "ref" => Listed(CommandOf[r], thread[r])'
      <3> SUFFICES ASSUME pc[r] = "ref" PROVE Listed(CommandOf[r], thread[r])'
        OBVIOUS
      <3>1. [thread |-> thread[r], msg |-> CommandOf[r], at |-> created[r]] \in members'
        BY DEF Write, Store, Sending
      <3> QED BY <1>0, <3>1 DEF Listed
    <2> QED BY <1>0, <1>4, <2>1, <2>2, <2>4, <2>5 DEF Delivered, HasCopy, Listed
  <1> QED BY <1>1, <1>2, <1>3, <1>4 DEF Write, Store, Sending

(* A turn at the metadata; past it, the thread has been opened. *)
LEMMA TurnDelivered ==
    ASSUME Full, NEW r \in Requests, Turns(r)
    PROVE  Delivered(r)'
  <1>0. /\ TypeOK /\ Knows(r) /\ Delivered(r)
        /\ UNCHANGED <<copy, thread, lookup, mail, members>>
        /\ pc[r] \in {"meta", "send", "late"}
    BY TurnMoves DEF Full, Inv
  <1>1. pc'[r] \in {"ref", "send", "late", "failed"} /\ (pc'[r] = "ref" => MetadataExists(r))
    BY <1>0, TurnMoves DEF TypeOK
  <1>2. CASE pc'[r] = "ref"
    BY <1>0, <1>1, <1>2 DEF MetadataExists, objects, Delivered, HasCopy
  <1>3. CASE pc'[r] = "send"
    <2>1. pc[r] = "meta"
      BY <1>0, <1>3, TurnSends
    <2> QED BY <1>0, <1>3, <2>1 DEF Delivered, HasCopy
  <1>4. CASE pc'[r] \in {"late", "failed"}
    BY <1>4 DEF Delivered
  <1> QED BY <1>1, <1>2, <1>3, <1>4

LEMMA RootedInit == Init => Full
  <1> SUFFICES ASSUME Init PROVE Full
    OBVIOUS
  <1>1. \A r \in Requests : Delivered(r)
    BY DEF Init, Delivered
  <1> QED BY <1>1, InvInit DEF Full, Init, Rooted, ThreadsOpened

(* The root a thread is opened with is readable: the message itself, or    *)
(* the parent, from which its thread was read.                             *)
LEMMA RootedKept ==
    ASSUME Full, Inv', [Next]_vars
    PROVE  Rooted' /\ ThreadsOpened'
  <1>0. TypeOK /\ TypeOK' /\ Kept
    BY StepKeeps DEF Full, Inv
  <1>1. ASSUME UNCHANGED <<meta, members>> PROVE Rooted' /\ ThreadsOpened'
    BY <1>0, <1>1 DEF Full, Rooted, ThreadsOpened, Kept
  <1>6. ASSUME NEW r \in Requests, thread[r] \in Threads,
               NEW by \in Instances \cup {None}, pc[r] \in {"meta", "send", "late"},
               UNCHANGED members, StoreMetadata(r, by)
        PROVE  Rooted' /\ ThreadsOpened'
    <2>1. PICK root : root = IF IsReply(CommandOf[r])
                             THEN Parent[CommandOf[r]] ELSE CommandOf[r]
      OBVIOUS
    <2>2. \E b \in body : b.msg = root
      <3>1. Stored(CommandOf[r], created[r], thread[r]) /\ Placed(CommandOf[r], thread[r])
        BY <1>6 DEF Full, Inv, Knows, Past, Writing
      <3> QED BY <2>1, <3>1 DEF Stored, Placed, Resolves
    <2>3. /\ meta'[thread[r]].root = root
          /\ \A t \in Threads : t # thread[r] => meta'[t] = meta[t]
      BY <1>0, <1>6, <2>1, Put
    <2>4. Rooted'
      BY <1>0, <2>2, <2>3 DEF Full, Rooted, Kept
    <2>5. ThreadsOpened'
      BY <1>0, <1>6 DEF Full, ThreadsOpened, Kept, TypeOK
    <2> QED BY <2>4, <2>5
  <1>7. ASSUME NEW r \in Requests, LandLate(r) PROVE Rooted' /\ ThreadsOpened'
    <2>1. thread[r] \in Threads /\ StoreMetadata(r, None) /\ pc[r] = "late" /\ UNCHANGED members
      BY <1>0, <1>7 DEF LandLate, Full, Inv, Knows, TypeOK, ThreadOrNone
    <2> QED BY <1>6, <2>1
  <1>2. ASSUME NEW r \in Requests, Write(r) PROVE Rooted' /\ ThreadsOpened'
    <2>0. /\ Knows(r) /\ Delivered(r) /\ CommandOf[r] \in Commands
          /\ pc[r] \in {"meta", "send", "ref"} => thread[r] \in Threads
      BY Constants DEF Full, Inv, Knows, TypeOK, ThreadOrNone
    <2>1. CASE pc[r] \in {"meta", "send"}
      <3>1. UNCHANGED members /\ StoreMetadata(r, Instance[r]) /\ Instance[r] \in Instances
        BY <1>2, <2>1, Constants DEF Write, Store, Sending
      <3> QED BY <1>6, <2>0, <2>1, <3>1
    <2>2. CASE pc[r] = "ref"
      <3>1. /\ UNCHANGED meta /\ meta[thread[r]] # None
            /\ members' = members \cup {[thread |-> thread[r], msg |-> CommandOf[r],
                                         at |-> created[r]]}
        BY <1>2, <2>0, <2>2 DEF Write, Store, Sending, Delivered
      <3> QED BY <1>0, <3>1 DEF Full, Rooted, ThreadsOpened, Kept
    <2>3. CASE pc[r] \notin {"meta", "send", "ref"}
      BY <1>1, <1>2, <2>3 DEF Write, Store, Sending
    <2> QED BY <2>1, <2>2, <2>3
  <1>3. UNCHANGED objects => Rooted' /\ ThreadsOpened'
    BY <1>1 DEF objects
  <1> QED BY <1>2, <1>3, <1>7
          DEF Next, Handler, MetadataExists, HeadMiss, DropSending, LockCommand, Resolve,
              ResolveFails, Bind, Adopt, Replay, Complete, Stop, AnswerLost, Tick, Finished, vars

(* What was acknowledged stays complete: a second process that repairs the *)
(* message puts the message object that is there.                          *)
LEMMA AcknowledgedKept ==
    ASSUME Full, Inv', Kept, NEW c \in Commands, Acknowledged(c)
    PROVE  Acknowledged(c)'
  <1>1. PICK at : at = lookup[c]
    OBVIOUS
  <1>2. PICK b \in body : b.msg = c
    BY DEF Acknowledged, Full, Inv, ReferencesResolve, Readable
  <1>3. \A x \in body' : x.msg = c => x = b
    BY <1>2 DEF Inv, OneBody, Kept
  <1> QED BY <1>2, <1>3 DEF Acknowledged, Kept, HasCopy, Listed

LEMMA CompletedAcknowledged ==
    ASSUME Full, NEW r \in Requests, pc[r] = "complete"
    PROVE  Acknowledged(CommandOf[r])
  <1>1. /\ Delivered(r) /\ OneBody
        /\ Stored(CommandOf[r], created[r], thread[r])
    BY DEF Full, Inv, Knows, Past, Writing
  <1>2. \A b \in body : b.msg = CommandOf[r] => b.thread = thread[r]
    BY <1>1 DEF OneBody, Stored
  <1> QED BY <1>1, <1>2 DEF Delivered, Acknowledged

LEMMA FullNext == Full /\ [Next]_vars => Full'
  <1> SUFFICES ASSUME Full, [Next]_vars PROVE Full'
    OBVIOUS
  <1>0. /\ Inv /\ Inv' /\ Kept /\ TypeOK /\ Rooted' /\ ThreadsOpened'
        /\ \A q \in Requests : Knows(q) /\ Delivered(q)
    BY InvNext, StepKeeps, RootedKept DEF Full, Inv
  <1>1. \A c \in done : c \in Commands /\ Acknowledged(c)'
    BY <1>0, AcknowledgedKept DEF Full, TypeOK
  <1>2. ASSUME NEW r \in Requests,
               LockCommand(r) \/ Resolve(r) \/ ResolveFails(r)
                 \/ Bind(r) \/ Adopt(r) \/ Replay(r)
        PROVE  Full'
    <2>1. UNCHANGED done /\ copy' = copy
          /\ \A q \in Requests : q # r => pc'[q] = pc[q] /\ thread'[q] = thread[q]
      BY <1>0, <1>2
         DEF LockCommand, Resolve, ResolveFails, Bind, Adopt, Replay, WorkFor, End, GoTo, TypeOK
    <2>2. \A q \in Requests : Delivered(q)'
      BY <1>0, <1>2, <2>1, StartDelivered, DeliveredKept
    <2> QED BY <1>0, <1>1, <2>1, <2>2 DEF Full, Acknowledged
  <1>3. ASSUME NEW r \in Requests, Write(r) PROVE Full'
    <2>1. UNCHANGED <<done, thread>>
          /\ \A q \in Requests : q # r => pc'[q] = pc[q] /\ copy'[q] = copy[q]
      BY <1>0, <1>3 DEF Write, GoTo, TypeOK
    <2>2. \A q \in Requests : Delivered(q)'
      BY <1>0, <1>3, <2>1, WriteDelivered, DeliveredKept
    <2> QED BY <1>0, <1>1, <2>1, <2>2 DEF Full, Acknowledged
  <1>6. ASSUME NEW r \in Requests, Turns(r) PROVE Full'
    <2>1. UNCHANGED <<done, thread, copy>> /\ \A q \in Requests : q # r => pc'[q] = pc[q]
      BY <1>0, <1>6, TurnMoves DEF TypeOK
    <2>2. \A q \in Requests : Delivered(q)'
      BY <1>0, <1>6, <2>1, TurnDelivered, DeliveredKept
    <2> QED BY <1>0, <1>1, <2>1, <2>2 DEF Full, Acknowledged
  <1>4. ASSUME NEW r \in Requests, Complete(r) \/ Stop(r) \/ AnswerLost(r) PROVE Full'
    <2>1. /\ UNCHANGED <<copy, thread>>
          /\ done' \in {done, done \cup {CommandOf[r]}}
          /\ done' # done => pc[r] = "complete"
          /\ pc'[r] \in Final /\ \A q \in Requests : q # r => pc'[q] = pc[q]
      BY <1>0, <1>4 DEF Complete, Stop, AnswerLost, End, GoTo, TypeOK, Final
    <2>2. \A q \in Requests : Delivered(q)'
      <3>1. Delivered(r)'
        BY <2>1 DEF Delivered, Final
      <3> QED BY <1>0, <2>1, <3>1, DeliveredKept
    <2>3. pc[r] = "complete" => Acknowledged(CommandOf[r])'
      BY <1>0, CompletedAcknowledged, AcknowledgedKept, Constants
    <2>4. \A c \in done' : Acknowledged(c)'
      BY <1>1, <2>1, <2>3
    <2> QED BY <1>0, <2>2, <2>4 DEF Full
  <1>5. CASE Tick \/ Finished \/ UNCHANGED vars
    <2>1. UNCHANGED <<pc, copy, thread, done>>
      BY <1>5 DEF Tick, Finished, vars
    <2>2. \A q \in Requests : Delivered(q)'
      BY <1>0, <2>1, DeliveredKept
    <2> QED BY <1>0, <1>1, <2>1, <2>2 DEF Full, Acknowledged
  <1> QED BY <1>2, <1>3, <1>4, <1>5, <1>6 DEF Next, Handler, Turns

LEMMA FullAlways == Spec => []Full
  BY RootedInit, FullNext, PTL DEF Spec

(* An acknowledged message is complete for all its readers, whichever of   *)
(* its attempts wrote which part: lookup, one reference per participant,   *)
(* and a thread reference if it has a thread.                              *)
THEOREM AcknowledgedAreComplete == Spec => []AcknowledgedComplete
  <1>1. Full => AcknowledgedComplete
    BY DEF Full, Acknowledged, HasCopy, Listed, AcknowledgedComplete
  <1> QED BY <1>1, FullAlways, PTL

(* A thread that lists a message can be listed: send_message creates the   *)
(* metadata before the first reference, with a root that is readable.      *)
THEOREM ListedAlwaysExist == Spec => []ListedThreadsExist
  <1>1. Full => ListedThreadsExist
    BY DEF Full, Inv, TypeOK, Rooted, ThreadsOpened, ListedThreadsExist
  <1> QED BY <1>1, FullAlways, PTL

-----------------------------------------------------------------------------
(* The ids an operation draws are those that its messages will need.       *)

Asked(c) == c \in CreateThread \/ Parent[c] # None

(* They were drawn for the thread that every attempt finds.                *)
Foreseen ==
    \A c \in Commands : bound[c] # None =>
        \E found \in ThreadOrNone :
            /\ Resolves(c, found)
            /\ found # None \/ Asked(c) => bound[c].ref
            /\ bound[c].drawn => Asked(c)

LEMMA ForeseenNext == Inv /\ Foreseen /\ [Next]_vars => Foreseen'
  <1> SUFFICES ASSUME Inv, Foreseen, [Next]_vars, NEW c \in Commands, bound'[c] # None
               PROVE  \E found \in ThreadOrNone :
                        /\ Resolves(c, found)'
                        /\ found # None \/ Asked(c) => bound'[c].ref
                        /\ bound'[c].drawn => Asked(c)
    BY DEF Foreseen, Asked, Resolves
  <1>0. TypeOK
    BY DEF Inv
  <1>1. body \subseteq body'
    BY StepKeeps DEF Kept
  <1>2. ASSUME NEW found \in ThreadOrNone, Resolves(c, found) PROVE Resolves(c, found)'
    BY <1>1, <1>2 DEF Resolves, IsReply
  <1>3. CASE bound'[c] = bound[c]
    <2>1. PICK found \in ThreadOrNone : /\ Resolves(c, found)
                                        /\ found # None \/ Asked(c) => bound[c].ref
                                        /\ bound[c].drawn => Asked(c)
      BY <1>3 DEF Foreseen
    <2> QED BY <1>2, <1>3, <2>1
  <1>4. CASE bound'[c] # bound[c]
    <2>1. PICK r \in Requests : Bind(r)
      BY <1>4 DEF Next, Handler, LockCommand, Resolve, ResolveFails, Adopt, Replay, Write,
           MetadataExists, HeadMiss, Complete, Stop, AnswerLost, DropSending, LandLate, Tick,
           Finished, vars
    <2>2. c = CommandOf[r] /\ bound'[c] = Drawn(r) /\ pc[r] = "begin"
      BY <1>0, <1>4, <2>1, Constants DEF Bind, Drawn, TypeOK
    <2>3. PICK found \in ThreadOrNone : found = thread[r]
      BY <1>0 DEF TypeOK
    <2>4. Resolves(c, found)
      BY <2>2, <2>3 DEF Inv, Knows
    <2>5. (found # None \/ Asked(c) => bound'[c].ref) /\ (bound'[c].drawn => Asked(c))
      <3>1. bound'[c].ref = DrawsReference(r) /\ bound'[c].drawn = DrawsThread(r)
        BY <2>2 DEF Drawn
      <3> QED BY <2>2, <2>3, <3>1 DEF DrawsThread, DrawsReference, Asked
    <2> QED BY <1>2, <2>4, <2>5
  <1> QED BY <1>3, <1>4

(* The attempt that binds the operation draws a thread reference id        *)
(* whenever any attempt at it will store the message with a thread: no     *)
(* stored message is stuck for want of an id.                              *)
THEOREM FiledCanAlwaysFinish == Spec => []FiledCanFinish
  <1>1. Init => Foreseen
    BY DEF Init, Foreseen
  <1>2. Inv /\ Foreseen => FiledCanFinish
    <2> SUFFICES ASSUME Inv, Foreseen, NEW b \in body, b.thread # None PROVE bound[b.msg].ref
      BY DEF FiledCanFinish
    <2>1. PICK c \in Commands, t \in ThreadOrNone : c = b.msg /\ t = b.thread
      BY DEF Inv, TypeOK
    <2>2. bound[c] # None /\ Placed(c, t) /\ OneBody
      BY <2>1 DEF Inv, BodiesPlaced
    <2>3. PICK found \in ThreadOrNone : /\ Resolves(c, found)
                                        /\ found # None \/ Asked(c) => bound[c].ref
                                        /\ bound[c].drawn => Asked(c)
      BY <2>2 DEF Foreseen
    <2>4. PICK other \in ThreadOrNone :
              Resolves(c, other) /\ t = IF other = None /\ bound[c].drawn THEN c ELSE other
      BY <2>2 DEF Placed
    <2>5. found = other
      BY <2>2, <2>3, <2>4 DEF Resolves, OneBody
    <2> QED BY <2>1, <2>3, <2>4, <2>5
  <1> QED BY <1>1, <1>2, ForeseenNext, InvAlways, PTL DEF Spec

-----------------------------------------------------------------------------
(* Who puts the metadata of a thread.                                      *)

(* A handler about to put metadata holds the create lock of its process,   *)
(* and no handler of its process has stored the metadata since its HEAD.   *)
HeadStands ==
    \A r \in Requests : pc[r] = "send" =>
        /\ ~AtomicCreate
        /\ createLock[Instance[r]] = r
        /\ meta[thread[r]] # None => meta[thread[r]].by # Instance[r]

Opened == Inv /\ HeadStands

(* How the metadata changes in one step. *)
LEMMA MetadataStep ==
    ASSUME Inv, [Next]_vars
    PROVE  \/ UNCHANGED meta
           \/ \E r \in Requests :
                /\ thread[r] \in Threads
                /\ \/ LandLate(r) /\ StoreMetadata(r, None)
                   \/ Write(r) /\ Sending(r) /\ StoreMetadata(r, Instance[r])
  <1>1. ASSUME NEW r \in Requests, pc[r] \in {"meta", "send", "late"} PROVE thread[r] \in Threads
    BY <1>1 DEF Inv, Knows, TypeOK, ThreadOrNone
  <1>2. ASSUME NEW r \in Requests, Write(r)
        PROVE  UNCHANGED meta \/ (Sending(r) /\ StoreMetadata(r, Instance[r]))
    BY <1>2 DEF Write, Store, Sending
  <1>3. ASSUME NEW r \in Requests, Sending(r) \/ LandLate(r) PROVE thread[r] \in Threads
    BY <1>1, <1>3 DEF Sending, LandLate
  <1>4. ASSUME NEW r \in Requests, LandLate(r) PROVE StoreMetadata(r, None)
    BY <1>4 DEF LandLate
  <1> QED BY <1>2, <1>3, <1>4
          DEF Next, Handler, LockCommand, Resolve, ResolveFails, Bind, Adopt, Replay,
              MetadataExists, HeadMiss, Complete, Stop, AnswerLost, DropSending, Tick, Finished,
              vars, objects

(* How handlers come to hold the create lock, and others keep it. *)
LEMMA LockStep ==
    ASSUME TypeOK, [Next]_vars, NEW q \in Requests, pc'[q] = "send"
    PROVE  /\ thread'[q] = thread[q]
           /\ \/ HeadMiss(q) /\ createLock'[Instance[q]] = q
              \/ /\ pc[q] = "send"
                 /\ createLock[Instance[q]] = q => createLock'[Instance[q]] = q
                 /\ createLock[Instance[q]] = q => ~Write(q)
  <1>0. Instance[q] \in Instances /\ None \notin Requests
    BY Constants
  <1> USE DEF GoTo, TypeOK, locks
  <1>1. ASSUME NEW r \in Requests, LockCommand(r) \/ Resolve(r) \/ Bind(r) \/ Adopt(r)
        PROVE  /\ pc[q] = "send" /\ thread'[q] = thread[q] /\ UNCHANGED createLock /\ q # r
    BY <1>0, <1>1 DEF LockCommand, Resolve, Bind, Adopt, WorkFor
  <1>2. ASSUME NEW r \in Requests, NEW answer \in {"ok", "failed", "late"}, End(r, answer)
        PROVE  /\ pc[q] = "send" /\ q # r
               /\ createLock[Instance[q]] = q => createLock'[Instance[q]] = q
    BY <1>0, <1>2 DEF End, Freed
  <1>3. ASSUME NEW r \in Requests,
               ResolveFails(r) \/ Replay(r) \/ Complete(r) \/ Stop(r) \/ AnswerLost(r)
                 \/ DropSending(r)
        PROVE  /\ UNCHANGED thread
               /\ \E answer \in {"ok", "failed", "late"} : End(r, answer)
    BY <1>3 DEF ResolveFails, Replay, Complete, Stop, AnswerLost, DropSending
  <1>4. ASSUME NEW r \in Requests, Write(r)
        PROVE  /\ pc[q] = "send" /\ UNCHANGED thread /\ q # r
               /\ createLock[Instance[q]] = q => createLock'[Instance[q]] = q
    <2>1. pc[r] \in Writing /\ pc' = [pc EXCEPT ![r] = NextPc(r)]
      BY <1>4 DEF Write, Store, Sending, Writing
    <2>2. NextPc(r) # "send"
      BY <2>1, NextPcTyped
    <2>3. q # r /\ pc[q] = "send"
      BY <2>1, <2>2
    <2>4. createLock[Instance[q]] = q => Instance[r] # Instance[q]
      BY <1>0, <1>4, <2>3 DEF Write, CreateFree
    <2> QED BY <1>0, <1>4, <2>3, <2>4 DEF Write
  <1>5. ASSUME NEW r \in Requests, MetadataExists(r) \/ LandLate(r)
        PROVE  pc[q] = "send" /\ UNCHANGED <<thread, createLock>> /\ q # r
    BY <1>5 DEF MetadataExists, LandLate
  <1>6. ASSUME NEW r \in Requests, HeadMiss(r)
        PROVE  /\ UNCHANGED thread
               /\ q = r => createLock'[Instance[q]] = q
               /\ q # r => pc[q] = "send"
               /\ q # r /\ createLock[Instance[q]] = q => createLock'[Instance[q]] = q
    <2>1. /\ Instance[r] \in Instances /\ createLock[Instance[r]] \in {None, r}
          /\ createLock' = [createLock EXCEPT ![Instance[r]] = r]
          /\ pc' = [pc EXCEPT ![r] = "send"] /\ UNCHANGED thread
      BY <1>6, Constants DEF HeadMiss, CreateFree
    <2>2. q # r => pc[q] = "send"
      BY <2>1
    <2>3. createLock'[Instance[r]] = r
      BY <2>1
    <2>4. ASSUME q # r, createLock[Instance[q]] = q PROVE createLock'[Instance[q]] = q
      <3>1. Instance[q] # Instance[r]
        BY <1>0, <2>1, <2>4
      <3> QED BY <1>0, <2>1, <2>4, <3>1
    <2> QED BY <2>1, <2>2, <2>3, <2>4
  <1>7. Tick \/ Finished \/ UNCHANGED vars => UNCHANGED <<pc, thread, createLock>>
    BY DEF Tick, Finished, vars
  <1>8. Write(q) => FALSE
    BY <1>4
  <1> QED BY <1>1, <1>2, <1>3, <1>4, <1>5, <1>6, <1>7, <1>8 DEF Next, Handler

LEMMA OpenedNext == Opened /\ [Next]_vars => Opened'
  <1> SUFFICES ASSUME Opened, [Next]_vars PROVE HeadStands'
    BY InvNext DEF Opened
  <1> SUFFICES ASSUME NEW q \in Requests, pc'[q] = "send"
               PROVE  /\ ~AtomicCreate
                      /\ createLock'[Instance[q]] = q
                      /\ meta'[thread[q]] # None => meta'[thread[q]].by # Instance[q]
    BY LockStep DEF HeadStands, Opened, Inv
  <1>0. TypeOK /\ Inv /\ HeadStands /\ Instance[q] \in Instances /\ None \notin Instances
    BY Constants DEF Opened, Inv
  <1>1. CASE HeadMiss(q) /\ createLock'[Instance[q]] = q
    BY <1>1 DEF HeadMiss, objects
  <1>2. CASE pc[q] = "send" /\ createLock'[Instance[q]] = q
    <2>1. ~AtomicCreate /\ (meta[thread[q]] # None => meta[thread[q]].by # Instance[q])
          /\ createLock[Instance[q]] = q
      BY <1>0, <1>2 DEF HeadStands
    <2>2. ASSUME NEW r \in Requests, thread[r] \in Threads, StoreMetadata(r, None)
          PROVE  meta'[thread[q]] # None => meta'[thread[q]].by # Instance[q]
      <3>1. thread[q] \in Threads
        BY <1>0, <1>2 DEF Inv, Knows, TypeOK, ThreadOrNone
      <3> QED BY <1>0, <2>1, <2>2, <3>1, Put
    <2>3. ASSUME NEW r \in Requests, thread[r] \in Threads, Write(r), Sending(r),
                 StoreMetadata(r, Instance[r])
          PROVE  meta'[thread[q]] # None => meta'[thread[q]].by # Instance[q]
      <3>1. thread[q] \in Threads /\ Instance[r] \in Instances
        BY <1>0, <1>2, Constants DEF Inv, Knows, TypeOK, ThreadOrNone
      <3>2. r # q
        BY <1>0, <1>2, <2>1, <2>3, LockStep DEF HeadMiss
      <3>3. Instance[r] # Instance[q]
        BY <1>0, <2>1, <2>3, <3>2, Constants DEF Write, CreateFree
      <3> QED BY <1>0, <2>1, <2>3, <3>1, <3>3, Put
    <2> QED BY <1>0, <1>2, <2>1, <2>2, <2>3, MetadataStep
  <1> QED BY <1>0, <1>1, <1>2, LockStep DEF HeadStands

LEMMA OpenedAlways == Spec => []Opened
  <1>1. Init => Opened
    BY InvInit DEF Opened, Init, HeadStands
  <1> QED BY <1>1, OpenedNext, PTL DEF Spec

(* The handlers of one process never replace what another of them has      *)
(* stored of a thread, though they hold different idempotency locks: the   *)
(* create lock makes HEAD and PUT one.                                     *)
LEMMA OpenedOnce ==
    ASSUME Opened, [Next]_vars, NEW t \in Threads, meta[t] # None, meta'[t] # meta[t]
    PROVE  \E r \in Requests :
              \/ LandLate(r) /\ meta'[t].by = None
              \/ /\ ~AtomicCreate /\ meta'[t].by = Instance[r] /\ meta[t].by # Instance[r]
  <1>0. Inv /\ TypeOK /\ HeadStands
    BY DEF Opened, Inv
  <1>1. ASSUME NEW r \in Requests, thread[r] \in Threads, LandLate(r), StoreMetadata(r, None)
        PROVE  meta'[t].by = None
    BY <1>0, <1>1, Put
  <1>2. ASSUME NEW r \in Requests, thread[r] \in Threads, Sending(r),
               StoreMetadata(r, Instance[r])
        PROVE  ~AtomicCreate /\ meta'[t].by = Instance[r] /\ meta[t].by # Instance[r]
    <2>1. t = thread[r] /\ meta'[t].by = Instance[r]
      BY <1>0, <1>2, Put, Constants
    <2>2. pc[r] = "send"
      BY <1>2, <2>1 DEF Sending
    <2> QED BY <1>0, <2>1, <2>2 DEF HeadStands
  <1> QED BY <1>0, <1>1, <1>2, MetadataStep

(* No handler moves the root or the start that a handler of its own        *)
(* process stored for a thread, for any number of messages and processes,  *)
(* late PUTs among them.                                                   *)
THEOREM ThreadStartsStay == Spec => ThreadStartFixed
  <1>1. Opened /\ [Next]_vars =>
            [\A t \in Threads : meta[t] # None /\ meta'[t] # meta[t] =>
                \/ None \in {meta[t].by, meta'[t].by}
                \/ meta[t].by # meta'[t].by]_vars
    BY OpenedOnce
  <1> QED BY <1>1, OpenedAlways, PTL DEF Spec, ThreadStartFixed

OneWriter == AtomicCreate \/ (Late = {} /\ \A r, q \in Requests : Instance[r] = Instance[q])

(* Nothing but a live handler has put metadata. *)
AllLive ==
    /\ \A r \in Requests : pc[r] # "late"
    /\ \A t \in Threads : meta[t] # None => \E r \in Requests : meta[t].by = Instance[r]

LEMMA AllLiveNext == OneWriter /\ Opened /\ AllLive /\ [Next]_vars => AllLive'
  <1> SUFFICES ASSUME OneWriter, Opened, AllLive, [Next]_vars PROVE AllLive'
    OBVIOUS
  <1>0. Inv /\ TypeOK /\ HeadStands
    BY DEF Opened, Inv
  <1>1. ASSUME NEW q \in Requests, pc'[q] = "late" PROVE FALSE
    <2>1. ASSUME NEW r \in Requests, DropSending(r) PROVE FALSE
      BY <1>0, <2>1 DEF DropSending, OneWriter, HeadStands
    <2>2. ASSUME NEW r \in Requests, Write(r) PROVE FALSE
      <3>1. pc[r] \in Writing /\ pc' = [pc EXCEPT ![r] = NextPc(r)]
        BY <2>2 DEF Write, Store, Sending, Writing, GoTo
      <3> QED BY <1>0, <1>1, <3>1, NextPcTyped DEF AllLive, TypeOK
    <2> QED BY <1>0, <1>1, <2>1, <2>2
            DEF AllLive, Next, Handler, LockCommand, Resolve, ResolveFails, Bind, Adopt, Replay,
                MetadataExists, HeadMiss, Complete, Stop, AnswerLost, LandLate, Tick, Finished,
                vars, End, GoTo, TypeOK
  <1>2. ASSUME NEW t \in Threads, meta'[t] # None
        PROVE  \E r \in Requests : meta'[t].by = Instance[r]
    <2>1. CASE UNCHANGED meta
      BY <1>2, <2>1 DEF AllLive
    <2>2. ASSUME NEW r \in Requests, thread[r] \in Threads, StoreMetadata(r, Instance[r])
          PROVE  \E q \in Requests : meta'[t].by = Instance[q]
      <3>1. CASE t = thread[r]
        BY <1>0, <2>2, <3>1, Put, Constants
      <3>2. CASE t # thread[r]
        BY <1>0, <1>2, <2>2, <3>2, Put, Constants DEF AllLive
      <3> QED BY <3>1, <3>2
    <2>3. ASSUME NEW r \in Requests, LandLate(r) PROVE FALSE
      BY <2>3 DEF LandLate, AllLive
    <2> QED BY <1>0, <2>1, <2>2, <2>3, MetadataStep
  <1> QED BY <1>1, <1>2 DEF AllLive

(* Where creation is atomic, or one process serves all calls and a PUT     *)
(* ends with its handler, a thread's metadata is never replaced at all.    *)
THEOREM MetadataWrittenOnce ==
    ASSUME OneWriter
    PROVE  Spec => [][\A t \in Threads : meta[t] # None => meta'[t] = meta[t]]_vars
  <1>1. Init => AllLive
    BY DEF Init, AllLive
  <1>2. OneWriter /\ Opened /\ AllLive /\ [Next]_vars =>
            [\A t \in Threads : meta[t] # None => meta'[t] = meta[t]]_vars
    <2> SUFFICES ASSUME OneWriter, Opened, AllLive, [Next]_vars, NEW t \in Threads,
                        meta[t] # None, meta'[t] # meta[t]
                 PROVE  FALSE
      OBVIOUS
    <2>1. PICK r \in Requests :
              \/ LandLate(r)
              \/ ~AtomicCreate /\ meta[t].by # Instance[r]
      BY OpenedOnce
    <2>2. ~LandLate(r)
      BY DEF LandLate, AllLive
    <2> QED BY <2>1, <2>2 DEF OneWriter, AllLive
  <1>3. AllLive /\ Opened /\ [Next]_vars => AllLive'
    BY AllLiveNext
  <1>4. Opened /\ AllLive /\ [Next]_vars =>
            [\A t \in Threads : meta[t] # None => meta'[t] = meta[t]]_vars
    BY <1>2
  <1> QED BY <1>1, <1>3, <1>4, OpenedAlways, PTL DEF Spec

=============================================================================
