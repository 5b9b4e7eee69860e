------------------------------- MODULE FeedsProofs -------------------------------
(* Proofs about Feeds, for any number of messages, attempts and processes and  *)
(* pages of any size: to its reader send_message is the writer that Paging     *)
(* describes, so what is proved of Paging holds for these writers too.         *)
EXTENDS Feeds, ThreadsProofs, FiniteSetTheorems

PP == INSTANCE PagingProofs WITH
        refs <- Inbox, torn <- {}, failures <- 0,
        MaxRefs <- MaxRank * (MaxTime + 1), MaxFailures <- 0,
        NewestFirst <- TRUE, Limits <- {PageSize}, MaxPageSize <- PageSize,
        StoreCap <- PageSize, Files <- FALSE, Feed <- "inbox", Foreign <- {}

(* What PagingProofs takes for granted holds of the inbox. *)
LEMMA PagingFits == PP!PagingAssumption /\ PP!ListsSuffice
  <1>1. MaxRank * (MaxTime + 1) \in Nat
    BY FeedsAssumption, RequestsAssumption
  <1> QED BY <1>1, FeedsAssumption, RequestsAssumption
          DEF PP!PagingAssumption, PP!ListsSuffice, PP!Cursors

(* P of Feeds and PP are the same specification. *)
LEMMA SameCardinality ==
    ASSUME NEW S
    PROVE  P!Cardinality(S) = Cardinality(S) /\ PP!Cardinality(S) = Cardinality(S)
  BY DEF P!Cardinality, PP!Cardinality, Cardinality

LEMMA SamePaging == P!Spec => PP!Spec
  <1>1. P!Init => PP!Init
    BY DEF P!Init, PP!Init
  <1>2. P!vars = PP!vars
    BY DEF P!vars, PP!vars, P!feed, PP!feed, P!client, PP!client, P!scan, PP!scan
  <1>3. P!Tick => PP!Tick
    BY DEF P!Tick, PP!Tick, P!feed, PP!feed, P!client, PP!client, P!scan, PP!scan
  <1>4. ASSUME NEW ref \in P!References, P!Insert(ref) \/ P!WriteAll(ref)
        PROVE  ref \in PP!References /\ (PP!Insert(ref) \/ PP!WriteAll(ref))
    BY SameCardinality, <1>4
       DEF P!Insert, PP!Insert, P!WriteAll, PP!WriteAll, P!References, PP!References,
           P!feed, PP!feed, P!client, PP!client, P!scan, PP!scan
  <1>5. ASSUME NEW asked \in {PageSize}, NEW c \in {cursor} \cup {}, P!Ask(asked, c)
        PROVE  PP!Ask(asked, c)
    BY <1>5
       DEF P!Ask, PP!Ask, P!Accepted, PP!Accepted, P!NormalLimit, PP!NormalLimit,
           P!Least, PP!Least, P!FirstWindow, PP!FirstWindow, P!feed, PP!feed
  <1>6. P!StartList => PP!StartList
    BY SameCardinality
       DEF P!StartList, PP!StartList, P!Looking, PP!Looking, P!Lacking, PP!Lacking,
           P!Behind, PP!Behind, P!feed, PP!feed
  <1>7. P!FillPage => PP!FillPage
    BY SameCardinality
       DEF P!FillPage, PP!FillPage, P!NextWindow, PP!NextWindow,
           P!Looking, PP!Looking, P!Lacking, PP!Lacking, P!Behind, PP!Behind,
           P!Walks, PP!Walks, P!ListPage, PP!ListPage, P!Resume, PP!Resume,
           P!Least, PP!Least, P!feed, PP!feed
  <1>8. P!PassWindow => PP!PassWindow
    BY SameCardinality
       DEF P!PassWindow, PP!PassWindow, P!NextWindow, PP!NextWindow,
           P!Looking, PP!Looking, P!Lacking, PP!Lacking, P!Behind, PP!Behind,
           P!Walks, PP!Walks, P!ListPage, PP!ListPage, P!Least, PP!Least,
           P!feed, PP!feed, P!client, PP!client
  <1>9. P!LastPage => PP!LastPage
    BY DEF P!LastPage, PP!LastPage, P!feed, PP!feed
  <1>10. P!FailTorn => PP!FailTorn
    BY SameCardinality
       DEF P!FailTorn, PP!FailTorn, P!Looking, PP!Looking, P!Lacking, PP!Lacking,
           P!Behind, PP!Behind, P!Walks, PP!Walks, P!ListPage, PP!ListPage, P!Least, PP!Least,
           P!GiveUp, PP!GiveUp, P!feed, PP!feed, P!client, PP!client
  <1>11. P!Fail => PP!Fail
    BY DEF P!Fail, PP!Fail, P!GiveUp, PP!GiveUp, P!feed, PP!feed, P!client, PP!client
  <1>12. P!Done => PP!Done
    BY <1>2 DEF P!Done, PP!Done, P!vars, PP!vars, P!feed, PP!feed, P!client, PP!client,
           P!scan, PP!scan
  <1>13. P!Reader => PP!Reader
    BY <1>5, <1>6, <1>7, <1>8, <1>9, <1>10 DEF P!Reader, PP!Reader
  <1>14. (\E ref \in P!References : P!Insert(ref) \/ P!WriteAll(ref))
            => \E ref \in PP!References : PP!Insert(ref) \/ PP!WriteAll(ref)
    BY <1>4
  <1>15. P!Next => PP!Next
    BY <1>3, <1>11, <1>12, <1>13, <1>14 DEF P!Next, PP!Next
  <1>16. [P!Next]_P!vars => [PP!Next]_PP!vars
    BY <1>15 DEF P!vars, PP!vars, P!feed, PP!feed, P!client, PP!client, P!scan, PP!scan
  <1> QED BY <1>1, <1>16, PTL DEF P!Spec, PP!Spec

-----------------------------------------------------------------------------
(* No handler works with a time to come. *)
Timely ==
    /\ \A r \in Requests : created[r] <= now
    /\ \A c \in Commands : bound[c] # None => bound[c].at <= now

Writers == Full /\ Timely

LEMMA TimelyInit == Init => Timely
  BY DEF Init, Timely

LEMMA TimelyNext == Full /\ Timely /\ [Next]_vars => Timely'
  <1> SUFFICES ASSUME Full, Timely, [Next]_vars PROVE Timely'
    OBVIOUS
  <1>0. TypeOK /\ MaxTime \in Nat
    BY RequestsAssumption DEF Full, Inv
  <1>1. ASSUME NEW r \in Requests, LockCommand(r) \/ Resolve(r) PROVE Timely'
    <2>1. UNCHANGED <<now, bound>> /\ created' = [created EXCEPT ![r] = now]
      BY <1>1 DEF LockCommand, Resolve
    <2> QED BY <1>0, <2>1 DEF TypeOK, Timely, Times
  <1>2. ASSUME NEW r \in Requests, Bind(r) PROVE Timely'
    <2>0. CommandOf[r] \in Commands
      BY Constants
    <2>1. PICK o : /\ o = Drawn(r)
                   /\ bound' = [bound EXCEPT ![CommandOf[r]] = o]
      BY <1>2 DEF Bind, Drawn
    <2>2. UNCHANGED now /\ created' = [created EXCEPT ![r] = created[r]]
      BY <1>2 DEF Bind, WorkFor
    <2>3. o.at = created[r] /\ created[r] <= now
      BY <2>1 DEF Drawn, Timely
    <2> QED BY <1>0, <2>0, <2>1, <2>2, <2>3 DEF TypeOK, Timely
  <1>3. ASSUME NEW r \in Requests, Adopt(r) PROVE Timely'
    <2>0. CommandOf[r] \in Commands
      BY Constants
    <2>1. /\ UNCHANGED <<now, bound>> /\ bound[CommandOf[r]].at <= now
          /\ created' = [created EXCEPT ![r] = bound[CommandOf[r]].at]
      BY <1>3, <2>0 DEF Adopt, WorkFor, Timely
    <2> QED BY <1>0, <2>1 DEF TypeOK, Timely
  <1>4. CASE UNCHANGED <<created, now, bound>>
    BY <1>4 DEF Timely
  <1>5. CASE Tick
    <2>1. UNCHANGED <<created, bound>> /\ now' = now + 1
      BY <1>5 DEF Tick
    <2> QED BY <1>0, <2>1 DEF TypeOK, Timely, Times
  <1> QED BY <1>1, <1>2, <1>3, <1>4, <1>5
          DEF Next, Handler, ResolveFails, Replay, MetadataExists, HeadMiss, Write, Complete, Stop,
              AnswerLost, DropSending, LandLate, Finished, vars

LEMMA WritersAlways == Spec => []Writers
  <1>1. Init => Writers
    BY RootedInit, TimelyInit DEF Writers
  <1>2. Writers /\ [Next]_vars => Writers'
    BY FullNext, TimelyNext DEF Writers
  <1> QED BY <1>1, <1>2, PTL DEF Spec

-----------------------------------------------------------------------------
(* The inbox as Paging sees it: a message has a key of its own, and there  *)
(* are never more keys than windows times ranks.                           *)
Keys == [window : Times, rank : 1..MaxRank]

LEMMA FiledKeys ==
    ASSUME NEW c \in Commands, NEW at \in Times
    PROVE  /\ Filed(c, at) \in Keys /\ Filed(c, at).window = at
           /\ \A d \in Commands : \A t : Filed(d, t) = Filed(c, at) => d = c /\ t = at
  BY FeedsAssumption DEF Filed, Keys

LEMMA KeysFinite == IsFiniteSet(Keys) /\ Cardinality(Keys) <= MaxRank * (MaxTime + 1)
  <1> DEFINE pairs == Times \X (1..MaxRank)
             f == [p \in pairs |-> [window |-> p[1], rank |-> p[2]]]
  <1>1. /\ IsFiniteSet(Times) /\ Cardinality(Times) = MaxTime + 1
        /\ IsFiniteSet(1..MaxRank) /\ Cardinality(1..MaxRank) = MaxRank
        /\ MaxTime \in Nat /\ MaxRank \in Nat
    BY FS_Interval, FeedsAssumption, RequestsAssumption DEF Times
  <1>2. IsFiniteSet(pairs) /\ Cardinality(pairs) = (MaxTime + 1) * MaxRank
    BY <1>1, FS_Product
  <1>3. f \in Surjection(pairs, Keys)
    <2>1. f \in [pairs -> Keys]
      BY DEF Keys
    <2>2. ASSUME NEW k \in Keys PROVE \E p \in pairs : f[p] = k
      <3>1. <<k.window, k.rank>> \in pairs /\ k = [window |-> k.window, rank |-> k.rank]
        BY DEF Keys
      <3> QED BY <3>1
    <2> QED BY <2>1, <2>2 DEF Surjection
  <1>4. IsFiniteSet(Keys) /\ Cardinality(Keys) <= Cardinality(pairs)
    BY <1>2, <1>3, FS_Surjection
  <1>5. (MaxTime + 1) * MaxRank = MaxRank * (MaxTime + 1)
    BY <1>1
  <1> QED BY <1>2, <1>4, <1>5

LEMMA InboxKeys ==
    ASSUME TypeOK
    PROVE  /\ Inbox \subseteq Keys /\ IsFiniteSet(Inbox)
           /\ \A k \in Keys \ Inbox : Cardinality(Inbox) < MaxRank * (MaxTime + 1)
  <1>1. Inbox \subseteq Keys
    <2>1. \A m \in mail : m.msg \in Commands /\ m.at \in Times
      BY DEF TypeOK
    <2> QED BY <2>1, FiledKeys DEF Inbox
  <1>2. PICK keys \in SUBSET Keys : keys = Inbox
    BY <1>1
  <1>3. IsFiniteSet(keys) /\ Cardinality(keys) \in Nat
    BY KeysFinite, FS_Subset, FS_CardinalityType
  <1>4. ASSUME NEW k \in Keys \ keys PROVE Cardinality(keys) < MaxRank * (MaxTime + 1)
    <2>1. Cardinality(keys \cup {k}) = Cardinality(keys) + 1
      BY <1>3, FS_AddElement
    <2>2. keys \cup {k} \in SUBSET Keys
      OBVIOUS
    <2>3. Cardinality(keys \cup {k}) <= Cardinality(Keys) /\ Cardinality(Keys) \in Nat
      BY <2>2, KeysFinite, FS_Subset, FS_CardinalityType
    <2>4. MaxRank * (MaxTime + 1) \in Int
      BY FeedsAssumption, RequestsAssumption
    <2> QED BY <1>3, <2>1, <2>3, <2>4, KeysFinite
  <1> QED BY <1>1, <1>2, <1>3, <1>4

-----------------------------------------------------------------------------
(* What a step of send_message is to the reader.                           *)
Stutters == UNCHANGED P!vars

LEMMA StutterStep == Inbox' = Inbox /\ now' = now /\ UNCHANGED reader => Stutters
  BY DEF Stutters, P!vars, P!feed, P!client, P!scan, reader

LEMMA WriteInbox ==
    ASSUME TypeOK, NEW r \in Requests, Write(r)
    PROVE  Inbox' = IF pc[r] = "mail" /\ copy[r] = 1
                    THEN Inbox \cup {Filed(CommandOf[r], created[r])} ELSE Inbox
  <1>1. CASE pc[r] # "mail"
    BY <1>1 DEF Write, Store, Sending, Inbox
  <1>2. CASE pc[r] = "mail"
    <2>1. mail' = mail \cup {[msg |-> CommandOf[r], copy |-> copy[r], at |-> created[r]]}
      BY <1>2 DEF Write, Store, Sending
    <2>2. PICK new : new = [msg |-> CommandOf[r], copy |-> copy[r], at |-> created[r]]
      OBVIOUS
    <2>3. Filed(CommandOf[r], created[r]) = Filed(new.msg, new.at) /\ new.copy = copy[r]
      BY <2>2
    <2>4. {x \in mail' : x.copy = 1} =
            {x \in mail : x.copy = 1} \cup (IF copy[r] = 1 THEN {new} ELSE {})
      BY <2>1, <2>2, <2>3
    <2> QED BY <1>2, <2>3, <2>4 DEF Inbox, Filed
  <1> QED BY <1>1, <1>2

LEMMA WriteFiles ==
    ASSUME Writers, NEW r \in Requests, Write(r), UNCHANGED reader
    PROVE  [P!Next]_P!vars
  <1>0. TypeOK /\ now' = now
    BY DEF Writers, Full, Inv, Write
  <1>1. CASE Inbox' = Inbox
    BY <1>0, <1>1, StutterStep DEF Stutters
  <1>2. CASE Inbox' # Inbox
    <2>1. PICK ref : ref = Filed(CommandOf[r], created[r])
      OBVIOUS
    <2>2. ref \notin Inbox /\ Inbox' = Inbox \cup {ref}
      BY <1>0, <1>2, <2>1, WriteInbox
    <2>3. created[r] \in Times /\ created[r] <= now /\ CommandOf[r] \in Commands
      BY <1>0, Constants DEF TypeOK, Writers, Timely
    <2>4. ref \in Keys /\ ref.window <= now
      BY <2>1, <2>3, FiledKeys
    <2>5. Cardinality(Inbox) < MaxRank * (MaxTime + 1)
      BY <1>0, <2>2, <2>4, InboxKeys
    <2>6. P!Insert(ref)
      BY <1>0, <2>2, <2>4, <2>5, SameCardinality
         DEF P!Insert, P!client, P!scan, reader
    <2>7. ref \in P!References
      BY <2>4 DEF Keys, Times, P!References
    <2> QED BY <2>6, <2>7 DEF P!Next
  <1> QED BY <1>1, <1>2

LEMMA WriterStep ==
    ASSUME Writers, [Next]_vars, UNCHANGED reader
    PROVE  [P!Next]_P!vars
  <1>1. CASE \E r \in Requests : Write(r)
    BY <1>1, WriteFiles
  <1>2. CASE Tick
    <2>1. Inbox' = Inbox
      BY <1>2 DEF Tick, objects, Inbox
    <2>2. P!Tick
      BY <1>2, <2>1 DEF Tick, P!Tick, P!feed, P!client, P!scan, reader
    <2> QED BY <2>2 DEF P!Next
  <1>3. CASE UNCHANGED <<now, mail>>
    <2>1. Inbox' = Inbox
      BY <1>3 DEF Inbox
    <2> QED BY <1>3, <2>1, StutterStep DEF Stutters
  <1> QED BY <1>1, <1>2, <1>3
          DEF Next, Handler, LockCommand, Resolve, ResolveFails, Bind, Adopt, Replay,
              MetadataExists, HeadMiss, Complete, Stop, AnswerLost, DropSending, LandLate, Finished,
              objects, vars

LEMMA ReaderStep == Call \/ Scan => P!Next
  BY DEF Call, Scan, P!Next, P!Reader

(* To its reader send_message is the writer of Paging, through retries and *)
(* stops: it files one reference at a time, under its operation's minute.  *)
THEOREM SendersAreWriters == FeedsSpec => ImplementsPaging
  <1>1. FeedsInit => P!Init /\ Init
    BY DEF FeedsInit
  <1>2. [FeedsNext]_<<vars, reader>> => [Next]_vars
    BY DEF FeedsNext, Call, Scan
  <1>3. Writers /\ [FeedsNext]_<<vars, reader>> => [P!Next]_P!vars
    <2> SUFFICES ASSUME Writers, [FeedsNext]_<<vars, reader>> PROVE [P!Next]_P!vars
      OBVIOUS
    <2>1. CASE [Next]_vars /\ UNCHANGED reader
      BY <2>1, WriterStep
    <2>2. CASE Call \/ Scan
      BY <2>2, ReaderStep
    <2> QED BY <2>1, <2>2 DEF FeedsNext
  <1> QED BY <1>1, <1>2, <1>3, WritersAlways, PTL
          DEF FeedsSpec, Spec, ImplementsPaging, P!Spec

-----------------------------------------------------------------------------
(* What is due to the reader: a message acknowledged when it began is among *)
(* the references it may count on.                                         *)
DueOwed == \A c \in due : c \in done /\ Filed(c, bound[c].at) \in owed

LEMMA MailAtBound ==
    ASSUME Writers, NEW m \in mail
    PROVE  m.msg \in Commands /\ bound[m.msg] # None /\ m.at = bound[m.msg].at
  <1>1. PICK b \in body : b.msg = m.msg /\ b.at = m.at
    BY DEF Writers, Full, Inv, ReferencesResolve, Readable
  <1> QED BY <1>1 DEF Writers, Full, Inv, TypeOK, BodiesPlaced

LEMMA DoneFiled ==
    ASSUME Writers, NEW c \in done
    PROVE  c \in Commands /\ bound[c] # None /\ Filed(c, bound[c].at) \in Inbox
  <1>1. c \in Commands /\ 1 \in 0..Recipients[c]
    BY RequestsAssumption DEF Writers, Full, Inv, TypeOK
  <1>2. PICK m \in mail : m.msg = c /\ m.copy = 1
    BY <1>1 DEF Writers, Full, Acknowledged, HasCopy
  <1>3. bound[c] # None /\ m.at = bound[c].at
    BY <1>2, MailAtBound
  <1> QED BY <1>1, <1>2, <1>3 DEF Inbox

LEMMA BoundStays ==
    ASSUME TypeOK, [Next]_vars
    PROVE  done \subseteq done' /\ \A c \in Commands : bound[c] # None => bound'[c] = bound[c]
  <1>1. ASSUME NEW r \in Requests, Bind(r)
        PROVE  done' = done /\ \A c \in Commands : bound[c] # None => bound'[c] = bound[c]
    BY <1>1 DEF Bind, TypeOK
  <1>2. CASE UNCHANGED bound /\ done \subseteq done'
    BY <1>2
  <1> QED BY <1>1, <1>2
          DEF Next, Handler, LockCommand, Resolve, ResolveFails, Adopt, Replay, MetadataExists,
              HeadMiss, Write, Complete, Stop, AnswerLost, DropSending, LandLate, Tick, Finished, vars

LEMMA DueNext ==
    ASSUME Writers, DueOwed, [FeedsNext]_<<vars, reader>>
    PROVE  DueOwed'
  <1>1. CASE [Next]_vars /\ UNCHANGED reader
    <2>1. UNCHANGED <<due, owed>>
      BY <1>1 DEF reader
    <2>2. ASSUME NEW c \in due PROVE c \in done' /\ bound'[c] = bound[c]
      BY <1>1, BoundStays, DoneFiled DEF DueOwed, Writers, Full, Inv
    <2> QED BY <2>1, <2>2 DEF DueOwed, Filed
  <1>2. CASE Call
    <2>1. UNCHANGED <<bound, done>>
      BY <1>2 DEF Call, vars
    <2>2. CASE cursor = NoCursor
      <3>1. due' = done /\ owed' = Inbox
        BY <1>2, <2>2 DEF Call, P!Ask
      <3> QED BY <2>1, <3>1, DoneFiled DEF DueOwed, Filed
    <2>3. CASE cursor # NoCursor
      <3>1. UNCHANGED <<due, owed>>
        BY <1>2, <2>3 DEF Call, P!Ask
      <3> QED BY <2>1, <3>1 DEF DueOwed, Filed
    <2> QED BY <2>2, <2>3
  <1>3. CASE Scan
    <2>1. UNCHANGED <<bound, done, due>> /\ owed \subseteq owed'
      BY <1>3
         DEF Scan, vars, P!StartList, P!FillPage, P!PassWindow, P!LastPage, P!client
    <2> QED BY <2>1 DEF DueOwed, Filed
  <1> QED BY <1>1, <1>2, <1>3 DEF FeedsNext

LEMMA DueAlways == FeedsSpec => []DueOwed
  <1>1. FeedsInit => DueOwed /\ Init
    BY DEF FeedsInit, DueOwed
  <1>2. [FeedsNext]_<<vars, reader>> => [Next]_vars
    BY DEF FeedsNext, Call, Scan
  <1> QED BY <1>1, <1>2, DueNext, WritersAlways, PTL DEF FeedsSpec, Spec

(* The reference of a message that is shown, and the message of a key.     *)
LEMMA ShownKeys ==
    ASSUME Writers, NEW b \in Shown
    PROVE  /\ b.msg \in Commands /\ b.at \in Times /\ b.at = bound[b.msg].at
           /\ Filed(b.msg, b.at) \in seen \cup page
  BY DEF Shown, Writers, Full, Inv, TypeOK, BodiesPlaced

LEMMA KeyShown ==
    ASSUME Writers, seen \cup page \subseteq Inbox, NEW k \in seen \cup page
    PROVE  \E b \in Shown : Filed(b.msg, b.at) = k
  <1>1. PICK m \in mail : Filed(m.msg, m.at) = k
    BY DEF Inbox
  <1>2. PICK b \in body : b.msg = m.msg /\ b.at = m.at
    BY DEF Writers, Full, Inv, ReferencesResolve, Readable
  <1> QED BY <1>1, <1>2 DEF Shown

LEMMA OneMessagePerKey ==
    ASSUME Writers, seen \cup page \subseteq Inbox
    PROVE  Cardinality({b.msg : b \in Shown}) = Cardinality(seen \cup page)
  <1>1. PICK given : given = seen \cup page
    OBVIOUS
  <1>2. PICK messages : messages = {b.msg : b \in Shown}
    OBVIOUS
  <1>3. IsFiniteSet(given)
    <2>1. PICK inbox : inbox = Inbox /\ IsFiniteSet(inbox)
      BY InboxKeys DEF Writers, Full, Inv
    <2> QED BY <1>1, <2>1, FS_Subset
  <1>4. PICK f : f = [c \in messages |-> Filed(c, bound[c].at)]
    OBVIOUS
  <1>5. ASSUME NEW c \in messages
        PROVE  c \in Commands /\ bound[c].at \in Times /\ f[c] \in given
    BY <1>1, <1>2, <1>4, <1>5, ShownKeys
  <1>6. f \in Injection(messages, given)
    <2>1. f \in [messages -> given]
      BY <1>4, <1>5
    <2>2. ASSUME NEW c \in messages, NEW d \in messages, f[c] = f[d] PROVE c = d
      BY <1>4, <1>5, <2>2, FeedsAssumption DEF Filed
    <2> QED BY <2>1, <2>2 DEF Injection, IsInjective
  <1>7. f \in Surjection(messages, given)
    <2>1. ASSUME NEW k \in given PROVE \E c \in messages : f[c] = k
      <3>1. PICK b \in Shown : Filed(b.msg, b.at) = k
        BY <1>1, KeyShown
      <3> QED BY <1>2, <1>4, <3>1, ShownKeys
    <2> QED BY <1>6, <2>1 DEF Injection, Surjection
  <1> QED BY <1>1, <1>2, <1>3, <1>6, <1>7, FS_Injection

(* A message is in the inbox of its recipient exactly once, whatever       *)
(* became of the attempts to send it, and one acknowledged before the      *)
(* client began to read is shown when the scan is past its minute.         *)
THEOREM AcknowledgedAreShown == FeedsSpec => []AcknowledgedShown
  <1>1. ASSUME Writers, DueOwed, PP!TypeOK, PP!NothingSkipped
        PROVE  AcknowledgedShown
    <2>1. seen \cup page \subseteq Inbox
      BY <1>1 DEF PP!TypeOK
    <2>2. ASSUME cursor # NoCursor \/ scanning,
                 NEW c \in due, P!Passed(Filed(c, bound[c].at))
          PROVE  \E b \in Shown : b.msg = c
      <3>1. PP!Passed(Filed(c, bound[c].at))
        BY <2>2 DEF P!Passed, PP!Passed, P!Earlier, PP!Earlier
      <3>2. Filed(c, bound[c].at) \in seen \cup page
        BY <1>1, <2>2, <3>1 DEF DueOwed, PP!NothingSkipped
      <3>3. PICK b \in Shown : Filed(b.msg, b.at) = Filed(c, bound[c].at)
        BY <1>1, <2>1, <3>2, KeyShown
      <3>4. b.msg \in Commands /\ c \in Commands
        BY <1>1, ShownKeys DEF DueOwed, Writers, Full, Inv, TypeOK
      <3> QED BY <3>3, <3>4, FeedsAssumption DEF Filed
    <2> QED BY <1>1, <2>1, <2>2, OneMessagePerKey DEF AcknowledgedShown
  <1>2. [FeedsNext]_<<vars, reader>> => [Next]_vars
    BY DEF FeedsNext, Call, Scan
  <1>3. FeedsSpec => []Writers
    <2>1. FeedsInit => Init
      BY DEF FeedsInit
    <2> QED BY <1>2, <2>1, WritersAlways, PTL DEF FeedsSpec, Spec
  <1>4. FeedsSpec => []PP!TypeOK /\ []PP!NothingSkipped
    BY SendersAreWriters, SamePaging, PagingFits, PP!TypeCorrect, PP!NothingIsSkipped, PTL
       DEF ImplementsPaging
  <1> QED BY <1>1, <1>3, <1>4, DueAlways, PTL
===============================================================================
