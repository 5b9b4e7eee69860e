------------------------------ MODULE PagingProofs ------------------------------
(* Proofs about Paging, for both directions, every lookback, every page size  *)
(* and every history of writes.                                               *)
EXTENDS Paging, FiniteSetTheorems, TLAPS

(* What the lists of a well-typed state return. *)
Typed ==
    /\ TypeOK /\ IsFiniteSet(refs)
    /\ scanning => cursor # NoMore
    /\ listing => scanning /\ remaining > 0

(* A cursor that is accepted is the client's own. *)
LEMMA OwnCursor == ASSUME NEW c \in {cursor} \cup Foreign, Accepted(c) PROVE c = cursor
  BY PagingAssumption DEF Accepted

LEMMA PagesFinite ==
    ASSUME Typed
    PROVE  /\ IsFiniteSet(page) /\ Cardinality(page) \in Nat
           /\ IsFiniteSet(Behind) /\ Cardinality(Behind) \in Nat
  <1>1. page \in SUBSET refs /\ Behind \in SUBSET refs
    BY DEF Typed, TypeOK, Behind
  <1> QED BY <1>1, FS_Subset, FS_CardinalityType DEF Typed

LEMMA ListTyped ==
    ASSUME Typed, NEW walked \in Walks, NEW n, NEW listed \in ListPage(walked, n)
    PROVE  /\ listed \subseteq walked /\ walked \subseteq Behind /\ listed \subseteq refs
           /\ Cardinality(listed) \in Nat
           /\ \A r \in listed : r.rank \in Nat /\ r.window = window /\ r.rank > last
  <1>1. listed \in SUBSET Behind /\ Behind \in SUBSET refs
    BY DEF ListPage, Walks, Behind
  <1>2. IsFiniteSet(listed)
    BY <1>1, PagesFinite, FS_Subset
  <1> QED BY <1>1, <1>2, FS_CardinalityType
         DEF Typed, TypeOK, References, Behind, Walks, ListPage

LEMMA NextTyped == ASSUME NEW w \in Int PROVE NextWindow(w) \in Int /\ Earlier(w, NextWindow(w))
  BY PagingAssumption DEF NextWindow, Earlier

LEMMA ResumeTyped ==
    ASSUME Typed, NEW walked \in Walks, NEW n, NEW listed \in ListPage(walked, n), NEW r \in listed
    PROVE  Resume(walked, listed, r) \in Cursors
  <1>1. window \in Int /\ r.rank \in Nat /\ NextWindow(window) \in Int
    BY ListTyped, NextTyped DEF Typed, TypeOK
  <1> QED BY <1>1 DEF Resume, Cursors

LEMMA CursorFields ==
    /\ NoCursor \notin Cursors /\ NoMore \notin Cursors /\ NoCursor # NoMore
    /\ \A c \in Cursors : c.window \in Int /\ c.last \in Nat
  BY PagingAssumption DEF Cursors

(* A step that fills a page, spelled out. *)
LEMMA FillPageStep ==
    ASSUME Typed, FillPage
    PROVE  \E walked \in Walks :
           \E listed \in ListPage(walked, Lacking) : \E r \in listed :
            /\ \A q \in listed : q.rank <= r.rank
            /\ cursor' = Resume(walked, listed, r) /\ cursor' \in Cursors
            /\ page' = page \cup listed
            /\ window' = cursor'.window /\ last' = cursor'.last
            /\ listing' = FALSE /\ walk' = {}
            /\ UNCHANGED <<now, refs, torn, owed, seen, remaining, limit, failures>>
  BY ResumeTyped DEF FillPage, feed

LEMMA TypedInit == Init => Typed
  <1> SUFFICES ASSUME Init PROVE Typed
    OBVIOUS
  <1>1. IsFiniteSet(refs)
    BY FS_EmptySet DEF Init
  <1>2. TypeOK
    <2>1. 0 \in 0..MaxTime
      BY PagingAssumption
    <2>2. 0 \in 0..Lookback
      BY PagingAssumption
    <2>3. 1 \in 1..MaxPageSize
      BY PagingAssumption
    <2>4. 0 \in 0..MaxFailures
      BY PagingAssumption
    <2>5. scanning \in BOOLEAN /\ listing \in BOOLEAN
      BY DEF Init
    <2> QED BY <2>1, <2>2, <2>3, <2>4, <2>5 DEF Init, TypeOK
  <1> QED BY <1>1, <1>2 DEF Init, Typed

LEMMA TypedNext == Typed /\ [Next]_vars => Typed'
  <1> SUFFICES ASSUME Typed, [Next]_vars PROVE Typed'
    OBVIOUS
  <1> USE PagingAssumption DEF Typed, TypeOK, feed, client, scan
  <1>1. CASE Tick
    BY <1>1 DEF Tick
  <1>2. ASSUME NEW ref \in References, Insert(ref) PROVE Typed'
    BY <1>2, FS_AddElement DEF Insert
  <1>3. ASSUME NEW ref \in References, WriteAll(ref) PROVE Typed'
    BY <1>3 DEF WriteAll
  <1>4. ASSUME NEW asked \in Limits, NEW c \in {cursor} \cup Foreign, Ask(asked, c)
        PROVE Typed'
    <2>0. c = cursor
      BY <1>4, OwnCursor DEF Ask
    <2>1. NormalLimit(asked) \in 1..MaxPageSize
      BY DEF NormalLimit, Least
    <2>2. window' \in Int /\ last' \in Nat
      BY <1>4, <2>0, CursorFields DEF Ask, FirstWindow
    <2>3. owed' \subseteq refs' /\ seen' \subseteq refs'
      BY <1>4 DEF Ask, FirstWindow
    <2>4. remaining' \in 0..Lookback
      BY <1>4 DEF Ask
    <2> QED BY <1>4, <2>0, <2>1, <2>2, <2>3, <2>4 DEF Ask
  <1>5. CASE StartList
    BY <1>5 DEF StartList, Looking, Behind
  <1>6. CASE FillPage
    <2>0. PICK walked \in Walks :
            \E listed \in ListPage(walked, Lacking) : \E r \in listed :
            /\ cursor' = Resume(walked, listed, r) /\ cursor' \in Cursors
            /\ page' = page \cup listed
            /\ window' = cursor'.window /\ last' = cursor'.last
            /\ listing' = FALSE /\ walk' = {}
            /\ UNCHANGED <<now, refs, torn, owed, seen, remaining, limit, failures>>
      BY <1>6, FillPageStep
    <2>1. PICK listed \in ListPage(walked, Lacking) : \E r \in listed :
            /\ cursor' = Resume(walked, listed, r) /\ cursor' \in Cursors
            /\ page' = page \cup listed
            /\ window' = cursor'.window /\ last' = cursor'.last
            /\ listing' = FALSE /\ walk' = {}
            /\ UNCHANGED <<now, refs, torn, owed, seen, remaining, limit, failures>>
      BY <2>0
    <2>2. listed \subseteq refs
      BY ListTyped
    <2> QED BY <1>6, <2>1, <2>2, CursorFields DEF FillPage
  <1>7. CASE PassWindow
    <2>0. PICK walked \in Walks :
            \E listed \in ListPage(walked, Lacking) : page' = page \cup listed
      BY <1>7 DEF PassWindow
    <2>1. PICK listed \in ListPage(walked, Lacking) : page' = page \cup listed
      BY <2>0
    <2>2. listed \subseteq refs /\ NextWindow(window) \in Int
      BY ListTyped, NextTyped
    <2>3. remaining' \in 0..Lookback
      BY <1>7 DEF PassWindow, Looking
    <2> QED BY <1>7, <2>1, <2>2, <2>3 DEF PassWindow
  <1>8. CASE LastPage
    <2>1. UNCHANGED <<now, refs, torn, owed, seen, page, window, last, walk>> /\ ~listing
      BY <1>8 DEF LastPage
    <2>2. cursor' = NoMore /\ scanning' = FALSE /\ listing' = FALSE
      BY <1>8, <2>1 DEF LastPage
    <2> QED BY <1>8, <2>1, <2>2 DEF LastPage
  <1>9. CASE Fail \/ FailTorn
    <2>1. GiveUp /\ scanning
      BY <1>9 DEF Fail, FailTorn, Looking
    <2>2. cursor # NoCursor => cursor \in Cursors
      BY <2>1
    <2>3. window' \in Int /\ last' \in Nat
      BY <2>1, <2>2, CursorFields DEF GiveUp
    <2>4. failures' \in 0..MaxFailures
      BY <1>9 DEF Fail, FailTorn
    <2>5. scanning' \in BOOLEAN /\ page' \subseteq refs'
      BY <2>1 DEF GiveUp
    <2> QED BY <2>1, <2>3, <2>4, <2>5 DEF GiveUp
  <1>10. CASE UNCHANGED vars
    BY <1>10 DEF vars
  <1> QED BY <1>1, <1>2, <1>3, <1>4, <1>5, <1>6, <1>7, <1>8, <1>9, <1>10
        DEF Next, Reader, Done

LEMMA AlwaysTyped == Spec => []Typed
  BY TypedInit, TypedNext, PTL DEF Spec

(* Every variable of the reader and of its feed keeps its type. *)
THEOREM TypeCorrect == Spec => []TypeOK
  BY AlwaysTyped, PTL DEF Typed

-----------------------------------------------------------------------------
(* Every reference given so far lies behind the scan, and the references   *)
(* of the client's earlier pages lie behind its cursor.                    *)
PassedAt(r, w, k) == Earlier(r.window, w) \/ (r.window = w /\ r.rank <= k)

GivenIsPassed ==
    /\ cursor = NoCursor => seen = {} /\ (~scanning => page = {})
    /\ \A r \in seen \cup page : Passed(r)
    /\ cursor \in Cursors /\ scanning =>
            \A r \in seen : PassedAt(r, cursor.window, cursor.last)
    /\ cursor \in Cursors /\ ~scanning => window = cursor.window /\ last = cursor.last

(* What the cursor has passed, the scan that began there has passed. *)
CursorIsPassed ==
    cursor \in Cursors /\ scanning =>
        \A r \in References : PassedAt(r, cursor.window, cursor.last) => Passed(r)

InOrder == Typed /\ GivenIsPassed /\ CursorIsPassed /\ PagesInOrder

(* The geometry of windows and ranks, in either direction. *)
LEMMA Onward ==
    ASSUME NEW r \in References, NEW w \in Int, NEW k \in Nat
    PROVE  /\ PassedAt(r, w, k) => PassedAt(r, NextWindow(w), 0)
           /\ r.window = w => PassedAt(r, NextWindow(w), 0)
           /\ PassedAt(r, NextWindow(w), 0) => Earlier(r.window, w) \/ r.window = w
  BY PagingAssumption DEF References, PassedAt, NextWindow, Earlier

LEMMA Ahead ==
    ASSUME Typed, NEW r \in References, Passed(r), NEW q \in Behind
    PROVE  Before(r, q)
  BY DEF Typed, TypeOK, References, Passed, Behind, Before, Earlier

LEMMA RefsTyped ==
    ASSUME Typed
    PROVE  /\ refs \subseteq References /\ seen \subseteq References
           /\ page \subseteq References /\ owed \subseteq References
           /\ window \in Int /\ last \in Nat
  BY DEF Typed, TypeOK

LEMMA PassedIsPassedAt == \A r : Passed(r) <=> PassedAt(r, window, last)
  BY DEF Passed, PassedAt

(* Where a full page leaves the scan, all of it is passed. *)
LEMMA ResumePasses ==
    ASSUME Typed, NEW walked \in Walks, NEW n, NEW listed \in ListPage(walked, n), NEW r \in listed,
           \A q \in listed : q.rank <= r.rank,
           NEW c, c = Resume(walked, listed, r)
    PROVE  /\ \A q \in listed : PassedAt(q, c.window, c.last)
           /\ \A q \in References : Passed(q) => PassedAt(q, c.window, c.last)
  <1>0. /\ listed \subseteq References /\ window \in Int /\ last \in Nat
        /\ \A q \in listed : q.rank \in Nat /\ q.window = window /\ q.rank > last
    BY ListTyped, RefsTyped
  <1>1. CASE listed # walked
    <2>1. c.window = window /\ c.last = r.rank
      BY <1>1 DEF Resume
    <2> QED BY <1>0, <2>1 DEF PassedAt, Passed, References
  <1>2. CASE listed = walked
    <2>1. c.window = NextWindow(window) /\ c.last = 0
      BY <1>2 DEF Resume
    <2> QED BY <1>0, <2>1, Onward, PassedIsPassedAt
  <1> QED BY <1>1, <1>2

LEMMA InOrderInit == Init => InOrder
  BY TypedInit, CursorFields DEF Init, InOrder, GivenIsPassed, CursorIsPassed, PagesInOrder

LEMMA InOrderNext == InOrder /\ [Next]_vars => InOrder'
  <1> SUFFICES ASSUME InOrder, [Next]_vars PROVE InOrder'
    OBVIOUS
  <1>0. Typed /\ Typed' /\ GivenIsPassed /\ CursorIsPassed /\ PagesInOrder
    BY TypedNext DEF InOrder
  <1> SUFFICES GivenIsPassed' /\ CursorIsPassed' /\ PagesInOrder'
    BY <1>0 DEF InOrder
  <1>1. ASSUME UNCHANGED <<cursor, seen, page, scanning, window, last>>
        PROVE GivenIsPassed' /\ CursorIsPassed' /\ PagesInOrder'
    BY <1>0, <1>1 DEF GivenIsPassed, CursorIsPassed, PagesInOrder, Passed, PassedAt, Before
  <1>2. ASSUME NEW asked \in Limits, NEW c \in {cursor} \cup Foreign, Ask(asked, c)
        PROVE GivenIsPassed' /\ CursorIsPassed' /\ PagesInOrder'
    <2>0. c = cursor
      BY <1>2, OwnCursor DEF Ask
    <2>1. page' = {} /\ seen' = seen \cup page /\ scanning' /\ ~scanning /\ cursor' = cursor
      BY <1>2 DEF Ask
    <2>2. CASE cursor = NoCursor
      <3>1. seen' = {}
        BY <1>0, <2>1, <2>2 DEF GivenIsPassed
      <3> QED BY <2>1, <2>2, <3>1, CursorFields DEF GivenIsPassed, CursorIsPassed, PagesInOrder
    <2>3. CASE cursor # NoCursor
      <3>1. cursor \in Cursors /\ window' = cursor.window /\ last' = cursor.last
        BY <1>0, <1>2, <2>0, <2>1, <2>3 DEF Ask, Typed, TypeOK
      <3>2. window = cursor.window /\ last = cursor.last
        BY <1>0, <2>1, <3>1 DEF GivenIsPassed
      <3>3. \A r \in seen' : PassedAt(r, cursor'.window, cursor'.last) /\ Passed(r)'
        BY <1>0, <2>1, <3>1, <3>2, PassedIsPassedAt DEF GivenIsPassed, Passed, PassedAt
      <3>4. CursorIsPassed'
        BY <2>1, <3>1 DEF CursorIsPassed, Passed, PassedAt
      <3> QED BY <2>1, <2>3, <3>1, <3>3, <3>4 DEF GivenIsPassed, PagesInOrder
    <2> QED BY <2>2, <2>3
  <1>3. CASE FillPage
    <2>0. PICK walked \in Walks :
            \E listed \in ListPage(walked, Lacking) : \E r \in listed :
            /\ \A q \in listed : q.rank <= r.rank
            /\ cursor' = Resume(walked, listed, r) /\ cursor' \in Cursors
            /\ page' = page \cup listed
            /\ window' = cursor'.window /\ last' = cursor'.last
            /\ listing' = FALSE /\ walk' = {}
            /\ UNCHANGED <<now, refs, torn, owed, seen, remaining, limit, failures>>
      BY <1>0, <1>3, FillPageStep
    <2>1. PICK listed \in ListPage(walked, Lacking) : \E r \in listed :
            /\ \A q \in listed : q.rank <= r.rank
            /\ cursor' = Resume(walked, listed, r) /\ cursor' \in Cursors
            /\ page' = page \cup listed
            /\ window' = cursor'.window /\ last' = cursor'.last
            /\ listing' = FALSE /\ walk' = {}
            /\ UNCHANGED <<now, refs, torn, owed, seen, remaining, limit, failures>>
      BY <2>0
    <2>2. /\ \A q \in listed : PassedAt(q, window', last')
          /\ \A q \in References : Passed(q) => PassedAt(q, window', last')
      BY <1>0, <2>1, ResumePasses
    <2>3. \A q \in seen' \cup page' : Passed(q)'
      BY <1>0, <2>1, <2>2, RefsTyped DEF GivenIsPassed, Passed, PassedAt
    <2>4. \A q \in seen, r \in listed : Before(q, r)
      BY <1>0, ListTyped, RefsTyped, Ahead DEF GivenIsPassed
    <2>5. PagesInOrder'
      BY <1>0, <2>1, <2>4 DEF PagesInOrder, Before
    <2>6. ~scanning'
      BY <1>3 DEF FillPage
    <2> QED BY <2>1, <2>3, <2>5, <2>6, CursorFields DEF GivenIsPassed, CursorIsPassed
  <1>4. CASE PassWindow
    <2>0. PICK walked \in Walks :
            \E listed \in ListPage(walked, Lacking) : page' = page \cup listed
      BY <1>4 DEF PassWindow
    <2>1. PICK listed \in ListPage(walked, Lacking) : page' = page \cup listed
      BY <2>0
    <2>2. /\ window' = NextWindow(window) /\ last' = 0 /\ scanning
          /\ UNCHANGED <<refs, owed, cursor, seen, scanning>>
      BY <1>4 DEF PassWindow, Looking, feed, client
    <2>3. \A q \in listed : q \in References /\ q.window = window
      BY <1>0, ListTyped, RefsTyped
    <2>4. \A q \in seen' \cup page' : PassedAt(q, window', last')
      BY <1>0, <2>1, <2>2, <2>3, RefsTyped, Onward, PassedIsPassedAt DEF GivenIsPassed
    <2>5. \A q \in seen, r \in listed : Before(q, r)
      BY <1>0, ListTyped, RefsTyped, Ahead DEF GivenIsPassed
    <2>6. PagesInOrder'
      BY <1>0, <2>1, <2>2, <2>5 DEF PagesInOrder, Before
    <2>7. \A q \in seen' \cup page' : Passed(q)'
      BY <2>4 DEF Passed, PassedAt
    <2>8. CursorIsPassed'
      BY <1>0, <2>2, Onward, PassedIsPassedAt, RefsTyped DEF CursorIsPassed, Passed, PassedAt
    <2> QED BY <1>0, <2>2, <2>6, <2>7, <2>8 DEF GivenIsPassed, PassedAt
  <1>5. CASE LastPage
    <2>1. UNCHANGED <<seen, page, window, last>> /\ cursor' = NoMore
      BY <1>5 DEF LastPage
    <2> QED BY <1>0, <2>1, CursorFields
            DEF GivenIsPassed, CursorIsPassed, PagesInOrder, Passed, Before
  <1>6. CASE Fail \/ FailTorn
    <2>0. GiveUp /\ scanning
      BY <1>6 DEF Fail, FailTorn, Looking
    <2>1. page' = {} /\ seen' = seen /\ cursor' = cursor /\ ~scanning' /\ scanning
      BY <2>0 DEF GiveUp, client
    <2>2. CASE cursor = NoCursor
      <3>1. seen = {}
        BY <1>0, <2>2 DEF GivenIsPassed
      <3> QED BY <2>1, <2>2, <3>1, CursorFields DEF GivenIsPassed, CursorIsPassed, PagesInOrder
    <2>3. CASE cursor # NoCursor
      <3>1. cursor \in Cursors /\ window' = cursor.window /\ last' = cursor.last
        BY <1>0, <2>0, <2>1, <2>3 DEF GiveUp, Typed, TypeOK
      <3> QED BY <1>0, <2>1, <2>3, <3>1
              DEF GivenIsPassed, CursorIsPassed, PagesInOrder, Passed, PassedAt
    <2> QED BY <2>2, <2>3
  <1> QED BY <1>1, <1>2, <1>3, <1>4, <1>5, <1>6
        DEF Next, Reader, Done, Tick, Insert, WriteAll, StartList, client, scan, vars

(* Pages follow each other in the order of the feed and nothing is given   *)
(* twice, whatever is written meanwhile and whatever the adapter returns   *)
(* at once.                                                                *)
THEOREM PagesAlwaysInOrder == Spec => []PagesInOrder
  BY InOrderInit, InOrderNext, PTL DEF Spec, InOrder

-----------------------------------------------------------------------------
(* Nothing is skipped, if the adapter can fill a page with one list.       *)
ListsSuffice == StoreCap >= MaxPageSize

PassedIsGiven ==
    /\ \A r \in refs : r.window <= now
    /\ NothingSkipped
    /\ cursor \in Cursors /\ scanning =>
            \A r \in owed : PassedAt(r, cursor.window, cursor.last) => r \in seen

(* While a window is listed, all that is owed of it is on the walk. *)
WalkHolds == listing => \A r \in owed : r \in Behind => r \in walk

Complete == InOrder /\ PassedIsGiven /\ WalkHolds

LEMMA OwedIsWalked ==
    ASSUME WalkHolds, listing, NEW walked \in Walks, NEW q \in owed, q \in Behind
    PROVE  q \in walked
  BY DEF WalkHolds, Walks

(* A list that does not fill the page holds all the window has left. *)
LEMMA ShortListIsAll ==
    ASSUME ListsSuffice, Typed, NEW walked \in Walks,
           NEW listed \in ListPage(walked, Lacking), Cardinality(listed) < Lacking
    PROVE  listed = walked
  <1>1. /\ listed \in SUBSET walked /\ walked \in SUBSET Behind
        /\ Cardinality(listed) = Least(Least(Lacking, StoreCap), Cardinality(walked))
    BY DEF ListPage, Walks
  <1>2. /\ limit \in 1..MaxPageSize /\ Cardinality(page) \in Nat
        /\ IsFiniteSet(walked) /\ Cardinality(walked) \in Nat
        /\ MaxPageSize \in Nat /\ StoreCap \in Nat
    BY <1>1, PagesFinite, PagingAssumption, FS_Subset, FS_CardinalityType DEF Typed, TypeOK
  <1>3. Lacking \in Int /\ Lacking <= StoreCap
    BY <1>2 DEF Lacking, ListsSuffice
  <1>4. Cardinality(listed) = Cardinality(walked)
    BY <1>1, <1>2, <1>3 DEF Least
  <1> QED BY <1>1, <1>2, <1>4, FS_Subset

(* What the scan passes by leaving a window was passed before or is listed. *)
LEMMA NextPasses ==
    ASSUME Typed, NEW q \in refs, PassedAt(q, NextWindow(window), 0)
    PROVE  Passed(q) \/ q \in Behind
  <1>1. q \in References /\ window \in Int /\ last \in Nat
    BY RefsTyped
  <1>2. Earlier(q.window, window) \/ q.window = window
    BY <1>1, Onward
  <1> QED BY <1>1, <1>2 DEF Passed, Behind, References

LEMMA ResumePassesOnly ==
    ASSUME Typed, NEW walked \in Walks, NEW n, NEW listed \in ListPage(walked, n), NEW r \in listed,
           NEW c, c = Resume(walked, listed, r),
           WalkHolds, listing, NEW q \in owed, PassedAt(q, c.window, c.last)
    PROVE  Passed(q) \/ q \in listed
  <1>0. /\ q \in References /\ window \in Int /\ last \in Nat
        /\ r.rank \in Nat /\ r.window = window
        /\ \A x \in listed, y \in walked \ listed : x.rank < y.rank
        /\ q \in refs
    BY ListTyped, RefsTyped DEF ListPage, Typed, TypeOK
  <1>1. CASE listed # walked
    <2>1. c.window = window /\ c.last = r.rank
      BY <1>1 DEF Resume
    <2>2. Earlier(q.window, window) \/ (q.window = window /\ q.rank <= r.rank)
      BY <2>1 DEF PassedAt
    <2>3. ASSUME q \in Behind, q \notin listed PROVE FALSE
      <3>1. r.rank < q.rank /\ q.window = window
        BY <1>0, <2>3, OwedIsWalked DEF Behind
      <3> QED BY <1>0, <2>2, <3>1 DEF Earlier, References
    <2> QED BY <1>0, <2>2, <2>3 DEF Passed, Behind, References
  <1>2. CASE listed = walked
    <2>1. c.window = NextWindow(window) /\ c.last = 0
      BY <1>2 DEF Resume
    <2> QED BY <1>0, <1>2, <2>1, NextPasses, OwedIsWalked
  <1> QED BY <1>1, <1>2

LEMMA CompleteInit == Init => Complete
  BY InOrderInit, CursorFields
     DEF Init, InOrder, Complete, PassedIsGiven, WalkHolds, NothingSkipped

LEMMA CompleteNext == ASSUME ListsSuffice PROVE Complete /\ [Next]_vars => Complete'
  <1> SUFFICES ASSUME Complete, [Next]_vars PROVE PassedIsGiven' /\ WalkHolds'
    BY InOrderNext DEF Complete
  <1>0. Typed /\ GivenIsPassed /\ CursorIsPassed /\ PassedIsGiven /\ WalkHolds
    BY DEF Complete, InOrder
  <1>1. \A r \in refs : r \in References /\ r.window <= now
    BY <1>0, RefsTyped DEF PassedIsGiven
  <1>walk. WalkHolds'
    <2>1. CASE ~listing'
      BY <2>1 DEF WalkHolds
    <2>2. CASE StartList
      BY <2>2 DEF StartList, WalkHolds, Behind, feed
    <2>3. ASSUME NEW ref \in References, Insert(ref) PROVE WalkHolds'
      BY <1>0, <2>3 DEF Insert, WalkHolds, Behind, client, scan, Typed, TypeOK
    <2>4. CASE UNCHANGED <<refs, owed, window, last, listing, walk>>
      BY <1>0, <2>4 DEF WalkHolds, Behind
    <2>5. ASSUME NEW asked \in Limits, NEW c \in {cursor} \cup Foreign, Ask(asked, c)
          PROVE ~listing'
      BY <1>0, <2>5 DEF Ask, Typed, TypeOK
    <2>6. LastPage => UNCHANGED <<refs, owed, window, last, listing, walk>>
      BY DEF LastPage, feed
    <2>7. FillPage \/ PassWindow \/ Fail \/ FailTorn => ~listing'
      BY DEF FillPage, PassWindow, Fail, FailTorn, GiveUp
    <2> QED BY <2>1, <2>2, <2>3, <2>4, <2>5, <2>6, <2>7
            DEF Next, Reader, Done, Tick, WriteAll, feed, client, scan, vars
  <1> SUFFICES PassedIsGiven'
    BY <1>walk
  <1>2. CASE Tick \/ UNCHANGED vars \/ (\E ref \in References : WriteAll(ref))
    <2>1. UNCHANGED <<refs, client, scan>> /\ now <= now' /\ now \in Int /\ now' \in Int
      BY <1>0, <1>2 DEF Tick, WriteAll, feed, vars, Typed, TypeOK
    <2>2. \A r \in refs' : r.window <= now'
      BY <1>1, <2>1 DEF References
    <2> QED BY <1>0, <2>1, <2>2
            DEF PassedIsGiven, NothingSkipped, Passed, PassedAt, client, scan
  <1>3. ASSUME NEW ref \in References, Insert(ref) PROVE PassedIsGiven'
    BY <1>0, <1>3
       DEF Insert, PassedIsGiven, NothingSkipped, Passed, PassedAt, client, scan
  <1>4. ASSUME NEW asked \in Limits, NEW c \in {cursor} \cup Foreign, Ask(asked, c)
        PROVE PassedIsGiven'
    <2>0. c = cursor
      BY <1>4, OwnCursor DEF Ask
    <2>1. /\ page' = {} /\ seen' = seen \cup page /\ scanning' /\ ~scanning
          /\ UNCHANGED <<cursor, refs, now>>
      BY <1>4 DEF Ask, feed
    <2>2. CASE cursor = NoCursor
      <3>1. /\ window' = (IF NewestFirst THEN now ELSE 0) /\ last' = 0 /\ owed' = refs
        BY <1>4, <2>0, <2>2 DEF Ask, FirstWindow
      <3>2. now \in Int
        BY <1>0 DEF Typed, TypeOK
      <3>3. \A r \in owed' : ~Passed(r)'
        BY <1>1, <3>1, <3>2, PagingAssumption DEF Passed, Earlier, References
      <3> QED BY <1>1, <2>1, <2>2, <3>3, CursorFields DEF PassedIsGiven, NothingSkipped
    <2>3. CASE cursor # NoCursor
      <3>1. /\ cursor \in Cursors /\ window' = cursor.window /\ last' = cursor.last
            /\ owed' = owed
        BY <1>0, <1>4, <2>0, <2>1, <2>3 DEF Ask, Typed, TypeOK
      <3>2. window = cursor.window /\ last = cursor.last
        BY <1>0, <2>1, <3>1 DEF GivenIsPassed
      <3>3. \A r \in owed : Passed(r) => r \in seen \cup page
        BY <1>0, <2>3 DEF PassedIsGiven, NothingSkipped
      <3> QED BY <1>1, <2>1, <3>1, <3>2, <3>3
              DEF PassedIsGiven, NothingSkipped, Passed, PassedAt
    <2> QED BY <2>2, <2>3
  <1>5. CASE FillPage
    <2>0. PICK walked \in Walks :
            \E listed \in ListPage(walked, Lacking) : \E r \in listed :
            /\ \A q \in listed : q.rank <= r.rank
            /\ cursor' = Resume(walked, listed, r) /\ cursor' \in Cursors
            /\ page' = page \cup listed
            /\ window' = cursor'.window /\ last' = cursor'.last
            /\ listing' = FALSE /\ walk' = {}
            /\ UNCHANGED <<now, refs, torn, owed, seen, remaining, limit, failures>>
      BY <1>0, <1>5, FillPageStep
    <2>1. PICK listed \in ListPage(walked, Lacking) : \E r \in listed :
            /\ \A q \in listed : q.rank <= r.rank
            /\ cursor' = Resume(walked, listed, r) /\ cursor' \in Cursors
            /\ page' = page \cup listed
            /\ window' = cursor'.window /\ last' = cursor'.last
            /\ listing' = FALSE /\ walk' = {}
            /\ UNCHANGED <<now, refs, torn, owed, seen, remaining, limit, failures>>
      BY <2>0
    <2>2. scanning /\ ~scanning' /\ listing /\ owed \subseteq refs
      BY <1>0, <1>5 DEF FillPage, Looking, Typed, TypeOK
    <2>3. \A q \in owed : PassedAt(q, window', last') => Passed(q) \/ q \in listed
      BY <1>0, <2>1, <2>2, ResumePassesOnly
    <2>4. \A q \in owed : Passed(q)' => q \in seen' \cup page'
      BY <1>0, <2>1, <2>2, <2>3 DEF PassedIsGiven, NothingSkipped, Passed, PassedAt
    <2> QED BY <1>1, <2>1, <2>2, <2>4 DEF PassedIsGiven, NothingSkipped
  <1>6. CASE PassWindow
    <2>0. PICK walked \in Walks :
            \E listed \in ListPage(walked, Lacking) : page' = page \cup listed /\ Cardinality(listed) < Lacking
      BY <1>6 DEF PassWindow
    <2>1. PICK listed \in ListPage(walked, Lacking) : page' = page \cup listed /\ Cardinality(listed) < Lacking
      BY <2>0
    <2>2. /\ window' = NextWindow(window) /\ last' = 0 /\ scanning /\ listing
          /\ UNCHANGED <<now, refs, owed, cursor, seen, scanning>>
      BY <1>6 DEF PassWindow, Looking, feed, client
    <2>3. listed = walked /\ owed \subseteq refs
      BY <1>0, <2>1, ShortListIsAll DEF Typed, TypeOK
    <2>4. \A q \in owed : PassedAt(q, window', last') => Passed(q) \/ q \in listed
      BY <1>0, <2>2, <2>3, NextPasses, OwedIsWalked
    <2>5. \A q \in owed : Passed(q)' => q \in seen' \cup page'
      BY <1>0, <2>1, <2>2, <2>4 DEF PassedIsGiven, NothingSkipped, Passed, PassedAt
    <2> QED BY <1>0, <1>1, <2>2, <2>5 DEF PassedIsGiven, NothingSkipped, PassedAt
  <1>7. CASE LastPage
    <2>1. /\ UNCHANGED <<now, refs, owed, seen, page, window, last>>
          /\ cursor' = NoMore /\ scanning /\ ~scanning'
      BY <1>7 DEF LastPage, feed
    <2> QED BY <1>0, <2>1, CursorFields DEF PassedIsGiven, NothingSkipped, Passed
  <1>8. CASE Fail \/ FailTorn
    <2>0. GiveUp /\ scanning
      BY <1>8 DEF Fail, FailTorn, Looking
    <2>1. /\ UNCHANGED <<now, refs, owed, seen, cursor>>
          /\ scanning /\ ~scanning' /\ page' = {}
      BY <2>0 DEF GiveUp, feed, client
    <2>2. CASE cursor = NoCursor
      BY <1>0, <2>1, <2>2, CursorFields DEF PassedIsGiven, NothingSkipped
    <2>3. CASE cursor # NoCursor
      <3>1. cursor \in Cursors /\ window' = cursor.window /\ last' = cursor.last
        BY <1>0, <2>0, <2>1, <2>3 DEF GiveUp, Typed, TypeOK
      <3> QED BY <1>0, <2>1, <3>1 DEF PassedIsGiven, NothingSkipped, Passed, PassedAt
    <2> QED BY <2>2, <2>3
  <1>9. CASE StartList
    <2>1. /\ UNCHANGED <<now, refs, cursor, seen, page, scanning, window, last>>
          /\ owed' = owed \cup Behind /\ scanning
      BY <1>9 DEF StartList, Looking, feed
    <2>2. \A r \in Behind : ~Passed(r) /\ r \in References
      BY <1>0, RefsTyped DEF Passed, Behind, Earlier, References
    <2>3. cursor \in Cursors => \A r \in Behind : ~PassedAt(r, cursor.window, cursor.last)
      BY <1>0, <2>1, <2>2 DEF CursorIsPassed
    <2> QED BY <1>0, <2>1, <2>2, <2>3 DEF PassedIsGiven, NothingSkipped, Passed, PassedAt
  <1> QED BY <1>2, <1>3, <1>4, <1>5, <1>6, <1>7, <1>8, <1>9 DEF Next, Reader, Done

(* When one list of the adapter can fill a page, a scan never leaves       *)
(* behind a reference that was there when the client began to read, or     *)
(* when the list of its window began.                                      *)
THEOREM NothingIsSkipped == ASSUME ListsSuffice PROVE Spec => []NothingSkipped
  BY CompleteInit, CompleteNext, PTL DEF Spec, Complete, PassedIsGiven

=============================================================================
