---------------------------------- MODULE Paging ----------------------------------
(***************************************************************************)
(* Reading a mailbox or a thread page by page: scan_references,            *)
(* cursor_or_initial and normalize_limit (src/src/application.rs) with the *)
(* cursors of src/src/cursors.rs and the list of the object stores.        *)
(*                                                                         *)
(* References are filed under one prefix per minute, the window; inside a  *)
(* window the store lists them by key.  A reference is abstracted to its   *)
(* window and its rank among the keys of the window.  A client reads the   *)
(* first page without a cursor and every other one with the cursor of the  *)
(* page before, while references go on being written, some of them under   *)
(* an earlier minute, the creation time of a retried operation.            *)
(*                                                                         *)
(* On files a reference exists before its bytes do, and a list is the walk *)
(* of a directory others write to: it returns whatever was there when it   *)
(* began and any part of what came later.                                  *)
(***************************************************************************)
EXTENDS Integers, FiniteSets

CONSTANTS
    MaxTime,      \* bound on the clock
    MaxRank,      \* bound on the references of a window
    MaxRefs,      \* bound on the references of the feed
    NewestFirst,  \* the direction: TRUE for mailboxes, FALSE for threads
    Lookback,     \* read_lookback_minutes
    MaxPageSize,  \* max_page_size
    Limits,       \* limits clients ask for; 0 when they give none
    StoreCap,     \* the most objects one list call of the adapter returns
    Files,        \* is it the local file adapter
    Feed,         \* the kind and owner its cursors carry
    Foreign,      \* cursors of other feeds that clients send
    MaxFailures,  \* bound on the store calls that fail
    NoCursor, NoMore \* before the first page, after the last one

Cursors == [feed : {Feed}, window : Int, last : Nat]

ASSUME PagingAssumption ==
    /\ MaxTime \in Nat /\ MaxRank \in Nat /\ MaxRefs \in Nat /\ MaxFailures \in Nat
    /\ NewestFirst \in BOOLEAN
    /\ Lookback \in Nat \ {0} /\ MaxPageSize \in Nat \ {0} /\ StoreCap \in Nat \ {0}
    /\ Limits \subseteq Nat
    /\ Files \in BOOLEAN
    /\ NoCursor # NoMore /\ {NoCursor, NoMore} \cap Cursors = {}
    /\ NoCursor \notin Foreign /\ \A c \in Foreign : c.feed # Feed

VARIABLES
    now,        \* the clock
    refs,       \* references in the store
    torn,       \* those whose bytes are still to be written
    owed,       \* references the client may count on: those that were there when it
                \* began, or when the list of their window did
    cursor,     \* what the client holds
    scanning,   \* is a page being read
    window,     \* where the scan is: the window
    last,       \* ... and the rank it has read to there, 0 for none
    listing,    \* is the window being listed
    walk,       \* what was behind the scan when the list began
    remaining,  \* windows the call may still look into
    limit,      \* size of the page
    page,       \* references of the page that is read, or was read last
    seen,       \* references of the pages before it
    failures    \* store calls that failed

feed == <<refs, torn>>
client == <<owed, cursor, seen>>
scan == <<scanning, window, last, listing, walk, remaining, limit, page>>
vars == <<now, feed, client, scan, failures>>

References == [window : 0..MaxTime, rank : 1..MaxRank]

Init ==
    /\ now = 0
    /\ refs = {} /\ torn = {} /\ owed = {} /\ seen = {} /\ page = {}
    /\ cursor = NoCursor
    /\ scanning = FALSE /\ listing = FALSE /\ walk = {}
    /\ window = 0 /\ last = 0 /\ remaining = 0 /\ limit = 1
    /\ failures = 0

-----------------------------------------------------------------------------
(* Time and writers.                                                       *)

(* Utc::now, capped by MaxTime. *)
Tick ==
    /\ now < MaxTime
    /\ now' = now + 1
    /\ UNCHANGED <<feed, client, scan, failures>>

(* A message's reference is written under the minute of its operation; a   *)
(* file is created first, *)
Insert(ref) ==
    /\ ref \notin refs /\ ref.window <= now
    /\ Cardinality(refs) < MaxRefs
    /\ refs' = refs \cup {ref}
    /\ torn' = IF Files THEN torn \cup {ref} ELSE torn
    /\ UNCHANGED <<now, client, scan, failures>>

(* and then filled. *)
WriteAll(ref) ==
    /\ ref \in torn
    /\ torn' = torn \ {ref}
    /\ UNCHANGED <<now, refs, client, scan, failures>>

-----------------------------------------------------------------------------
(* The reader.                                                             *)

Least(m, n) == IF m < n THEN m ELSE n

MutLimitUnset(asked) == Least(asked, MaxPageSize) \* mutant: 0 is not replaced

(* normalize_limit *)
NormalLimit(asked) == IF asked = 0 THEN MaxPageSize ELSE Least(asked, MaxPageSize)

(* next_window *)
NextWindow(w) == IF NewestFirst THEN w - 1 ELSE w + 1

(* Without a cursor a mailbox is read from this minute, a thread from the  *)
(* one it was created in.                                                  *)
FirstWindow == IF NewestFirst THEN now ELSE 0

MutAnyCursor(c) == TRUE        \* mutant: whose cursor it is, is not compared

(* cursor_or_initial refuses a cursor of another kind or owner. *)
Accepted(c) == c # NoCursor => c.feed = Feed

(* A call of list_mailbox or list_thread with the cursor c. *)
Ask(asked, c) ==
    /\ ~scanning /\ cursor # NoMore
    /\ Accepted(c)
    /\ scanning' = TRUE
    /\ limit' = NormalLimit(asked)
    /\ remaining' = Lookback
    /\ seen' = seen \cup page
    /\ page' = {}
    /\ \/ /\ c = NoCursor
          /\ window' = FirstWindow
          /\ last' = 0
          /\ owed' = refs
       \/ /\ c # NoCursor
          /\ window' = c.window
          /\ last' = c.last
          /\ UNCHANGED owed
    /\ UNCHANGED <<now, feed, cursor, listing, walk, failures>>

Lacking == limit - Cardinality(page)
Looking == scanning /\ remaining > 0 /\ Lacking > 0

(* The keys of the window behind start_after. *)
Behind == {r \in refs : r.window = window /\ r.rank > last}

(* ObjectStore::list begins. *)
StartList ==
    /\ Looking /\ ~listing
    /\ listing' = TRUE
    /\ walk' = Behind
    /\ owed' = owed \cup Behind
    /\ UNCHANGED <<now, feed, cursor, seen, scanning, window, last, remaining, limit,
                   page, failures>>

(* What it finds: a bucket answers as of one moment, a walk may also come  *)
(* upon files created since. *)
Walks == {walked \in SUBSET Behind : walk \subseteq walked /\ (Files \/ walked = walk)}

(* ... and returns: the first n in key order, all when there are fewer; no *)
(* more than the adapter returns at once. *)
ListPage(walked, n) ==
    {listed \in SUBSET walked :
        /\ Cardinality(listed) = Least(Least(n, StoreCap), Cardinality(walked))
        /\ \A r \in listed, q \in walked \ listed : r.rank < q.rank}

MutRewind(walked, listed, r) == \* mutant: the cursor forgets the key it stopped at
    [feed |-> Feed, window |-> IF listed # walked THEN window ELSE NextWindow(window),
     last |-> 0]
MutPastWindow(walked, listed, r) == \* mutant: a full page always leaves its window
    [feed |-> Feed, window |-> NextWindow(window), last |-> 0]

(* The cursor after a full page that ends with r: behind r while the store *)
(* has more of this window. *)
Resume(walked, listed, r) ==
    IF listed # walked THEN [feed |-> Feed, window |-> window, last |-> r.rank]
    ELSE [feed |-> Feed, window |-> NextWindow(window), last |-> 0]

(* The list ends and its references are read, the step being the last of   *)
(* these reads: the page is full and goes to the client with a cursor,     *)
FillPage ==
    /\ Looking /\ listing
    /\ \E walked \in Walks : \E listed \in ListPage(walked, Lacking) :
        /\ listed \cap torn = {}
        /\ Cardinality(listed) >= Lacking
        /\ \E r \in listed :
            /\ \A q \in listed : q.rank <= r.rank
            /\ cursor' = Resume(walked, listed, r)
        /\ page' = page \cup listed
    /\ scanning' = FALSE
    /\ listing' = FALSE /\ walk' = {}
    /\ window' = cursor'.window /\ last' = cursor'.last
    /\ UNCHANGED <<now, feed, owed, seen, remaining, limit, failures>>

(* or it is not full and the scan goes on in the next window, whatever the *)
(* store said of this one's remaining keys. *)
PassWindow ==
    /\ Looking /\ listing
    /\ \E walked \in Walks : \E listed \in ListPage(walked, Lacking) :
        /\ listed \cap torn = {}
        /\ Cardinality(listed) < Lacking
        /\ page' = page \cup listed
    /\ window' = NextWindow(window)
    /\ last' = 0
    /\ listing' = FALSE /\ walk' = {}
    /\ remaining' = remaining - 1
    /\ UNCHANGED <<now, feed, client, scanning, limit, failures>>

(* The call has looked into all its windows: an empty cursor. *)
LastPage ==
    /\ scanning /\ remaining = 0
    /\ cursor' = NoMore
    /\ scanning' = FALSE
    /\ UNCHANGED <<now, feed, owed, seen, page, window, last, listing, walk, remaining,
                   limit, failures>>

(* The call fails: the client keeps its cursor and asks again. *)
GiveUp ==
    /\ page' = {}
    /\ scanning' = FALSE
    /\ listing' = FALSE /\ walk' = {}
    /\ IF cursor = NoCursor THEN UNCHANGED <<window, last>>
       ELSE window' = cursor.window /\ last' = cursor.last
    /\ UNCHANGED <<now, feed, client, remaining, limit>>

(* A list or a get fails, *)
Fail ==
    /\ scanning /\ failures < MaxFailures
    /\ failures' = failures + 1
    /\ GiveUp

(* or a listed reference cannot be decoded. *)
FailTorn ==
    /\ Looking /\ listing
    /\ \E walked \in Walks : \E listed \in ListPage(walked, Lacking) : listed \cap torn # {}
    /\ GiveUp
    /\ UNCHANGED failures

Done ==
    /\ cursor = NoMore
    /\ UNCHANGED vars

Reader ==
    \/ \E asked \in Limits, c \in {cursor} \cup Foreign : Ask(asked, c)
    \/ StartList \/ FillPage \/ PassWindow \/ LastPage \/ FailTorn

Next ==
    \/ Tick
    \/ \E ref \in References : Insert(ref) \/ WriteAll(ref)
    \/ Reader
    \/ Fail
    \/ Done

Spec == Init /\ [][Next]_vars

(* The client asks for the next page until there is none, the store        *)
(* answers, and whoever created a file lives to write it. *)
FairSpec ==
    /\ Spec
    /\ WF_vars(Reader)
    /\ \A ref \in References : WF_vars(WriteAll(ref))

-----------------------------------------------------------------------------
(* Every variable has its type. *)
TypeOK ==
    /\ now \in 0..MaxTime
    /\ refs \subseteq References /\ torn \subseteq refs /\ owed \subseteq refs
    /\ seen \subseteq refs /\ page \subseteq refs
    /\ cursor \in Cursors \cup {NoCursor, NoMore}
    /\ scanning \in BOOLEAN /\ listing \in BOOLEAN /\ walk \subseteq refs
    /\ window \in Int /\ last \in Nat
    /\ remaining \in 0..Lookback /\ limit \in 1..MaxPageSize
    /\ failures \in 0..MaxFailures

(* The order of the feed. *)
Earlier(w, v) == IF NewestFirst THEN w > v ELSE w < v
Before(r, q) == \/ Earlier(r.window, q.window)
                \/ r.window = q.window /\ r.rank < q.rank

(* Pages follow each other in the order of the feed: a page begins behind  *)
(* everything the client has been given, so nothing is given twice, while  *)
(* references are written before, behind and between what was read.        *)
PagesInOrder == \A r \in seen, q \in page : Before(r, q)

Passed(r) == Earlier(r.window, window) \/ (r.window = window /\ r.rank <= last)

(* A reference that was there when the client began, or when the list of   *)
(* its window did, is in one of the pages or in the present one as soon as *)
(* the scan is past it, through failures, concurrent writes and walks that *)
(* are no snapshots (docs/ARCHITECTURE.md:188-190, :217-218).              *)
NothingSkipped ==
    cursor # NoCursor \/ scanning => \A r \in owed : Passed(r) => r \in seen \cup page

(* A thread is read to its end: an empty cursor says that nothing is left, *)
(* for the lookback bounds newest-first reads (docs/BUILD.md:150).         *)
ThreadReadToTheEnd ==
    ~NewestFirst /\ cursor = NoMore => owed \subseteq seen \cup page

(* A client that follows its cursors comes to the last page. *)
ReadEnds == <>(cursor = NoMore)
=============================================================================
