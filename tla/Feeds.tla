---------------------------------- MODULE Feeds ----------------------------------
(***************************************************************************)
(* Messages on their way to a reader: send_message (Threads) files them    *)
(* while list_mailbox (Paging) pages through the inbox of the recipient    *)
(* they have in common, the first of every message, and follows each       *)
(* reference to its message.  The references Paging scans are those the    *)
(* handlers of Threads have put into the store so far.                     *)
(***************************************************************************)
EXTENDS Threads, Integers

CONSTANTS
    Rank,         \* [Commands -> 1..MaxRank], the order of the message ids in a minute
    MaxRank,      \* bound on the ranks
    PageSize,     \* what the client asks for
    Lookback,     \* read_lookback_minutes
    NoCursor, NoMore  \* before the first page, after the last one

ASSUME FeedsAssumption ==
    /\ MaxRank \in Nat /\ Rank \in [Commands -> 1..MaxRank]
    /\ \A c, d \in Commands : c # d => Rank[c] # Rank[d]
    /\ PageSize \in Nat \ {0} /\ Lookback \in Nat \ {0}
    /\ NoCursor # NoMore
    /\ {NoCursor, NoMore} \cap [feed : {"inbox"}, window : Int, last : Nat] = {}

VARIABLES
    due,       \* commands that were acknowledged when the client began to read
    owed, cursor, seen,    \* the client of Paging
    scanning, window, last, listing, walk, remaining, limit, page  \* its scan

reader == <<due, owed, cursor, seen, scanning, window, last, listing, walk, remaining,
            limit, page>>

(* mailbox_reference: a message's key in the inbox, by minute and id. *)
Filed(c, at) == [window |-> at, rank |-> Rank[c]]

(* The inbox of the first recipient. *)
Inbox == {Filed(m.msg, m.at) : m \in {x \in mail : x.copy = 1}}

P == INSTANCE Paging WITH
        refs <- Inbox, torn <- {}, failures <- 0,
        MaxRefs <- MaxRank * (MaxTime + 1), MaxFailures <- 0,
        NewestFirst <- TRUE, Limits <- {PageSize}, MaxPageSize <- PageSize,
        StoreCap <- PageSize, Files <- FALSE, Feed <- "inbox", Foreign <- {}

FeedsInit ==
    /\ Init
    /\ due = {} /\ P!Init

(* list_mailbox is called; with no cursor the client begins to read. *)
Call ==
    /\ UNCHANGED vars
    /\ P!Ask(PageSize, cursor)
    /\ due' = IF cursor = NoCursor THEN done ELSE due

Scan ==
    /\ UNCHANGED vars
    /\ P!StartList \/ P!FillPage \/ P!PassWindow \/ P!LastPage
    /\ UNCHANGED due

FeedsNext ==
    \/ Next /\ UNCHANGED reader
    \/ Call
    \/ Scan

FeedsSpec == FeedsInit /\ [][FeedsNext]_<<vars, reader>>

-----------------------------------------------------------------------------
(* The pages so far, as list_mailbox returns them: the messages behind     *)
(* their references. *)
Shown == {b \in body : Filed(b.msg, b.at) \in seen \cup page}

(* A message is in the inbox of its recipient exactly once, whatever       *)
(* became of the attempts to send it: every reference that is given to the *)
(* client leads to a message of its own, and a message acknowledged before *)
(* the client began to read is among them when the scan is past its        *)
(* minute (docs/ARCHITECTURE.md:188-190, :254-255).                        *)
AcknowledgedShown ==
    /\ Cardinality({b.msg : b \in Shown}) = Cardinality(seen \cup page)
    /\ cursor # NoCursor \/ scanning =>
        \A c \in due :
            P!Passed(Filed(c, bound[c].at)) => \E b \in Shown : b.msg = c

(* To its reader send_message is the writer of Paging, through retries and *)
(* stops: it adds one reference at a time, never takes one back and files  *)
(* none in a minute to come, which a reader of the newest minute would     *)
(* never see.  So what Paging promises holds for these writers.            *)
ImplementsPaging == P!Spec
=============================================================================
