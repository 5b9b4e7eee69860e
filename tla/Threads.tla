--------------------------------- MODULE Threads ---------------------------------
(***************************************************************************)
(* send_message (src/src/application.rs) with its thread: the parent is    *)
(* read to find the thread, the command is bound to an operation that      *)
(* fixes its creation time, then body, lookup, mailbox references, thread  *)
(* metadata and thread reference are created one by one; any attempt may   *)
(* stop between two of them and be retried at a later minute.  The write   *)
(* protocol around it (records, steps) is that of module Operations: Begin *)
(* binds or adopts the operation, Complete finishes it.  HEAD and PUT are  *)
(* steps of their own for the thread metadata, the one object that several *)
(* commands create; the attempts at every other object put the same bytes. *)
(*                                                                         *)
(* A message is named by its command, a thread by the id a client supplied *)
(* or by the command whose operation drew it.  Time is in minutes, the     *)
(* width of the windows references are filed under.  A process that dies   *)
(* stops its handlers, each by Stop; nothing else of it is modelled here.  *)
(***************************************************************************)
EXTENDS Naturals, FiniteSets

CONSTANTS
    Requests,      \* calls of send_message; a retry is another request of its command
    Commands,      \* send_message commands, one per idempotency key
    Supplied,      \* thread ids made up by clients
    Instances,     \* processes sharing the store
    CommandOf,     \* [Requests -> Commands]
    Instance,      \* [Requests -> Instances]
    Parent,        \* [Commands -> Commands \cup {None, Blank}], parentMessageId
    ByKey,         \* commands whose parentMessageId is the parent's object key
    ThreadId,      \* [Commands -> Supplied \cup {None}], threadId
    CreateThread,  \* commands with createThread
    Recipients,    \* [Commands -> 1..MaxRecipients], how many there are
    MaxRecipients, \* bound on the recipients of a message
    None,          \* an empty field, no object, no holder
    Blank,         \* a parentMessageId of white space only
    MaxTime,       \* bound on the clock
    AwaitParent,   \* clients reply only to messages whose sender had its answer
    AtomicCreate,  \* the adapter tests and creates in one call (local files), or HEADs first (B2)
    Late           \* requests whose PUT may still land after their handler was dropped

ASSUME RequestsAssumption ==
    /\ CommandOf \in [Requests -> Commands]
    /\ Instance \in [Requests -> Instances]
    /\ Parent \in [Commands -> Commands \cup {None, Blank}]
    /\ ThreadId \in [Commands -> Supplied \cup {None}]
    /\ ByKey \subseteq Commands /\ CreateThread \subseteq Commands
    /\ MaxRecipients \in Nat
    /\ Recipients \in [Commands -> 1..MaxRecipients]
    /\ MaxTime \in Nat /\ AwaitParent \in BOOLEAN
    /\ AtomicCreate \in BOOLEAN /\ Late \subseteq Requests

ASSUME NamesAssumption ==
    /\ None \notin Commands \cup Supplied \cup Requests \cup Instances
    /\ Blank \notin Commands /\ Blank # None
    /\ Supplied \cap Commands = {}
    /\ None \notin Nat \cup [at : Nat, drawn : BOOLEAN, ref : BOOLEAN]
    /\ None \notin [root : Commands, at : Nat, by : Instances \cup {None}]

Threads == Supplied \cup Commands

VARIABLES
    pc,        \* where the handler of each request is
    copy,      \* the mailbox reference it writes: 0 is sent, then one per recipient
    created,   \* created_at it works with
    thread,    \* thread_id it works with
    now,       \* the clock
    idemLock,  \* holder of each instance's idempotency lock of a command
    createLock, \* holder of each instance's non_atomic_create_lock
    bound,     \* each command's operation record: created_at, and whether it drew a
               \* threadId and a threadRefId
    done,      \* commands whose record is completed
    body,      \* message objects
    lookup,    \* creation time in the lookup object of each message
    mail,      \* mailbox references
    members,   \* thread references
    meta       \* metadata object of each thread; by is history: the process whose
               \* handler put it, None when the handler was gone

objects == <<body, lookup, mail, members, meta>>
locks == <<idemLock, createLock>>
vars == <<pc, copy, created, thread, now, locks, bound, done, objects>>

Final == {"ok", "failed"}
Writing == {"body", "lookup", "mail", "meta", "send", "ref"}

Init ==
    /\ pc = [r \in Requests |-> "lock"]
    /\ copy = [r \in Requests |-> 0]
    /\ created = [r \in Requests |-> 0]
    /\ thread = [r \in Requests |-> None]
    /\ now = 0
    /\ idemLock = [g \in Instances \X Commands |-> None]
    /\ createLock = [i \in Instances |-> None]
    /\ bound = [c \in Commands |-> None]
    /\ done = {}
    /\ body = {}
    /\ lookup = [c \in Commands |-> None]
    /\ mail = {}
    /\ members = {}
    /\ meta = [t \in Threads |-> None]

-----------------------------------------------------------------------------
Guard(r) == <<Instance[r], CommandOf[r]>>
Running(r) == pc[r] \notin Final \cup {"lock", "late"}
IsReply(c) == Parent[c] \in Commands

GoTo(r, next) == pc' = [pc EXCEPT ![r] = next]

Freed(lock, r) == [g \in DOMAIN lock |-> IF lock[g] = r THEN None ELSE lock[g]]

(* The handler ends; its guards are dropped with it. *)
End(r, answer) ==
    /\ GoTo(r, answer)
    /\ idemLock' = Freed(idemLock, r)
    /\ createLock' = Freed(createLock, r)

-----------------------------------------------------------------------------
(* lock_idempotency.  A message without a parent has the thread its client *)
(* asked for and takes the time before anything is awaited.                *)
LockCommand(r) ==
    LET c == CommandOf[r] IN
    /\ pc[r] = "lock"
    /\ AwaitParent /\ IsReply(c) =>
            \E q \in Requests : CommandOf[q] = Parent[c] /\ pc[q] = "ok"
    /\ idemLock[Guard(r)] = None
    /\ idemLock' = [idemLock EXCEPT ![Guard(r)] = r]
    /\ thread' = [thread EXCEPT ![r] = ThreadId[c]]
    /\ created' = [created EXCEPT ![r] = now]
    /\ GoTo(r, IF IsReply(c) THEN "resolve" ELSE "begin")
    /\ UNCHANGED <<copy, now, createLock, bound, done, objects>>

(* get_message of the parent: an object key is read as it is, an id through *)
(* its lookup object. *)
ParentBodies(r) ==
    LET parent == Parent[CommandOf[r]] IN
    {b \in body : b.msg = parent /\ (CommandOf[r] \in ByKey \/ b.at = lookup[parent])}

ThreadAgrees(r, b) == None \in {thread[r], b.thread} \/ thread[r] = b.thread

MutOwnThread(r, b) == thread[r] \* mutant: the parent's thread is not inherited

ResolvedThread(r, b) == IF thread[r] = None THEN b.thread ELSE thread[r]

(* resolve_message_thread: the parent decides, unless it has no thread. *)
Resolve(r) ==
    /\ pc[r] = "resolve"
    /\ \E b \in ParentBodies(r) :
        /\ ThreadAgrees(r, b)
        /\ thread' = [thread EXCEPT ![r] = ResolvedThread(r, b)]
    /\ created' = [created EXCEPT ![r] = now]
    /\ GoTo(r, "begin")
    /\ UNCHANGED <<copy, now, locks, bound, done, objects>>

(* ... or there is no such message, or the client names another thread. *)
ResolveFails(r) ==
    /\ pc[r] = "resolve"
    /\ \A b \in ParentBodies(r) : ~ThreadAgrees(r, b)
    /\ End(r, "failed")
    /\ UNCHANGED <<copy, created, thread, now, bound, done, objects>>

(* message_entity_ids draws a threadId for a message that has no thread    *)
(* yet when it opens one or answers another message; a parent id of white  *)
(* space counts as one here, and only here.                                *)
DrawsThread(r) ==
    /\ thread[r] = None
    /\ CommandOf[r] \in CreateThread \/ Parent[CommandOf[r]] # None

MutTrimmedParent(r) ==         \* mutant: the parent id is trimmed for this id alone
    thread[r] # None \/ CommandOf[r] \in CreateThread \/ IsReply(CommandOf[r])

(* ... and a threadRefId for one that has a thread or is to have one.      *)
DrawsReference(r) ==
    thread[r] # None \/ CommandOf[r] \in CreateThread \/ Parent[CommandOf[r]] # None

(* The handler works with the creation time and the ids of the operation.  *)
MutOwnTime(r, o) ==            \* mutant: a retry files its objects under its own time
    /\ UNCHANGED created
    /\ thread' = IF thread[r] = None /\ o.drawn
                 THEN [thread EXCEPT ![r] = CommandOf[r]] ELSE thread

MutRoundUp(r, o) ==            \* mutant: the creation time is rounded up to the next minute
    /\ created' = [created EXCEPT ![r] = o.at + 1]
    /\ thread' = IF thread[r] = None /\ o.drawn
                 THEN [thread EXCEPT ![r] = CommandOf[r]] ELSE thread

WorkFor(r, o) ==
    /\ created' = [created EXCEPT ![r] = o.at]
    /\ thread' = IF thread[r] = None /\ o.drawn
                 THEN [thread EXCEPT ![r] = CommandOf[r]] ELSE thread

(* begin_operation binds the command to a new operation, *)
Bind(r) ==
    LET o == [at |-> created[r], drawn |-> DrawsThread(r), ref |-> DrawsReference(r)] IN
    /\ pc[r] = "begin" /\ bound[CommandOf[r]] = None
    /\ bound' = [bound EXCEPT ![CommandOf[r]] = o]
    /\ WorkFor(r, o)
    /\ GoTo(r, "body")
    /\ UNCHANGED <<copy, now, locks, done, objects>>

MutBodyTaken(r) ==             \* mutant: the body of a bound operation is taken to exist
    /\ pc[r] = "begin" /\ bound[CommandOf[r]] # None /\ CommandOf[r] \notin done
    /\ WorkFor(r, bound[CommandOf[r]])
    /\ GoTo(r, "lookup")
    /\ UNCHANGED <<copy, now, locks, bound, done, objects>>

(* adopts the one an earlier attempt has left, *)
Adopt(r) ==
    /\ pc[r] = "begin" /\ bound[CommandOf[r]] # None /\ CommandOf[r] \notin done
    /\ WorkFor(r, bound[CommandOf[r]])
    /\ GoTo(r, "body")
    /\ UNCHANGED <<copy, now, locks, bound, done, objects>>

(* or answers with the result of the completed one. *)
Replay(r) ==
    /\ pc[r] = "begin" /\ CommandOf[r] \in done
    /\ End(r, "ok")
    /\ UNCHANGED <<copy, created, thread, now, bound, done, objects>>

(* Thread metadata, created by whichever message gets here first.  B2 asks  *)
(* with HEAD before it sends the PUT, the process's create lock held over  *)
(* both; a local file is created, or found, by one call.                   *)
CreateFree(r) == createLock[Instance[r]] \in {None, r}

(* ObjectAlreadyExists is success: another message has opened the thread.  *)
MetadataExists(r) ==
    /\ pc[r] = "meta" /\ CreateFree(r)
    /\ meta[thread[r]] # None
    /\ GoTo(r, "ref")
    /\ UNCHANGED <<copy, created, thread, now, locks, bound, done, objects>>

MutNoCreateLock(r) ==          \* mutant: the create lock is not held from HEAD to PUT
    /\ pc[r] = "meta" /\ ~AtomicCreate
    /\ meta[thread[r]] = None
    /\ GoTo(r, "send")
    /\ UNCHANGED <<copy, created, thread, now, locks, bound, done, objects>>

HeadMiss(r) ==
    /\ pc[r] = "meta" /\ ~AtomicCreate /\ CreateFree(r)
    /\ meta[thread[r]] = None
    /\ createLock' = [createLock EXCEPT ![Instance[r]] = r]
    /\ GoTo(r, "send")
    /\ UNCHANGED <<copy, created, thread, now, idemLock, bound, done, objects>>

(* The metadata is about to be put; on B2 over whatever has appeared since *)
(* HEAD. *)
Sending(r) ==
    \/ pc[r] = "send"
    \/ pc[r] = "meta" /\ AtomicCreate /\ meta[thread[r]] = None

StoreMetadata(r, by) ==
    meta' = [meta EXCEPT ![thread[r]] =
                [root |-> IF IsReply(CommandOf[r]) THEN Parent[CommandOf[r]] ELSE CommandOf[r],
                 at |-> created[r],
                 by |-> by]]

(* The object put at pc[r].  Keys contain the creation time, so an object  *)
(* of another time would be another object.                                *)
Store(r) ==
    LET c == CommandOf[r] IN
    \/ /\ pc[r] = "body"
       /\ body' = body \cup {[msg |-> c, at |-> created[r], thread |-> thread[r],
                              parent |-> IF IsReply(c) THEN Parent[c] ELSE None]}
       /\ UNCHANGED <<lookup, mail, members, meta>>
    \/ /\ pc[r] = "lookup"
       /\ lookup' = IF lookup[c] # None THEN lookup ELSE [lookup EXCEPT ![c] = created[r]]
       /\ UNCHANGED <<body, mail, members, meta>>
    \/ /\ pc[r] = "mail"
       /\ mail' = mail \cup {[msg |-> c, copy |-> copy[r], at |-> created[r]]}
       /\ UNCHANGED <<body, lookup, members, meta>>
    \/ /\ Sending(r)
       /\ StoreMetadata(r, Instance[r])
       /\ UNCHANGED <<body, lookup, mail, members>>
    \/ /\ pc[r] = "ref" /\ bound[c].ref    \* required_entity_id, or the attempt stops here
       /\ members' = members \cup {[thread |-> thread[r], msg |-> c, at |-> created[r]]}
       /\ UNCHANGED <<body, lookup, mail, meta>>

MutFewerCopies(r) == copy[r] + 1 < Recipients[CommandOf[r]] \* mutant: off by one
MutOneCopyMore(r) == copy[r] <= Recipients[CommandOf[r]] \* mutant: off by one

(* Is there a recipient left without its reference? *)
MoreCopies(r) == copy[r] < Recipients[CommandOf[r]]

MutThreadRefFirst(r) ==        \* mutant: the reference before the metadata
    CASE pc[r] = "body" -> "lookup"
      [] pc[r] = "lookup" -> "mail"
      [] pc[r] = "mail" -> IF MoreCopies(r) THEN "mail"
                           ELSE IF thread[r] # None THEN "ref" ELSE "complete"
      [] pc[r] = "ref" -> "meta"
      [] pc[r] \in {"meta", "send"} -> "complete"

NextPc(r) ==
    CASE pc[r] = "body" -> "lookup"
      [] pc[r] = "lookup" -> "mail"
      [] pc[r] = "mail" -> IF MoreCopies(r) THEN "mail"
                           ELSE IF thread[r] # None THEN "meta" ELSE "complete"
      [] pc[r] \in {"meta", "send"} -> "ref"
      [] pc[r] = "ref" -> "complete"

(* Every create of a process waits while another of its handlers is between *)
(* HEAD and PUT. *)
Write(r) ==
    /\ CreateFree(r)
    /\ Store(r)
    /\ GoTo(r, NextPc(r))
    /\ copy' = IF pc[r] = "mail" /\ MoreCopies(r) THEN [copy EXCEPT ![r] = @ + 1] ELSE copy
    /\ createLock' = [createLock EXCEPT ![Instance[r]] = None]
    /\ UNCHANGED <<created, thread, now, idemLock, bound, done>>

(* complete_operation. *)
Complete(r) ==
    /\ pc[r] = "complete"
    /\ done' = done \cup {CommandOf[r]}
    /\ End(r, "ok")
    /\ UNCHANGED <<copy, created, thread, now, bound, objects>>

Handler(r) ==
    \/ LockCommand(r) \/ Resolve(r) \/ ResolveFails(r)
    \/ Bind(r) \/ Adopt(r) \/ Replay(r)
    \/ MetadataExists(r) \/ HeadMiss(r) \/ Write(r) \/ Complete(r)

-----------------------------------------------------------------------------
(* A store call fails, the client disconnects or the process dies; after a *)
(* Write, this is also the PUT whose reply was lost. *)
Stop(r) ==
    /\ Running(r)
    /\ End(r, "failed")
    /\ UNCHANGED <<copy, created, thread, now, bound, done, objects>>

(* The record is completed, the client does not hear of it. *)
AnswerLost(r) ==
    /\ pc[r] = "complete"
    /\ done' = done \cup {CommandOf[r]}
    /\ End(r, "failed")
    /\ UNCHANGED <<copy, created, thread, now, bound, objects>>

(* The handler is dropped, and its guards with it, while the PUT of the     *)
(* metadata is on the wire; it may land at any later time.                 *)
DropSending(r) ==
    /\ pc[r] = "send" /\ r \in Late
    /\ End(r, "late")
    /\ UNCHANGED <<copy, created, thread, now, bound, done, objects>>

LandLate(r) ==
    /\ pc[r] = "late"
    /\ StoreMetadata(r, None)
    /\ GoTo(r, "failed")
    /\ UNCHANGED <<copy, created, thread, now, locks, bound, done, body, lookup, mail, members>>

(* Utc::now, capped by MaxTime. *)
Tick ==
    /\ now < MaxTime
    /\ now' = now + 1
    /\ UNCHANGED <<pc, copy, created, thread, locks, bound, done, objects>>

(* No handler runs; calls that were not made need not be. *)
Finished ==
    /\ \A r \in Requests : ~Running(r)
    /\ UNCHANGED vars

Next ==
    \/ \E r \in Requests :
        Handler(r) \/ Stop(r) \/ AnswerLost(r) \/ DropSending(r) \/ LandLate(r)
    \/ Tick
    \/ Finished

Spec == Init /\ [][Next]_vars

-----------------------------------------------------------------------------
Times == 0..MaxTime
ThreadOrNone == Threads \cup {None}

(* Every variable has its type. *)
TypeOK ==
    /\ pc \in [Requests -> Final \cup Writing \cup
                {"lock", "resolve", "begin", "complete", "late"}]
    /\ copy \in [Requests -> 0..MaxRecipients]
    /\ created \in [Requests -> Times]
    /\ thread \in [Requests -> ThreadOrNone]
    /\ now \in Times
    /\ idemLock \in [Instances \X Commands -> Requests \cup {None}]
    /\ createLock \in [Instances -> Requests \cup {None}]
    /\ bound \in [Commands -> [at : Times, drawn : BOOLEAN, ref : BOOLEAN] \cup {None}]
    /\ done \subseteq Commands
    /\ body \subseteq [msg : Commands, at : Times, thread : ThreadOrNone,
                       parent : Commands \cup {None}]
    /\ lookup \in [Commands -> Times \cup {None}]
    /\ mail \subseteq [msg : Commands, copy : 0..MaxRecipients, at : Times]
    /\ members \subseteq [thread : Threads, msg : Commands, at : Times]
    /\ meta \in [Threads -> [root : Commands, at : Times, by : Instances \cup {None}] \cup {None}]

Readable(msg, at) == \E b \in body : b.msg = msg /\ b.at = at

(* A reader can follow whatever it finds: the message behind a lookup or a *)
(* reference is readable, and belongs to the thread that lists it.         *)
(* list_mailbox and list_thread fail as a whole when one item does not.    *)
ReferencesResolve ==
    /\ \A c \in Commands : lookup[c] # None => Readable(c, lookup[c])
    /\ \A m \in mail : Readable(m.msg, m.at)
    /\ \A m \in members : \E b \in body :
            b.msg = m.msg /\ b.at = m.at /\ b.thread = m.thread

(* A thread that lists a message can be listed: its metadata is there, and *)
(* the root message the metadata names is readable.                        *)
ListedThreadsExist ==
    \A m \in members :
        /\ meta[m.thread] # None
        /\ \E b \in body : b.msg = meta[m.thread].root

(* A reply is in its parent's thread, whichever attempt of either message  *)
(* stored it (application.rs:1615, the test reply_inherits_parent_thread).  *)
RepliesJoinParent ==
    \A b, p \in body : b.parent = p.msg /\ p.thread # None => b.thread = p.thread

(* All attempts at a message file it at one time: no reader sees a message *)
(* twice in a mailbox or a thread because a retry came a minute later.     *)
FiledOnce ==
    /\ \A x, y \in body : x.msg = y.msg => x = y
    /\ \A x, y \in mail : x.msg = y.msg => x.at = y.at
    /\ \A x, y \in members : x.msg = y.msg => x = y

(* An acknowledged message is complete: lookup, sent reference, an inbox   *)
(* reference per recipient and, if it has a thread, its thread reference.  *)
AcknowledgedComplete ==
    \A c \in done :
        /\ lookup[c] # None
        /\ \A i \in 0..Recipients[c] : \E m \in mail : m.msg = c /\ m.copy = i
        /\ \A b \in body : b.msg = c /\ b.thread # None =>
                \E m \in members : m.msg = c /\ m.thread = b.thread

(* A message that is stored with a thread can be finished: the operation    *)
(* that every retry adopts has drawn the id of its thread reference.  The  *)
(* ids are drawn by the attempt that binds the operation, from its reading *)
(* of the parent (736-744); without that id each retry would stop at       *)
(* application.rs:220, its message filed and never acknowledged.           *)
FiledCanFinish == \A b \in body : b.thread # None => bound[b.msg].ref

(* The messages of a process create a thread's metadata once, though they  *)
(* hold different idempotency locks: none of its handlers moves the root   *)
(* or the start that another of them stored.  (On B2 a second process, or  *)
(* the PUT of a handler that is gone, does.)                               *)
ThreadStartFixed ==
    [][\A t \in Threads : meta[t] # None /\ meta'[t] # meta[t] =>
            \/ None \in {meta[t].by, meta'[t].by}
            \/ meta[t].by # meta'[t].by]_vars

(* list_thread's first window is the creation time in the metadata         *)
(* (application.rs:338): no message of the thread is filed before it, for  *)
(* docs/SPEC.md:291 makes the references the thread's membership.          *)
ThreadStartsFirst ==
    \A m \in members : meta[m.thread] # None => m.at >= meta[m.thread].at
=============================================================================
