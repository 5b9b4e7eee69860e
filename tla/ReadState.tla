------------------------------- MODULE ReadState -------------------------------
(***************************************************************************)
(* mark_read (src/src/application.rs): append an immutable state event,    *)
(* then, under a state lock, read the current projection of the target and *)
(* replace it unless it is newer.  The operation record and its steps are  *)
(* those of module Operations and appear here as one step each: Begin      *)
(* binds or adopts the command's operation, Complete finishes it.  Every   *)
(* command carries an idempotency key; one without a key is a command with *)
(* a single request and a shard of its own.                                *)
(***************************************************************************)
EXTENDS Naturals

CONSTANTS
    Requests,     \* calls of mark_read; a retry is another request of its command
    Commands,     \* mark_read commands, one per idempotency key
    Targets,      \* (actor, target kind, target id), as the object keys trim them
    Shards,       \* positions of the lock vectors idempotency_locks and state_locks
    Instances,    \* processes sharing the store
    CommandOf,    \* [Requests -> Commands]
    Instance,     \* [Requests -> Instances]
    Target,       \* [Commands -> Targets], whose projection the command replaces
    KeyShard,     \* [Commands -> Shards], the hash of the idempotency key
    ShardOf,      \* [Commands -> Shards], the hash of the ids as the client spelled them
    ReadAt,       \* [Commands -> Nat \cup {Unset}], readAt as the client sent it
    Unset,        \* the client sent no readAt
    None,         \* no object, no holder
    Torn,         \* an object whose bytes were cut short
    MaxTime,      \* bound on the clock
    AtomicCreate, \* the adapter tests and creates in one call (local files), or HEADs first (B2)
    LateWrites,   \* may a PUT still land after its handler was dropped
    TornWrites,   \* may a failed PUT leave a torn object
    Reliable      \* requests the environment neither fails, drops nor crashes

ASSUME RequestsAssumption ==
    /\ CommandOf \in [Requests -> Commands]
    /\ Instance \in [Requests -> Instances]
    /\ Target \in [Commands -> Targets]
    /\ KeyShard \in [Commands -> Shards] /\ ShardOf \in [Commands -> Shards]
    /\ ReadAt \in [Commands -> Nat \cup {Unset}]
    /\ None \notin Requests /\ None \notin [cmd : Commands, readAt : Nat]
    /\ Torn \notin Nat /\ Torn \notin [cmd : Commands, readAt : Nat] /\ Torn # None
    /\ None \notin Nat /\ Unset \notin Nat
    /\ MaxTime \in Nat
    /\ AtomicCreate \in BOOLEAN /\ LateWrites \in BOOLEAN /\ TornWrites \in BOOLEAN
    /\ Reliable \subseteq Requests

VARIABLES
    pc,         \* where the handler of each request is
    now,        \* the clock
    readAt,     \* read_at each handler works with
    seen,       \* the projection each handler read
    idemLock,   \* holder of each idempotency lock shard of each instance
    createLock, \* holder of each instance's non_atomic_create_lock
    stateLock,  \* holder of each state lock shard of each instance
    begun,      \* commands whose operation record exists
    done,       \* commands whose record is completed
    event,      \* read_at of each command's state event
    current     \* the projection of each target

locks == <<idemLock, createLock, stateLock>>
store == <<begun, done, event, current>>
vars == <<pc, now, readAt, seen, locks, store>>

Final == {"ok", "failed"}
Sent == {"late event", "late"}  \* the handler is gone, its PUT is on the wire
States == [cmd : Commands, readAt : Nat]

Init ==
    /\ pc = [r \in Requests |-> "lock"]
    /\ now = 0
    /\ readAt = [r \in Requests |-> 0]
    /\ seen = [r \in Requests |-> None]
    /\ idemLock = [g \in Instances \X Shards |-> None]
    /\ createLock = [i \in Instances |-> None]
    /\ stateLock = [g \in Instances \X Shards |-> None]
    /\ begun = {}
    /\ done = {}
    /\ event = [c \in Commands |-> None]
    /\ current = [t \in Targets |-> None]

-----------------------------------------------------------------------------
TargetOf(r) == Target[CommandOf[r]]
IdemGuard(r) == <<Instance[r], KeyShard[CommandOf[r]]>>
StateGuard(r) == <<Instance[r], ShardOf[CommandOf[r]]>>
Running(r) == pc[r] \notin Final \cup Sent \cup {"lock"}

Freed(lock, rs) == [g \in DOMAIN lock |-> IF lock[g] \in rs THEN None ELSE lock[g]]

(* Handlers end: their guards are dropped. *)
Release(rs) ==
    /\ idemLock' = Freed(idemLock, rs)
    /\ createLock' = Freed(createLock, rs)
    /\ stateLock' = Freed(stateLock, rs)

GoTo(r, next) == pc' = [pc EXCEPT ![r] = next]

(* lock_idempotency, then, with no await in between, the clock is read:    *)
(* read_at defaults to this call's time even when the operation is older.  *)
LockCommand(r) ==
    /\ pc[r] = "lock"
    /\ idemLock[IdemGuard(r)] = None
    /\ idemLock' = [idemLock EXCEPT ![IdemGuard(r)] = r]
    /\ readAt' = [readAt EXCEPT ![r] =
                    IF ReadAt[CommandOf[r]] = Unset THEN now ELSE ReadAt[CommandOf[r]]]
    /\ GoTo(r, "begin")
    /\ UNCHANGED <<now, seen, createLock, stateLock, store>>

MutSkipEvent(r) ==             \* mutant: an adopted operation is taken to have its event
    /\ pc[r] = "begin" /\ CommandOf[r] \notin done
    /\ begun' = begun \cup {CommandOf[r]}
    /\ GoTo(r, IF CommandOf[r] \in begun THEN "state" ELSE "event")
    /\ UNCHANGED <<now, readAt, seen, locks, done, event, current>>

(* begin_operation: bind a new operation or adopt the pending one ... *)
Begin(r) ==
    /\ pc[r] = "begin" /\ CommandOf[r] \notin done
    /\ begun' = begun \cup {CommandOf[r]}
    /\ GoTo(r, "event")
    /\ UNCHANGED <<now, readAt, seen, locks, done, event, current>>

(* ... or answer with the result of the completed one. *)
Replay(r) ==
    /\ pc[r] = "begin" /\ CommandOf[r] \in done
    /\ GoTo(r, "ok")
    /\ Release({r})
    /\ UNCHANGED <<now, readAt, seen, store>>

(* put_json_create_only of the state event.  B2 asks with HEAD before it   *)
(* sends the PUT, the process's create lock held over both; a local file   *)
(* is created, or found, by one call.                                      *)
TakeCreateLock(r) ==
    /\ pc[r] = "event" /\ ~AtomicCreate
    /\ createLock[Instance[r]] = None
    /\ createLock' = [createLock EXCEPT ![Instance[r]] = r]
    /\ GoTo(r, "head")
    /\ UNCHANGED <<now, readAt, seen, idemLock, stateLock, store>>

(* Does the store now say whether there is an event? *)
Asking(r) == pc[r] = IF AtomicCreate THEN "event" ELSE "head"

(* ObjectAlreadyExists is success: an earlier attempt has stored the event. *)
EventExists(r) ==
    /\ Asking(r) /\ event[CommandOf[r]] # None
    /\ createLock' = Freed(createLock, {r})
    /\ GoTo(r, "state")
    /\ UNCHANGED <<now, readAt, seen, idemLock, stateLock, store>>

MutHeadIgnored(r) ==           \* mutant: the event is put whatever HEAD says
    /\ ~AtomicCreate /\ Asking(r)
    /\ GoTo(r, "send")
    /\ UNCHANGED <<now, readAt, seen, locks, store>>

HeadMiss(r) ==
    /\ ~AtomicCreate /\ Asking(r) /\ event[CommandOf[r]] = None
    /\ GoTo(r, "send")
    /\ UNCHANGED <<now, readAt, seen, locks, store>>

(* The bytes of the event are about to be stored; on B2 over whatever has  *)
(* become of the event since HEAD.                                         *)
Sending(r) ==
    \/ pc[r] = "send"
    \/ AtomicCreate /\ Asking(r) /\ event[CommandOf[r]] = None

StoreEvent(r) == event' = [event EXCEPT ![CommandOf[r]] = readAt[r]]

WriteEvent(r) ==
    /\ Sending(r)
    /\ StoreEvent(r)
    /\ createLock' = Freed(createLock, {r})
    /\ GoTo(r, "state")
    /\ UNCHANGED <<now, readAt, seen, idemLock, stateLock, begun, done, current>>

MutNoStateLock(r) ==           \* mutant: the projection is updated without its lock
    /\ pc[r] = "state"
    /\ GoTo(r, "read")
    /\ UNCHANGED <<now, readAt, seen, locks, store>>

MutOneLockVector(r) ==         \* mutant: the state lock is one of idempotency_locks
    /\ pc[r] = "state"
    /\ idemLock[StateGuard(r)] = None
    /\ idemLock' = [idemLock EXCEPT ![StateGuard(r)] = r]
    /\ GoTo(r, "read")
    /\ UNCHANGED <<now, readAt, seen, createLock, stateLock, store>>

(* lock_state_projection, held to the end of the handler. *)
LockState(r) ==
    /\ pc[r] = "state"
    /\ stateLock[StateGuard(r)] = None
    /\ stateLock' = [stateLock EXCEPT ![StateGuard(r)] = r]
    /\ GoTo(r, "read")
    /\ UNCHANGED <<now, readAt, seen, idemLock, createLock, store>>

(* get_current_state; a projection that cannot be decoded is an error. *)
ReadTorn(r) ==
    /\ pc[r] = "read" /\ current[TargetOf(r)] = Torn
    /\ GoTo(r, "failed")
    /\ Release({r})
    /\ UNCHANGED <<now, readAt, seen, store>>

MutReadAnything(r) ==          \* mutant: a projection that cannot be decoded is used
    /\ pc[r] = "read"
    /\ seen' = [seen EXCEPT ![r] = current[TargetOf(r)]]
    /\ GoTo(r, "project")
    /\ UNCHANGED <<now, readAt, locks, store>>

ReadCurrent(r) ==
    /\ pc[r] = "read" /\ current[TargetOf(r)] # Torn
    /\ seen' = [seen EXCEPT ![r] = current[TargetOf(r)]]
    /\ GoTo(r, "project")
    /\ UNCHANGED <<now, readAt, locks, store>>

MutStrictlyOlder(r) ==         \* mutant: comparison turned round
    seen[r] # None => seen[r].readAt >= readAt[r]

(* existing.read_at <= state.read_at, or there is no projection yet. *)
Newer(r) == seen[r] # None => seen[r].readAt <= readAt[r]

StoreCurrent(r) == current' =
    [current EXCEPT ![TargetOf(r)] = [cmd |-> CommandOf[r], readAt |-> readAt[r]]]

Project(r) ==
    /\ pc[r] = "project" /\ Newer(r)
    /\ StoreCurrent(r)
    /\ GoTo(r, "complete")
    /\ UNCHANGED <<now, readAt, seen, locks, begun, done, event>>

KeepCurrent(r) ==
    /\ pc[r] = "project" /\ ~Newer(r)
    /\ GoTo(r, "complete")
    /\ UNCHANGED <<now, readAt, seen, locks, store>>

(* complete_operation: the record is completed and the guards go. *)
Complete(r) ==
    /\ pc[r] = "complete"
    /\ done' = done \cup {CommandOf[r]}
    /\ GoTo(r, "ok")
    /\ Release({r})
    /\ UNCHANGED <<now, readAt, seen, begun, event, current>>

Handler(r) ==
    \/ LockCommand(r) \/ Begin(r) \/ Replay(r)
    \/ TakeCreateLock(r) \/ EventExists(r) \/ HeadMiss(r) \/ WriteEvent(r)
    \/ LockState(r) \/ ReadTorn(r) \/ ReadCurrent(r) \/ Project(r) \/ KeepCurrent(r) \/ Complete(r)

-----------------------------------------------------------------------------
(* A store call fails, or the client disconnects and the future is dropped. *)
Stop(r) ==
    /\ Running(r) /\ r \notin Reliable
    /\ GoTo(r, "failed")
    /\ Release({r})
    /\ UNCHANGED <<now, readAt, seen, store>>

(* ... although what was sent took effect. *)
StopAfterPut(r) ==
    /\ Running(r) /\ r \notin Reliable
    /\ \/ Sending(r) /\ StoreEvent(r) /\ UNCHANGED <<begun, done, current>>
       \/ pc[r] = "project" /\ Newer(r) /\ StoreCurrent(r) /\ UNCHANGED <<begun, done, event>>
       \/ /\ pc[r] = "begin" /\ CommandOf[r] \notin done
          /\ begun' = begun \cup {CommandOf[r]}
          /\ UNCHANGED <<done, event, current>>
       \/ /\ pc[r] = "complete"
          /\ done' = done \cup {CommandOf[r]}
          /\ UNCHANGED <<begun, event, current>>
    /\ GoTo(r, "failed")
    /\ Release({r})
    /\ UNCHANGED <<now, readAt, seen>>

(* ... or left a torn file: create_new, or truncate, then the write breaks off. *)
StopTorn(r) ==
    /\ TornWrites
    /\ Running(r) /\ r \notin Reliable
    /\ \/ /\ Sending(r)
          /\ event' = [event EXCEPT ![CommandOf[r]] = Torn]
          /\ UNCHANGED current
       \/ /\ pc[r] = "project" /\ Newer(r)
          /\ current' = [current EXCEPT ![TargetOf(r)] = Torn]
          /\ UNCHANGED event
    /\ GoTo(r, "failed")
    /\ Release({r})
    /\ UNCHANGED <<now, readAt, seen, begun, done>>

(* The handler is dropped, and its guards with it, while the PUT of the     *)
(* event or of the projection is on the wire; it may land at any later time. *)
DropSending(r) ==
    /\ LateWrites /\ r \notin Reliable
    /\ \/ pc[r] = "send" /\ GoTo(r, "late event")
       \/ pc[r] = "project" /\ Newer(r) /\ GoTo(r, "late")
    /\ Release({r})
    /\ UNCHANGED <<now, readAt, seen, store>>

LandLate(r) ==
    /\ \/ pc[r] = "late event" /\ StoreEvent(r) /\ UNCHANGED current
       \/ pc[r] = "late" /\ StoreCurrent(r) /\ UNCHANGED event
    /\ GoTo(r, "failed")
    /\ UNCHANGED <<now, readAt, seen, locks, begun, done>>

Crash(i) ==
    LET dead == {r \in Requests : Instance[r] = i /\ Running(r)} IN
    /\ dead # {} /\ dead \cap Reliable = {}
    /\ pc' = [r \in Requests |-> IF r \in dead THEN "failed" ELSE pc[r]]
    /\ Release(dead)
    /\ UNCHANGED <<now, readAt, seen, store>>

(* Utc::now, capped by MaxTime. *)
Tick ==
    /\ now < MaxTime
    /\ now' = now + 1
    /\ UNCHANGED <<pc, readAt, seen, locks, store>>

Finished ==
    /\ \A r \in Requests : pc[r] \in Final \cup Sent
    /\ UNCHANGED vars

Next ==
    \/ \E r \in Requests :
        \/ Handler(r)
        \/ Stop(r) \/ StopAfterPut(r) \/ StopTorn(r)
        \/ DropSending(r) \/ LandLate(r)
    \/ \E i \in Instances : Crash(i)
    \/ Tick
    \/ Finished

Spec == Init /\ [][Next]_vars

(* Ready futures are polled, mutexes are first come, first served, store   *)
(* calls return; requests are finitely many.                               *)
FairSpec == Spec /\ \A r \in Requests : WF_vars(Handler(r))

-----------------------------------------------------------------------------
(* Every variable has its type. *)
TypeOK ==
    /\ pc \in [Requests -> Final \cup Sent \cup
                {"lock", "begin", "event", "head", "send", "state", "read", "project",
                 "complete"}]
    /\ now \in 0..MaxTime
    /\ readAt \in [Requests -> Nat]
    /\ seen \in [Requests -> States \cup {None}]
    /\ idemLock \in [Instances \X Shards -> Requests \cup {None}]
    /\ createLock \in [Instances -> Requests \cup {None}]
    /\ stateLock \in [Instances \X Shards -> Requests \cup {None}]
    /\ begun \subseteq Commands /\ done \subseteq Commands
    /\ event \in [Commands -> Nat \cup {None, Torn}]
    /\ current \in [Targets -> States \cup {None, Torn}]

(* The projection of a target never goes back in time, whatever order the  *)
(* marks and their retries arrive in (docs/ARCHITECTURE.md:286-288).       *)
NeverBackwards ==
    [][\A t \in Targets : current[t] # None =>
            current'[t] # None /\ current[t].readAt <= current'[t].readAt]_vars

(* A mark that was acknowledged is reflected: the projection of its target *)
(* is at least as recent as its event, although other marks, retries and   *)
(* failures came in between.                                               *)
CompletedReflected ==
    \A c \in done :
        /\ event[c] # None
        /\ current[Target[c]] # None
        /\ current[Target[c]].readAt >= event[c]

(* The event log is the source of truth (docs/ARCHITECTURE.md:275-276):    *)
(* a projection that can be read shows what an event in the log says, as   *)
(* far as that event can be read.                                          *)
ProjectionFromLog ==
    \A t \in Targets : current[t] \notin {None, Torn} =>
        /\ Target[current[t].cmd] = t
        /\ event[current[t].cmd] \in {current[t].readAt, Torn}

(* The event log is append-only (docs/SPEC.md:325): a retry at a later     *)
(* time adopts the event it finds and never replaces it by one of its own, *)
(* wherever the attempts before it broke off between HEAD and PUT.  (It    *)
(* takes a PUT that ends with its handler, or an atomic create: a late PUT *)
(* on B2 replaces the event of the retry.)                                 *)
EventsAppendOnly ==
    [][\A c \in Commands : event[c] # None => event'[c] = event[c]]_vars

(* A mark whose own calls succeed is answered, though it waits for three   *)
(* locks and shares their shards with other keys, whatever becomes of the  *)
(* handlers that hold them and of the PUTs they leave.  It is answered Ok, *)
(* but for one case: a projection that somebody's failed write has torn    *)
(* fails every mark of its target (application.rs:980-984), although       *)
(* docs/ARCHITECTURE.md:284 calls the projection an optimization.          *)
MarksComplete ==
    \A r \in Reliable :
        <>(pc[r] = "ok" \/ (pc[r] = "failed" /\ current[TargetOf(r)] = Torn))

=============================================================================
