# s3-message-service: TLA+ models, checks and proofs

The service is a Rust program (axum over tokio) that keeps messages, mailboxes,
threads, broadcasts, read state and attachment metadata as JSON objects in an
object store, and nothing anywhere else. There is no database and no
transaction: every command is a sequence of single-object PUTs, made retryable
by an *operation record* that maps a caller's idempotency key to the identifiers
the command uses. What can go wrong is what happens between those PUTs.

Line numbers below are those of `src/src/application.rs` unless a file is named.

## 1. Inventory

| Component | Code | State it keeps | Operations | What makes it correct |
|---|---|---|---|---|
| Write engine | 660-861, 987-1016 | idempotency record, `started.json`, step objects, `completed.json`; in memory 64 idempotency locks, one create lock | `lock_idempotency`, `begin_operation`, `put_json`, `put_json_create_only`, `record_step`, `complete_operation` | a key names one operation for good; an Ok answer is durable; a retry repairs; every call ends |
| Messages and threads | 86-367, 690-746 | body, lookup, sent/inbox references, thread metadata, thread references | `send_message`, `get_message`, `list_mailbox`, `list_thread` | references resolve; a reply joins its parent's thread; a thread's list shows all its messages |
| Read state | 477-557, 676-688, 967-985 | state event log, current projection; 64 state locks | `mark_read` | the projection never moves backwards and reflects every completed event |
| Paging | 863-965, `cursors.rs` | none on the server: the cursor is the client's | `scan_references`, `cursor_or_initial`, `encode`, `decode`, `next_window` | every stored reference is returned exactly once, in order; the scan ends |
| Broadcasts | 369-475, 1329-1344 | body, lookup, audience objects | `send_broadcast`, `get_broadcast` | same plan of writes as a message; every audience key is indexed |
| Attachments | 559-654 | metadata, lookup | `create_attachment`, `get_attachment` | same plan of writes |
| Object store port | `storage/mod.rs` | keys to bytes | `put`, `get`, `head`, `list`, `delete` | create-only never overwrites; lists are ordered and complete |
| Local file adapter | `storage/localfs.rs` | files under a root | the port | `create_new` is atomic; the bytes that follow are not |
| B2 adapter | `storage/b2.rs` | a bucket | the port | HEAD before PUT: create-only is two requests |
| Keys | `keys.rs` | none | key builders, sort keys, `normalize_external_id` | injective keys; key order is time order |
| Domain, HTTP, config, ids, main | the rest of `src/src` | none | routes, error mapping, environment, UUIDv7 | no state of their own |

Components interact by calls only: an HTTP handler calls one `Service` method;
the service awaits the store, the idempotency lock, the create lock and the
state lock, in that order of acquisition (idempotency, then create *or* state).
Processes that share a store share nothing else. A handler is a future: when
its client disconnects it is dropped at its current await, and its guards with
it.

What is hard here: two handlers (or two processes) between each other's HEAD
and PUT; crashes, disconnects and lost replies between any two PUTs; retries
that meet their own objects; a PUT that outlives the guards of its handler;
files that exist before their bytes do; timestamps drawn before the lock that
orders the writes; minute windows that a scan has already left.
`PROJECT.json` lists each of these, at its line, under "hazards".


## 2. Plan

The order is that of what depends on what: every command is an instance of the
write engine, so it comes first; the two places where commands meet (a thread, a
read projection) and the reader that meets them all come next.

| # | Module | Composes | Abstract specification | Status |
|---|---|---|---|---|
| 1 | `Operations` | | `IdempotentCalls`: a key is bound once, settled once, every call answered once | done; `OperationsProofs`, `OperationsDurability`, `OperationsRefinement` |
| 2 | `ReadState` | the engine as single steps | the event log as source of truth | done; `ReadStateProofs` |
| 3 | `Threads` | the engine as single steps | | done; `ThreadsProofs` |
| 4 | `Paging` | the list of the port | | done; `PagingProofs` |
| 5 | `Entities` | `Operations` with what each command writes | the audience as the client named it | done; `EntitiesProofs` |
| 6 | `Feeds` | `Threads` and `Paging` over one store | `Paging`, whose writers are send_message | done; `FeedsProofs` |

Every safety property and action property of the passing runs, and both
refinements, are theorems (section 6). Left on the plan: theorems that say
under which assumptions the five findings cannot occur (`ThreadReadToTheEnd`
with a lookback that spans the thread, `ThreadStartsFirst` for threads whose ids
were drawn by the service), and the freshness of the ids behind `OwnIds`.

## 3. The modules and the code

Conventions. A request is one call of a `Service` method; a client's retry is
another request with the same idempotency key. `pc[r]` is the await the handler
of `r` stands at; an action is what happens between two awaits, together with
the store call it ends in. `Stop`, `Drop`, `CallFails` and `Crash` end a handler
wherever it is and free the locks it holds, for its guards are owned by its
future. Timestamps are in minutes, capped by `MaxTime`. Each module that declares
a state has a type invariant `TypeOK`; operators named `Mut...` are plausible slips in the code
that no specification uses, each stands before the definition it would replace
and shows that a property is able to fail.

**Operations** is `lock_idempotency`, `begin_operation`, `put_json`,
`put_json_create_only`, `record_step` and `complete_operation`, and with them
the order of writes every command has. `record`, `started`, `objects`, `steps`
and `completed` are the objects in the store; `phase` is where a put is (before
the create lock, before HEAD, before PUT or with its file open, or on the wire
of a dropped handler). `AtomicCreate` and `LateWrites` select the adapter:

| Adapter | AtomicCreate | A put is | What a failure leaves | LateWrites |
|---|---|---|---|---|
| B2 (`b2.rs:93-119`) | FALSE | HEAD, then PUT, under `non_atomic_create_lock` | nothing, or the whole object when only the reply was lost | FALSE, or TRUE when a PUT may outlive its connection |
| local files (`localfs.rs:47-70`) | TRUE | `OpenFile` (`create_new` or truncate), then `write_all` | an object cut short, `write_all` failing after the file was created | FALSE: the two calls block, nothing is dropped between them |

Between `OpenFile` and the end of `write_all` every other process sees a torn
object. Two processes that hold the record of one key open at once mix their
bytes, so what is left is the last whole text or a torn one (`RecordAfter`).
Errors of `started.json` and of step objects are swallowed as in the code
(`AfterFault`). Contents are abstracted to absent, torn and whole; what a whole
record says is in `record`. A write of `completed.json` by two processes is
kept as its last writer.

Readers (`Get`, `GetLookup`, `GetSource`) are `get_broadcast` and
`get_attachment`: the first object of a command is the entity (broadcast body,
attachment metadata), the second its lookup. A call with an id is two GETs with
any step of any writer between them, a call with the key an answer told is one.

**Entities** says what the commands write. After the entity and its lookup a
broadcast has a descriptor for each key `normalize_audience_keys` leaves: its
loop is the recursive function of `KeptKeys`, one pass of it `KeepKey`, through
`Trim`. `Plan` is that list, and its length the number of writes in
`Operations`.

**IdempotentCalls** is what the callers were promised, with no locks, objects
or retries. `Operations` maps to it with `bound[k]` the operation named by the
record of `k`, `settled` the keys whose record is completed, and `answer` read
off `pc`.

**ReadState** is `mark_read`. The engine around it is one step each (`Begin`,
`Replay`, `Complete`). `readAt` is drawn before the operation is bound, as at
484-485. `event` is the append-only log, `current` the projection. The event is
created like every create-only object: on B2 `TakeCreateLock`, `HeadMiss` or
`EventExists`, then `WriteEvent`, on files in one call. Either PUT may be on the
wire when its handler is dropped and land later (`DropSending`, `LandLate`). A
target is the key of the projection, which trims the ids; `ShardOf` is the state
lock, which hashes the ids as they were sent, `KeyShard` the idempotency lock:
both are positions in vectors of locks that unrelated commands share.

**Threads** is `send_message` with `resolve_message_thread` and
`message_entity_ids`. `bound` is what the operation record fixes: the creation
time and whether a thread id was drawn. Objects are sets, because their keys
contain the creation time: a retry under another time would store another
object. It also fixes whether a thread reference id was drawn: the thread
reference is only put with one (`required_entity_id`, 220), an attempt without
it can only stop. A blank parent id counts as a parent in `DrawsThread` and
`DrawsReference` and nowhere else, as at 736-742. A parent named by its object
key (`ByKey`) is read without its lookup. Thread metadata is the one object
that commands with different keys create, and with different contents, so its
create is taken apart: HEAD and PUT under the create lock (`HeadMiss`,
`MetadataExists`, `Write`), and a PUT that may land after its handler was
dropped (`DropSending`, `LandLate`). Attempts at any other object put the same
bytes under the same key; for those HEAD and PUT are one step, and a PUT that
lands late is one of a handler, of the other process, that stops only then. The
history field `by` of the metadata says whose handler put it. A process that
dies stops its handlers one by one (`Stop`).

**Paging** is `scan_references` with `cursor_or_initial`, `normalize_limit` and
`next_window`, `list_mailbox` with `NewestFirst`, `list_thread` without, while
writers insert references into any minute up to the present one. A reference is
its window and its rank among the keys of the window. A list is two steps: it
begins (`StartList`, `walk` being what is there) and ends (`FillPage`,
`PassWindow`) with all of `walk` and, on files, any part of what was created
since, for a directory walk is no snapshot. A file is there (`Insert`) before
its bytes are (`WriteAll`), and a page that contains such a reference fails
(`FailTorn`). `owed` is what the client may count on: the references that were
there when it began or when the list of their window did. `Foreign` are the
cursors of other feeds clients send (`Accepted` refuses them).

**Feeds** puts `list_mailbox` beside `send_message`: `Paging` is instantiated
with the inbox references `Threads` has stored, and pages are followed to the
messages. `due` are the commands acknowledged when the client began to read.

## 4. Runs

Every run is exhaustive. `r1` and `r2` are always a command and its retry.

| Run | Question | Result |
|---|---|---|
| `operations_b2` | one process in front of B2; retry, conflicting command under the key, keyless command; lost replies, disconnects, crashes | all safety properties and the refinement of `IdempotentCalls` hold |
| `operations_files` | two processes over one directory, files torn by failures or seen half-written; a broadcast with two spellings of a tag and a blank, an attachment under the same key (`Entities`), a reader | a key still names one operation, answers agree, a lookup leads to its entity, an answered entity is found and an answered broadcast filed for its audience, nothing whole is reopened |
| `operations_late` | PUTs of dropped handlers land late; `r2` meets no fault | references after sources, a truthful log, every call ends, and `r2` completes the command or is told of a conflict |
| `operations_torn_answer` | is an Ok answer durable on files? | **no**, finding 1 |
| `readstate_default` | one process in front of B2; a mark without `readAt`, its retry, a second one, an explicit older one; the clock moves | monotone, acknowledged marks reflected, no retry replaces the event of an attempt before it |
| `readstate_faulty` | explicit `readAt`; torn and late PUTs, of events and of projections; two commands in one idempotency shard; `r4` meets no fault of its own | the projection shows what the log says; `r4` is answered, and with Ok unless it found a torn projection |
| `readstate_default_log` | the same with `readAt` defaulted | **no**, finding 2 |
| `readstate_spelling` | are marks of one target ordered if one client sends a blank? | **no**, finding 3 |
| `threads_replies` | two processes in front of B2, a PUT of metadata that lands late; a message with a blank parent, its retry a minute later, a reply that names it by key; their common recipient pages through the inbox (`Feeds`) | references resolve, replies join, retries file nothing twice, acknowledged messages and listed threads are complete, what is filed can be finished, the handlers of a process open a thread once, the inbox shows each message once and misses no acknowledged one; `Feeds` implements `Paging` |
| `threads_hidden` | does a thread's first window precede its messages? | **no**, finding 4 |
| `paging_mailbox` | a mailbox on files, read while messages arrive, a call fails and another mailbox's cursor is sent | in order, nothing skipped, the read ends |
| `paging_gap` | is a thread read to its end? | **no**, finding 5 |

Bounds. `Operations`: two requests of one command are what it takes for a
repair, a third with another fingerprint for a conflict, a fourth without a key
for contention on the create lock; two objects are a source and a reference, and
the step between them; `Entities` has up to four, so that a descriptor too many
or too few shows; each handler may fail once at any place, which is one
attempt broken off. `ReadState`: three commands on one target give every order
of two marks and a retry; time 0..2 separates the first attempt, the retry and
another mark. `readstate_faulty` lets PUTs tear and land late in one run: no
adapter does both, so it covers each of them and more. `Threads`: two minutes
separate an attempt from its retry, two recipients make the loop of 173-200 run
twice, pages of one make the reader of `Feeds` come back between messages, and
one request whose PUT may land late (`Late`) is enough to replace metadata; `createThread` is left to the proofs, a
blank parent takes its place. `Paging`: three windows, one of them possibly
empty, pages of one and two, up to two references in a window and three in all,
so that pages end inside, at the end of and across windows; `StoreCap` equals
the largest page, its smallest sound value.

Fairness. Weak fairness of each handler: tokio polls every ready future, its
mutexes are first come, first served, and every store call returns (an error is
a return). A handler waiting for a lock is enabled whenever the lock is free,
and with finitely many requests each lock is taken finitely often. Nothing is
assumed of faults, of time, or that a late PUT lands. In `Paging` the client is
assumed to ask for the next page until there is none, and whoever created a file
to live until it is written: a crash in between leaves a reference that fails
its page for ever, since no retry replaces the file. `RetryRepairs` and
`MarksComplete` speak of requests in `Reliable`, which the environment does not
fail; all others may fail at every step.

## 5. Findings

1. **A torn file is taken for a written object** (989). `put_json_create_only`
   takes `ObjectAlreadyExists` for success; `localfs.rs:60-68` creates a file
   before it writes it. After a failed write the retry answers Ok for a body
   nobody can read (`operations_torn_answer`).
2. **A retry projects a time no event holds** (485). `read_at` defaults to the
   clock of the call, and is kept when the handler adopts the pending operation
   whose event holds another (`readstate_default_log`).
3. **Two locks for one projection** (682). The object key trims the ids, the
   lock hashes them as sent; marks that differ by white space race and the
   older one may stay (`readstate_spelling`).
4. **A message filed before its thread** (338). The first message to reach the
   metadata, not the oldest, gives a supplied thread its creation time;
   `list_thread` starts there and never shows what was filed in an earlier
   minute (`threads_hidden`).
5. **A thread ends at a pause** (917). The lookback, documented as a bound of
   newest-first reads, ends oldest-first ones too: after a pause of more than
   30 days (default) the newer messages of a thread are out of reach
   (`paging_gap`).

Also met while modelling, and not runs of their own:

- The create lock "avoids same-process races" (`docs/BUILD.md:92-94`), but it
  goes with its handler, and the PUT it guards may still be on the wire. One
  that lands after another call bound the key rebinds it on B2; the next retry
  writes the command's objects a second time (`NoDuplicateEntities` with
  `LateWrites` and without `AtomicCreate`). A late PUT of a state event
  replaces the event of the retry (`EventsAppendOnly`, with `readAt`
  defaulted), one of thread metadata moves the root and the start of a thread
  that is in use (the exception in `ThreadStartFixed`).
- The projection is replaced without any precondition of the store, which
  `docs/SPEC.md:326-327` asks for.
- An adapter that caps its lists below the page size (`b2.rs:165` caps at 1000,
  `S3MS_MAX_PAGE_SIZE` has no upper bound) makes the scan pass over the rest of
  a window: `has_more` is looked at only when the page is full (901).
- `completed.json` is put with `create_only = false` and rewritten by a repair,
  while `docs/ARCHITECTURE.md:253` calls the operation result immutable.
- A command without a key keeps no record, so its failure leaves objects no
  retry repairs (`docs/ARCHITECTURE.md:241-243`).
- The metadata of a thread may name a reply as its root, when the reply gets
  there first (`docs/SPEC.md:285`).
- Two processes share no state lock: the projection can move back between them.
- A torn projection fails every later mark of its target (980-984), although
  the projection is called an optimization (`docs/ARCHITECTURE.md:284`):
  `MarksComplete` states this case, `readstate_faulty` reaches it.
- A torn idempotency record fails every retry under its key on files
  (1013-1016); `RetryRepairs` is checked on B2 only.
- A broadcast whose audience keys are all blank passes the check at 1222 and is
  stored for nobody, since blank keys are dropped later (1329-1344).
- A recipient named twice, in one spelling or two, has the message twice in its
  inbox: audience keys are made distinct, recipients are not (173-200).
- One reference file that was created and never written makes `list_mailbox` or
  `list_thread` fail for every page that would contain it (`localfs.rs:68`).

## 6. Proofs

TLAPS checks each of the following for every value of the constants that
satisfies the module's assumptions (types of the constants, names that differ).

| Theorem | States | Assumption | Inductive invariant |
|---|---|---|---|
| `OperationsProofs!TypeCorrect` | `TypeOK` | | `Typed`: a step that needs a key is only reached with one, a record in use names an operation |
| `OneOperationPerKey`, `OneAnswerPerKey`, `KeysNeverRebind` | `NoDuplicateEntities`, `SameKeySameAnswer`, `RecordNeverRebinds` | `OneWriterPerKey`: the adapter is atomic, or there is one process; no PUT outlives its handler | `Binding` |
| `AnswersAreWritten` | `AnsweredWritten` | `OneWriterPerKey` | `Ordered` and `Binding` |
| `LookupsLeadSomewhere`, `AnswersAreFound` | `GetNeverDangles`, `ReadAfterAnswer` | | `ReadersFollow`, above `Ordered` |
| `SourcesComeFirst`, `LogTellsTheTruth` | `ReferenceAfterSource`, `LogTruthful` | `~AtomicCreate`: puts are all or nothing | `NothingTorn` and `Published`, above `Ordered` |
| `AnswersAreDurable` | `AnsweredDurable` | `~AtomicCreate`, `OneWriterPerKey` | `AnswerSettled`, above all of these |
| `ObjectsImmutable` | `EntitiesImmutable` | `AtomicCreate`: files | `FilesOpened` |
| `OperationsRefinement!HandlersKeepThePromise` | `RefinesCalls` | `~AtomicCreate`, `OneWriterPerKey` | `Binding` |
| `EntitiesProofs!AudiencesAreReached` | `AudienceReached` | | `Ordered` |
| `ReadStateProofs!TypeCorrect` | `TypeOK` | | `TypeOK` |
| `NeverBackwardsUnderOneLock` | `NeverBackwards` | `OneLockPerTarget`: one process, one spelling per target, no torn and no late PUT | `Exclusive` |
| `CompletedAreReflected` | `CompletedReflected` | `OneLockPerTarget` | `Timed` and `Marked`, above `Exclusive` |
| `LogIsAppendOnly` | `EventsAppendOnly` | `OneWriterPerEvent`: the adapter is atomic, or there is one process whose PUTs end with their handlers | `Written` |
| `ProjectionsComeFromTheLog` | `ProjectionFromLog` | `ReadAtNamed`: clients name the time of their marks | `Logged` |
| `ThreadsProofs!TypeCorrect`, `ReferencesAlwaysResolve`, `RepliesAlwaysJoin`, `OneFiling` | `TypeOK`, `ReferencesResolve`, `RepliesJoinParent`, `FiledOnce` | | `Inv` |
| `AcknowledgedAreComplete`, `ListedAlwaysExist` | `AcknowledgedComplete`, `ListedThreadsExist` | | `Full`: `Inv` with `Delivered`, `Acknowledged`, `Rooted`, `ThreadsOpened` |
| `ThreadStartsStay` | `ThreadStartFixed` | | `Opened` |
| `MetadataWrittenOnce` | no metadata is ever replaced | `OneWriter`: as `OneWriterPerEvent` | `Opened`, `AllLive` |
| `FiledCanAlwaysFinish` | `FiledCanFinish` | | `Foreseen`, above `Inv` |
| `PagingProofs!TypeCorrect` | `TypeOK` | | `Typed`: finitely many references, no scan at the end, no list without a scan |
| `PagesAlwaysInOrder` | `PagesInOrder` | | `InOrder` |
| `NothingIsSkipped` | `NothingSkipped` | `ListsSuffice`: the adapter's cap is no smaller than the page | `Complete` |
| `FeedsProofs!SendersAreWriters` | `ImplementsPaging` | | `Writers`: `Full` and `Timely` |
| `AcknowledgedAreShown` | `AcknowledgedShown` | | `Writers`, `DueOwed`, and the theorems of `Paging` |

An empty assumption means the theorem holds for all values of the constants:
every adapter, any number of processes and all faults *the module has*, and no
others (in `Threads` no put is torn, `Paging` knows nothing of the HEAD of its
writers). `ThreadStartFixed` excepts other processes and PUTs of handlers that
are gone in its own statement. What the assumptions of the others exclude is a
finding, a documented limit or a remark of section 5: without `~AtomicCreate`
an answered object may be torn (finding 1), on an adapter without atomic
create a late PUT or a second process replaces an event, the metadata of a
thread or a whole object (the contents of `Operations` could not show the
latter, so `ObjectsImmutable` is about files), without
`ReadAtNamed` a retry projects a time of its own (finding 2), without one
spelling per target marks race (finding 3), and `OneWriterPerKey` is what
`docs/BUILD.md:90-95` asks of a deployment, with PUTs that end with their
handler.

Why the properties are not inductive by themselves.

- `NoDuplicateEntities` says nothing of a handler about to write under its own
  identifiers: `Binding` adds that a handler past `begin_operation` works for
  the operation its key is bound to and, without atomic create, that a handler
  that has seen no object at HEAD holds the create lock, so that none has
  appeared since. On files it rests on `create_new` alone: a record that exists
  is never created again, torn or not, and what another process mixes into it
  names the same operation.
- What an answer, a reference or a lookup promises is about objects written
  earlier, often by another attempt. `Ordered` says which objects each handler
  relies on at its place in the protocol (`Known`), that no object is there
  without all before it, and that step objects, results and completed records
  only name what is there; it holds on every adapter, for nothing takes an
  object away. `ReadersFollow` adds what a reader knows between its two GETs.
  Readable instead of there needs that nothing is torn, and `Published` that the
  result object precedes the completed record and the answer.
- `EntitiesImmutable` needs to know who has a file open: `FilesOpened` says that
  an open file is torn and has one handler, so that a write never lands in a
  file that somebody else completed.
- The refinement maps a step to `Bind`, `Settle`, `Replay`, `Refuse`, `Lose` or
  to a stutter of `IdempotentCalls`, by what it does to the records (`Bound`,
  `Settled`) and to the answers. `Binding` is what it needs: the put of a record
  never meets the record of another operation.
- `NeverBackwards` needs that the projection a handler read is still the one in
  the store when it replaces it: `Exclusive` carries the ownership of the state
  lock from the read to the end. `CompletedReflected` rests on it and on time:
  `Timed` says that one attempt at a command runs at once, that a stored event
  is no later than the clock, and that an attempt whose `readAt` the service
  fills in works with no earlier a time than the event already stored; `Marked`
  says that a handler whose projection step is behind it, and a completed
  record, have a projection at least as recent as their event.
- `EventsAppendOnly` needs that no event appears between the HEAD of a handler
  and its PUT: `Written` says that a running handler holds the idempotency lock
  of its command, so that it is the only attempt in its process, and that a
  handler about to put has no event in the store.
- `ProjectionFromLog` needs no lock: `Logged` says that every event holds the
  time its client named, that a handler past its event has it in the log, and
  that a projection holds the time of an event of its target.
- The `Threads` invariants need that all attempts at a command agree on time and
  thread: `Inv` ties the variables of every handler past `begin_operation` to
  `bound`, and a parent's thread to what its stored body says, before its reply
  is bound. Completeness adds what each handler has delivered by its place
  (`Delivered`), whoever wrote it; that it outlives a second process which
  repairs the message is `OneBody`.
- `ThreadStartFixed` is about handlers that hold different idempotency locks:
  `Opened` says that a handler between HEAD and PUT holds the create lock of its
  process and that the metadata it is about to put is absent, or was put by
  another process or a handler that is gone. `FiledCanFinish` compares two
  attempts: `Foreseen` says that the one that binds the operation draws the
  reference id whenever any other will store the message with a thread, for a
  parent's thread never changes once its body can be read.
- `PagesInOrder` needs that whatever was handed out lies behind the cursor,
  `NothingSkipped` that whatever lies behind the cursor was handed out, both of
  them also for the cursor a failed call returns to (`CursorIsPassed`), and that
  a list under way will return all it owes (`WalkHolds`).
- `ImplementsPaging` needs that no handler works with a time to come (`Timely`),
  and that a message has a key of its own, so that the inbox has room for it.
  `AcknowledgedShown` is then a consequence: `NothingIsSkipped` and the types of
  `PagingProofs` are taken over by an instance of that module, whose assumptions
  `PagingFits` discharges, and `DueOwed` says that an acknowledged message is
  among the references the reader may count on.
- `AudienceReached` needs that the loop of `normalize_audience_keys` keeps the
  trims of all names but the blank one, whatever the length of the list. The
  induction is by the least pass that would not: the natural numbers are
  well-founded (`LeastElement`), which also yields that the recursive function
  of the loop exists (`PassesExist`).

The induction theorems of the library, which take the induction hypothesis as an
operator, are not used; nothing else about recursive definitions is proved.

Only model-checked: everything under fairness (`EveryCallEnds`, `RetryRepairs`,
`MarksComplete`, `ReadEnds`), for liveness and ENABLED are out of the proof
system's reach; and the counterexamples behind the findings, which are
properties that do not hold.

## 7. Not modelled

- The text of keys, cursors and identifiers; sanitizing and hash suffixes
  (`keys.rs:246-330`). Keys are taken to be injective, ids to be fresh.
- The payload of messages, broadcasts and attachments, the expiry of a
  broadcast (stored, nothing reads it) and the validation of fields that
  reaches no state.
- The read state `list_mailbox` adds to an item, and a projection read while it
  is being replaced; the base64 text of cursors.
- Two processes in front of B2 in `Operations` and `ReadState`, for
  `docs/BUILD.md:90-95` says that they have no lock in common; `Threads` has
  them, with an operation record that binds in one step.
- In `Threads`: torn files, and a recipient named twice.
- `delete` of the port, which only the tests call.
- HTTP routing and status codes, configuration, logging, build and deployment.
