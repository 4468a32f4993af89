# TLA+ specifications of Orisun

Orisun is an event database. Events live in *boundaries*; a write carries the
content queries its command has looked at, with the position it observed for
each, and is accepted only if nothing that matches them was written since
("Command Context Consistency"). This directory models the parts of it that
are hard to test, checks them with TLC on small instances, and proves the most
important results with TLAPS for every value of the constants.

## The system and its parts

| part | state | operations | who it talks to |
| --- | --- | --- | --- |
| group commit coordinator (`internal/groupcommit`) | a queue and a worker per boundary, a registry under a lock, a closed signal | `Submit`, `runWorker`, `Close` | called by a backend's `SavePrepared`, calls the backend's executor |
| PostgreSQL storage (`postgres/`, `db_scripts_1.sql`) | rows with positions and transaction ids, a sequence, an advisory lock | `insert_event_requests_v2`, `get_matching_events_v4`, `get_latest_by_criteria_v2`, the migration at start | several server processes share a database |
| SQLite storage (`sqlite/`) | rows, a sequence row, one write transaction at a time | `executeBatch`, `saveSavepointed`, reads | one process per database |
| consistency checks (`orisun/consistency.go`, `sqlite/consistency.go`) | - | observations to checks, latest matching position | both backends |
| subscriptions (`orisun/subscription_*.go`) | a cursor, a coalesced wake-up, an idle watchdog | `wake`, `run`, `drain` | durable reads of a backend, hints over NATS |
| notification relay (`orisun/notification_relay.go`, `postgres/pg_listener.go`) | a lease per boundary, pending signals, a LISTEN session with its registrations | `runBoundary`, `Stop`, `Start`, `EnsureBoundary` | the lock lease, NATS, subscriptions |
| lock lease (`orisun/jetstream_lock_provider.go`) | a key per lock with owner, revision and expiry | acquire, renew, release, check | a NATS key-value bucket |
| boundary lifecycle (`admin/slices/boundary_*`, `create_boundary`) | events in the admin boundary, installed storage, the activation gate | define, provision, activate, catalog | the event store itself |
| indexes (`postgres/index_*.go`, `sqlite/index_*.go`) | a metadata row and a physical index per name | create, drop, list, get | the database of a boundary |
| users (`admin/`) | events in the admin boundary, the users table and its cache, counts with checkpoints, tokens | commands, logins, projectors | the event store itself |
| event store service (`orisun/eventstore.go`, `client.go`, `grpcapi/`, `internal/eventstoreadapter`) | the activation gate | saves, reads, latest by criteria, write contexts, through three doors | callers on one side, a backend on the other |

What makes it hard: calls, workers and shutdown interleave in one process;
server processes interleave on one database; transactions commit in another
order than they take positions; hints are lost and coalesced; leases expire;
processes crash between two durable steps and do them again after a restart.

What must be true: an accepted write saw no conflicting event; a caller is told
the truth about its write; a reader that follows the ascending order misses
nothing; every waiting call is answered; shutdown ends.

## Modules

| module | models |
| --- | --- |
| `Consistency` | positions, events, criteria, latest matching positions and when a set of checks is satisfied |
| `EventLog` | the abstract boundary: a history to which a batch of writes is added when each one's observations still hold |
| `GroupCommit` | the coordinator: calls, workers, contexts and `Close` |
| `PostgresStore` | a PostgreSQL boundary shared by server processes; implements `EventLog` |
| `SqliteStore` | a SQLite boundary of one process; implements `EventLog` |
| `Subscription` | one subscription: the reader that drains the backend, the receiver of hints with its idle watchdog, and the client's next sessions |
| `PGListener`, `NotificationRelay` | the PostgreSQL listener of each server, and over it the relays of each boundary under their leases |
| `BoundaryLifecycle` | the definition, provisioning, installation and activation of boundaries on servers and embedded stores |
| `IndexLifecycle` | creating, dropping, listing and getting an index of an active boundary, on either backend |
| `UserProjections`, `AdminSessions`, `AdminUsers` | the read models of the admin boundary, logins and tokens over them, and the commands on users over both |
| `TagQueries`, `EventStoreMessages`, `EventStoreService` | content queries and what they match; the messages of each door; requests from the caller to the rows of a backend and back |
| `LockLease` | the lease on a key of a JetStream bucket, with its clients, lost and late writes, crashes and clocks |
| `GroupCommitProofs` | theorems about `GroupCommit` |
| `ConsistencyProofs` | lemmas about positions, latest matches and the steps of `EventLog`, for both backends |
| `PostgresStoreProofs`, `SqliteStoreProofs` | theorems about the backends |
| `SubscriptionProofs` | theorems about `Subscription` |
| `NotificationRelayProofs` | theorems about `NotificationRelay` and the listener in it |
| `LockLeaseProofs`, `LockLeaseValid` | theorems about `LockLease`: tokens and revisions, for any clocks; times, for equal clocks |
| `MC*` | instances for TLC. `MCBoundaryLifecycle`, `MCSqliteStore` and `MCLockLease` hold two specifications each, or one under two settings: a behaviour is of one of them while the other one is at rest |

A definition preceded by a comment that starts with "Fault:" is a faulty
variant of the definition that follows it. No specification uses it; it shows
which mistake in the code a property would notice.

### GroupCommit

A call of `Submit` moves through the labels `idle`, `lock`, `register`,
`enqueue`, `await` and ends at the value it returns. The label says what the
call holds: `register` is the holder of `enqueueMu`, the calls at `enqueue` are
the members of the `senders` wait group. A worker has a label per step of
`runWorker`; its batch, carried request and live requests are its locals. A
step of the model lies between two accesses to shared state: the signal
`closed` is read where the code reads it and may be stale a step later. A
`select` with several ready cases is a disjunction. Contexts end at any moment
(`Cancel`), the timer of a delayed batch may fire at any moment, the executor
ends in any of the ways the code tells apart (outcomes, an error, a wrong
number of outcomes, a panic), with or without having committed unless it
returns outcomes, which its contract forbids before the commit.

The histories `admitted`, `executed` and `applied` are not in the code; they
record what was put on a queue, handed to the executor and made durable.

### PostgresStore and SqliteStore

`PostgresStore` has a transaction per server process, which runs the phases of
`insert_event_requests_v2` as steps: compile the criteria, take the advisory
lock, have a transaction id assigned, read the latest positions, execute the
requests one by one, commit or abort. Transactions of other databases of the
cluster come and go and hold back the snapshot's `xmin`. A server may start at
any time and run the migration that clears transaction ids. An ascending
reader follows `get_matching_events_v4` with its barrier. Descending reads
apply no barrier and are the `Observe` of a caller.

`SqliteStore` runs a flush in one transaction with a savepoint per request. A
flush may fail at any step, the process may crash at any step, contexts of
callers end at any moment. Positions are small so that the last one is reached.
It assumes that a statement that fails within a request is undone to the request's
savepoint: after a full disk or an I/O error SQLite may roll back the whole
transaction instead, and what the code does then is not modelled.

Both are shown to implement `EventLog`, whose only step adds the accepted
writes of one commit, in order, each satisfied by the history before it.

### Subscription

Two goroutines share a subscription. The reader (`subscriptionDrain.run`) takes
the wake-up, reads batches from its cursor and hands new events to the client;
the receiver (`receiveSubscriptionNotifications`) turns hints, timer events and
restored connections into wake-ups, of which at most one is pending. Hints may
be lost, may be older or newer than what is visible, and stop while the
connection is down. Events become visible in ascending reads some time after
they were saved (`Settle`), which is the barrier of the backends. A read or a
handler may fail; the client then starts again from its own checkpoint. A read
may return rows in any order and more than once, which is what `validate` is
for. Time is counted in ticks, and the idle threshold is a number of them.
`MaxTroubles` bounds lost connections and renewed sessions together.

### LockLease

The bucket has one key; a write is accepted at the revision it names. A client
goes through the attempts of `AcquireLock`, then holds a handle that `maintain`
renews and releases, while its caller alternates `Check` and work. Any operation
may end without an answer, and then its write is dropped or arrives at any later
time. Each client reads its own clock (`Skew`). With `Prompt`, time passes only
when nobody has anything to do, which is how "in time" gets its meaning.

What follows a failed `AcquireLock` is up to the caller. A relay (`Relays`) waits and
tries again. Its back-off doubles from `BaseDelay` to `MaxDelay`, each time with up to
half of it on top, and is never reset: after a few failures every wait of the relay is
the longest. A subscription returns the error and ends. In the code the
clients of one lock are all of one kind; an instance with one of each has the
behaviours of both.

A waiting relay finds the entry of a crashed holder at its first attempt after the
expiry, which comes at the latest one longest pause later. `FailoverIsTimely` is this
bound: less than `Lease + LongestPause` without a relay, which is 15 s + 7.5 s with the
constants of the code.

The bucket itself is not lost: it is kept in memory with one replica, and nothing in
the code depends on what happens after such a loss except that leases end.

### PGListener and NotificationRelay

One goroutine per server owns the LISTEN session and alternates between the
registrations that `EnsureBoundary` queues, for which it is woken by the
cancellation of its wait, and notifications. A broken session loses what it had
not handed over and is rebuilt. A wake-up is a channel of capacity one. Each
relay acquires the lease of its boundary, publishes a hint, and then one for each
wake-up of its own server. The lease is `LockLease` reduced to its holder, which
may lose it at any moment. `MaxFaults` bounds lost connections and leases, failed
publishes and crashes. The in-process signal of SQLite (`sqlite/event_signal.go`)
is not modelled.

### BoundaryLifecycle and IndexLifecycle

The log of the admin boundary records definitions and outcomes; a position is an
index into it, and appends go through the check that `EventLog` specifies. Every
server has its registry, its gate, its projectors and, for each of the two
subscriptions (provisioning and activation), a cursor and the stage of the
handler at each boundary. A handler that fails is tried again; a lease is lost,
a process crashes or shuts down at any step. A `Created` answer may be lost.

An index call on PostgreSQL is a sequence of statements without a common
transaction, so calls interleave between any two; `CREATE` and `DROP INDEX
CONCURRENTLY` exclude each other. On SQLite a call is one transaction. Definitions
that are spelled differently may mean the same index. What a client sees through
`ListIndexes` and `GetIndex` is computed from the row, with the conversions of the
adapter, and is what the property is about. A creation answers `AlreadyExists` in
two places: before it has reserved the row, which changes nothing (`exists`), and
after the build, when the index that it finds is another one (`differs`). The
second leaves the reserved row behind and counts as a reported error.

### Users

A command reads, decides and saves in separate steps, the save under the
observation of what it read. The projectors load a checkpoint, handle an event
and move the checkpoint in separate steps; each may fail and is then tried again,
and a crash loses the caches and the tokens. Logins look a user up in the cache
or in the table. Counts have `Width` 4, so that unsigned numbers wrap.

The model follows the code also where that is surprising:

* `CreateUser` looks for a deletion by a tag that no stored event has, so the name
  of a deleted user cannot be taken again.
  The comment at `create_user_handler.go:200` intends the opposite.
* A deletion and a password change of one user do not exclude each other: the
  change observes changes only, the deletion no changes. When the change is stored after the deletion
  the users projector finds no row, fails, and stays at that event for good.
  `ProjectorsCatchUp` names this as the only exception.
* A projector that handles an event twice counts it twice, a write of a count that
  fails is not noticed, and on PostgreSQL a read whose rows end in an error passes
  for zero, so that the next write starts again from there. One failure can make a
  count wrong by any amount, and nothing recounts. `OnlyFailuresMoveCounts` says that
  it takes a failure or a crash.
* On SQLite, a count of events that has no row yet starts from the number of
  stored events and then counts them again.
* The projector of sessions has no checkpoint and reads the log from the start.

The read models are written by one process. `Changed` in `MCAdminUsers` starts
from a log that holds a password change; the present `ChangePassword` refuses a
first change (see below), so such an event has to be in the log already.

### TagQueries, EventStoreMessages and EventStoreService

There are three doors: gRPC, the embedded `OrisunServer`, and the port that the
boundary slices use. A caller asks for something in the terms of the caller; each
door turns it into its own messages, with nil where the messages allow one, and
the layers below validate, prepare, encode and convert it until a backend reads or
writes rows. `RepliesMeanRequests` compares the answer with what the same request
means directly on the rows; `ContextExplainsWrite` compares a write context with
the checks that the write passed.

A document is a set of top-level keys with typed values. Texts are opaque, in byte
order; numbers are compared exactly, by sign, digits and exponent. Stored numbers
are ones that the engines render as they were written, and containers have one
text. Documents carry the envelope fields of the event's id and type. Empty
criteria are ignored beside others, as in the code, and the order of normalised
criteria is left open. A request is one step here: interleavings are the subject of
`SqliteStore` and `PostgresStore`, and the barrier of ascending reads of
`PostgresStore`. The gate is enabled before requests arrive.

## What TLC checks

| run | instance | shows |
| --- | --- | --- |
| `group_commit` | one boundary, three calls of uneven sizes, one of them larger than a batch, a queue and batches of two, a cancellation | the properties of the coordinator in every interleaving with `Close` |
| `group_commit_stalled` | two boundaries, one with an executor that hangs and calls enough to fill its queue | calls at the other boundary are answered |
| `postgres_store` | a row restored from another cluster, batches of three server processes with four requests that depend on each other, one other transaction, one reader | `EventLog` is implemented, ascending readers miss nothing, callers are told the truth |
| `postgres_restart` | the same with a server that starts while others write | a violation, see below |
| `sqlite_store` | three requests near the last position, failures, cancellations and a crash; or up to two writes and any request of each kind, through each door, on either backend | `EventLog` is implemented, positions have no gaps, callers are told the truth; answers mean what was asked and contexts explain writes |
| `boundary_lifecycle` | a server and an embedded store, a new and a restarted cluster, two callers, two faults; or two creations and a drop of one index, with one fault, on either backend | boundaries are defined and activated once, exposed only when ready, never forgotten; a listed index is usable unless a call reported an error |
| `notification_relay` | two servers, two boundaries of which one is registered while the listener waits, one commit, one fault | an owned boundary with an unannounced commit has a hint on its way, no registration is stranded, `Stop` leaves nothing running |
| `admin_users` | scenarios of two to four calls on users with their projectors, one failure or crash | what a command decided on holds when its event is stored, the table follows the log, only failures move the counts, sessions stay within their limit, projectors catch up unless a password change follows its user's deletion |
| `user_count` | one creation and its count, one failure or crash | a violation, see below |
| `first_password_change` | one user who never changed their password | a violation, see below |
| `subscription` | two events, hidden by the barrier at first, batches of two, a lost connection, failures, under fairness | nothing is skipped, no hint is wasted, the watchdog is never late, every visible match is delivered, an ended subscription returns |
| `lock_lease` | a relay and a subscription with equal clocks, one lost or late operation or crash; or two prompt relays with growing back-off and jitter, and a crash | at most one valid lease, checks pass in the order of acquisition, a release leaves a successor alone; a relay without the lease for less than the lease and the longest back-off (`RelayFailsOver`) |

Three requests are enough for the conflicts that matter: a request that
invalidates another, and one that depends on both, in the same and in different
batches. For `EventStoreService`, two writes are enough for an observation that a
later write invalidates or confirms, and for a page that ends between two events.
One index name is followed because calls on different names share only the lock of
the table. Limits of two make a batch full by number and by events, make a
request overflow a batch and be carried, and make a queue full.

Fairness (`GroupCommit!FairSpec`): a goroutine that can take a step eventually
does. Callers need not call, contexts need not end, `Close` need not be called.
An executor returns, because its context has the flush timeout, except at the
boundaries of `Stalled`.

`Subscription!FairSpec`: the reader and the receiver take their steps, ticks
go on, saved events become visible, a call of the backend or of the handler
returns. Hints need not arrive and the connection need not be restored: what is
delivered eventually is delivered because of the watchdog.

`AdminUsers!Fairness`: the loop of each projector goes on, because it tries again
after every failure. Callers need not call.

Deadlock is not checked where a system may stop: all calls are answered, or all
processes have ended.

### Disagreements found

* `postgres_restart`: the migration's own id is assigned before its `UPDATE`,
  so a row committed in between by a running server has its id cleared and
  appears before an earlier row whose transaction is still held back.
* `first_password_change`: `ChangePassword` observes the query for earlier changes
  at the position of the user's creation, which that query does not match, so a
  first change is always refused as a conflict, though nothing else was saved
  (`docs/docs/api/admin.md` says that users change their own password).
* `user_count`: the user count stays wrong after a write that failed, or after a crash
  between a count and its checkpoint, though the projector has caught up.
  `docs/docs/api/admin.md:250` says that counts "may briefly lag a successful write".

Two more have no run of their own; the properties of the passing runs leave room for
exactly them:

* A row may be `READY` without a usable index after a call that reported an error. A
  drop that is interrupted between its `DROP INDEX` and the deletion of the row leaves
  it so, also when a creation in between has marked the row. TLC reaches this in the
  instance of `boundary_lifecycle`. `docs/docs/concepts/indexing.md:180` says that
  `READY` means the index can be used; `ListedIndexIsUsable` promises it unless a call
  reported an error.
* A password change may be stored after the deletion of its user, and stops the users
  projector (see Users). `change_password_handler.go:109` says "Validate user existence
  and not deleted"; what it validates is not part of what the save observes.

## What is proved

For every set of calls and boundaries, every assignment of boundaries and
sizes, and every positive limits (`ConfigAssumption`, which is what `New`
demands):

| theorem | says |
| --- | --- |
| `GroupCommitType` | the types of all variables |
| `NoSendOnClosed` | no call is at its send when the queue is closed |
| `OutcomeIsApplied` | an outcome that is returned was made durable |
| `WaitingIsOwned` | a waiting call has its completion or is held by a worker that has not ended |
| `CompletionFinal` | no request is completed twice |
| `ErrClosedIsDefinite` | a call that gets `ErrClosed` was not and will not be executed |
| `AdmissionOrderIsKept` | a boundary executes requests in the order of their admission, each at most once |

The arguments. `ShutdownInv` ties the label of `Close` to what calls can still
do: after `Close` has held the registry lock no call is at `register`, after
the wait for the senders none is at `enqueue`, and queues are closed only
after that. `WorkerInv` says what a worker holds from its label (a worker that
has ended holds nothing and its queue is closed and empty), which makes
`WaitingRequestIsOwned` inductive. `ErrClosedInv` adds that a request is in one
place at a time, that what is not yet executed is disjoint from what was, and
that `ErrClosed` is delivered only by a worker that has left its loop;
`DroppedInv` (a request left out of a flush has its answer) is needed because a
panic fails the whole batch. `OrderInv` lines up what was executed, set apart for
the executor, batched, carried and queued: each part is in the order of admission
and comes before the next, and every step of a worker moves the head of a part to
the end of the part before it, or drops it (`ChainMoves`). `ErrClosedInv` and
`OrderInv` were first checked with TLC.

For every subscription (`Subscription`): `SubscriptionType`, `SilenceIsBounded`
and `DeliveryOrder` without an assumption on the backend; `NothingIsSkipped` and
`NoHintIsWasted` for a backend whose reads are sound. The invariant says, by the
label of the reader, which matches are still to be handed over: those above the
cursor, and while a batch is handed over, those of the batch and beyond its end.

For every set of clients, every lease, heartbeat and number of attempts
(`LeaseAssumption`): `LockLeaseType`, `ChecksInOrder`, `ReleaseIsFenced`, for any
clocks, and `OneValidLease` for equal ones. `TokenInv` says who has a token and
that no revision is ahead of the bucket. `OwnInv` says what knowing the present
revision means: the entry is one's own. Every accepted write makes all known
revisions old, so only the step that writes has something to show. `ValidInv`
adds times: an entry lasts as long as its holder believes, and whoever may still
replace it has seen it expire.

For every PostgreSQL boundary (`PostgresStore`), with any requests, batches,
servers, other transactions and readers:

| theorem | says |
| --- | --- |
| `OutcomesHold` | an accepted request is in the history, once; a conflicting one is not |
| `StoreIsEventLog` | the store implements `EventLog` |
| `ReadersMissNothing` | while `CleanStart` holds, an ascending reader passes no event it has not delivered |

`StoreAssumption` types the constants; `BatchAssumption` says that a request is
queued once; `RestoredAssumption` says that restored rows are those of a boundary.
The argument: the advisory lock (`LockInv`) makes one batch at a time the only one
that has looked at the latest positions and not yet ended, so what it looked at is
still the latest when it commits (`CheckInv`), and positions only grow (`LogInv`).
A batch keeps, for each criterion its requests mention, the latest match, and moves
it with each accepted request; `LatestMatchMoves` says that this is the latest match
of the longer history. `XidInv` says that the transaction ids of the log are in its
order and that the id of the open batch is above all of them, so what becomes visible
to a reader is always what comes next in the log; `ReaderInv` that a reader's cursor
is before every event or at one.

`CleanStart` is a hypothesis, not an invariant: while a server migrates a boundary
in use, no later transaction has committed to it. It holds in every state of
`postgres_store`. `postgres_restart` is what happens without it.

For every SQLite boundary (`SqliteStore`), with any requests, queries of finitely
many criteria, batch limit and last position: `DensePositions`, `OutcomesHold` and
`StoreIsEventLog`. `LogInv` says that writes lie side by side from the first
position to the sequence row, `CheckInv` that the running flush keeps the latest
match of each query as of what it has written so far, `FlushInv` and `ToldInv` that
outcomes are those of the writes of the flush and are told after its commit. The
implementation compares queries as sets of criteria and keeps one position per
query; the number of rows of a union is the sum because rows lie apart.

Both refinements rest on `ConsistencyProofs`: positions are totally ordered
(`BeforeIsTotal`, `BeforeIsTransitive`), a nonempty set of bounded positions has a
greatest one (`GreatestExists`), and a write that is added above all others moves
the latest match only if one of its events matches (`LatestMatchMoves`). The least
number principle that `GreatestExists` needs is a hypothesis there (`LeastExists`)
and is discharged from the library's theorem that `<` is well founded on `Nat`.

The inductive invariants of both backends were checked with TLC before they were
proved.

For every set of servers, boundaries and registering calls and any bounds on commits
and faults (`NotificationRelay`):

| theorem | says |
| --- | --- |
| `WakeupsAreKept` | a relay that owns a boundary with a commit that no hint covers is going to publish another |
| `StopLeavesNothing` | when `Stop` has returned no relay runs or is being started, and no lease is held |
| `RegistrationsAreServed` | the listener does not wait while a registration is queued, unless that wait is cancelled |

The invariant (`RelayInv`, checked with TLC first) adds to `NoLostWakeup` what it
needs of the other goroutines: `StopInv` and `StartInv` say what `Stop` and
`StartBoundary` have seen of each other through the mutex, `LeaseInv` that a lease
of a live server belongs to a relay that knows of it, and `SignalInv` that a relay
serves a lease only with the signal of its boundary in place, so that a notification
can reach it. `NoStrandedRegistration` needs the types only: `EnsureBoundary` queues
and cancels in one step.

Only model-checked:

* All liveness properties: the prover has neither fairness nor `ENABLED`.
* `FailoverIsTimely` (`RelayFailsOver`): its invariant would have to relate the timers and attempts of
  every client to the expiry of the entry.
* The batch limits of the coordinator, which are sums over sequences: they need
  induction over data.
* The properties of the lifecycles, users, projections, sessions and requests. Those
  of requests (`EventStoreService`) are about recursive operators, which the prover
  does not accept; most of those of `BoundaryLifecycle` are about what a replay of the catalog
  computes, which is induction over its events.

## What is not modelled

* Generated protobuf code, configuration, logging, telemetry, benchmarks: no
  behaviour over time that a property could be about. Together with the wiring of
  `main`, TLS, pprof and the embedded NATS server they are a large part of the
  source.
* The scripts that create tables, and connection pools: they decide nothing about
  events. The one migration that changes rows is in `PostgresStore`.
* `sqlite/event_signal.go`, `Ping`, the information a server gives of itself, and
  the lists that the dashboard reads.
* Names and placements of boundaries: they are abstract, so their validation and
  the refusal of a conflicting bootstrap placement are left out.
* Passwords and tokens: a hash is a record of what it was made from.
* Liveness of boundary provisioning and of the relays: their retry loops depend on
  NATS and on the database coming back. The properties there say that the work is
  never forgotten.
