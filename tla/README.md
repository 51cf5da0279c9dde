# A TLA+ model of ActorDB

ActorDB (the repository's README calls it "dekigoto" in places) is an
event-sourced actor database: writers append numbered events to per-aggregate
streams in an event store, projections fold the events into queryable states,
and clients drive aggregates over HTTP. It exists as a Go program, which is the
complete one, a TypeScript port, a Rust skeleton, a TypeScript client and two
demo applications. This directory models the parts whose correctness depends on
the order in which several goroutines, requests or failures take their steps.

## Inventory

| Part | Source | State | Operations |
|---|---|---|---|
| Go event store | `impl/go/internal/eventstore/eventstore.go`, `storage.go` | `running`; the storage's `events`, `sequences`, `snapshots`; the cached `actors`; the `subscribers` and their channels | Start, Stop, WriteEvent, ReadEvents, GetActorState, createSnapshot, Subscribe, Unsubscribe, broadcastEvent |
| Go SQL storages | `sqlite.go`, `postgresql.go`, `libsql.go` | tables `events` with primary key (aggregate_id, sequence), `snapshots`; transactions | WriteEvent, WriteEventsBatch, reads, snapshots |
| Go key-value storages | `leveldb.go`, `rocksdb.go` | the database; an in-memory map of last sequences, rebuilt by `loadSequences` | the same |
| Go projection engine | `impl/go/internal/projector/projector.go` | `definitions`, `projections` with their states, one queue per worker, the event channel, `running` and the context | Start, Stop, RegisterProjection, Query, routeEvent, processUpdate, checkAutoPromotion |
| Go security gateway | `impl/go/internal/security/gateway.go` | `running`, its context, its HTTP server, the bounded audit stream | Start, Stop, ValidateToken, CheckPermission, auditEvent, processAuditStream |
| Go query interface | `impl/go/internal/query/interface.go` | its HTTP server | Start, Stop, the routes, authMiddleware |
| Go control plane | `impl/go/internal/control/plane.go` | its HTTP server; health and metrics copied from the other components | Start, Stop, updateMetrics, evaluateScaling |
| Go program | `impl/go/cmd/actordb/main.go` | the signal channel | starts the components in dependency order, stops them in reverse |
| TypeScript event store | `impl/typescript/src/eventstore` | as in Go, without locks | the same, interleaved at `await` |
| TypeScript projector | `impl/typescript/src/projector` | definitions, states, the workers' queues and their flags `running` and `processing` | start, stop, registerProjection, query, routeEvent, process |
| TypeScript program | `impl/typescript/src/main.ts`, `query`, `control`, `security` | each component's flag, three HTTP servers, the intervals, the audit events, metrics and decisions | start, signals, shutdown, cleanup; the HTTP routes; the timers |
| TypeScript client | `client/dekigotojs/src` | each `Actor`'s local `sequence`; aggregates folded from events | writeEvent, loadSequence, getHandle, CommandBus |
| Demo nextjs-libsql | `demo/nextjs-libsql/src` | the projections `todo_lists` and `todo_items`; the state hooks of each page | the server actions, the dashboard, its forms and buttons; the commands |
| Demo nextjs-supabase | `demo/nextjs-supabase/src` | one event store per API route | POST, PUT, DELETE and GET of todos, raw events, and the server actions that fetch them |
| Migration tool | `tools/migration/main.go` | none | copies events one by one |
| Rust implementation | `impl/rust/src` | configuration and tokens only | placeholders elsewhere |

How they interact: HTTP handlers and tests call the event store; the event
store calls its storage; it hands every stored event, without blocking, to the
channels of its subscribers, of which the projection engine is the only one in
the program; the engine's router passes each event to the worker of every
projection that names its type; the control plane polls all of them. In
TypeScript the engine's listener runs inside the store's broadcast, on the one
thread there is. The client calls a server over HTTP. The first demo's server
actions call a store and an engine in their own process; the second demo's API
routes each make an event store (a copy of the TypeScript one) over one shared
PostgreSQL database.

What is hard here:

* WriteEvent is atomic to its caller only. The append, the update of the cached
  actor state, the snapshot and the broadcast are each under a lock of their
  own, with nothing held in between.
* Callers choose the sequence number they append at, and race for it.
* Channels and queues are bounded and lossy, by design, so as not to block.
* The engine's router sends to queues under a read lock which the workers that
  drain the queues, and a registration, also need.
* Start, Stop and RegisterProjection run against goroutines already at work.
* The key-value storages check and write under no lock, and restart from disk.
* In TypeScript nothing preempts a function, and everything interleaves at its
  awaits, in the order of the microtask queue.
* The Go program stops its components one after the other, gives the handlers of
  each server five seconds, and goes on whether they are done or not.
* The TypeScript program stops its components all at once while connections are
  served, and may be told to stop, or fail, at any point of its start.
* The client keeps a sequence number across failed, slow and repeated requests,
  and a handle's state and number come from two reads.
* The demos read, decide and write in separate awaits, on several pages and
  through several routes, and pass over the results of their writes.

What makes each part correct:

* storage and event store: the log of an aggregate is gap-free and append-only,
  success is never reported falsely, no call is held up by a subscriber; the
  cache and the snapshots never run ahead of the log and, with one writer per
  aggregate, are exact; a subscriber gets stored events, each once, and in order;
* SQL and key-value storages: the same log, under concurrent transactions and
  across restarts;
* projection engine: a state is the in-order fold of the accepted updates, no
  deadlock between routing, registering and updating, every goroutine ends
  after Stop, no panic;
* TypeScript store and projector: the cache lags the log by the writes under way
  and no more, every stored event is broadcast, no update is stranded in a queue;
* Go program: a component that a handler uses runs, unless the handler has overrun
  its five seconds, and a program told to stop does;
* TypeScript program: a component that is used runs, an exit leaves nothing open,
  a program told to stop does, the audit stream holds the newest events;
* client: an event that does not fit the log at its place can only come from the
  two known gaps, and a command that resolves has an event to show for it;
* demos: a page sees what it has written, a projection differs from its log only
  after a failure or an overtaking, and a change reported as made and not stored
  can be accounted for.

## Modules

`AppendLog.tla` is the abstract specification of a storage: per aggregate one
log, and clients that ask for an event to be appended (`Invoke`), which either
takes the next place (`Commit`) or fails without a trace (`Reject`, and `Abort`
for all calls that a crash cuts off).

`EventStore.tla` is the Go event store over its in-memory storage, the default
of the tests and the program. A goroutine's `pc` says which step of a call it
is at; every critical section is one action.

| Action | Code |
|---|---|
| `WriteEvent` | the `running` check of WriteEvent and the call of the storage |
| `StoreEvent`, `StoreFails` | MemoryStorage.WriteEvent under its mutex: the sequence check and the append, or the error WriteEvent turns into `Success: false` |
| `UpdateActor` | the section under `actorsMu`, and the test whether a snapshot is due |
| `CopyActor`, `WriteSnapshot` | createSnapshot: the copy of the cached state, and the storage's write of it |
| `Broadcast`, `Send`, `WriteReturns` | broadcastEvent: taking the read lock, one non-blocking send per subscriber in any order, and the return |
| `LookupMisses`, `LoadSequence`, `PublishActor` | GetActorState on an aggregate that is not cached |
| `Subscribe`, `Unsubscribe`, `Receive` | the subscriber; the first two wait for the broadcasts that hold the lock |
| `Start`, `Stop` | the flag `running`; calls in flight carry on |

An event is its aggregate, its number, and the goroutine that wrote it, in the
place of its payload: two events racing for one number are then told apart, and
nothing else of the payload matters. Timestamps and event types are left out.
The cached ActorState is its LastSequence, or `Absent`.

`EventStoreProofs.tla` holds its theorems and `MCEventStore.tla` its instance.

`ProjectionEngine.tla` is the Go projection engine. `router`, `worker`,
`control` and `querier` say where its goroutines are; `registering` how far a
RegisterProjection has come. `definitionsMu` is a Go RWMutex: a waiting writer
keeps new readers out (`WriterWaiting`), and the router holds it for reading
(`router = "route"`) over all the sends of one event. An update is the name of
its projection and the type of its event. A panic sets `crash` and ends the
behaviour, since nothing in the program recovers. The event store appears as
`Publish`, which is broadcastEvent's send to the engine's channel. `accepted`
and `asked` are history variables: the updates queued for a projection, and the
on-demand answers counted for it. `ProjectionEngineProofs.tla` holds its theorems
and `MCProjectionEngine.tla` its instances.

What callers may do is taken from the callers: a name is registered once, and
main starts and stops the engine once each. Definitions are never removed, so
processUpdate's "Definition not found" branch is never taken.

`KVStorage.tla` is what LevelDBStorage and RocksDBStorage have in common: they
are the same program but for the database's API. `stored` and `lastKey` are the
database's e: and s: keys, `sequences` the sync.Map in memory.

| Action | Code |
|---|---|
| `Open` | Open with loadSequences |
| `Crash` | the process ends: the memory and the calls under way are lost, the database stays |
| `WriteEvent`, `CheckPasses`, `CheckFails`, `PutEvent`, `PutFails`, `Remember` | WriteEvent: the comparison with the number in memory, the atomic write of two keys, which may fail, and the update of the memory, under no lock |
| `WriteEventsBatch`, `CheckGroup`, `GroupFails`, `AdvanceGroup`, `PutBatch`, `PutBatchFails` | WriteEventsBatch: per aggregate, in any order, the comparison and the update of the memory; then one write of all keys |

`spoiled` is a history variable: the aggregates of batches that failed after the
memory was advanced. The map cites leveldb.go for single events and rocksdb.go
for batches. Nothing in the program creates these storages yet (they are behind
build tags, and StorageFactory does not name them) or calls WriteEventsBatch;
their callers are those of the Storage interface. `KVStorageProofs.tla` has the
theorems, `MCKVStorage.tla` the instance.

`AtomicLog.tla` is `AppendLog` for storages with transactions: what a client
asks for is a batch of events of any aggregates, `Commit` appends all of them at
the ends of their logs, each in the place of its number, and `Reject` none.

`SqlStorage.tla` is what PostgreSQLStorage, LibSQLStorage and SQLiteStorage have
in common: WriteEvent and WriteEventsBatch run the same statements in one
transaction, and WriteEvent is the batch of one event. `events` and `sequences`
are the committed tables. What a transaction has written and not committed
(`Inserted`, `Counted`) follows from its batch and how far it has come.

| Action | Code |
|---|---|
| `WriteEventsBatch`, `BeginTx`, `BeginTxFails` | the call, and BeginTx, which waits for a connection of the pool |
| `ReadSequence`, `SequenceMismatch` | the SELECT from the sequences table, in the view of the transaction, and the comparison |
| `InsertEvent`, `InsertConflicts` | the INSERT into the events table: it goes through, waits for another transaction's uncommitted row of its key, or violates the primary key |
| `UpdateSequence` | the upsert of the sequences row, and the step to the next event or the commit |
| `Commit`, `CommitUnheard` | tx.Commit, answered or with the answer lost |
| `StatementFails`, `DeadlockDetected` | any other error of a statement; the failure the database chooses to end a deadlock |

Every error return goes through the deferred `Rollback`. The three databases
differ in how they lock. The module has the weakest, PostgreSQL's read
committed: locks on rows and keys only, each statement seeing what is committed
by then. SQLite and libSQL lock the database for the first writing statement of
a transaction and refuse it, with "busy", when the transaction's read has become
outdated: that is `StatementFails` where the module would also allow to go on, so
their behaviours are among the module's. The check of the empty batch, which
libSQL has and the others need not have, is left out with the empty batch.
`SqlStorageProofs.tla` holds the theorems, `MCSqlStorage.tla` the instance.

`GoProgram.tla` is the Go program's main with the gateway, the query interface and
the control plane, each with an HTTP server whose handlers run beside main. The
event store and the engine are steps of main here; what they do between them is
in their own modules.

| Action | Code |
|---|---|
| `New`, `InitEnds` | main up to the first Start: the configuration and the constructors, or an early end |
| `StartServer`, `StartOther`, `StartFails`, `Notify` | the Starts in `StartOrder`, log.Fatalf when the storage does not open, signal.Notify |
| `Signal`, `TakeSignal` | a signal, which kills the process until Notify; main's receive |
| `Withdraw`, `Shutdown`, `Drained`, `TimesOut`, `Close`, `StopOther`, `Return` | Stop, component by component in `StopOrder`: the flag and the context, the listener, the wait for handlers or five seconds, the closing of the channel |
| `Listens` | ListenAndServe on a goroutine; an error is only logged |
| `Send`, `AnswerAtOnce`, `ValidateToken`, `AuditEvent`, `AnswerValidated` | a request and its handler: the check of `running`, the send to the audit stream, the answer |
| `ProcessAudit`, `AuditorEnds` | processAuditStream, which takes events until its context is cancelled |

A handler that sends on the closed stream panics, and net/http recovers that and
drops the connection: the request is then `aborted` and the program goes on.
`running` of the other two components is never read. `overrun` is a
history variable. `MCGoProgram.tla` has the instance.

### The TypeScript server

`EventLoop.tla` is the runtime: a first-in first-out queue of microtasks (`jobs`),
and `turn`, which says whether a macrotask's own code runs (`Script`) or the
queue is being emptied (`RunJob`). An await is the end of one action and a job
for the next, so an action is what a function does between two awaits.

`NodeEventStore.tla` is the event store over MemoryStorage. The label of a
call's job is the await it continues from:

| Label, action | Code |
|---|---|
| (the call) `WriteEvent` | writeEvent up to its first await: the `running` check, the storage's check and append |
| `stored`: `Stored`, `StoredSnapshotDue` | the cached state is updated, then the event broadcast, or createSnapshot begun |
| `refused`: `Refused` | the storage's error becomes a result |
| `copy`: `Copy`; `written`: `Written`; `broadcast`: `SnapshotMade` | createSnapshot serialises the state, the snapshot is stored, writeEvent goes on to broadcast |
| (the call) `GetActorState`, `loaded`: `Loaded` | the number is loaded, and one await later cached |
| `resume` | the caller's own await of the call |

A state object is shared with whoever holds it, so `actors` keeps, per aggregate,
the number of every object the map has held, and a call's `local` names the
object it holds: a snapshot may serialise an object that has changed since, or
one that is no longer in the map.

`NodeProjector.tla` is the engine. A worker is a loop with an await in it:
`enqueue` starts the loop unless it is under way, its first update is applied
within the call that brought it (`ApplyHeads` in `RouteEvent`), each later one by
a job (`WorkerContinues`), and `WorkerEnds` takes the flag back. `EngineStart`
lets loops begin on what an earlier stop left in the queues (`Leftover`).

`NodeServer.tla` composes the two: the engine's listener runs inside
broadcastEvent, so `BroadcastStep` is both in one step. A caller goes on with
another write inside the job that resumes it, or ends. Start happens once, as
in main.ts; Stop at any time, with calls under way. `NodeServerProofs.tla` has the
theorems, `MCNodeServer.tla` the instance.

`NodeProgram.tla` is main.ts with the query interface, the control plane and the
security gateway.

| Action | Code |
|---|---|
| `Load`, `LoadFails`, `GenerateToken` | the configuration is read, or not, or a token is printed and main returns |
| `StartServer`, `Listening`, `ListenFails`, `MTLSFails`, `StartStore`, `OpenFails`, `StartProjector` | the awaits of main in `StartOrder`; each start, and each way it rejects |
| `Cleanup`, `Shutdown`, `SignalKills` | the catch clause, the signal handlers, and a signal before they are installed |
| `Closes`, `Exit` | a server's close event when its last connection has ended; the exit after all stops |
| `Connect`, `Disconnect`, `AskHealth`, `AskGateway`, `AskOpen`, `AskWithToken` | clients, and the routes' handlers behind authMiddleware, with validateToken and auditEvent |
| `UpdateMetrics`, `EvaluateScaling` | the control plane's intervals |

A token is `none`, `invalid`, `user` or `admin`, which is all that validation and
the permission checks tell apart. Nothing in the program writes an event, so its
store stays empty. Of the storages only the memory one opens; the others are
placeholders whose open throws. updateMetrics sets no latency, so the scaling
decision that depends on one is never taken. `NodeProgramProofs.tla` has the
theorems, `MCNodeProgram.tla` the instance.

### The client and the demos

`TodoItem.tla` has the todo item's reducer (`Reduce`, `StatusOf`) and what the
handle of each status can write (`HandleOffers`); the next modules use it.

`ActorClient.tla` is Actor, ActorManager and TypedActorManager. A holder has a
bare `Actor` or a handle; a call is waiting for its request, `answer` is what the
server has sent back, `late` the writes given up by a timeout that may still
arrive. The server is external: it serves reads from its log and accepts a write
only under the next number. An event carries how it was come by (`basis`: how
much of the log the handle's state was made of, what number its Actor loaded,
how many writes it had been asked for before), which is history. `TodoClient.tla`
adds CompleteTodoItemHandler, whose command is a getHandle, a write at once and
a result that is the number written under. `MCTodoClient.tla` has the instance.
getHandle constructs its aggregate class with `new`; the demo passes an arrow
function there, which the targets after ES5 refuse to construct, so each getHandle
that finds events may end in that error (`CannotConstruct`) or go on.

`TodoActions.tla` is the server actions: each reads the item's number
(`StateRead`), writes one event (`EventWritten`) and has it processed
(`EventProcessed`), in awaits of their own, any of which may throw (`Throws`).
The store and the engine they import (`lib/actordb`) are not in the repository
and are modelled from how the actions use them. `TodoPage.tla` adds the dashboard,
the forms and the buttons. Next.js runs the server actions of one page in the
order they were called, which is external too, and those of different pages side
by side; a load is three reads whose results are shown together. The identifiers are
finitely many (`TodoPageAssumption`), since statistics count items. The module's
initial predicate, next-state relation and specification are called `PageInit`,
`PageNext` and `PageSpec`, so that `TodoProofs.tla`, which has the theorems of the
client and of the pages, can extend both. `MCTodoPage.tla` has the instance.

`TodoApi.tla` is the second demo's API. `GetEventStore` makes and starts a route's
store on its first request, and gives it to all later ones whatever state it is
in; a handler then reads (`ReadItem`), decides, and writes (`WriteEvent`). A read
that throws is answered 500. A write that throws is not: writeEvent's catch makes
it `success: false`, which the routes send with a 200 (`WriteFails`, and
`WriteEvent` in a store that does not run or at a number that is taken).
`ActionReturns` and `FetchFails` are the server actions around the requests.
PostgreSQLStorage is a placeholder in the repository; the database is external,
appends an event atomically and only under the next number (`Accepts`), and may
fail any read or write. `opens` says whether it can be opened, and both cases are
checked. `failed` and a request's `seen` are history: the writes that the
database failed, and how many events the handler had read. `TodoApiProofs.tla` has
the theorems, `MCTodoApi.tla` the instance.

## Runs

| Run | Instance | What it shows |
|---|---|---|
| `es_contention` | 2 goroutines, 1 aggregate, numbers 0..3, snapshot every 2, 1 subscriber with room for 2 | gap-free append-only log, no false success, cache and snapshots behind the log, at most one delivery of each event, refinement of `AppendLog`, every call returns |
| `pe_engine` | 2 projections on 2 workers, queues and channel of 1, 1 querier, 2 events | states are in-order folds, promotion is earned, panics only in two races |
| `pe_progress` | 2 projections on 1 worker, 3 events | accepted updates are applied, registrations complete, Stop ends every goroutine |
| `pe_register_panic` (violation) | 2 projections, 1 event | a registration on a running engine can panic a worker |
| `kv_contention` | 2 goroutines that share one aggregate, the first with another to itself, numbers 0..2, batches of up to 2 events, failed writes, crashes | the memory follows the database of an aggregate of one writer across restarts; s: keys name stored events, acknowledged numbers are readable, only batches leave gaps |
| `sql_transactions` | 2 goroutines, 2 aggregates, 2 connections, single events and batches of two | committed tables agree, one transaction per aggregate at a time, refinement of `AtomicLog`, every call returns |
| `go_program` | 2 requests of any kind, an audit stream of 1 | valid tokens are not turned away and no handler panics unless a Shutdown timed out, a signal ends the program |
| `node_server` | 2 callers, 1 aggregate, numbers 1..3, snapshot every 2, 2 projections on 1 worker, promotion after 1 query | the cache lags by the writes under way, snapshots show at least what they are labelled with, only an event with a snapshot is overtaken, in-order folds, no lost wakeup, every stored event is broadcast |
| `node_program` | 2 connections, an audit stream of 2, a report of 1, 3 validations, every configuration | no request is answered 500, exits are clean, the audit stream is the newest events, a program that is to stop ends |
| `client` | a bare Actor and a holder of handles, 2 calls, 1 late write | stale writes are stored only through two gaps, resolved commands have an event |
| `todo_actions` | 2 pages, 1 list, 1 item, 1 fault, up to 3 events | a page shows what it completed, projections differ from the log only by faults or overtaking |
| `todo_api` | 3 requests of any kind, 1 identifier, any state of the database | lost changes are accounted for, edits are decided on the whole log |

### The bounds

`MaxSequence` bounds the numbers callers ask for, and thereby the log. Three
numbers with two writers give every shape of race: for the first number, for
the next one, with a stale one, and across a snapshot boundary at 2. A channel
of 2 is full while a third event comes. One aggregate is enough for contention,
since aggregates share nothing but the subscriber's channel.

In the engine, queues and a channel of one are full as soon as a second item
comes, and two events give an order to get wrong, with the floor at zero
telling a cancellation before a creation from one after it. `pe_progress` needs
three events: one in the worker's hand, one in its queue, and one on which a
blocking send would wait. `MaxEvents` and `MaxQueries` bound what the outside
does, not what the engine may do about it.

In the key-value storages crashes are not bounded. Two numbers and batches of
two give a batch over two aggregates whose second group is refused after the
first has advanced, one over two numbers of one aggregate, and a slow writer
that puts an aggregate's s: key back from 2 to 1. The aggregate of one writer is
the second one; the proof covers any.

In the SQL run the requests are listed in `SmallRequests`: single events with the
first and the second number, batches over two aggregates in both orders, so
that they can deadlock, batches whose second event is refused, and batches
within one aggregate in both orders. Nobody writes a third number, so the tables
fill up and later calls are refused, which is a case of its own. With as many
connections as goroutines all transactions can overlap; the proof covers every
pool.

In `go_program` one request can hang in each of the two servers that use the
gateway, and two overrun a stream of one. The timeout has no clock: it may pass at
any time while a handler of that server is in progress.

In `node_server` three numbers with a snapshot at 2 give a later event that
overtakes it, two projections on one worker give updates that wait for the loop,
and one query is enough to promote. In `node_program` the streams are cut at their
limits by the third validation, and two connections let one be served while the
other keeps a server from closing. In `client` the bare Actor writes up to
number 2 and the handles up to 3, so there is always room behind a race, and one
late write can arrive after the call that gave it up was repeated. In
`todo_actions` three events are a creation, a completion and a deletion, the
longest history that buttons can give an item but for repeats; in `todo_api`
three requests are a creation and two edits that race. `MaxQueue`, `MaxFaults` and
`MaxLate` bound what the users and the network do. Pages, calls and requests are
interchangeable, which the symmetry uses; these runs check invariants only.

Deadlock is checked but for components that really stop: the engine is
stopped once or panics (`pe_engine`, `pe_progress`, `pe_register_panic`), either
program exits, each request of `todo_api` is sent once, and the pages have used
up their identifiers and events.

### Fairness

The Go scheduler runs every goroutine that can take a step, so weak fairness
holds for the rest of a call once begun (`Continue(t)`), for the router, each
worker, the rest of a Start, Stop or RegisterProjection once called. A writer
waiting for an RWMutex gets it: new readers wait behind it. Nothing is assumed
of the environment: nobody has to call anything, and a subscriber need not
read. In particular `CallsReturn` holds although a subscriber never drains its
channel. Between a worker's queue and the end of the context Go's select
chooses at random; the model allows either, and only weak fairness of their
disjunction is assumed.

For the SQL storages, database/sql hands a released connection to the caller
that has waited longest, and the database a lock to a waiting statement, so a
BeginTx, an insert and an update that could go on again and again do go on:
strong fairness. Statements that wait for nothing are weakly fair, and so is
the detection of deadlocks, which PostgreSQL promises. No fairness makes
anything fail that need not.

In the Go program main takes its steps (`MainStep`), which include a timeout that
passes when a handler is still in progress. Nothing is assumed of the handlers,
which may wait for their clients for ever, of the goroutines that listen, or of
the one that logs audit events.

In the TypeScript server the runtime always runs the next job: `WF(JobStep)`.
`StoredIsBroadcast` needs no more, since no job waits for anything. In the program
the steps of main and of its servers are weakly fair (`MainStep`), and so is the
end of each connection: Node ends an idle keep-alive connection after
`keepAliveTimeout` and an unfinished request after `requestTimeout`, both with
defaults that main.ts leaves alone. Nothing is assumed of signals, requests or
timers. The client's and the demos' runs check safety only.

## Proofs

`EventStoreProofs.tla` proves, for every number of goroutines, aggregates and
subscribers, every bound, interval and capacity, assuming only
`EventStoreAssumption`:

* `TypeCorrect`, `GapFree`, `AcknowledgedStaysStored`, `CacheBehindLog`:
  `Spec => []P` for the invariants that `es_contention` checks;
* `HistoryAppendOnly`: the action property `AppendOnly`;
* `Refinement`: `Spec => ImplementsAppendLog`.

None of the invariants is inductive alone. `Inv` adds `LocalsInv`, which says
what each goroutine's locals hold at each step: that a goroutine past the
storage step has a pending outcome and an event whose fields are well typed,
that a goroutine about to copy the cached state finds one there, and that a
state about to be published or snapshotted is not ahead of the log. The
argument runs as follows. `AcceptsAtEnd` turns the storage's sequence check,
which looks at the last event's number, into "the next place of the log", which
needs `LogGapFree`. So `StoreEvent`, the only action that writes `events` and
`sequences` (`OnlyStoreEventWrites`), appends at the end (`StoreEventAppends`),
which preserves `LogGapFree` (`LogStep`) and moves no stored event
(`AcknowledgedStep`). Since the numbers only grow (`SequencesGrow`), every
number a goroutine carries to the cache or a snapshot is still behind the log
when it gets there (`CacheStep`), however late. `NextInv` puts the steps
together. In the refinement, `StoreEvent` is `Commit`, `StoreFails` is
`Reject`, `WriteEvent` is `Invoke`, and every other step leaves the log, the
requests and the mapped outcomes alone (`OtherStepsStutter`).

The same module goes on to prove, for any goroutines, aggregates and subscribers,

* `EachDeliveredOnce`: `Spec => []DeliveredOnceStored`;
* `CacheStaysCurrent`, `DeliveredInLogOrder` and `SnapshotsFaithful`: the cached
  state, the order of delivery and the snapshots are exact, assuming `OneWriter`,
  that no aggregate is written by two goroutines and that none asks for actor
  states. The code asks that of its callers without saying so. No run checks
  these three, which do not hold of the constants of `es_contention`; the
  theorems cover every instance of which they do.

A goroutine sends what it stored earlier, so the invariant relates its locals to
the channels: `FreshInv` says that an event still to be sent to a channel is not
in it. When the storage accepts an event its number is past the log, and all that
channels hold is in the log; what others send afterwards is theirs (`OwnInv`).
With one writer, `LastInv` says that an event under way is its log's last, that the
cache holds it once the writer has passed the cache, and the snapshot's copy too.
Its number is then above all that a channel has of the aggregate, since those are
in the log and different.

`SqlStorageProofs.tla` proves, for any goroutines, aggregates, pool size and set of
batches, assuming only `SqlStorageAssumption`:

* `TypeCorrect`, with the bound on the pool, `TablesAgree` and `WritersSerialized`:
  `Spec => []P` for the three invariants of `sql_transactions`;
* `Refinement`: `Spec => ImplementsAtomicLog`.

The difficulty is that the sequence number is read without a lock: the check may
be outdated by the time of the insert. `IInv` says what then remains true.
`PoolInv` counts the open transactions, from which the bound on `inUse` follows.
`TxInv` says of each transaction that its rows have unique keys and take up the
numbers where the committed ones end (`Continues`), and that an event that
passed the check is `InTurn`: still the next one, or by now committed by
another, and then its transaction has no row of that aggregate yet. At the
insert (`InsertStep`) the primary key rules the second case out
(`InsertInTurn`); and if another transaction had rows of that aggregate, they
too would begin at the same next number, which is a key conflict to wait for, so
`OneTransactionPerAggregate` is kept. At the commit only one transaction can have
rows of each aggregate, so the numbers of all others are not shifted under them
(`CommitNumbers`, `CommitTables`, `CommitTransactions`). `QuietStep` covers the
steps that write no row, `NextInv` puts the steps together. For the refinement,
`CallsInv` adds that a call under way is pending and that what it has written of
each aggregate is in ascending order; `CommitExtends` shows that the tables
before and after a commit map to logs of which the second extends the first by
the batch.

`KVStorageProofs.tla` proves, for any goroutines, aggregates, numbers and batches,
assuming only `KVStorageAssumption`:

* `TypeCorrect`, `KeysNameEvents`, `AcknowledgedStays`: an s: key names a stored
  event, and what was acknowledged can be read, through any races and crashes;
* `MemoryIsDisk`: for an aggregate of one writer the number in memory is that of
  the database;
* `NoOtherGaps`: only batches leave gaps.

These come in two layers. `StoreInv` is inductive alone: `CallInv` says what a call
is made of at each step (the numbers of a group that was checked are a run
without a gap, which `CheckedIsRun` derives from the comparison), `ClosedInv` that
a crash has ended every call, and `ReadableInv` that a call past its write finds
it. `GapInv` and `MemoryInv` rest on it. `GapInv` says of each unspoiled aggregate
that the stored numbers and those a batch has claimed in memory are together
`1..k` for some k, which neither memory nor s: key exceeds, and that no call under
way can write past k + 1 (`Filled`, `Pending`): so a check against an outdated
memory can overwrite a number but never skip one. `MemoryInv` says how far memory
and database of an aggregate of one writer are apart at each step of that writer
(`Follows`); the calls of others do not touch it (`ElsewhereStep`), the writer's
own keep it (`OwnStep`), and a crash brings the two together. Each action's effect on one aggregate is stated once
(`QuietEffect`, `CheckEffect`, `PutEffect`, `GroupEffect`, `AdvanceEffect`,
`BatchEffect`), and `Otherwise` names the actions that write nothing.

`ProjectionEngineProofs.tla` proves `TypeCorrect`, `PanicsExplained`,
`PromotionsEarned` and `AppliedInRoutingOrder` for any workers, queriers, capacities
and thresholds, in a run of the engine from its one start to its one stop.
`RegistryInv` ties the definitions and the states to how far each registration
has come, so that a definition without a state is a registration under way;
`UpdatesInv` says that what is queued or in a worker's hand was accepted for a
defined projection (what a full queue drops is in no state), `StopInv` that queues are closed only by a Stop that has
cleared the flag and cancelled, and `QueriesInv` that a projection's counter is at
most the queries it answered. A worker that finds no state, and a router that
sends to a closed queue, are then in one of the two races. For the order of
application, `AssignedInv` says that a projection's updates are only ever in the
queue and the hand of its one worker, and `AppliedInv` that what was accepted for
a projection is what its state is the fold of, followed by what that worker still
has (`Settled`). A send, a receive and an application each move one update from one
end to the other.

`NodeProgramProofs.tla` proves `TypeCorrect`, `NeverAnswers500`, `LeavesNothing` and
`AuditNewest` for any connections and limits. `StageInv` says what runs at each await of main:
before the components are built nothing does, after a stop nothing does, past the
store's start the store does, and the query interface has a server only past that
point. `ConnectedInv` says that only a server that listens or is closing has
connections. A request then reaches the store only through a gateway that runs,
hence before the stop of both; and an exit with every server closed has no
connection left. `AuditInv` says that the audit stream is always a suffix of the
history of validations, and a proper one only when it is full.

`NodeServerProofs.tla` proves, for any callers, aggregates, projections and workers,
any snapshot interval and any thresholds:

* `TypeCorrect`, `SnapshotCorrect`, `BroadcastOrder` and `CacheIsCurrent`,
  about the event store;
* `WakeupNotLost` and `AppliedInRoutingOrder`, about the engine.

What makes the store right is the order of the microtask queue, so the invariant
`StoreInv` is about that queue. `JobInv` says what the arguments and the locals of
each job's call are, `OneJobInv` that a call goes on in one place. `OrderInv` is the
centre: behind a job that is to put number n in the cache, and only there, the
queue has jobs for n + 1, n + 2, ... up to the end of the log (`Follows`). A
`stored` job therefore finds the cache at its own number less one, and a `loaded`
job, which read its number one await earlier, cannot set the cache back: what was
written since is still behind it. `CacheInv` says the same of the number in the
cache, which at the front of the queue is `CacheCurrent`. `CopyInv` says that the
object a snapshot is to serialise shows the event that caused it; `HeardInv` that
an event whose snapshot is under way is behind all those not yet cached, has not
been broadcast, and has one such job. How each kind of job changes the queue is
stated once (`Moved`, `Continues`), and the actions are instances of it.
For the engine, `WorkerInv` says that a worker that processes has its job in
the queue and that an awake one with updates processes; and `AppliedInv` that what
was routed to a projection is what its state is the fold of, followed by what its
worker's queue holds (`Settled`, `Behind`). A worker serves one update at a time and
routing appends to the queue, also when `RouteEvent` applies the first update
itself, so the order is kept.

`TodoApiProofs.tla` proves `TypeCorrect`, `ChangesAccounted` and
`EditsDecidedOnLog` for any requests, identifiers and numbers. `HandlerInv` says
what a handler's record holds at each await, `StartInv` that a route's store is
started by one request and that a handler past it either found it running or was
early, `SeenInv` that what an edit has read is still in the log and holds a
creation, `EventInv` that a stored event is what its finished request carries and
that a stored edit saw exactly the events before it, and `AnswerInv` that an
answer of 200 to a write means stored, early, failed or overtaken. `HandlersMove` says
how a step changes the handlers' records, `LogGrows` what it does to the logs.

`TodoProofs.tla` has two parts. The first is about the client: `TypeCorrect`,
`StaleThroughGaps` and `DoneDecided`, for any holders and calls, assuming that the
types of events that callers write are among the event types
(`TodoClientAssumption`). `WriteInv` follows a write from the two reads of its
handle through the request, a timeout, a late arrival or a repetition to the log:
it is one that the state of the events seen offers, and while the handle is
unused its number is the one after the number loaded. `LogInv`, `HolderInv`,
`CallInv` and `LateInv` say so of each place that it can be in. A first write is
then stored out of place only if the log grew between the two reads.
`CommandInv` says that the number of a command's write is next or taken, and taken
once it is answered, which is why a command that resolves has an event.

The second part is about the pages: `PagesTyped`, `WritesAreRead` and
`DivergenceExplained`, for any pages and any finitely many identifiers.
`CallsInv` and `ActionInv` tie a page's action to the first of its calls.
`HistoryInv` says that an item's projection is the fold of the types of its events
in the order in which they were processed. `OnceInv` says that no event is
processed twice, `NoneLost` that without faults each is processed or owed by a
page (`OwedInv`). So once none is owed, either every event has been processed
in the order of the log, and the projection is the fold of the log, or one was
overtaken. For the reading of writes,
`CreationInv` says that an item has one creating call, which is over once the item is
there: hence a completed item cannot be put back to pending. `ThereInv` says
that a page shows and changes only what is there. `FinishedInv` says that a page
that completed an item has shown it done, has read it done and is going to
show it, or has both still to do (`WillShow`): its calls are served in their
order, whatever other pages do.

The folds that these proofs are about are FoldLeft of the community modules. The
library's induction theorems take an operator as a parameter, which the provers cannot instantiate, so `Induction` derives the
principle for a set of numbers from `WFMin`: a set that is not all of Nat leaves a
least number out. From it come the facts the proofs use: the value of a
fold on the empty sequence and after `Append`.

Every invariant and every action property that a passing run checks is stated by
a theorem, but for those of `GoProgram`, and so are both refinements. Only
model-checked are `GoProgram`, which has no proof module, and the liveness
properties (`CallsReturn` of either store, `UpdatesApplied`,
`RegistrationsComplete`, `StopEndsGoroutines`, `StoredIsBroadcast`,
`StopsEventually`): liveness under fairness and ENABLED are outside what the prover
handles.

No module with a theorem uses RECURSIVE operators.

## What the models show about the code

The properties are stated as what the code keeps to, which is in places less
than a reader of it may expect:

* With several writers of one aggregate the Go event store's cached state can go
  back to an older number and stay there, and a subscriber can get a later event
  first: `CacheCurrent` and `DeliveredInOrder` hold, and are proved, with one
  writer per aggregate. In TypeScript the cache cannot go
  back, and the order is only disturbed at snapshots.
* `RegisterProjection` on a running engine can panic a worker
  (`pe_register_panic`, the finding), and `Stop` the router; `PanicsOnlyInRaces`
  says that nothing else panics.
* Of two racing writers of one number to a key-value storage both are told of
  success and one has lost its event (leveldb.go:93): what stays readable is the
  number.
* A client's handle can write an event that its aggregate's state does not
  offer, when events come between the two reads of getHandle, or after an earlier
  write of the same handle. CompleteTodoItem does not look at the result of its
  write and reports a number that another event may have.
* In nextjs-libsql an event whose processing fails never reaches a projection. In
  nextjs-supabase an item created by POST /api/todo is not found by PUT or DELETE,
  although the event types and the demo's README promise that it can be edited: POST takes `type` out of
  the body and stores the rest, without what the reducer goes by. A write that was
  refused, or that the database has failed, is answered 200 there.
* The Go gateway's audit events may be lost when the program stops: nothing waits
  for the goroutine that logs them (`AuditorEnds` with events left), while the README
  promises "100% coverage of security events". The gateway also refuses every
  token from the head of its Stop, that of a request it has already taken included.

Some need no interleaving to see, and the models assume them away or leave them
out: a `snapshot_interval` or `worker_count` of 0 in Go panics at the first write
or event; reading a RocksDB snapshot back panics; a pool of several connections
to SQLite's `:memory:` has several databases; RocksDB does not sync its writes;
the Go engine never reads what was stored before it started; an uncaught
exception exits the TypeScript program without any cleanup (main.ts:154-163); the
arrow function that the first demo gives getHandle as a class cannot be constructed
unless it is compiled to ES5 (`CannotConstruct` has that outcome too). The comment
"This will be set by the event store" at the `sequence: 1` of todo-events.ts is
not true of the store, which refuses any number that is not next.

## Not modelled

HTTP and JSON, token cryptography, configuration loading, timestamps, payloads
and log output are abstracted away everywhere. Beside these:

* Go: the control plane's tickers, which read a store that nothing in the program
  writes to and whose scaling decision depends on a latency that is never set; the
  gateway's ApplyRLS and MaskColumns, which return their argument. In the storages Open and Close of the SQL
  ones, snapshots, reads and statistics, MemoryStorage's WriteEventsBatch, which
  nothing calls, and writes lost when a machine (rather than the process) goes
  down. The restart of an engine, which no caller attempts, in Go or in TypeScript.
* The migration tool: one sequential loop over a database, which goes on after a
  failed write.
* TypeScript: subscribers other than the engine, writeEventsBatch, which nothing
  calls, the reads, and a store that is started again, which no caller attempts.
* The client's query builder, which keeps no state, and its query requests, which
  change nothing.
* nextjs-libsql: updateTodoItem, which has no caller; CreateTodoItemHandler, which
  writes nothing; the todo list aggregate; the debugger component.
* nextjs-supabase: what the GET routes answer, the pages, the tables of
  `utils/supabase`, sign-in, and the debugger. Its `lib/actordb` is a copy of
  `impl/typescript/src`.
* The Rust implementation, whose components are placeholders.

What could come next: a refinement of `AppendLog` by `NodeServer` and by `KVStorage`
for aggregates of one writer, and proofs about `GoProgram`.
