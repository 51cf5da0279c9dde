-------------------------- MODULE ProjectionEngine --------------------------
(***************************************************************************)
(* The Go projection engine (impl/go/internal/projector/projector.go): a   *)
(* goroutine that routes the event store's events to bounded worker        *)
(* queues, the workers that fold them into projection states, and the      *)
(* callers of Start, Stop, RegisterProjection and Query, all interleaved   *)
(* at the engine's locks and channels.                                     *)
(*                                                                         *)
(* definitionsMu is modelled as the Go RWMutex it is: the router holds it  *)
(* for reading while it routes one event, and a caller waiting for the     *)
(* write lock keeps new readers out.  projectionsMu and a state's StateMu  *)
(* are only ever held for one step.                                        *)
(***************************************************************************)
EXTENDS Integers, Sequences, SequencesExt

CONSTANTS
    Projection,         \* projection names; each is registered at most once
    NameLength,         \* len(name), which selects a projection's worker
    Sources,            \* the event types of a definition's source streams
    WorkerCount,        \* ProjectionConfig.WorkerCount
    QueueCapacity,      \* buffer of a worker's queue (1000 in the code)
    ChannelCapacity,    \* buffer of the engine's event channel (1000)
    PromoteThreshold,   \* AutoPromoteQPSThreshold
    Querier,            \* goroutines that call Query
    MaxEvents,          \* bound: events the event store broadcasts
    MaxQueries,         \* bound: queries of one projection
    NoEvent, NoUpdate, NoProjection

EventType == {"order_created", "order_cancelled"}

Worker == 0..(WorkerCount - 1)

ASSUME ProjectionEngineAssumption ==
    /\ NameLength \in [Projection -> Nat]
    /\ Sources \in [Projection -> SUBSET EventType]
    /\ WorkerCount \in Nat \ {0}
    /\ QueueCapacity \in Nat \ {0}
    /\ ChannelCapacity \in Nat \ {0}
    /\ PromoteThreshold \in Nat
    /\ MaxEvents \in Nat
    /\ MaxQueries \in Nat
    /\ NoEvent \notin EventType

VARIABLES
    running,            \* ProjectionEngine.running
    cancelled,          \* its context has been cancelled
    crash,              \* the panic that ended the program, or "none"
    control,            \* where main is in Start and Stop
    closing,            \* the index of Stop's loop over the workers
    subscribed,         \* eventChannel is among the event store's subscribers
    channel,            \* the contents of eventChannel
    published,          \* how many events the event store has broadcast
    registering,        \* how far each name's RegisterProjection has come
    definitions,        \* keys of ProjectionEngine.definitions
    projections,        \* keys of ProjectionEngine.projections
    orders,             \* State["orders"] of each projection, 0 where absent
    materialized,       \* IsMaterialized of each projection
    qps,                \* QPS of each projection
    router,             \* where subscribeToEvents' goroutine is
    current,            \* the event it is routing
    todo,               \* the projections it has still to send that event to
    queue,              \* each worker's queue
    closed,             \* whether that queue is closed
    serving,            \* Worker.running
    worker,             \* where each worker is
    hand,               \* the update it is processing
    querier,            \* where each querier is
    asking,             \* the projection it asks for
    accepted,           \* history: the updates queued for each projection
    asked               \* history: the on-demand answers counted for each

mainVars == <<running, cancelled, control, closing>>
sourceVars == <<subscribed, channel, published>>
registryVars == <<registering, definitions, projections>>
viewVars == <<orders, materialized, qps>>
routerVars == <<router, current, todo>>
queueVars == <<queue, accepted>>
workerVars == <<serving, worker, hand>>
queryVars == <<querier, asking, asked>>
vars == <<mainVars, crash, sourceVars, registryVars, viewVars, routerVars, queueVars,
          closed, workerVars, queryVars>>

Update == [ProjectionName : Projection, EventType : EventType]

TypeOK ==
    /\ running \in BOOLEAN
    /\ cancelled \in BOOLEAN
    /\ crash \in {"none", "nilDereference", "sendOnClosedQueue"}
    /\ control \in {"new", "subscribe", "spawn", "started", "cancel", "close",
                    "unsubscribe", "stopped"}
    /\ closing \in 0..WorkerCount
    /\ subscribed \in BOOLEAN
    /\ channel \in Seq(EventType) /\ Len(channel) <= ChannelCapacity
    /\ published \in 0..MaxEvents
    /\ registering \in [Projection -> {"none", "waiting", "defined", "done"}]
    /\ definitions \subseteq Projection
    /\ projections \subseteq Projection
    /\ orders \in [Projection -> Nat]
    /\ materialized \in [Projection -> BOOLEAN]
    /\ qps \in [Projection -> Nat]
    /\ router \in {"off", "select", "check", "route", "exited"}
    /\ current \in EventType \cup {NoEvent}
    /\ todo \subseteq Projection
    /\ queue \in [Worker -> Seq(Update)]
    /\ \A w \in Worker : Len(queue[w]) <= QueueCapacity
    /\ closed \in [Worker -> BOOLEAN]
    /\ serving \in [Worker -> BOOLEAN]
    /\ worker \in [Worker -> {"off", "spawned", "select", "lookup", "find", "apply",
                              "promote", "exited"}]
    /\ hand \in [Worker -> Update \cup {NoUpdate}]
    /\ querier \in [Querier -> {"idle", "found", "count"}]
    /\ asking \in [Querier -> Projection \cup {NoProjection}]
    /\ accepted \in [Projection -> Seq(EventType)]
    /\ asked \in [Projection -> Nat]

\* New: the context is fresh, and the workers' queues exist.
Init ==
    /\ running = FALSE
    /\ cancelled = FALSE
    /\ crash = "none"
    /\ control = "new"
    /\ closing = 0
    /\ subscribed = FALSE
    /\ channel = <<>>
    /\ published = 0
    /\ registering = [p \in Projection |-> "none"]
    /\ definitions = {}
    /\ projections = {}
    /\ orders = [p \in Projection |-> 0]
    /\ materialized = [p \in Projection |-> FALSE]
    /\ qps = [p \in Projection |-> 0]
    /\ router = "off"
    /\ current = NoEvent
    /\ todo = {}
    /\ queue = [w \in Worker |-> <<>>]
    /\ closed = [w \in Worker |-> FALSE]
    /\ serving = [w \in Worker |-> FALSE]
    /\ worker = [w \in Worker |-> "off"]
    /\ hand = [w \in Worker |-> NoUpdate]
    /\ querier = [q \in Querier |-> "idle"]
    /\ asking = [q \in Querier |-> NoProjection]
    /\ accepted = [p \in Projection |-> <<>>]
    /\ asked = [p \in Projection |-> 0]

-----------------------------------------------------------------------------
(* The event store's side of the channel                                     *)

\* broadcastEvent's non-blocking send: a full channel loses the event.
Publish(type) ==
    /\ published < MaxEvents
    /\ published' = published + 1
    /\ channel' = IF subscribed /\ Len(channel) < ChannelCapacity
                  THEN Append(channel, type) ELSE channel
    /\ UNCHANGED <<mainVars, crash, subscribed, registryVars, viewVars, routerVars,
                   queueVars, closed, workerVars, queryVars>>

-----------------------------------------------------------------------------
(* Start and Stop, called once each by main                                  *)

StartRuns ==
    /\ control = "new"
    /\ running' = TRUE
    /\ control' = "subscribe"
    /\ UNCHANGED <<cancelled, closing, crash, sourceVars, registryVars, viewVars,
                   routerVars, queueVars, closed, workerVars, queryVars>>

StartSubscribes ==
    /\ control = "subscribe"
    /\ subscribed' = TRUE
    /\ control' = "spawn"
    /\ UNCHANGED <<running, cancelled, closing, crash, channel, published, registryVars,
                   viewVars, routerVars, queueVars, closed, workerVars, queryVars>>

\* The workers' goroutines and then the router's: until the router runs, a
\* worker that is already there has nothing to do.
StartSpawns ==
    /\ control = "spawn"
    /\ worker' = [w \in Worker |-> "spawned"]
    /\ router' = "select"
    /\ control' = "started"
    /\ UNCHANGED <<running, cancelled, closing, crash, sourceVars, registryVars, viewVars,
                   current, todo, queueVars, closed, serving, hand, queryVars>>

StopRuns ==
    /\ control = "started"
    /\ running' = FALSE
    /\ control' = "cancel"
    /\ UNCHANGED <<cancelled, closing, crash, sourceVars, registryVars, viewVars,
                   routerVars, queueVars, closed, workerVars, queryVars>>

StopCancels ==
    /\ control = "cancel"
    /\ cancelled' = TRUE
    /\ control' = "close"
    /\ UNCHANGED <<running, closing, crash, sourceVars, registryVars, viewVars,
                   routerVars, queueVars, closed, workerVars, queryVars>>

\* One iteration of the loop: the unlocked read of Worker.running skips a
\* worker that has not begun or has already returned.
StopCloses ==
    /\ control = "close"
    /\ closing < WorkerCount
    /\ closed' = [closed EXCEPT ![closing] = serving[closing]]
    /\ closing' = closing + 1
    /\ control' = IF closing' = WorkerCount THEN "unsubscribe" ELSE "close"
    /\ UNCHANGED <<running, cancelled, crash, sourceVars, registryVars, viewVars,
                   routerVars, queueVars, workerVars, queryVars>>

StopUnsubscribes ==
    /\ control = "unsubscribe"
    /\ subscribed' = FALSE
    /\ control' = "stopped"
    /\ UNCHANGED <<running, cancelled, closing, crash, channel, published, registryVars,
                   viewVars, routerVars, queueVars, closed, workerVars, queryVars>>

-----------------------------------------------------------------------------
(* RegisterProjection, in two critical sections                              *)

WriterWaiting == \E p \in Projection : registering[p] = "waiting"

\* definitionsMu.Lock is called: of several writers one waits for the readers
\* and the others for that one.
Register(p) ==
    /\ registering[p] = "none"
    /\ ~WriterWaiting
    /\ registering' = [registering EXCEPT ![p] = "waiting"]
    /\ UNCHANGED <<mainVars, crash, sourceVars, definitions, projections, viewVars,
                   routerVars, queueVars, closed, workerVars, queryVars>>

\* The lock is granted once the router has released its read lock.
AddDefinition(p) ==
    /\ registering[p] = "waiting"
    /\ router # "route"
    /\ definitions' = definitions \cup {p}
    /\ registering' = [registering EXCEPT ![p] = "defined"]
    /\ UNCHANGED <<mainVars, crash, sourceVars, projections, viewVars, routerVars,
                   queueVars, closed, workerVars, queryVars>>

\* Mutant: a projection registered before Start, or after Stop, gets no state.
AddStateIfRunning(p) ==
    /\ registering[p] = "defined"
    /\ projections' = IF running THEN projections \cup {p} ELSE projections
    /\ registering' = [registering EXCEPT ![p] = "done"]
    /\ UNCHANGED <<mainVars, crash, sourceVars, definitions, viewVars, routerVars,
                   queueVars, closed, workerVars, queryVars>>

\* The new, empty ProjectionState; Init gives its fields their values.
AddState(p) ==
    /\ registering[p] = "defined"
    /\ projections' = projections \cup {p}
    /\ registering' = [registering EXCEPT ![p] = "done"]
    /\ UNCHANGED <<mainVars, crash, sourceVars, definitions, viewVars, routerVars,
                   queueVars, closed, workerVars, queryVars>>

-----------------------------------------------------------------------------
(* The router: subscribeToEvents and routeEvent                              *)

RouterTakes ==
    /\ router = "select"
    /\ channel # <<>>
    /\ current' = Head(channel)
    /\ channel' = Tail(channel)
    /\ router' = "check"
    /\ UNCHANGED <<mainVars, crash, subscribed, published, registryVars, viewVars, todo,
                   queueVars, closed, workerVars, queryVars>>

\* The unlocked running check of routeEvent fails: the event is dropped.
RouterSkips ==
    /\ router = "check"
    /\ ~running
    /\ current' = NoEvent
    /\ router' = "select"
    /\ UNCHANGED <<mainVars, crash, sourceVars, registryVars, viewVars, todo,
                   queueVars, closed, workerVars, queryVars>>

\* The read lock is granted while no writer waits, and the loop over the
\* definitions begins, in the map's arbitrary order.
RouterLocks ==
    /\ router = "check"
    /\ running
    /\ ~WriterWaiting
    /\ todo' = {p \in definitions : current \in Sources[p]}
    /\ router' = "route"
    /\ UNCHANGED <<mainVars, crash, sourceVars, registryVars, viewVars, current,
                   queueVars, closed, workerVars, queryVars>>

WorkerOf(p) == NameLength[p] % WorkerCount

Enqueue(w, p) ==
    /\ queue' = [queue EXCEPT ![w] =
                    Append(@, [ProjectionName |-> p, EventType |-> current])]
    /\ accepted' = [accepted EXCEPT ![p] = Append(@, current)]

\* Mutant: the select has no default branch, and waits for room in the queue.
RouteBlocking(p) ==
    /\ router = "route"
    /\ p \in todo
    /\ ~closed[WorkerOf(p)]
    /\ Len(queue[WorkerOf(p)]) < QueueCapacity
    /\ Enqueue(WorkerOf(p), p)
    /\ todo' = todo \ {p}
    /\ UNCHANGED <<mainVars, crash, sourceVars, registryVars, viewVars, router, current,
                   closed, workerVars, queryVars>>

\* Mutant: a true round robin, where any worker may get a projection's update.
RouteToAnyWorker(p) ==
    /\ router = "route"
    /\ p \in todo
    /\ \E w \in Worker :
          /\ ~closed[w]
          /\ Len(queue[w]) < QueueCapacity
          /\ Enqueue(w, p)
    /\ todo' = todo \ {p}
    /\ UNCHANGED <<mainVars, crash, sourceVars, registryVars, viewVars, router, current,
                   closed, workerVars, queryVars>>

\* The non-blocking send to the projection's worker: a full queue loses the
\* update.
Route(p) ==
    /\ router = "route"
    /\ p \in todo
    /\ LET w == WorkerOf(p) IN
          /\ ~closed[w]
          /\ IF Len(queue[w]) < QueueCapacity
             THEN Enqueue(w, p) ELSE UNCHANGED queueVars
    /\ todo' = todo \ {p}
    /\ UNCHANGED <<mainVars, crash, sourceVars, registryVars, viewVars, router, current,
                   closed, workerVars, queryVars>>

\* A send to a queue that Stop has closed panics, with a default branch too.
RoutePanics(p) ==
    /\ router = "route"
    /\ p \in todo
    /\ closed[WorkerOf(p)]
    /\ crash' = "sendOnClosedQueue"
    /\ UNCHANGED <<mainVars, sourceVars, registryVars, viewVars, routerVars, queueVars,
                   closed, workerVars, queryVars>>

RouterUnlocks ==
    /\ router = "route"
    /\ todo = {}
    /\ current' = NoEvent
    /\ router' = "select"
    /\ UNCHANGED <<mainVars, crash, sourceVars, registryVars, viewVars, todo,
                   queueVars, closed, workerVars, queryVars>>

\* Nobody closes the event channel, so the context's end is the way out.
RouterExits ==
    /\ router = "select"
    /\ cancelled
    /\ router' = "exited"
    /\ UNCHANGED <<mainVars, crash, sourceVars, registryVars, viewVars, current, todo,
                   queueVars, closed, workerVars, queryVars>>

-----------------------------------------------------------------------------
(* The workers: run, processUpdate and checkAutoPromotion                    *)

WorkerBegins(w) ==
    /\ worker[w] = "spawned"
    /\ serving' = [serving EXCEPT ![w] = TRUE]
    /\ worker' = [worker EXCEPT ![w] = "select"]
    /\ UNCHANGED <<mainVars, crash, sourceVars, registryVars, viewVars, routerVars,
                   queueVars, closed, hand, queryVars>>

\* A closed queue still hands out what it holds.
WorkerTakes(w) ==
    /\ worker[w] = "select"
    /\ queue[w] # <<>>
    /\ hand' = [hand EXCEPT ![w] = Head(queue[w])]
    /\ queue' = [queue EXCEPT ![w] = Tail(@)]
    /\ worker' = [worker EXCEPT ![w] = "lookup"]
    /\ UNCHANGED <<mainVars, crash, sourceVars, registryVars, viewVars, routerVars,
                   accepted, closed, serving, queryVars>>

\* Mutant: a worker waits for its queue to be closed, and for nothing else.
WorkerExitsOnClose(w) ==
    /\ worker[w] = "select"
    /\ closed[w] /\ queue[w] = <<>>
    /\ serving' = [serving EXCEPT ![w] = FALSE]
    /\ worker' = [worker EXCEPT ![w] = "exited"]
    /\ UNCHANGED <<mainVars, crash, sourceVars, registryVars, viewVars, routerVars,
                   queueVars, closed, hand, queryVars>>

\* The queue is closed and drained, or the context is cancelled; in the second
\* case what the queue holds is lost.
WorkerExits(w) ==
    /\ worker[w] = "select"
    /\ cancelled \/ (closed[w] /\ queue[w] = <<>>)
    /\ serving' = [serving EXCEPT ![w] = FALSE]
    /\ worker' = [worker EXCEPT ![w] = "exited"]
    /\ UNCHANGED <<mainVars, crash, sourceVars, registryVars, viewVars, routerVars,
                   queueVars, closed, hand, queryVars>>

\* The definition is looked up under a read lock of definitionsMu.  It is
\* there: the router found it, and definitions are never removed.
WorkerLooksUp(w) ==
    /\ worker[w] = "lookup"
    /\ ~WriterWaiting
    /\ worker' = [worker EXCEPT ![w] = "find"]
    /\ UNCHANGED <<mainVars, crash, sourceVars, registryVars, viewVars, routerVars,
                   queueVars, closed, serving, hand, queryVars>>

WorkerFinds(w) ==
    /\ worker[w] = "find"
    /\ hand[w].ProjectionName \in projections
    /\ worker' = [worker EXCEPT ![w] = "apply"]
    /\ UNCHANGED <<mainVars, crash, sourceVars, registryVars, viewVars, routerVars,
                   queueVars, closed, serving, hand, queryVars>>

\* The map has no state for the name: proj is nil, and proj.StateMu panics.
WorkerPanics(w) ==
    /\ worker[w] = "find"
    /\ hand[w].ProjectionName \notin projections
    /\ crash' = "nilDereference"
    /\ UNCHANGED <<mainVars, sourceVars, registryVars, viewVars, routerVars, queueVars,
                   closed, workerVars, queryVars>>

\* What an event of this type makes of the number of orders.
Counted(n, type) ==
    CASE type = "order_created"               -> n + 1
      [] type = "order_cancelled" /\ n > 0    -> n - 1
      [] type = "order_cancelled" /\ n = 0    -> 0

WorkerApplies(w) ==
    /\ worker[w] = "apply"
    /\ LET p == hand[w].ProjectionName IN
          orders' = [orders EXCEPT ![p] = Counted(@, hand[w].EventType)]
    /\ worker' = [worker EXCEPT ![w] = "promote"]
    /\ UNCHANGED <<mainVars, crash, sourceVars, registryVars, materialized, qps,
                   routerVars, queueVars, closed, serving, hand, queryVars>>

\* Mutant: an update counts as a query.
WorkerPromotesOnUpdates(w) ==
    /\ worker[w] = "promote"
    /\ LET p == hand[w].ProjectionName IN
          /\ materialized' = [materialized EXCEPT ![p] = @ \/ qps[p] + 1 >= PromoteThreshold]
          /\ qps' = [qps EXCEPT ![p] = @ + 1]
    /\ hand' = [hand EXCEPT ![w] = NoUpdate]
    /\ worker' = [worker EXCEPT ![w] = "select"]
    /\ UNCHANGED <<mainVars, crash, sourceVars, registryVars, orders, routerVars,
                   queueVars, closed, serving, queryVars>>

\* checkAutoPromotion takes no lock.  One worker serves a projection, so only
\* updateQPS races with it, and QPS is not read again after the reset.
WorkerPromotes(w) ==
    /\ worker[w] = "promote"
    /\ LET p == hand[w].ProjectionName
           due == ~materialized[p] /\ qps[p] >= PromoteThreshold
       IN  /\ materialized' = [materialized EXCEPT ![p] = @ \/ due]
           /\ qps' = [qps EXCEPT ![p] = IF due THEN 0 ELSE @]
    /\ hand' = [hand EXCEPT ![w] = NoUpdate]
    /\ worker' = [worker EXCEPT ![w] = "select"]
    /\ UNCHANGED <<mainVars, crash, sourceVars, registryVars, orders, routerVars,
                   queueVars, closed, serving, queryVars>>

-----------------------------------------------------------------------------
(* Query.  The copy of the state it answers with changes nothing.            *)

QueryFinds(q, p) ==
    /\ querier[q] = "idle"
    /\ running
    /\ p \in projections
    /\ asked[p] < MaxQueries
    /\ asking' = [asking EXCEPT ![q] = p]
    /\ querier' = [querier EXCEPT ![q] = "found"]
    /\ UNCHANGED <<mainVars, crash, sourceVars, registryVars, viewVars, routerVars,
                   queueVars, closed, workerVars, asked>>

\* The unlocked read of IsMaterialized.
QueryAnswers(q) ==
    /\ querier[q] = "found"
    /\ querier' = [querier EXCEPT ![q] = IF materialized[asking[q]] THEN "idle" ELSE "count"]
    /\ UNCHANGED <<mainVars, crash, sourceVars, registryVars, viewVars, routerVars,
                   queueVars, closed, workerVars, asking, asked>>

\* updateQPS.
QueryCounts(q) ==
    /\ querier[q] = "count"
    /\ qps' = [qps EXCEPT ![asking[q]] = @ + 1]
    /\ asked' = [asked EXCEPT ![asking[q]] = @ + 1]
    /\ querier' = [querier EXCEPT ![q] = "idle"]
    /\ UNCHANGED <<mainVars, crash, sourceVars, registryVars, orders, materialized,
                   routerVars, queueVars, closed, workerVars, asking>>

-----------------------------------------------------------------------------

\* Start once called, and Stop once called.
MainContinues ==
    \/ StartSubscribes
    \/ StartSpawns
    \/ StopCancels
    \/ StopCloses
    \/ StopUnsubscribes

RouterStep ==
    \/ RouterTakes
    \/ RouterSkips
    \/ RouterLocks
    \/ \E p \in Projection : Route(p) \/ RoutePanics(p)
    \/ RouterUnlocks
    \/ RouterExits

WorkerStep(w) ==
    \/ WorkerBegins(w)
    \/ WorkerTakes(w)
    \/ WorkerLooksUp(w)
    \/ WorkerFinds(w)
    \/ WorkerPanics(w)
    \/ WorkerApplies(w)
    \/ WorkerPromotes(w)
    \/ WorkerExits(w)

RegisterContinues(p) == AddDefinition(p) \/ AddState(p)

\* A panic in any goroutine ends the program.
Alive == crash = "none"

Next ==
    /\ Alive
    /\ \/ \E type \in EventType : Publish(type)
       \/ StartRuns
       \/ StopRuns
       \/ MainContinues
       \/ \E p \in Projection : Register(p) \/ RegisterContinues(p)
       \/ RouterStep
       \/ \E w \in Worker : WorkerStep(w)
       \/ \E q \in Querier : \/ \E p \in Projection : QueryFinds(q, p)
                             \/ QueryAnswers(q)
                             \/ QueryCounts(q)

Spec == Init /\ [][Next]_vars

\* The Go scheduler runs every goroutine that can take a step, and a waiting
\* writer gets its lock.  Nothing makes main call Start or Stop, or anyone
\* register, publish or query.
FairSpec ==
    /\ Spec
    /\ WF_vars(Alive /\ MainContinues)
    /\ WF_vars(Alive /\ RouterStep)
    /\ \A w \in Worker : WF_vars(Alive /\ WorkerStep(w))
    /\ \A p \in Projection : WF_vars(Alive /\ RegisterContinues(p))

-----------------------------------------------------------------------------
(* Properties                                                                *)

\* What a worker has not applied yet: the update in its hand, and its queue.
Unapplied(w) ==
    (IF worker[w] \in {"lookup", "find", "apply"} THEN <<hand[w]>> ELSE <<>>) \o queue[w]

\* The event types of the updates of p among these, in their order.
TypesOf(p, updates) ==
    FoldLeft(LAMBDA types, u : IF u.ProjectionName = p THEN Append(types, u.EventType) ELSE types,
             <<>>, updates)

Pending(p) == TypesOf(p, Unapplied(WorkerOf(p)))

\* A projection's state is the fold, in the order of routing, of the updates
\* its queue accepted, up to those still pending: none is applied twice, out
\* of order (which the floor at zero would show) or lost between the queue
\* and the state (routeEvent, processUpdate).
AppliedInOrder ==
    \A p \in Projection :
        \E n \in 0..Len(accepted[p]) :
            /\ Pending(p) = SubSeq(accepted[p], n + 1, Len(accepted[p]))
            /\ orders[p] = FoldLeft(Counted, 0, SubSeq(accepted[p], 1, n))

\* Promotion is earned by queries answered on demand, and happens only when
\* an update arrives (Query, updateQPS, checkAutoPromotion).
PromotionEarned ==
    \A p \in Projection :
        materialized[p] => asked[p] >= PromoteThreshold /\ accepted[p] # <<>>

\* The engine panics in two races only: an update processed between the two
\* critical sections of a RegisterProjection, and an event routed across
\* Stop's closing of the queues.  Once every registration is complete, and
\* until Stop is called, it does not.
PanicsOnlyInRaces ==
    /\ crash = "nilDereference" => \E p \in Projection : registering[p] = "defined"
    /\ crash = "sendOnClosedQueue" => ~running /\ cancelled

\* An update that a queue accepted reaches its projection's state, unless the
\* engine is stopped or panics first.
UpdatesApplied ==
    \A p \in Projection :
        Pending(p) # <<>> ~> Pending(p) = <<>> \/ cancelled \/ crash # "none"

\* A registration never waits forever for the router and the workers, which
\* read under the lock it writes under.
RegistrationsComplete ==
    \A p \in Projection :
        registering[p] = "waiting" ~> registering[p] = "done" \/ crash # "none"

\* After Stop every goroutine of the engine ends, also a worker that Stop
\* found not running and whose queue it therefore left open.
StopEndsGoroutines ==
    control = "stopped" ~>
        \/ router = "exited" /\ \A w \in Worker : worker[w] = "exited"
        \/ crash # "none"

\* An update for a projection that is not fully registered yet is skipped and
\* logged ("Definition not found"); it does not end the program.
NoNilDereference == crash # "nilDereference"

=============================================================================
