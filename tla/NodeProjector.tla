--------------------------- MODULE NodeProjector ---------------------------
(***************************************************************************)
(* The TypeScript projection engine (impl/typescript/src/projector).  A    *)
(* worker is not a thread but a loop with an await in it: enqueue starts   *)
(* the loop unless it is under way, the first update is applied inside the *)
(* call that brought it, and each later one by a job of its own.           *)
(***************************************************************************)
EXTENDS EventLoop, SequencesExt

CONSTANTS
    Projection,         \* names that may be registered
    NameLength,         \* name.length
    Sources,            \* per projection, the streams of its SourceDefinitions
    WorkerCount,        \* config.worker_count
    PromoteThreshold,   \* config.auto_promote_qps_threshold
    MaxQueries          \* bound: queries that are counted, per projection

ASSUME NodeProjectorAssumption ==
    /\ NameLength \in [Projection -> Nat]
    /\ WorkerCount \in Nat \ {0}
    /\ PromoteThreshold \in Nat
    /\ MaxQueries \in [Projection -> Nat]

VARIABLES
    engine,             \* ProjectionEngine.running
    subscribed,         \* whether its listener is in the event store's set
    definitions,        \* the names in the definitions map, oldest first
    projections,        \* per name its ProjectionState
    queue,              \* Worker.queue
    awake,              \* Worker.running
    processing,         \* Worker.processing
    routed              \* history: what was routed to each projection since it
                        \* was registered, or was waiting for it then

projectorVars ==
    <<engine, subscribed, definitions, projections, queue, awake, processing, routed>>

Worker == 0..(WorkerCount - 1)

ProjectionState == [orders : Nat, qps : Nat, isMaterialized : BOOLEAN]

Update(EventSet) == [projectionName : Projection, event : EventSet]

ProjectorTypeOK(EventSet) ==
    /\ engine \in BOOLEAN
    /\ subscribed \in BOOLEAN
    /\ definitions \in Seq(Projection)
    /\ projections \in [Projection -> ProjectionState]
    /\ queue \in [Worker -> Seq(Update(EventSet))]
    /\ awake \in [Worker -> BOOLEAN]
    /\ processing \in [Worker -> BOOLEAN]
    /\ routed \in [Projection -> Seq(EventSet)]

NewState == [orders |-> 0, qps |-> 0, isMaterialized |-> FALSE]

ProjectorInit ==
    /\ engine = FALSE
    /\ subscribed = FALSE
    /\ definitions = <<>>
    /\ projections = [p \in Projection |-> NewState]
    /\ queue = [w \in Worker |-> <<>>]
    /\ awake = [w \in Worker |-> FALSE]
    /\ processing = [w \in Worker |-> FALSE]
    /\ routed = [p \in Projection |-> <<>>]

Registered(p) == p \in Range(definitions)

WorkerOf(p) == NameLength[p] % WorkerCount

\* The elements of s that are in S, in their order.  (SelectSeq, in a form
\* that the proof system can unfold.)
Keep(s, S) == FoldLeft(LAMBDA kept, x : IF x \in S THEN Append(kept, x) ELSE kept, <<>>, s)

\* The updates of p in a queue.
UpdatesOf(p, line) == Keep(line, {u \in Range(line) : u.projectionName = p})

\* The updates of p that wait in its worker's queue.
Waiting(p) == UpdatesOf(p, queue[WorkerOf(p)])

-----------------------------------------------------------------------------
(* Applying an update                                                       *)

\* What an event makes of the number of orders.
Counted(eventType, orders) ==
    CASE eventType = "order_created"   -> orders + 1
      [] eventType = "order_cancelled" -> IF orders > 0 THEN orders - 1 ELSE 0
      [] OTHER                         -> orders

\* checkAutoPromotion
Promoted(s) ==
    IF ~s.isMaterialized /\ s.qps >= PromoteThreshold
    THEN [s EXCEPT !.isMaterialized = TRUE, !.qps = 0]
    ELSE s

\* processUpdate
Applied(u, s) == Promoted([s EXCEPT !.orders = Counted(u.event.eventType, @)])

\* Mutant: a worker takes the newest update first.
ApplyLasts(W, line) ==
    /\ queue' = [w \in Worker |-> IF w \in W THEN Front(line[w]) ELSE line[w]]
    /\ projections' = [p \in Projection |->
          IF WorkerOf(p) \in W /\ Last(line[WorkerOf(p)]).projectionName = p
          THEN Applied(Last(line[WorkerOf(p)]), projections[p])
          ELSE projections[p]]

\* Each worker w of W takes the first update of its line[w] and applies it.
ApplyHeads(W, line) ==
    /\ queue' = [w \in Worker |-> IF w \in W THEN Tail(line[w]) ELSE line[w]]
    /\ projections' = [p \in Projection |->
          IF WorkerOf(p) \in W /\ Head(line[WorkerOf(p)]).projectionName = p
          THEN Applied(Head(line[WorkerOf(p)]), projections[p])
          ELSE projections[p]]

-----------------------------------------------------------------------------
(* start, stop, registerProjection, query                                   *)

\* The workers that find updates left in their queue when they start.
Leftover == {w \in Worker : queue[w] # <<>> /\ ~processing[w]}

\* The jobs of loops that begin when the engine starts.
LeftoverJobs ==
    LET ids == Keep([i \in 1..WorkerCount |-> i - 1], Leftover)
    IN [i \in DOMAIN ids |-> Job("worker", ids[i])]

\* start lets each worker's loop begin, then subscribes.
EngineStart ==
    /\ ~engine
    /\ engine' = TRUE
    /\ subscribed' = TRUE
    /\ awake' = [w \in Worker |-> TRUE]
    /\ ApplyHeads(Leftover, queue)
    /\ processing' = [w \in Worker |-> processing[w] \/ w \in Leftover]
    /\ UNCHANGED <<definitions, routed>>

EngineStop ==
    /\ engine' = FALSE
    /\ subscribed' = FALSE
    /\ awake' = [w \in Worker |-> FALSE]
    /\ UNCHANGED <<definitions, projections, queue, processing, routed>>

\* registerProjection: a name registered again keeps its place in the map and
\* its waiting updates, and starts from an empty state.
RegisterProjection(p) ==
    /\ definitions' = IF Registered(p) THEN definitions ELSE Append(definitions, p)
    /\ projections' = [projections EXCEPT ![p] = NewState]
    /\ routed' = [routed EXCEPT ![p] = [i \in DOMAIN Waiting(p) |-> Waiting(p)[i].event]]
    /\ UNCHANGED <<engine, subscribed, queue, awake, processing>>

\* query, as far as it changes anything: an answer computed on demand counts.
Query(p) ==
    /\ engine
    /\ Registered(p)
    /\ ~projections[p].isMaterialized
    /\ projections[p].qps < MaxQueries[p]
    /\ projections' = [projections EXCEPT ![p].qps = @ + 1]
    /\ UNCHANGED <<engine, subscribed, definitions, queue, awake, processing, routed>>

-----------------------------------------------------------------------------
(* routeEvent, which the event store's broadcast calls                      *)

\* shouldProcessEvent
ShouldProcess(p, e) == e.eventType \in Sources[p]

\* The projections the event is routed to, in the order of the map.
Receivers(e) ==
    IF subscribed /\ engine
    THEN Keep(definitions, {p \in Projection : ShouldProcess(p, e)})
    ELSE <<>>

\* The workers whose loop the event starts.
Started(e) ==
    {w \in Worker : awake[w] /\ ~processing[w] /\ \E p \in Range(Receivers(e)) : WorkerOf(p) = w}

\* The receivers that worker w serves.
Served(e, w) == Keep(Receivers(e), {p \in Projection : WorkerOf(p) = w})

\* The receivers whose updates start a loop: the first of their workers.
Starters(e) ==
    {p \in Range(Receivers(e)) :
        WorkerOf(p) \in Started(e) /\ Head(Served(e, WorkerOf(p))) = p}

\* The jobs left by the loops that start, one for each, in that order.
Woken(e) ==
    LET firsts == Keep(Receivers(e), Starters(e))
    IN [i \in DOMAIN firsts |-> Job("worker", WorkerOf(firsts[i]))]

\* A worker's queue with the updates the event brings it.
Line(e, w) ==
    queue[w] \o [i \in DOMAIN Served(e, w) |-> [projectionName |-> Served(e, w)[i], event |-> e]]

\* enqueue and process for every receiver: an idle worker applies its first
\* update at once, the others wait in its queue.
RouteEvent(e) ==
    /\ ApplyHeads(Started(e), [w \in Worker |-> Line(e, w)])
    /\ processing' = [w \in Worker |-> processing[w] \/ w \in Started(e)]
    /\ routed' = [p \in Projection |->
          IF p \in Range(Receivers(e)) THEN Append(routed[p], e) ELSE routed[p]]
    /\ UNCHANGED <<engine, subscribed, definitions, awake>>

-----------------------------------------------------------------------------
(* The worker's loop after its await                                        *)

WorkerContinues(w) ==
    /\ awake[w]
    /\ queue[w] # <<>>
    /\ RunJob(Job("worker", w), <<Job("worker", w)>>)
    /\ ApplyHeads({w}, queue)
    /\ UNCHANGED <<engine, subscribed, definitions, awake, processing, routed>>

\* Mutant: the loop ends without taking its flag back.
WorkerEndsBusy(w) ==
    /\ ~awake[w] \/ queue[w] = <<>>
    /\ RunJob(Job("worker", w), <<>>)
    /\ UNCHANGED projectorVars

WorkerEnds(w) ==
    /\ ~awake[w] \/ queue[w] = <<>>
    /\ RunJob(Job("worker", w), <<>>)
    /\ processing' = [processing EXCEPT ![w] = FALSE]
    /\ UNCHANGED <<engine, subscribed, definitions, projections, queue, awake, routed>>

=============================================================================
