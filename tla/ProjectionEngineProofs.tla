----------------------- MODULE ProjectionEngineProofs -----------------------
(***************************************************************************)
(* Theorems about ProjectionEngine, for any projections and sources, any   *)
(* number of workers and queriers, and any capacities and thresholds.      *)
(*                                                                         *)
(* A panic is decided by what one goroutine finds in the state of another: *)
(* a definition without a state, a queue that is closed.  The invariant    *)
(* says how the registry's two maps and the two ends of a queue are        *)
(* related between the critical sections that change them.                 *)
(***************************************************************************)
EXTENDS ProjectionEngine, SequenceTheorems, WellFoundedInduction, TLAPS

\* An update is of a defined projection that has accepted one.
Known(u) == u.ProjectionName \in definitions /\ accepted[u.ProjectionName] # <<>>

Holding == {"lookup", "find", "apply", "promote"}

\* The two maps of the registry, by how far a registration has come.
RegistryInv ==
    \A p \in Projection :
        /\ p \in definitions <=> registering[p] \in {"defined", "done"}
        /\ p \in projections <=> registering[p] = "done"

\* What the router has to send is of defined projections.
RouterInv ==
    /\ todo \subseteq definitions
    /\ router \in {"check", "route"} => current \in EventType

\* What is queued, or in a worker's hand, was accepted.
UpdatesInv ==
    /\ \A w \in Worker : \A i \in 1..Len(queue[w]) : Known(queue[w][i])
    /\ \A w \in Worker : worker[w] \in Holding => hand[w] \in Update /\ Known(hand[w])

\* Queues are closed only by a Stop that has cleared the flag and cancelled
\* the context before.
StopInv ==
    /\ control \in {"cancel", "close", "unsubscribe", "stopped"} => ~running
    /\ control \in {"close", "unsubscribe", "stopped"} => cancelled
    /\ \A w \in Worker : closed[w] => control \in {"close", "unsubscribe", "stopped"}

\* No query is counted that was not answered.
QueriesInv ==
    /\ \A q \in Querier : querier[q] # "idle" => asking[q] \in Projection
    /\ \A p \in Projection : qps[p] <= asked[p]

\* The inductive invariant.
Inv ==
    /\ TypeOK
    /\ RegistryInv
    /\ RouterInv
    /\ UpdatesInv
    /\ StopInv
    /\ QueriesInv
    /\ PromotionEarned
    /\ PanicsOnlyInRaces

-----------------------------------------------------------------------------

(* There is at least one worker, and every projection has one. *)
LEMMA WorkerIsThere ==
    /\ WorkerCount \in Nat \ {0}
    /\ \A p \in Projection : WorkerOf(p) \in Worker
BY ProjectionEngineAssumption DEF WorkerOf, Worker

(* The initial state satisfies the invariant. *)
LEMMA InitInv == Init => Inv
<1> SUFFICES ASSUME Init PROVE Inv
  OBVIOUS
<1> USE ProjectionEngineAssumption DEF Init
<1>1. TypeOK
  <2>1. <<>> \in Seq(EventType) /\ <<>> \in Seq(Update) /\ Len(<<>>) = 0
    OBVIOUS
  <2>2. queue \in [Worker -> Seq(Update)] /\ \A w \in Worker : Len(queue[w]) <= QueueCapacity
    BY <2>1
  <2>3. channel \in Seq(EventType) /\ Len(channel) <= ChannelCapacity
    BY <2>1
  <2>4. closing \in 0..WorkerCount /\ published \in 0..MaxEvents
    OBVIOUS
  <2>5. accepted \in [Projection -> Seq(EventType)]
    BY <2>1
  <2> QED
    BY <2>2, <2>3, <2>4, <2>5 DEF TypeOK
<1>2. RegistryInv /\ RouterInv /\ UpdatesInv /\ StopInv /\ QueriesInv
  BY DEF RegistryInv, RouterInv, UpdatesInv, StopInv, QueriesInv, Holding
<1>3. PromotionEarned /\ PanicsOnlyInRaces
  BY DEF PromotionEarned, PanicsOnlyInRaces
<1> QED
  BY <1>1, <1>2, <1>3 DEF Inv

(* What Next comes to, one disjunct per action. *)
LEMMA StepCases ==
    ASSUME [Next]_vars
    PROVE  \/ Alive /\ \E type \in EventType : Publish(type)
           \/ Alive /\ (StartRuns \/ StartSubscribes \/ StartSpawns)
           \/ Alive /\ (StopRuns \/ StopCancels \/ StopCloses \/ StopUnsubscribes)
           \/ Alive /\ \E p \in Projection : Register(p) \/ AddDefinition(p) \/ AddState(p)
           \/ Alive /\ (RouterTakes \/ RouterSkips \/ RouterLocks \/ RouterUnlocks \/ RouterExits)
           \/ Alive /\ \E p \in Projection : Route(p) \/ RoutePanics(p)
           \/ Alive /\ \E w \in Worker :
                 \/ WorkerBegins(w) \/ WorkerTakes(w) \/ WorkerLooksUp(w) \/ WorkerFinds(w)
                 \/ WorkerPanics(w) \/ WorkerApplies(w) \/ WorkerPromotes(w) \/ WorkerExits(w)
           \/ Alive /\ \E q \in Querier :
                 (\E p \in Projection : QueryFinds(q, p)) \/ QueryAnswers(q) \/ QueryCounts(q)
           \/ UNCHANGED vars
BY DEF Next, MainContinues, RegisterContinues, RouterStep, WorkerStep

-----------------------------------------------------------------------------
(* Types                                                                    *)

(* A queue and its history grow by the update that is sent. *)
LEMMA EnqueueGrows ==
    ASSUME TypeOK, NEW p \in Projection, current \in EventType, Enqueue(WorkerOf(p), p)
    PROVE  LET w == WorkerOf(p)
               u == [ProjectionName |-> p, EventType |-> current]
           IN  /\ u \in Update
               /\ queue' = [queue EXCEPT ![w] = Append(@, u)]
               /\ accepted' = [accepted EXCEPT ![p] = Append(@, current)]
               /\ queue' \in [Worker -> Seq(Update)]
               /\ accepted' \in [Projection -> Seq(EventType)]
               /\ Len(queue'[w]) = Len(queue[w]) + 1
               /\ \A i \in 1..Len(queue[w]) : queue'[w][i] = queue[w][i]
               /\ queue'[w][Len(queue[w]) + 1] = u
               /\ accepted'[p] # <<>>
<1> DEFINE w == WorkerOf(p)
           u == [ProjectionName |-> p, EventType |-> current]
<1>1. u \in Update /\ w \in Worker
  BY WorkerIsThere DEF Update
<1>2. /\ queue' = [queue EXCEPT ![w] = Append(@, u)]
      /\ accepted' = [accepted EXCEPT ![p] = Append(@, current)]
  BY DEF Enqueue
<1>3. queue[w] \in Seq(Update) /\ accepted[p] \in Seq(EventType)
  BY <1>1 DEF TypeOK
<1> HIDE DEF u, w
<1>4. /\ Append(queue[w], u) \in Seq(Update)
      /\ Len(Append(queue[w], u)) = Len(queue[w]) + 1
      /\ \A i \in 1..Len(queue[w]) : Append(queue[w], u)[i] = queue[w][i]
      /\ Append(queue[w], u)[Len(queue[w]) + 1] = u
  BY <1>1, <1>3, AppendProperties
<1>5. Append(accepted[p], current) \in Seq(EventType) /\ Append(accepted[p], current) # <<>>
  BY <1>3, AppendProperties
<1>6. queue'[w] = Append(queue[w], u) /\ accepted'[p] = Append(accepted[p], current)
  BY <1>1, <1>2 DEF TypeOK
<1>7. queue' \in [Worker -> Seq(Update)] /\ accepted' \in [Projection -> Seq(EventType)]
  BY <1>1, <1>2, <1>4, <1>5 DEF TypeOK
<1> QED
  BY <1>1, <1>2, <1>4, <1>5, <1>6, <1>7 DEF u, w

(* A worker takes the head of its queue; the rest moves up. *)
LEMMA TakesHead ==
    ASSUME TypeOK, NEW w \in Worker, WorkerTakes(w)
    PROVE  /\ hand' = [hand EXCEPT ![w] = queue[w][1]]
           /\ queue[w][1] \in Update
           /\ 1 \in 1..Len(queue[w])
           /\ queue' = [queue EXCEPT ![w] = Tail(@)]
           /\ queue' \in [Worker -> Seq(Update)]
           /\ Len(queue'[w]) = Len(queue[w]) - 1
           /\ \A i \in 1..Len(queue'[w]) : queue'[w][i] = queue[w][i + 1]
<1>1. queue[w] \in Seq(Update) /\ queue[w] # <<>>
  BY DEF TypeOK, WorkerTakes
<1>2. /\ Head(queue[w]) = queue[w][1]
      /\ Head(queue[w]) \in Update
      /\ Tail(queue[w]) \in Seq(Update)
      /\ Len(Tail(queue[w])) = Len(queue[w]) - 1
      /\ \A i \in 1..Len(Tail(queue[w])) : Tail(queue[w])[i] = queue[w][i + 1]
      /\ Len(queue[w]) \in Nat
  BY <1>1, HeadTailProperties, LenProperties
<1>3. 1 \in 1..Len(queue[w])
  BY <1>1, <1>2, EmptySeq
<1>4. queue' = [queue EXCEPT ![w] = Tail(@)] /\ hand' = [hand EXCEPT ![w] = Head(queue[w])]
  BY DEF WorkerTakes
<1>5. queue'[w] = Tail(queue[w]) /\ queue' \in [Worker -> Seq(Update)]
  BY <1>2, <1>4 DEF TypeOK
<1> QED
  BY <1>2, <1>3, <1>4, <1>5

(* Counting an event from a natural number gives one. *)
LEMMA CountedIsNat ==
    ASSUME NEW n \in Nat, NEW type \in EventType
    PROVE  Counted(n, type) \in Nat
<1>1. type = "order_created" \/ type = "order_cancelled"
  BY DEF EventType
<1>2. CASE type = "order_created"
  BY <1>2 DEF Counted
<1>3. CASE type = "order_cancelled" /\ n > 0
  BY <1>3 DEF Counted
<1>4. CASE type = "order_cancelled" /\ n = 0
  BY <1>4 DEF Counted
<1> QED
  BY <1>1, <1>2, <1>3, <1>4

(* Every step keeps the types of the variables. *)
LEMMA TypeStep == ASSUME Inv, [Next]_vars PROVE TypeOK'
<1> USE WorkerIsThere DEF vars, mainVars, sourceVars, registryVars, viewVars, routerVars, queueVars,
        workerVars, queryVars
<1>0. TypeOK
  BY DEF Inv
<1>1. ASSUME NEW type \in EventType, Publish(type) PROVE TypeOK'
  <2>1. /\ Append(channel, type) \in Seq(EventType)
        /\ Len(Append(channel, type)) = Len(channel) + 1
        /\ Len(channel) \in Nat
    BY <1>0, AppendProperties, LenProperties DEF TypeOK
  <2>2. channel' \in Seq(EventType) /\ Len(channel') <= ChannelCapacity
    BY <1>0, <1>1, <2>1, ProjectionEngineAssumption DEF Publish, TypeOK
  <2>3. published' \in 0..MaxEvents
    BY <1>0, <1>1, ProjectionEngineAssumption DEF Publish, TypeOK
  <2> QED
    BY <1>0, <1>1, <2>2, <2>3 DEF Publish, TypeOK
<1>2. CASE StartRuns \/ StartSubscribes \/ StopRuns \/ StopCancels \/ StopUnsubscribes
  BY <1>0, <1>2 DEF StartRuns, StartSubscribes, StopRuns, StopCancels, StopUnsubscribes, TypeOK
<1>3. CASE StartSpawns
  BY <1>0, <1>3 DEF StartSpawns, TypeOK
<1>4. CASE StopCloses
  <2>1. closing' \in 0..WorkerCount
    BY <1>0, <1>4 DEF StopCloses, TypeOK
  <2>2. closing \in Worker
    BY <1>0, <1>4 DEF StopCloses, TypeOK, Worker
  <2>3. closed' \in [Worker -> BOOLEAN]
    BY <1>0, <1>4, <2>2 DEF StopCloses, TypeOK
  <2>4. control' \in {"close", "unsubscribe"}
    BY <1>4 DEF StopCloses
  <2> QED
    BY <1>0, <1>4, <2>1, <2>3, <2>4 DEF StopCloses, TypeOK
<1>5. ASSUME NEW p \in Projection, Register(p) \/ AddDefinition(p) \/ AddState(p) PROVE TypeOK'
  <2>1. CASE Register(p)
    BY <1>0, <2>1 DEF Register, TypeOK
  <2>2. CASE AddDefinition(p)
    BY <1>0, <2>2 DEF AddDefinition, TypeOK
  <2>3. CASE AddState(p)
    BY <1>0, <2>3 DEF AddState, TypeOK
  <2> QED
    BY <1>5, <2>1, <2>2, <2>3
<1>6. CASE RouterTakes
  <2>1. channel \in Seq(EventType) /\ channel # <<>>
    BY <1>0, <1>6 DEF RouterTakes, TypeOK
  <2>2. /\ Head(channel) \in EventType
        /\ Tail(channel) \in Seq(EventType)
        /\ Len(Tail(channel)) = Len(channel) - 1
        /\ Len(channel) \in Nat
    BY <2>1, HeadTailProperties, LenProperties
  <2>3. Len(Tail(channel)) <= ChannelCapacity
    BY <1>0, <2>2, ProjectionEngineAssumption DEF TypeOK
  <2> QED
    BY <1>0, <1>6, <2>2, <2>3 DEF RouterTakes, TypeOK
<1>7. CASE RouterSkips \/ RouterLocks \/ RouterUnlocks \/ RouterExits
  <2>1. todo' \subseteq Projection
    BY <1>0, <1>7 DEF RouterSkips, RouterLocks, RouterUnlocks, RouterExits, TypeOK
  <2> QED
    BY <1>0, <1>7, <2>1 DEF RouterSkips, RouterLocks, RouterUnlocks, RouterExits, TypeOK
<1>8. ASSUME NEW p \in Projection, Route(p) PROVE TypeOK'
  <2>1. todo' \subseteq Projection
    BY <1>0, <1>8 DEF Route, TypeOK
  <2>2. CASE UNCHANGED queueVars
    BY <1>0, <1>8, <2>1, <2>2 DEF Route, TypeOK
  <2>3. CASE Len(queue[WorkerOf(p)]) < QueueCapacity /\ Enqueue(WorkerOf(p), p)
    <3>1. current \in EventType
      BY <1>8 DEF Route, Inv, RouterInv
    <3> DEFINE w == WorkerOf(p)
               u == [ProjectionName |-> p, EventType |-> current]
    <3>2. /\ queue' = [queue EXCEPT ![w] = Append(@, u)]
          /\ queue' \in [Worker -> Seq(Update)]
          /\ accepted' \in [Projection -> Seq(EventType)]
          /\ Len(queue'[w]) = Len(queue[w]) + 1
      BY <1>0, <2>3, <3>1, EnqueueGrows
    <3> HIDE DEF u
    <3>3. ASSUME NEW v \in Worker PROVE Len(queue'[v]) <= QueueCapacity
      <4>1. CASE v = w
        <5>1. queue[w] \in Seq(Update) /\ Len(queue[w]) \in Nat
          BY <1>0, LenProperties DEF TypeOK
        <5> QED
          BY <4>1, <5>1, <3>2, <2>3, ProjectionEngineAssumption
      <4>2. CASE v # w
        BY <1>0, <4>2, <3>2 DEF TypeOK
      <4> QED
        BY <4>1, <4>2
    <3> QED
      BY <1>0, <1>8, <2>1, <3>2, <3>3 DEF Route, TypeOK
  <2> QED
    BY <1>8, <2>2, <2>3 DEF Route
<1>9. ASSUME NEW p \in Projection, RoutePanics(p) PROVE TypeOK'
  BY <1>0, <1>9 DEF RoutePanics, TypeOK
<1>10. ASSUME NEW w \in Worker, WorkerTakes(w) PROVE TypeOK'
  <2>1. /\ hand' = [hand EXCEPT ![w] = queue[w][1]]
        /\ queue[w][1] \in Update
        /\ queue' = [queue EXCEPT ![w] = Tail(@)]
        /\ queue' \in [Worker -> Seq(Update)]
        /\ Len(queue'[w]) = Len(queue[w]) - 1
    BY <1>0, <1>10, TakesHead
  <2>2. ASSUME NEW v \in Worker PROVE Len(queue'[v]) <= QueueCapacity
    <3>1. queue[v] \in Seq(Update) /\ Len(queue[v]) \in Nat /\ Len(queue[v]) <= QueueCapacity
      BY <1>0, LenProperties DEF TypeOK
    <3>2. CASE v = w
      <4>1. Len(queue'[v]) = Len(queue[v]) - 1 /\ QueueCapacity \in Nat
        BY <3>2, <2>1, ProjectionEngineAssumption
      <4> QED
        BY <4>1, <3>1
    <3>3. CASE v # w
      BY <1>0, <3>1, <3>3, <2>1 DEF TypeOK
    <3> QED
      BY <3>2, <3>3
  <2> QED
    BY <1>0, <1>10, <2>1, <2>2 DEF WorkerTakes, TypeOK
<1>11. ASSUME NEW w \in Worker, WorkerBegins(w) \/ WorkerLooksUp(w) \/ WorkerFinds(w) \/ WorkerExits(w)
       PROVE  TypeOK'
  <2>1. /\ worker' \in [Worker -> {"off", "spawned", "select", "lookup", "find", "apply", "promote", "exited"}]
        /\ serving' \in [Worker -> BOOLEAN]
    BY <1>0, <1>11 DEF WorkerBegins, WorkerLooksUp, WorkerFinds, WorkerExits, TypeOK
  <2>2. UNCHANGED <<mainVars, crash, sourceVars, registryVars, viewVars, routerVars, queueVars, closed, hand, queryVars>>
    BY <1>11 DEF WorkerBegins, WorkerLooksUp, WorkerFinds, WorkerExits
  <2> QED
    BY <1>0, <2>1, <2>2 DEF TypeOK
<1>12. ASSUME NEW w \in Worker, WorkerPanics(w) PROVE TypeOK'
  BY <1>0, <1>12 DEF WorkerPanics, TypeOK
<1>13. ASSUME NEW w \in Worker, WorkerApplies(w) PROVE TypeOK'
  <2>1. hand[w].ProjectionName \in Projection /\ hand[w].EventType \in EventType
    BY <1>13 DEF WorkerApplies, Inv, UpdatesInv, Holding, Update
  <2>2. Counted(orders[hand[w].ProjectionName], hand[w].EventType) \in Nat
    BY <1>0, <2>1, CountedIsNat DEF TypeOK
  <2> QED
    BY <1>0, <1>13, <2>1, <2>2 DEF WorkerApplies, TypeOK
<1>14. ASSUME NEW w \in Worker, WorkerPromotes(w) PROVE TypeOK'
  <2>1. hand[w].ProjectionName \in Projection
    BY <1>14 DEF WorkerPromotes, Inv, UpdatesInv, Holding, Update
  <2>2. materialized' \in [Projection -> BOOLEAN] /\ qps' \in [Projection -> Nat]
    BY <1>0, <1>14, <2>1, ProjectionEngineAssumption DEF WorkerPromotes, TypeOK
  <2> QED
    BY <1>0, <1>14, <2>2 DEF WorkerPromotes, TypeOK
<1>15. ASSUME NEW q \in Querier, NEW p \in Projection, QueryFinds(q, p) PROVE TypeOK'
  BY <1>0, <1>15 DEF QueryFinds, TypeOK
<1>16. ASSUME NEW q \in Querier, QueryAnswers(q) PROVE TypeOK'
  BY <1>0, <1>16 DEF QueryAnswers, TypeOK
<1>17. ASSUME NEW q \in Querier, QueryCounts(q) PROVE TypeOK'
  <2>1. asking[q] \in Projection
    BY <1>17 DEF QueryCounts, Inv, QueriesInv
  <2> QED
    BY <1>0, <1>17, <2>1 DEF QueryCounts, TypeOK
<1>18. CASE UNCHANGED vars
  BY <1>0, <1>18 DEF TypeOK
<1> QED
  BY StepCases, <1>1, <1>2, <1>3, <1>4, <1>5, <1>6, <1>7, <1>8, <1>9, <1>10, <1>11, <1>12, <1>13,
     <1>14, <1>15, <1>16, <1>17, <1>18

-----------------------------------------------------------------------------
(* The parts of the invariant                                               *)

(* Definitions and acceptances are for ever. *)
LEMMA KnownStays ==
    ASSUME Inv, [Next]_vars
    PROVE  /\ definitions \subseteq definitions'
           /\ \A p \in Projection : accepted[p] # <<>> => accepted'[p] # <<>>
           /\ \A u \in Update : Known(u) => Known(u)'
<1> DEFINE P == /\ definitions \subseteq definitions'
                /\ \A p \in Projection : accepted[p] # <<>> => accepted'[p] # <<>>
<1>1. ASSUME NEW p \in Projection, Route(p) PROVE P
  <2>1. definitions' = definitions
    BY <1>1 DEF Route, registryVars
  <2>2. CASE UNCHANGED queueVars
    BY <2>1, <2>2 DEF queueVars
  <2>3. CASE Enqueue(WorkerOf(p), p)
    <3>1. current \in EventType /\ TypeOK
      BY <1>1 DEF Route, Inv, RouterInv
    <3>2. accepted' = [accepted EXCEPT ![p] = Append(@, current)] /\ accepted'[p] # <<>>
      BY <2>3, <3>1, EnqueueGrows
    <3>3. \A r \in Projection : r # p => accepted'[r] = accepted[r]
      BY <3>1, <3>2 DEF TypeOK
    <3> QED
      BY <2>1, <3>2, <3>3
  <2> QED
    BY <1>1, <2>2, <2>3 DEF Route
<1>2. ASSUME \A p \in Projection : ~Route(p) PROVE P
  <2>1. accepted' = accepted /\ definitions \subseteq definitions'
    BY <1>2, StepCases DEF vars, mainVars, sourceVars, registryVars, viewVars, routerVars, queueVars,
       workerVars, queryVars, Publish, StartRuns, StartSubscribes, StartSpawns, StopRuns, StopCancels,
       StopCloses, StopUnsubscribes, Register, AddDefinition, AddState, RouterTakes, RouterSkips,
       RouterLocks, RouterUnlocks, RouterExits, RoutePanics, WorkerBegins, WorkerTakes,
       WorkerLooksUp, WorkerFinds, WorkerPanics, WorkerApplies, WorkerPromotes, WorkerExits,
       QueryFinds, QueryAnswers, QueryCounts
  <2>2. \A p \in Projection : accepted'[p] = accepted[p]
    BY <2>1
  <2> QED
    BY <2>1, <2>2
<1>3. P
  BY <1>1, <1>2
<1>4. \A u \in Update : u.ProjectionName \in Projection
  BY DEF Update
<1> QED
  BY <1>3, <1>4 DEF Known

(* A registration defines before it adds the state, and takes nothing back. *)
LEMMA RegistryStep == ASSUME Inv, [Next]_vars PROVE RegistryInv'
<1>0. TypeOK /\ RegistryInv
  BY DEF Inv
<1>1. ASSUME NEW p \in Projection, Register(p) \/ AddDefinition(p) \/ AddState(p)
      PROVE  RegistryInv'
  BY <1>0, <1>1 DEF Register, AddDefinition, AddState, RegistryInv, TypeOK
<1>2. CASE \A p \in Projection : ~Register(p) /\ ~AddDefinition(p) /\ ~AddState(p)
  <2>1. UNCHANGED <<registering, definitions, projections>>
    BY <1>2, StepCases DEF vars, mainVars, sourceVars, registryVars, viewVars, routerVars, queueVars,
       workerVars, queryVars, Publish, StartRuns, StartSubscribes, StartSpawns, StopRuns, StopCancels,
       StopCloses, StopUnsubscribes, RouterTakes, RouterSkips,
       RouterLocks, RouterUnlocks, RouterExits, Route, RoutePanics, WorkerBegins, WorkerTakes,
       WorkerLooksUp, WorkerFinds, WorkerPanics, WorkerApplies, WorkerPromotes, WorkerExits,
       QueryFinds, QueryAnswers, QueryCounts
  <2> QED
    BY <1>0, <2>1 DEF RegistryInv
<1> QED
  BY <1>1, <1>2

(* The router sends to projections it found in the registry. *)
LEMMA RoutingStep == ASSUME Inv, [Next]_vars PROVE RouterInv'
<1>0. TypeOK /\ RouterInv /\ definitions \subseteq definitions'
  BY KnownStays DEF Inv
<1>1. CASE RouterTakes
  <2>1. Head(channel) \in EventType
    BY <1>0, <1>1, HeadTailProperties DEF RouterTakes, TypeOK
  <2> QED
    BY <1>0, <1>1, <2>1 DEF RouterTakes, RouterInv
<1>2. CASE RouterSkips \/ RouterLocks \/ RouterUnlocks \/ RouterExits
  BY <1>0, <1>2 DEF RouterSkips, RouterLocks, RouterUnlocks, RouterExits, RouterInv
<1>3. ASSUME NEW p \in Projection, Route(p) PROVE RouterInv'
  BY <1>0, <1>3 DEF Route, RouterInv
<1>4. CASE StartSpawns
  BY <1>0, <1>4 DEF StartSpawns, RouterInv
<1>5. CASE UNCHANGED routerVars
  BY <1>0, <1>5 DEF RouterInv, routerVars
<1>6. \/ UNCHANGED routerVars
      \/ StartSpawns \/ RouterTakes \/ RouterSkips \/ RouterLocks \/ RouterUnlocks \/ RouterExits
      \/ \E p \in Projection : Route(p)
  BY StepCases DEF vars, Publish, StartRuns, StartSubscribes, StopRuns, StopCancels,
     StopCloses, StopUnsubscribes, Register, AddDefinition, AddState, RoutePanics, WorkerBegins,
     WorkerTakes, WorkerLooksUp, WorkerFinds, WorkerPanics, WorkerApplies, WorkerPromotes,
     WorkerExits, QueryFinds, QueryAnswers, QueryCounts
<1> QED
  BY <1>1, <1>2, <1>3, <1>4, <1>5, <1>6

(* A step keeps queues and hands to accepted updates. *)
LEMMA UpdatesStep == ASSUME Inv, [Next]_vars PROVE UpdatesInv'
<1>0. /\ TypeOK
      /\ \A w \in Worker : queue[w] \in Seq(Update) /\ Len(queue[w]) \in Nat
      /\ \A w \in Worker : \A i \in 1..Len(queue[w]) : queue[w][i] \in Update /\ Known(queue[w][i])
      /\ \A w \in Worker : worker[w] \in Holding => hand[w] \in Update /\ Known(hand[w])
      /\ \A u \in Update : Known(u) => Known(u)'
  <2>1. \A w \in Worker : queue[w] \in Seq(Update)
    BY DEF Inv, TypeOK
  <2>2. \A w \in Worker : Len(queue[w]) \in Nat /\ \A i \in 1..Len(queue[w]) : queue[w][i] \in Update
    BY <2>1, ElementOfSeq, LenProperties
  <2> QED
    BY <2>1, <2>2, KnownStays DEF Inv, UpdatesInv
<1> DEFINE Queued(w) == \A i \in 1..Len(queue[w]) : Known(queue[w][i])
           Held(w) == worker[w] \in Holding => hand[w] \in Update /\ Known(hand[w])
<1>1. ASSUME NEW w \in Worker, queue'[w] = queue[w] PROVE Queued(w)'
  BY <1>0, <1>1
<1>2. ASSUME NEW w \in Worker, hand'[w] = hand[w], worker'[w] \in Holding => worker[w] \in Holding
      PROVE  Held(w)'
  BY <1>0, <1>2
<1>3. ASSUME NEW p \in Projection, Route(p), NEW w \in Worker PROVE Queued(w)' /\ Held(w)'
  <2>1. Held(w)'
    BY <1>2, <1>3 DEF Route, workerVars
  <2>2. CASE UNCHANGED queueVars
    BY <1>1, <2>1, <2>2 DEF queueVars
  <2>3. CASE Enqueue(WorkerOf(p), p)
    <3>1. current \in EventType /\ p \in definitions /\ definitions \subseteq definitions'
      BY <1>3, KnownStays DEF Route, Inv, RouterInv
    <3>0. PICK u : u = [ProjectionName |-> p, EventType |-> current]
      OBVIOUS
    <3>2. /\ u \in Update
          /\ queue' = [queue EXCEPT ![WorkerOf(p)] = Append(@, u)]
          /\ Len(queue'[WorkerOf(p)]) = Len(queue[WorkerOf(p)]) + 1
          /\ \A i \in 1..Len(queue[WorkerOf(p)]) : queue'[WorkerOf(p)][i] = queue[WorkerOf(p)][i]
          /\ queue'[WorkerOf(p)][Len(queue[WorkerOf(p)]) + 1] = u
          /\ accepted'[p] # <<>>
      BY <1>0, <2>3, <3>1, <3>0, EnqueueGrows
    <3>3. Known(u)'
      BY <3>0, <3>1, <3>2 DEF Known
    <3>4. CASE w = WorkerOf(p)
      <4>1. ASSUME NEW i \in 1..Len(queue'[w]) PROVE Known(queue[w][i])'
        <5>1. CASE i \in 1..Len(queue[w])
          <6>1. queue'[w][i] = queue[w][i] /\ queue[w][i] \in Update /\ Known(queue[w][i])
            BY <1>0, <3>2, <3>4, <5>1
          <6> QED
            BY <1>0, <6>1 DEF Known
        <5>2. CASE i = Len(queue[w]) + 1
          <6>1. queue'[w][i] = u
            BY <1>0, <3>2, <3>4, <5>2 DEF TypeOK
          <6> QED
            BY <3>3, <6>1 DEF Known
        <5> QED
          BY <1>0, <3>2, <3>4, <5>1, <5>2
      <4> QED
        BY <2>1, <4>1
    <3>5. CASE w # WorkerOf(p)
      BY <1>0, <1>1, <2>1, <3>2, <3>5 DEF TypeOK
    <3> QED
      BY <3>4, <3>5
  <2> QED
    BY <1>3, <2>2, <2>3 DEF Route
<1>4. ASSUME NEW v \in Worker, WorkerTakes(v), NEW w \in Worker PROVE Queued(w)' /\ Held(w)'
  <2>1. /\ hand' = [hand EXCEPT ![v] = queue[v][1]]
        /\ 1 \in 1..Len(queue[v])
        /\ queue' = [queue EXCEPT ![v] = Tail(@)]
        /\ Len(queue'[v]) = Len(queue[v]) - 1
        /\ \A i \in 1..Len(queue'[v]) : queue'[v][i] = queue[v][i + 1]
    BY <1>0, <1>4, TakesHead
  <2>2. CASE w = v
    <3>1. hand'[w] = queue[w][1]
      BY <1>0, <2>1, <2>2 DEF TypeOK
    <3>2. Held(w)'
      BY <1>0, <2>1, <2>2, <3>1
    <3>3. ASSUME NEW i \in 1..Len(queue'[w]) PROVE Known(queue[w][i])'
      <4>1. i + 1 \in 1..Len(queue[w]) /\ queue'[w][i] = queue[w][i + 1]
        BY <1>0, <2>1, <2>2
      <4>2. queue[w][i + 1] \in Update /\ Known(queue[w][i + 1])
        BY <1>0, <4>1
      <4> QED
        BY <1>0, <4>1, <4>2 DEF Known
    <3> QED
      BY <3>2, <3>3
  <2>3. CASE w # v
    <3>1. queue'[w] = queue[w] /\ hand'[w] = hand[w] /\ worker'[w] = worker[w]
      BY <1>0, <1>4, <2>1, <2>3 DEF WorkerTakes, TypeOK
    <3> QED
      BY <1>1, <1>2, <3>1
  <2> QED
    BY <2>2, <2>3
<1>5. CASE /\ \A p \in Projection : ~Route(p)
           /\ \A v \in Worker : ~WorkerTakes(v)
  <2>0. ASSUME NEW v \in Worker,
               \/ WorkerBegins(v) \/ WorkerLooksUp(v) \/ WorkerFinds(v)
               \/ WorkerPanics(v) \/ WorkerApplies(v) \/ WorkerPromotes(v) \/ WorkerExits(v)
        PROVE  /\ queue' = queue
               /\ \A w \in Worker : worker'[w] \in Holding => worker[w] \in Holding /\ hand'[w] = hand[w]
    BY <1>0, <2>0 DEF queueVars, workerVars, WorkerBegins, WorkerLooksUp, WorkerFinds, WorkerPanics,
       WorkerApplies, WorkerPromotes, WorkerExits, TypeOK, Holding
  <2>1. /\ queue' = queue
        /\ \A w \in Worker : worker'[w] \in Holding => worker[w] \in Holding /\ hand'[w] = hand[w]
    BY <2>0, <1>0, <1>5, StepCases DEF vars, mainVars, sourceVars, registryVars, viewVars, routerVars, queueVars,
       workerVars, queryVars, Publish, StartRuns, StartSubscribes, StartSpawns, StopRuns, StopCancels,
       StopCloses, StopUnsubscribes, Register, AddDefinition, AddState, RouterTakes, RouterSkips,
       RouterLocks, RouterUnlocks, RouterExits, RoutePanics,
       QueryFinds, QueryAnswers, QueryCounts, Holding
  <2>2. ASSUME NEW w \in Worker PROVE Queued(w)' /\ Held(w)'
    BY <1>0, <1>1, <2>1
  <2> QED
    BY <2>2 DEF UpdatesInv
<1> QED
  BY <1>3, <1>4, <1>5 DEF UpdatesInv

(* Start and Stop run once, in this order. *)
LEMMA StopStep == ASSUME Inv, [Next]_vars PROVE StopInv'
<1>0. TypeOK /\ StopInv
  BY DEF Inv
<1>1. CASE StopCloses
  BY <1>0, <1>1 DEF StopCloses, StopInv, TypeOK
<1>2. CASE StartRuns \/ StartSubscribes \/ StartSpawns \/ StopRuns \/ StopCancels \/ StopUnsubscribes
  <2>1. closed' = closed
    BY <1>2 DEF StartRuns, StartSubscribes, StartSpawns, StopRuns, StopCancels, StopUnsubscribes
  <2>2. /\ control \in {"close", "unsubscribe", "stopped"} => control' \in {"close", "unsubscribe", "stopped"}
        /\ control' \in {"cancel", "close", "unsubscribe", "stopped"} => ~running'
        /\ control' \in {"close", "unsubscribe", "stopped"} => cancelled'
    <3>1. CASE StopCancels
      BY <1>0, <3>1 DEF StopCancels, StopInv, TypeOK
    <3>2. CASE StartRuns \/ StartSubscribes \/ StartSpawns \/ StopRuns \/ StopUnsubscribes
      BY <1>0, <3>2 DEF StartRuns, StartSubscribes, StartSpawns, StopRuns, StopUnsubscribes, StopInv
    <3> QED
      BY <1>2, <3>1, <3>2
  <2> QED
    BY <1>0, <2>1, <2>2 DEF StopInv
<1>3. \/ StopCloses
      \/ StartRuns \/ StartSubscribes \/ StartSpawns \/ StopRuns \/ StopCancels \/ StopUnsubscribes
      \/ UNCHANGED <<mainVars, closed>>
  BY StepCases DEF vars, Publish, Register, AddDefinition, AddState, RouterTakes, RouterSkips,
     RouterLocks, RouterUnlocks, RouterExits, Route, RoutePanics, WorkerBegins, WorkerTakes,
     WorkerLooksUp, WorkerFinds, WorkerPanics, WorkerApplies, WorkerPromotes, WorkerExits,
     QueryFinds, QueryAnswers, QueryCounts
<1>4. CASE UNCHANGED <<mainVars, closed>>
  BY <1>0, <1>4 DEF mainVars, StopInv
<1> QED
  BY <1>1, <1>2, <1>3, <1>4

(* A query is counted in both numbers, and a promotion resets only one. *)
LEMMA QueriesStep == ASSUME Inv, [Next]_vars PROVE QueriesInv'
<1>0. TypeOK /\ QueriesInv
  BY DEF Inv
<1>1. ASSUME NEW q \in Querier, NEW p \in Projection, QueryFinds(q, p) PROVE QueriesInv'
  BY <1>0, <1>1 DEF QueryFinds, QueriesInv, TypeOK, viewVars
<1>2. ASSUME NEW q \in Querier, QueryAnswers(q) PROVE QueriesInv'
  BY <1>0, <1>2 DEF QueryAnswers, QueriesInv, TypeOK, viewVars
<1>3. ASSUME NEW q \in Querier, QueryCounts(q) PROVE QueriesInv'
  <2>1. asking[q] \in Projection
    BY <1>0, <1>3 DEF QueryCounts, QueriesInv
  <2>2. ASSUME NEW p \in Projection PROVE qps'[p] <= asked'[p]
    <3>1. qps[p] \in Nat /\ asked[p] \in Nat /\ qps[p] <= asked[p]
      BY <1>0 DEF TypeOK, QueriesInv
    <3> QED
      BY <1>0, <1>3, <2>1, <3>1 DEF QueryCounts, TypeOK
  <2> QED
    BY <1>0, <1>3, <2>2 DEF QueryCounts, QueriesInv, TypeOK
<1>4. ASSUME NEW w \in Worker, WorkerPromotes(w) PROVE QueriesInv'
  <2>1. ASSUME NEW p \in Projection PROVE qps'[p] <= asked[p]
    <3>1. qps[p] \in Nat /\ asked[p] \in Nat /\ qps[p] <= asked[p]
      BY <1>0 DEF TypeOK, QueriesInv
    <3>2. qps'[p] \in {0, qps[p]}
      BY <1>0, <1>4 DEF WorkerPromotes, TypeOK
    <3> QED
      BY <3>1, <3>2
  <2> QED
    BY <1>0, <1>4, <2>1 DEF WorkerPromotes, QueriesInv, queryVars
<1>5. \/ UNCHANGED <<qps, queryVars>>
      \/ \E q \in Querier : (\E p \in Projection : QueryFinds(q, p)) \/ QueryAnswers(q) \/ QueryCounts(q)
      \/ \E w \in Worker : WorkerPromotes(w)
  BY StepCases DEF vars, viewVars, Publish, StartRuns, StartSubscribes, StartSpawns, StopRuns, StopCancels,
     StopCloses, StopUnsubscribes, Register, AddDefinition, AddState, RouterTakes, RouterSkips,
     RouterLocks, RouterUnlocks, RouterExits, Route, RoutePanics, WorkerBegins, WorkerTakes,
     WorkerLooksUp, WorkerFinds, WorkerPanics, WorkerApplies, WorkerExits
<1>6. CASE UNCHANGED <<qps, queryVars>>
  BY <1>0, <1>6 DEF QueriesInv, queryVars
<1> QED
  BY <1>1, <1>2, <1>3, <1>4, <1>5, <1>6

(* A promotion is made with an accepted update in hand, and counted queries. *)
LEMMA PromotionStep == ASSUME Inv, [Next]_vars PROVE PromotionEarned'
<1>0. /\ TypeOK
      /\ PromotionEarned
      /\ \A p \in Projection : accepted[p] # <<>> => accepted'[p] # <<>>
  BY KnownStays DEF Inv
<1>1. \A p \in Projection : asked[p] \in Nat /\ asked'[p] \in Nat /\ asked[p] <= asked'[p]
  <2>1. \A p \in Projection : asked[p] \in Nat
    BY <1>0 DEF TypeOK
  <2>2. ASSUME NEW q \in Querier, QueryCounts(q), NEW p \in Projection
        PROVE  asked'[p] \in {asked[p], asked[p] + 1}
    BY <1>0, <2>2 DEF QueryCounts, TypeOK
  <2>3. asked' = asked \/ \E q \in Querier : QueryCounts(q)
    BY StepCases DEF vars, queryVars, Publish, StartRuns, StartSubscribes, StartSpawns, StopRuns, StopCancels,
       StopCloses, StopUnsubscribes, Register, AddDefinition, AddState, RouterTakes, RouterSkips,
       RouterLocks, RouterUnlocks, RouterExits, Route, RoutePanics, WorkerBegins, WorkerTakes,
       WorkerLooksUp, WorkerFinds, WorkerPanics, WorkerApplies, WorkerPromotes, WorkerExits,
       QueryFinds, QueryAnswers
  <2> QED
    BY <2>1, <2>2, <2>3
<1>2. PromoteThreshold \in Nat
  BY ProjectionEngineAssumption
<1>3. ASSUME NEW p \in Projection, materialized[p]
      PROVE  asked'[p] >= PromoteThreshold /\ accepted'[p] # <<>>
  BY <1>0, <1>1, <1>2, <1>3 DEF PromotionEarned
<1>4. ASSUME NEW w \in Worker, WorkerPromotes(w), NEW p \in Projection, materialized'[p]
      PROVE  asked'[p] >= PromoteThreshold /\ accepted'[p] # <<>>
  <2>1. \/ materialized[p]
        \/ p = hand[w].ProjectionName /\ qps[p] >= PromoteThreshold
    BY <1>0, <1>4 DEF WorkerPromotes, TypeOK
  <2>2. CASE p = hand[w].ProjectionName /\ qps[p] >= PromoteThreshold
    <3>1. accepted[p] # <<>>
      BY <1>4, <2>2 DEF WorkerPromotes, Inv, UpdatesInv, Holding, Known
    <3>2. qps[p] \in Nat /\ qps[p] <= asked[p]
      BY DEF Inv, TypeOK, QueriesInv
    <3> QED
      BY <1>0, <1>1, <1>2, <2>2, <3>1, <3>2
  <2> QED
    BY <1>3, <2>1, <2>2
<1>5. materialized' = materialized \/ \E w \in Worker : WorkerPromotes(w)
  BY StepCases DEF vars, viewVars, Publish, StartRuns, StartSubscribes, StartSpawns, StopRuns, StopCancels,
     StopCloses, StopUnsubscribes, Register, AddDefinition, AddState, RouterTakes, RouterSkips,
     RouterLocks, RouterUnlocks, RouterExits, Route, RoutePanics, WorkerBegins, WorkerTakes,
     WorkerLooksUp, WorkerFinds, WorkerPanics, WorkerApplies, WorkerExits,
     QueryFinds, QueryAnswers, QueryCounts
<1> QED
  BY <1>3, <1>4, <1>5 DEF PromotionEarned

(* A panic is the last step, of a state in which its race is on. *)
LEMMA PanicStep == ASSUME Inv, [Next]_vars PROVE PanicsOnlyInRaces'
<1>1. ASSUME NEW w \in Worker, WorkerPanics(w) PROVE PanicsOnlyInRaces'
  <2> DEFINE p == hand[w].ProjectionName
  <2>1. p \in Projection /\ p \in definitions /\ p \notin projections
    BY <1>1 DEF WorkerPanics, Inv, UpdatesInv, Holding, Known, Update
  <2>2. registering[p] = "defined"
    BY <2>1 DEF Inv, RegistryInv
  <2>3. registering' = registering /\ crash' = "nilDereference"
    BY <1>1 DEF WorkerPanics, registryVars
  <2> QED
    BY <2>1, <2>2, <2>3 DEF PanicsOnlyInRaces
<1>2. ASSUME NEW p \in Projection, RoutePanics(p) PROVE PanicsOnlyInRaces'
  <2>1. ~running /\ cancelled
    BY <1>2, WorkerIsThere DEF RoutePanics, Inv, StopInv
  <2> QED
    BY <1>2, <2>1 DEF RoutePanics, PanicsOnlyInRaces, mainVars
<1>3. \/ UNCHANGED vars
      \/ Alive /\ crash' = crash
      \/ \E p \in Projection : RoutePanics(p)
      \/ \E w \in Worker : WorkerPanics(w)
  BY StepCases DEF Publish, StartRuns, StartSubscribes, StartSpawns, StopRuns, StopCancels,
     StopCloses, StopUnsubscribes, Register, AddDefinition, AddState, RouterTakes, RouterSkips,
     RouterLocks, RouterUnlocks, RouterExits, Route, WorkerBegins, WorkerTakes,
     WorkerLooksUp, WorkerFinds, WorkerApplies, WorkerPromotes, WorkerExits,
     QueryFinds, QueryAnswers, QueryCounts
<1>4. CASE UNCHANGED vars
  BY <1>4 DEF vars, mainVars, registryVars, Inv, PanicsOnlyInRaces
<1>5. CASE Alive /\ crash' = crash
  BY <1>5 DEF Alive, PanicsOnlyInRaces
<1> QED
  BY <1>1, <1>2, <1>3, <1>4, <1>5

-----------------------------------------------------------------------------

(* The invariant holds throughout. *)
LEMMA SpecInv == Spec => []Inv
<1>1. Inv /\ [Next]_vars => Inv'
  BY TypeStep, RegistryStep, RoutingStep, UpdatesStep, StopStep, QueriesStep, PromotionStep, PanicStep
     DEF Inv
<1> QED
  BY InitInv, <1>1, PTL DEF Spec

(* The engine's variables keep their types: no queue or channel ever holds  *)
(* more than its capacity, and no count is negative.                        *)
THEOREM TypeCorrect == Spec => []TypeOK
<1>1. Inv => TypeOK
  BY DEF Inv
<1> QED
  BY <1>1, SpecInv, PTL

(* However many projections, workers and queriers there are, the engine     *)
(* panics only when an update is processed inside a RegisterProjection, or  *)
(* an event is routed across a Stop.                                        *)
THEOREM PanicsExplained == Spec => []PanicsOnlyInRaces
<1>1. Inv => PanicsOnlyInRaces
  BY DEF Inv
<1> QED
  BY <1>1, SpecInv, PTL

(* A projection is materialized only after as many answered queries as the  *)
(* threshold asks for, and only through an update of its own.               *)
THEOREM PromotionsEarned == Spec => []PromotionEarned
<1>1. Inv => PromotionEarned
  BY DEF Inv
<1> QED
  BY <1>1, SpecInv, PTL

-----------------------------------------------------------------------------
(* Sequences and folds                                                      *)

(* Induction, for a set of numbers. *)
LEMMA Induction ==
    ASSUME NEW A, 0 \in A, \A n \in Nat : n \in A => n + 1 \in A
    PROVE  \A n \in Nat : n \in A
<1> DEFINE T == Nat \ A
           R == {ss \in Nat \X Nat : ss[1] < ss[2]}
<1>1. SUFFICES ASSUME T # {} PROVE FALSE
  OBVIOUS
<1>2. IsWellFoundedOn(R, Nat)
  BY NatLessThanWellFounded DEF OpToRel
<1>3. PICK n \in T : \A m \in T : <<m, n>> \notin R
  <2>1. T \subseteq Nat
    OBVIOUS
  <2> HIDE DEF T, R
  <2> QED
    BY <1>1, <1>2, <2>1, WFMin
<1>4. n \in Nat /\ n \notin A /\ n # 0
  OBVIOUS
<1>5. n - 1 \in Nat /\ n - 1 < n
  BY <1>4
<1>6. n - 1 \in A
  BY <1>3, <1>4, <1>5
<1> QED
  BY <1>4, <1>5, <1>6

(* The largest number of a set that has a bound in it. *)
LEMMA MaxIsBound ==
    ASSUME NEW n \in Nat, NEW X \in SUBSET (1..n), n \in X
    PROVE  Max(X) = n
<1> DEFINE Top(x) == \A y \in X : x >= y
<1>1. \A y \in X : y \in Nat /\ n >= y
  OBVIOUS
<1>2. PICK m : m = Max(X)
  OBVIOUS
<1>3. m \in X /\ m >= n
  BY <1>1, <1>2 DEF Max
<1> QED
  BY <1>1, <1>2, <1>3

(* An induction over the elements of a sequence. *)
LEMMA ByAppending ==
    ASSUME NEW T, NEW A, <<>> \in A, \A s \in Seq(T), x \in T : s \in A => Append(s, x) \in A
    PROVE  \A s \in Seq(T) : s \in A
<1> DEFINE B == {n \in Nat : \A s \in Seq(T) : Len(s) = n => s \in A}
<1>1. 0 \in B
  BY EmptySeq
<1>2. ASSUME NEW n \in Nat, n \in B PROVE n + 1 \in B
  <2>1. SUFFICES ASSUME NEW s \in Seq(T), Len(s) = n + 1 PROVE s \in A
    OBVIOUS
  <2>2. s # <<>>
    BY <2>1, EmptySeq
  <2>3. PICK r \in Seq(T), x \in T : s = Append(r, x)
    BY <2>2, SequenceEmptyOrAppend
  <2>4. Len(r) = n
    BY <2>1, <2>3, AppendProperties, LenProperties
  <2> QED
    BY <1>2, <2>3, <2>4
<1>3. \A n \in Nat : n \in B
  <2> HIDE DEF B
  <2> QED
    BY <1>1, <1>2, Induction
<1> QED
  BY <1>3, LenProperties

-----------------------------------------------------------------------------
(* What a sequence of events does to the number of orders                   *)

\* Number of orders after a sequence of events.
OrdersAfter(s) == FoldLeft(Counted, 0, s)

\* The function by which FoldLeft is defined.
IsOrdersIter(it, s, n) ==
    it = [X \in SUBSET (1..n) |-> IF X = {} THEN 0 ELSE Counted(it[X \ {Max(X)}], s[Max(X)])]

LEMMA OrdersIterExists == ASSUME NEW s, NEW n \in Nat PROVE \E it : IsOrdersIter(it, s, n)
<1> DEFINE A == {k \in Nat : \E it : IsOrdersIter(it, s, k)}
<1>1. 0 \in A
  <2>1. IsOrdersIter([X \in SUBSET (1..0) |-> 0], s, 0)
    <3>1. \A X \in SUBSET (1..0) : X = {}
      OBVIOUS
    <3> QED
      BY <3>1 DEF IsOrdersIter
  <2> QED
    BY <2>1
<1>2. ASSUME NEW k \in Nat, k \in A PROVE k + 1 \in A
  <2>1. PICK it : IsOrdersIter(it, s, k)
    BY <1>2
  <2> DEFINE next == [X \in SUBSET (1..(k + 1)) |->
                         IF k + 1 \in X THEN Counted(it[X \ {k + 1}], s[k + 1]) ELSE it[X]]
             Value(X) == IF X = {} THEN 0 ELSE Counted(next[X \ {Max(X)}], s[Max(X)])
  <2>2. ASSUME NEW X \in SUBSET (1..(k + 1)) PROVE next[X] = Value(X)
    <3>1. CASE k + 1 \in X
      <4>1. Max(X) = k + 1
        BY <3>1, MaxIsBound
      <4>2. next[X \ {k + 1}] = it[X \ {k + 1}]
        OBVIOUS
      <4> QED
        BY <3>1, <4>1, <4>2
    <3>2. CASE k + 1 \notin X
      <4>1. X \in SUBSET (1..k)
        BY <3>2
      <4>2. next[X] = it[X] /\ next[X \ {Max(X)}] = it[X \ {Max(X)}]
        BY <3>2
      <4>3. it[X] = IF X = {} THEN 0 ELSE Counted(it[X \ {Max(X)}], s[Max(X)])
        BY <4>1, <2>1 DEF IsOrdersIter
      <4> QED
        BY <4>2, <4>3
    <3> QED
      BY <3>1, <3>2
  <2>3. next = [X \in SUBSET (1..(k + 1)) |-> Value(X)]
    <3>1. next = [X \in SUBSET (1..(k + 1)) |-> next[X]]
      OBVIOUS
    <3> HIDE DEF next, Value
    <3> QED
      BY <2>2, <3>1
  <2>4. IsOrdersIter(next, s, k + 1)
    BY <2>3 DEF IsOrdersIter
  <2> HIDE DEF next
  <2> QED
    BY <2>4
<1>3. \A k \in Nat : k \in A
  <2> HIDE DEF A
  <2> QED
    BY <1>1, <1>2, Induction
<1> QED
  BY <1>3

(* OrdersAfter goes through the sequence from its first element to its last. *)
LEMMA OrdersSteps ==
    ASSUME NEW s, NEW n \in Nat, DOMAIN s = 1..n
    PROVE  \E g : /\ g[0] = 0 /\ g[n] = OrdersAfter(s)
                  /\ \A i \in 1..n : g[i] = Counted(g[i - 1], s[i])
<1> DEFINE it == CHOOSE f : IsOrdersIter(f, s, n)
           g == [i \in 0..n |-> it[1..i]]
<1>1. IsOrdersIter(it, s, n)
  BY OrdersIterExists
<1>2. OrdersAfter(s) = it[1..n]
  BY DEF OrdersAfter, FoldLeft, MapThenFoldSet, IsOrdersIter
<1> HIDE DEF it
<1>3. \A X \in SUBSET (1..n) : it[X] = IF X = {} THEN 0 ELSE Counted(it[X \ {Max(X)}], s[Max(X)])
  BY <1>1 DEF IsOrdersIter
<1>4. it[1..0] = 0
  <2> DEFINE e == 1..0
  <2>1. e = {}
    OBVIOUS
  <2> HIDE DEF e
  <2>2. it[e] = 0
    BY <1>3, <2>1
  <2> QED
    BY <2>2 DEF e
<1>5. ASSUME NEW i \in 1..n PROVE it[1..i] = Counted(it[1..(i - 1)], s[i])
  <2> DEFINE e == 1..i
             d == 1..(i - 1)
  <2>1. e \in SUBSET (1..n) /\ i \in e
    OBVIOUS
  <2>2. Max(e) = i
    BY MaxIsBound
  <2>3. e \ {i} = d
    <3>1. \A x : x \in e \ {i} <=> x \in d
      OBVIOUS
    <3> HIDE DEF e, d
    <3> QED
      BY <3>1
  <2> HIDE DEF e, d
  <2>4. it[e] = Counted(it[d], s[i])
    BY <1>3, <2>1, <2>2, <2>3
  <2> QED
    BY <2>4 DEF e, d
<1>6. /\ g[0] = 0 /\ g[n] = OrdersAfter(s)
      /\ \A i \in 1..n : g[i] = Counted(g[i - 1], s[i])
  BY <1>2, <1>4, <1>5
<1> QED
  BY <1>6

(* And nothing else does what it does. *)
LEMMA OrdersUnique ==
    ASSUME NEW s, NEW n \in Nat, DOMAIN s = 1..n,
           NEW h, h[0] = 0, \A i \in 1..n : h[i] = Counted(h[i - 1], s[i])
    PROVE  h[n] = OrdersAfter(s)
<1>1. PICK g : /\ g[0] = 0 /\ g[n] = OrdersAfter(s)
               /\ \A i \in 1..n : g[i] = Counted(g[i - 1], s[i])
  BY OrdersSteps
<1> DEFINE A == {k \in Nat : k <= n => g[k] = h[k]}
<1>2. 0 \in A
  BY <1>1
<1>3. ASSUME NEW k \in Nat, k \in A PROVE k + 1 \in A
  <2>1. SUFFICES ASSUME k + 1 <= n PROVE g[k + 1] = h[k + 1]
    OBVIOUS
  <2>2. k + 1 \in 1..n /\ k + 1 - 1 = k /\ g[k] = h[k]
    BY <1>3, <2>1
  <2> QED
    BY <1>1, <2>2
<1>4. \A k \in Nat : k \in A
  <2> HIDE DEF A
  <2> QED
    BY <1>2, <1>3, Induction
<1> QED
  BY <1>1, <1>4

LEMMA OrdersEmpty == OrdersAfter(<<>>) = 0
<1>1. DOMAIN <<>> = 1..0
  OBVIOUS
<1>2. PICK g : g[0] = 0 /\ g[0] = OrdersAfter(<<>>)
  BY <1>1, OrdersSteps
<1> QED
  BY <1>2

LEMMA OrdersAppend ==
    ASSUME NEW T, NEW s \in Seq(T), NEW x \in T
    PROVE  OrdersAfter(Append(s, x)) = Counted(OrdersAfter(s), x)
<1> DEFINE n == Len(s)
           t == Append(s, x)
<1>1. n \in Nat /\ n + 1 \in Nat /\ DOMAIN s = 1..n /\ DOMAIN t = 1..(n + 1)
  BY LenProperties, AppendProperties
<1>2. t[n + 1] = x /\ \A i \in 1..n : t[i] = s[i]
  BY AppendProperties
<1> HIDE DEF n, t
<1>3. PICK g : /\ g[0] = 0 /\ g[n + 1] = OrdersAfter(t)
               /\ \A i \in 1..(n + 1) : g[i] = Counted(g[i - 1], t[i])
  BY <1>1, OrdersSteps
<1>4. \A i \in 1..n : g[i] = Counted(g[i - 1], s[i])
  BY <1>1, <1>2, <1>3
<1>5. g[n] = OrdersAfter(s)
  BY <1>1, <1>3, <1>4, OrdersUnique
<1>6. n + 1 \in 1..(n + 1) /\ n + 1 - 1 = n
  BY <1>1
<1>7. g[n + 1] = Counted(g[n], t[n + 1])
  <2>1. \A i \in 1..(n + 1) : i - 1 = n => g[i] = Counted(g[n], t[i])
    BY <1>3
  <2> QED
    BY <1>1, <1>6, <2>1
<1> QED
  BY <1>2, <1>3, <1>5, <1>6, <1>7 DEF t

-----------------------------------------------------------------------------
(* The updates of one projection                                            *)

\* What TypesOf does with one update.
Taken(types, u, p) == IF u.ProjectionName = p THEN Append(types, u.EventType) ELSE types

\* The function by which FoldLeft is defined.
IsTypesIter(it, s, n, p) ==
    it = [X \in SUBSET (1..n) |-> IF X = {} THEN <<>> ELSE Taken(it[X \ {Max(X)}], s[Max(X)], p)]

LEMMA TypesIterExists == ASSUME NEW s, NEW n \in Nat, NEW p PROVE \E it : IsTypesIter(it, s, n, p)
<1> DEFINE A == {k \in Nat : \E it : IsTypesIter(it, s, k, p)}
<1>1. 0 \in A
  <2>1. IsTypesIter([X \in SUBSET (1..0) |-> <<>>], s, 0, p)
    <3>1. \A X \in SUBSET (1..0) : X = {}
      OBVIOUS
    <3> QED
      BY <3>1 DEF IsTypesIter
  <2> QED
    BY <2>1
<1>2. ASSUME NEW k \in Nat, k \in A PROVE k + 1 \in A
  <2>1. PICK it : IsTypesIter(it, s, k, p)
    BY <1>2
  <2> DEFINE next == [X \in SUBSET (1..(k + 1)) |->
                         IF k + 1 \in X THEN Taken(it[X \ {k + 1}], s[k + 1], p) ELSE it[X]]
             Value(X) == IF X = {} THEN <<>> ELSE Taken(next[X \ {Max(X)}], s[Max(X)], p)
  <2>2. ASSUME NEW X \in SUBSET (1..(k + 1)) PROVE next[X] = Value(X)
    <3>1. CASE k + 1 \in X
      <4>1. Max(X) = k + 1
        BY <3>1, MaxIsBound
      <4>2. next[X \ {k + 1}] = it[X \ {k + 1}]
        OBVIOUS
      <4> QED
        BY <3>1, <4>1, <4>2
    <3>2. CASE k + 1 \notin X
      <4>1. X \in SUBSET (1..k)
        BY <3>2
      <4>2. next[X] = it[X] /\ next[X \ {Max(X)}] = it[X \ {Max(X)}]
        BY <3>2
      <4>3. it[X] = IF X = {} THEN <<>> ELSE Taken(it[X \ {Max(X)}], s[Max(X)], p)
        BY <4>1, <2>1 DEF IsTypesIter
      <4> QED
        BY <4>2, <4>3
    <3> QED
      BY <3>1, <3>2
  <2>3. next = [X \in SUBSET (1..(k + 1)) |-> Value(X)]
    <3>1. next = [X \in SUBSET (1..(k + 1)) |-> next[X]]
      OBVIOUS
    <3> HIDE DEF next, Value
    <3> QED
      BY <2>2, <3>1
  <2>4. IsTypesIter(next, s, k + 1, p)
    BY <2>3 DEF IsTypesIter
  <2> HIDE DEF next
  <2> QED
    BY <2>4
<1>3. \A k \in Nat : k \in A
  <2> HIDE DEF A
  <2> QED
    BY <1>1, <1>2, Induction
<1> QED
  BY <1>3

(* TypesOf goes through the sequence from its first element to its last. *)
LEMMA TypesSteps ==
    ASSUME NEW s, NEW n \in Nat, DOMAIN s = 1..n, NEW p
    PROVE  \E g : /\ g[0] = <<>> /\ g[n] = TypesOf(p, s)
                  /\ \A i \in 1..n : g[i] = Taken(g[i - 1], s[i], p)
<1> DEFINE it == CHOOSE f : IsTypesIter(f, s, n, p)
           g == [i \in 0..n |-> it[1..i]]
<1>1. IsTypesIter(it, s, n, p)
  BY TypesIterExists
<1>2. TypesOf(p, s) = it[1..n]
  BY DEF TypesOf, Taken, FoldLeft, MapThenFoldSet, IsTypesIter
<1> HIDE DEF it
<1>3. \A X \in SUBSET (1..n) : it[X] = IF X = {} THEN <<>> ELSE Taken(it[X \ {Max(X)}], s[Max(X)], p)
  BY <1>1 DEF IsTypesIter
<1>4. it[1..0] = <<>>
  <2> DEFINE e == 1..0
  <2>1. e = {}
    OBVIOUS
  <2> HIDE DEF e
  <2>2. it[e] = <<>>
    BY <1>3, <2>1
  <2> QED
    BY <2>2 DEF e
<1>5. ASSUME NEW i \in 1..n PROVE it[1..i] = Taken(it[1..(i - 1)], s[i], p)
  <2> DEFINE e == 1..i
             d == 1..(i - 1)
  <2>1. e \in SUBSET (1..n) /\ i \in e
    OBVIOUS
  <2>2. Max(e) = i
    BY MaxIsBound
  <2>3. e \ {i} = d
    <3>1. \A x : x \in e \ {i} <=> x \in d
      OBVIOUS
    <3> HIDE DEF e, d
    <3> QED
      BY <3>1
  <2> HIDE DEF e, d
  <2>4. it[e] = Taken(it[d], s[i], p)
    BY <1>3, <2>1, <2>2, <2>3
  <2> QED
    BY <2>4 DEF e, d
<1>6. /\ g[0] = <<>> /\ g[n] = TypesOf(p, s)
      /\ \A i \in 1..n : g[i] = Taken(g[i - 1], s[i], p)
  BY <1>2, <1>4, <1>5
<1> QED
  BY <1>6

(* And nothing else does what it does. *)
LEMMA TypesUnique ==
    ASSUME NEW s, NEW n \in Nat, DOMAIN s = 1..n, NEW p,
           NEW h, h[0] = <<>>, \A i \in 1..n : h[i] = Taken(h[i - 1], s[i], p)
    PROVE  h[n] = TypesOf(p, s)
<1>1. PICK g : /\ g[0] = <<>> /\ g[n] = TypesOf(p, s)
               /\ \A i \in 1..n : g[i] = Taken(g[i - 1], s[i], p)
  BY TypesSteps
<1> DEFINE A == {k \in Nat : k <= n => g[k] = h[k]}
<1>2. 0 \in A
  BY <1>1
<1>3. ASSUME NEW k \in Nat, k \in A PROVE k + 1 \in A
  <2>1. SUFFICES ASSUME k + 1 <= n PROVE g[k + 1] = h[k + 1]
    OBVIOUS
  <2>2. k + 1 \in 1..n /\ k + 1 - 1 = k /\ g[k] = h[k]
    BY <1>3, <2>1
  <2> QED
    BY <1>1, <2>2
<1>4. \A k \in Nat : k \in A
  <2> HIDE DEF A
  <2> QED
    BY <1>2, <1>3, Induction
<1> QED
  BY <1>1, <1>4

LEMMA TypesEmpty == ASSUME NEW p PROVE  TypesOf(p, <<>>) = <<>>
<1>1. DOMAIN <<>> = 1..0
  OBVIOUS
<1>2. PICK g : g[0] = <<>> /\ g[0] = TypesOf(p, <<>>)
  BY <1>1, TypesSteps
<1> QED
  BY <1>2

LEMMA TypesAppend ==
    ASSUME NEW T, NEW s \in Seq(T), NEW x \in T, NEW p
    PROVE  TypesOf(p, Append(s, x)) = Taken(TypesOf(p, s), x, p)
<1> DEFINE n == Len(s)
           t == Append(s, x)
<1>1. n \in Nat /\ n + 1 \in Nat /\ DOMAIN s = 1..n /\ DOMAIN t = 1..(n + 1)
  BY LenProperties, AppendProperties
<1>2. t[n + 1] = x /\ \A i \in 1..n : t[i] = s[i]
  BY AppendProperties
<1> HIDE DEF n, t
<1>3. PICK g : /\ g[0] = <<>> /\ g[n + 1] = TypesOf(p, t)
               /\ \A i \in 1..(n + 1) : g[i] = Taken(g[i - 1], t[i], p)
  BY <1>1, TypesSteps
<1>4. \A i \in 1..n : g[i] = Taken(g[i - 1], s[i], p)
  BY <1>1, <1>2, <1>3
<1>5. g[n] = TypesOf(p, s)
  BY <1>1, <1>3, <1>4, TypesUnique
<1>6. n + 1 \in 1..(n + 1) /\ n + 1 - 1 = n
  BY <1>1
<1>7. g[n + 1] = Taken(g[n], t[n + 1], p)
  <2>1. \A i \in 1..(n + 1) : i - 1 = n => g[i] = Taken(g[n], t[i], p)
    BY <1>3
  <2> QED
    BY <1>1, <1>6, <2>1
<1> QED
  BY <1>2, <1>3, <1>5, <1>6, <1>7 DEF t

LEMMA TypesType ==
    ASSUME NEW p, NEW s \in Seq(Update)
    PROVE  TypesOf(p, s) \in Seq(EventType)
<1> DEFINE A == {r \in Seq(Update) : TypesOf(p, r) \in Seq(EventType)}
<1>1. <<>> \in A
  BY TypesEmpty, EmptySeq
<1>2. ASSUME NEW r \in Seq(Update), NEW u \in Update, r \in A PROVE Append(r, u) \in A
  <2>1. TypesOf(p, Append(r, u)) = Taken(TypesOf(p, r), u, p)
    BY TypesAppend
  <2>2. Append(r, u) \in Seq(Update)
    BY AppendProperties
  <2>3. u.EventType \in EventType
    BY DEF Update
  <2>4. Append(TypesOf(p, r), u.EventType) \in Seq(EventType)
    BY <1>2, <2>3, AppendProperties
  <2> QED
    BY <1>2, <2>1, <2>2, <2>4 DEF Taken
<1>3. \A r \in Seq(Update) : r \in A
  <2> HIDE DEF A
  <2> QED
    BY <1>1, <1>2, ByAppending
<1> QED
  BY <1>3

(* An element after two sequences. *)
LEMMA AppendAfter ==
    ASSUME NEW T, NEW s \in Seq(T), NEW t \in Seq(T), NEW x \in T, NEW st \in Seq(T), st = s \o t
    PROVE  Append(st, x) = s \o Append(t, x)
<1>1. PICK o \in Seq(T) : o = <<x>>
  <2>1. <<x>> \in Seq(T)
    OBVIOUS
  <2> QED
    BY <2>1
<1>2. Append(st, x) = st \o o /\ Append(t, x) = t \o o
  BY <1>1, AppendIsConcat
<1>3. (s \o t) \o o = s \o (t \o o)
  BY ConcatAssociative
<1> QED
  BY <1>2, <1>3

LEMMA AppendType ==
    ASSUME NEW s \in Seq(EventType), NEW t \in Seq(EventType), NEW x \in EventType
    PROVE  Append(s \o t, x) = s \o Append(t, x)
<1>1. PICK st \in Seq(EventType) : st = s \o t
  BY ConcatProperties
<1> QED
  BY <1>1, AppendAfter

LEMMA AppendUpdate ==
    ASSUME NEW s \in Seq(Update), NEW t \in Seq(Update), NEW x \in Update
    PROVE  Append(s \o t, x) = s \o Append(t, x)
<1>1. PICK st \in Seq(Update) : st = s \o t
  BY ConcatProperties
<1> QED
  BY <1>1, AppendAfter

(* The types of an update and of those behind it. *)
LEMMA TypesHead ==
    ASSUME NEW p, NEW u \in Update, NEW s \in Seq(Update)
    PROVE  TypesOf(p, <<u>> \o s) =
              IF u.ProjectionName = p THEN <<u.EventType>> \o TypesOf(p, s) ELSE TypesOf(p, s)
<1>0. PICK o \in Seq(Update) : o = <<u>>
  <2>1. <<u>> \in Seq(Update)
    OBVIOUS
  <2> QED
    BY <2>1
<1>1. PICK e \in EventType : e = u.EventType
  BY DEF Update
<1>2. PICK oe \in Seq(EventType) : oe = <<e>>
  <2>1. <<e>> \in Seq(EventType)
    OBVIOUS
  <2> QED
    BY <2>1
<1> DEFINE First(v) == IF u.ProjectionName = p THEN oe \o v ELSE v
           A == {r \in Seq(Update) : TypesOf(p, o \o r) = First(TypesOf(p, r))}
<1>3. <<>> \in A
  <2>1. o \o <<>> = o
    BY ConcatEmptySeq
  <2>2. o = Append(<<>>, u)
    BY <1>0
  <2>3. <<>> \in Seq(Update) /\ <<>> \in Seq(EventType)
    BY EmptySeq
  <2>4. TypesOf(p, Append(<<>>, u)) = Taken(TypesOf(p, <<>>), u, p)
    BY <2>3, TypesAppend
  <2>5. TypesOf(p, <<>>) = <<>>
    BY TypesEmpty
  <2>6. oe \o <<>> = oe /\ Append(<<>>, e) = oe
    BY <1>2, ConcatEmptySeq
  <2>7. TypesOf(p, o) = First(<<>>)
    BY <1>1, <2>2, <2>4, <2>5, <2>6 DEF Taken
  <2> QED
    BY <2>1, <2>3, <2>5, <2>7
<1>4. ASSUME NEW r \in Seq(Update), NEW x \in Update, r \in A PROVE Append(r, x) \in A
  <2>1. Append(o \o r, x) = o \o Append(r, x)
    BY AppendUpdate
  <2>2. PICK v \in Seq(Update) : v = o \o r
    BY ConcatProperties
  <2>3. PICK b \in Seq(EventType) : b = TypesOf(p, r)
    BY TypesType
  <2>4. TypesOf(p, v) = First(b)
    BY <1>4, <2>2, <2>3
  <2>5. x.EventType \in EventType
    BY DEF Update
  <2>6. TypesOf(p, Append(v, x)) = Taken(First(b), x, p) /\ TypesOf(p, Append(r, x)) = Taken(b, x, p)
    BY <2>3, <2>4, TypesAppend
  <2>7. Append(oe \o b, x.EventType) = oe \o Append(b, x.EventType)
    BY <2>5, AppendType
  <2>8. Taken(First(b), x, p) = First(Taken(b, x, p))
    BY <2>7 DEF Taken
  <2>9. Append(r, x) \in Seq(Update)
    BY AppendProperties
  <2> QED
    BY <2>1, <2>2, <2>6, <2>8, <2>9
<1>5. \A r \in Seq(Update) : r \in A
  <2> HIDE DEF A
  <2> QED
    BY <1>3, <1>4, ByAppending
<1> QED
  BY <1>0, <1>1, <1>2, <1>5

-----------------------------------------------------------------------------
(* Updates are applied in the order of routing                              *)

\* A worker has only updates of its own projections, and none before the
\* engine has started.
AssignedInv ==
    /\ \A w \in Worker :
          /\ \A i \in 1..Len(queue[w]) : WorkerOf(queue[w][i].ProjectionName) = w
          /\ worker[w] \in Holding => WorkerOf(hand[w].ProjectionName) = w
    /\ control \in {"new", "subscribe", "spawn"} => \A w \in Worker : worker[w] = "off"

\* The events r are those that led to n orders, and after them the ones that
\* wait for p.
Settled(p, r, updates, n) ==
    \E s \in Seq(EventType) : r = s \o TypesOf(p, updates) /\ n = OrdersAfter(s)

AppliedInv == \A p \in Projection : Settled(p, accepted[p], Unapplied(WorkerOf(p)), orders[p])

LEMMA UnappliedType ==
    ASSUME Inv, NEW w \in Worker
    PROVE  Unapplied(w) \in Seq(Update)
<1>1. queue[w] \in Seq(Update)
  BY DEF Inv, TypeOK
<1>2. worker[w] \in {"lookup", "find", "apply"} => hand[w] \in Update
  BY DEF Inv, UpdatesInv, Holding
<1>3. (IF worker[w] \in {"lookup", "find", "apply"} THEN <<hand[w]>> ELSE <<>>) \in Seq(Update)
  BY <1>2
<1> QED
  BY <1>1, <1>3, ConcatProperties DEF Unapplied

(* An update goes to its projection's worker, and stays with it. *)
LEMMA AssignedStep == ASSUME Inv, AssignedInv, [Next]_vars PROVE AssignedInv'
<1>0. /\ TypeOK
      /\ \A w \in Worker : queue[w] \in Seq(Update) /\ Len(queue[w]) \in Nat
  <2>1. \A w \in Worker : queue[w] \in Seq(Update)
    BY DEF Inv, TypeOK
  <2> QED
    BY <2>1, LenProperties DEF Inv
<1> DEFINE Queued(w) == \A i \in 1..Len(queue[w]) : WorkerOf(queue[w][i].ProjectionName) = w
           Held(w) == worker[w] \in Holding => WorkerOf(hand[w].ProjectionName) = w
           Early == control \in {"new", "subscribe", "spawn"} => \A w \in Worker : worker[w] = "off"
<1>a. \A w \in Worker : Queued(w) /\ Held(w)
  BY DEF AssignedInv
<1>b. Early
  BY DEF AssignedInv
<1>1. ASSUME NEW w \in Worker, queue'[w] = queue[w] PROVE Queued(w)'
  BY <1>a, <1>1 DEF WorkerOf
<1>2. ASSUME NEW w \in Worker, hand'[w] = hand[w], worker'[w] \in Holding => worker[w] \in Holding
      PROVE  Held(w)'
  BY <1>a, <1>2 DEF WorkerOf
<1>3. ASSUME NEW p \in Projection, Route(p), NEW w \in Worker PROVE Queued(w)' /\ Held(w)' /\ Early'
  <2>1. Held(w)' /\ Early'
    BY <1>b, <1>2, <1>3 DEF Route, workerVars, mainVars
  <2>2. CASE UNCHANGED queueVars
    BY <1>1, <2>1, <2>2 DEF queueVars
  <2>3. CASE Enqueue(WorkerOf(p), p)
    <3>1. current \in EventType
      BY <1>3 DEF Route, Inv, RouterInv
    <3>0. PICK u : u = [ProjectionName |-> p, EventType |-> current]
      OBVIOUS
    <3>2. /\ queue' = [queue EXCEPT ![WorkerOf(p)] = Append(@, u)]
          /\ Len(queue'[WorkerOf(p)]) = Len(queue[WorkerOf(p)]) + 1
          /\ \A i \in 1..Len(queue[WorkerOf(p)]) : queue'[WorkerOf(p)][i] = queue[WorkerOf(p)][i]
          /\ queue'[WorkerOf(p)][Len(queue[WorkerOf(p)]) + 1] = u
      BY <1>0, <2>3, <3>1, <3>0, EnqueueGrows
    <3>4. CASE w = WorkerOf(p)
      <4>1. ASSUME NEW i \in 1..Len(queue'[w]) PROVE WorkerOf(queue'[w][i].ProjectionName) = w
        <5>1. CASE i \in 1..Len(queue[w])
          BY <1>a, <3>2, <3>4, <5>1
        <5>2. CASE i = Len(queue[w]) + 1
          BY <3>0, <3>2, <3>4, <5>2
        <5> QED
          BY <1>0, <3>2, <3>4, <5>1, <5>2
      <4> QED
        BY <2>1, <4>1 DEF WorkerOf
    <3>5. CASE w # WorkerOf(p)
      BY <1>0, <1>1, <2>1, <3>2, <3>5 DEF TypeOK
    <3> QED
      BY <3>4, <3>5
  <2> QED
    BY <1>3, <2>2, <2>3 DEF Route
<1>4. ASSUME NEW v \in Worker, WorkerTakes(v), NEW w \in Worker
      PROVE  Queued(w)' /\ Held(w)' /\ Early'
  <2>1. /\ hand' = [hand EXCEPT ![v] = queue[v][1]]
        /\ 1 \in 1..Len(queue[v])
        /\ queue' = [queue EXCEPT ![v] = Tail(@)]
        /\ Len(queue'[v]) = Len(queue[v]) - 1
        /\ \A i \in 1..Len(queue'[v]) : queue'[v][i] = queue[v][i + 1]
    BY <1>0, <1>4, TakesHead
  <2>0. Early'
    BY <1>b, <1>4 DEF WorkerTakes, mainVars
  <2>2. CASE w = v
    <3>1. hand'[w] = queue[w][1]
      BY <1>0, <2>1, <2>2 DEF TypeOK
    <3>2. Held(w)'
      BY <1>a, <2>1, <2>2, <3>1 DEF WorkerOf
    <3>3. ASSUME NEW i \in 1..Len(queue'[w]) PROVE WorkerOf(queue'[w][i].ProjectionName) = w
      <4>1. i + 1 \in 1..Len(queue[w]) /\ queue'[w][i] = queue[w][i + 1]
        BY <1>0, <2>1, <2>2
      <4> QED
        BY <1>a, <4>1
    <3> QED
      BY <2>0, <3>2, <3>3 DEF WorkerOf
  <2>3. CASE w # v
    <3>1. queue'[w] = queue[w] /\ hand'[w] = hand[w] /\ worker'[w] = worker[w]
      BY <1>0, <1>4, <2>1, <2>3 DEF WorkerTakes, TypeOK
    <3> QED
      BY <1>1, <1>2, <2>0, <3>1
  <2> QED
    BY <2>2, <2>3
<1>5. CASE /\ \A p \in Projection : ~Route(p)
           /\ \A v \in Worker : ~WorkerTakes(v)
  <2>0. ASSUME NEW v \in Worker,
               \/ WorkerBegins(v) \/ WorkerLooksUp(v) \/ WorkerFinds(v)
               \/ WorkerPanics(v) \/ WorkerApplies(v) \/ WorkerPromotes(v) \/ WorkerExits(v)
        PROVE  /\ queue' = queue
               /\ \A w \in Worker : worker'[w] \in Holding => worker[w] \in Holding /\ hand'[w] = hand[w]
               /\ control' = control
               /\ worker[v] # "off"
    BY <1>0, <2>0 DEF queueVars, workerVars, mainVars, WorkerBegins, WorkerLooksUp, WorkerFinds,
       WorkerPanics, WorkerApplies, WorkerPromotes, WorkerExits, TypeOK, Holding
  <2>1. /\ queue' = queue
        /\ \A w \in Worker : worker'[w] \in Holding => worker[w] \in Holding /\ hand'[w] = hand[w]
    BY <2>0, <1>0, <1>5, StepCases DEF vars, mainVars, sourceVars, registryVars, viewVars, routerVars, queueVars,
       workerVars, queryVars, Publish, StartRuns, StartSubscribes, StartSpawns, StopRuns, StopCancels,
       StopCloses, StopUnsubscribes, Register, AddDefinition, AddState, RouterTakes, RouterSkips,
       RouterLocks, RouterUnlocks, RouterExits, RoutePanics,
       QueryFinds, QueryAnswers, QueryCounts, Holding
  <2>2. ASSUME NEW w \in Worker PROVE Queued(w)' /\ Held(w)'
    <3>1. Queued(w)'
      BY <1>1, <2>1
    <3>2. Held(w)'
      BY <1>a, <2>1 DEF WorkerOf
    <3> QED
      BY <3>1, <3>2
  <2>3. Early'
    <3>1. CASE \E v \in Worker :
                 \/ WorkerBegins(v) \/ WorkerLooksUp(v) \/ WorkerFinds(v)
                 \/ WorkerPanics(v) \/ WorkerApplies(v) \/ WorkerPromotes(v) \/ WorkerExits(v)
      BY <1>b, <2>0, <3>1
    <3>2. CASE UNCHANGED <<control, worker>>
      BY <1>b, <3>2
    <3>3. CASE StartRuns \/ StartSubscribes \/ StartSpawns
      BY <1>b, <3>3 DEF StartRuns, StartSubscribes, StartSpawns, workerVars
    <3>4. CASE StopRuns \/ StopCancels \/ StopCloses \/ StopUnsubscribes
      BY <3>4 DEF StopRuns, StopCancels, StopCloses, StopUnsubscribes
    <3> QED
      BY <1>5, <3>1, <3>2, <3>3, <3>4, StepCases DEF vars, mainVars, workerVars, Publish, Register,
         AddDefinition, AddState, RouterTakes, RouterSkips, RouterLocks, RouterUnlocks, RouterExits,
         RoutePanics, QueryFinds, QueryAnswers, QueryCounts
  <2> QED
    BY <2>2, <2>3 DEF AssignedInv
<1> QED
  BY <1>3, <1>4, <1>5 DEF AssignedInv

(* Taking an update from the queue leaves what is to apply as it is. *)
LEMMA TakingLeaves ==
    ASSUME Inv, NEW v \in Worker, WorkerTakes(v), NEW w \in Worker
    PROVE  Unapplied(w)' = Unapplied(w)
<1>0. TypeOK
  BY DEF Inv
<1>1. PICK q \in Seq(Update) : q = queue[v]
  BY <1>0 DEF TypeOK
<1>2. q # <<>>
  BY <1>1 DEF WorkerTakes
<1>3. CASE w # v
  <2>1. queue'[w] = queue[w] /\ hand'[w] = hand[w] /\ worker'[w] = worker[w]
    BY <1>0, <1>3 DEF WorkerTakes, TypeOK
  <2> QED
    BY <2>1 DEF Unapplied
<1>4. CASE w = v
  <2>1. queue'[w] = Tail(q) /\ hand'[w] = Head(q) /\ worker'[w] = "lookup" /\ worker[w] = "select"
    BY <1>0, <1>1, <1>4 DEF WorkerTakes, TypeOK
  <2>2. Unapplied(w)' = <<Head(q)>> \o Tail(q)
    BY <2>1 DEF Unapplied
  <2>3. Unapplied(w) = <<>> \o q
    BY <1>1, <1>4, <2>1 DEF Unapplied
  <2>4. <<>> \o q = q
    BY ConcatEmptySeq
  <2>5. q = <<Head(q)>> \o Tail(q)
    <3>1. /\ Head(q) \in Update /\ Head(q) = q[1] /\ Tail(q) \in Seq(Update)
          /\ Len(Tail(q)) = Len(q) - 1
          /\ \A i \in 1..Len(Tail(q)) : Tail(q)[i] = q[i + 1]
      BY <1>2, HeadTailProperties
    <3>2. PICK n \in Nat : n = Len(q)
      BY LenProperties
    <3>3. PICK t \in Seq(Update) : t = Tail(q)
      BY <3>1
    <3>4. PICK o \in Seq(Update) : o = <<Head(q)>> /\ Len(o) = 1 /\ o[1] = q[1]
      <4>1. <<Head(q)>> \in Seq(Update) /\ Len(<<Head(q)>>) = 1 /\ <<Head(q)>>[1] = Head(q)
        BY <3>1
      <4> QED
        BY <3>1, <4>1
    <3>5. PICK b \in Seq(Update) : b = o \o t
      BY ConcatProperties
    <3>6. /\ Len(b) = 1 + (n - 1)
          /\ \A i \in 1..(1 + (n - 1)) : b[i] = IF i <= 1 THEN o[i] ELSE t[i - 1]
      BY <3>1, <3>2, <3>3, <3>4, <3>5, ConcatProperties
    <3>7. ASSUME NEW i \in 1..n PROVE b[i] = q[i]
      <4>1. CASE i = 1
        BY <3>2, <3>4, <3>6, <4>1
      <4>2. CASE i # 1
        <5>1. PICK j \in 1..(n - 1) : j = i - 1 /\ j + 1 = i
          BY <3>2, <4>2
        <5>2. t[j] = q[i]
          BY <3>1, <3>2, <3>3, <5>1
        <5> QED
          BY <3>6, <4>2, <5>1, <5>2
      <4> QED
        BY <4>1, <4>2
    <3>8. Len(b) = Len(q) /\ \A i \in 1..Len(b) : b[i] = q[i]
      BY <3>2, <3>6, <3>7
    <3> QED
      BY <3>3, <3>4, <3>5, <3>8, SeqEqual
  <2> QED
    BY <2>2, <2>3, <2>4, <2>5
<1> QED
  BY <1>3, <1>4

(* Nothing but a send of the router adds to what a worker has to apply, and *)
(* nothing but applying an update takes from it.                            *)
LEMMA UnappliedStays ==
    ASSUME Inv, AssignedInv, [Next]_vars,
           \A p \in Projection : ~Route(p),
           \A v \in Worker : ~WorkerApplies(v)
    PROVE  /\ UNCHANGED <<accepted, orders>>
           /\ \A w \in Worker : Unapplied(w)' = Unapplied(w)
<1>0. TypeOK
  BY DEF Inv
<1> DEFINE Same(w) == /\ queue'[w] = queue[w]
                      /\ worker[w] \in {"lookup", "find", "apply"}
                            <=> worker'[w] \in {"lookup", "find", "apply"}
                      /\ worker[w] \in {"lookup", "find", "apply"} => hand'[w] = hand[w]
<1>1. ASSUME NEW w \in Worker, Same(w) PROVE Unapplied(w)' = Unapplied(w)
  BY <1>1 DEF Unapplied
<1>2. ASSUME NEW v \in Worker, NEW w \in Worker,
             \/ WorkerBegins(v) \/ WorkerLooksUp(v) \/ WorkerFinds(v)
             \/ WorkerPanics(v) \/ WorkerPromotes(v) \/ WorkerExits(v)
      PROVE  Same(w) /\ UNCHANGED <<accepted, orders>>
  BY <1>0, <1>2 DEF queueVars, workerVars, viewVars, WorkerBegins, WorkerLooksUp, WorkerFinds,
     WorkerPanics, WorkerPromotes, WorkerExits, TypeOK
<1>3. CASE \E v \in Worker : WorkerTakes(v)
  <2>1. UNCHANGED <<accepted, orders>>
    BY <1>3 DEF WorkerTakes, viewVars
  <2> QED
    BY <1>3, <2>1, TakingLeaves
<1>4. CASE StartSpawns
  <2>1. \A w \in Worker : worker[w] = "off" /\ worker'[w] = "spawned" /\ queue'[w] = queue[w]
    BY <1>4 DEF StartSpawns, AssignedInv, queueVars
  <2>2. UNCHANGED <<accepted, orders>>
    BY <1>4 DEF StartSpawns, queueVars, viewVars
  <2> QED
    BY <1>1, <2>1, <2>2
<1>5. CASE UNCHANGED <<accepted, orders, queue, worker, hand>>
  BY <1>1, <1>5
<1>6. CASE \E v \in Worker : \/ WorkerBegins(v) \/ WorkerLooksUp(v) \/ WorkerFinds(v)
                             \/ WorkerPanics(v) \/ WorkerPromotes(v) \/ WorkerExits(v)
  <2>1. PICK v \in Worker : \/ WorkerBegins(v) \/ WorkerLooksUp(v) \/ WorkerFinds(v)
                            \/ WorkerPanics(v) \/ WorkerPromotes(v) \/ WorkerExits(v)
    BY <1>6
  <2> QED
    BY <1>1, <1>2, <2>1
<1> QED
  BY <1>3, <1>4, <1>5, <1>6, StepCases DEF vars, mainVars, sourceVars, registryVars, viewVars,
     routerVars, queueVars, workerVars, queryVars, Publish, StartRuns, StartSubscribes, StopRuns,
     StopCancels, StopCloses, StopUnsubscribes, Register, AddDefinition, AddState, RouterTakes,
     RouterSkips, RouterLocks, RouterUnlocks, RouterExits, RoutePanics, QueryFinds, QueryAnswers,
     QueryCounts

(* Sending an update adds it to what its worker has to apply, at the end. *)
LEMMA SendingAdds ==
    ASSUME Inv, NEW p \in Projection, Route(p), Enqueue(WorkerOf(p), p),
           NEW w \in Worker
    PROVE  Unapplied(w)' = IF w = WorkerOf(p)
                           THEN Append(Unapplied(w), [ProjectionName |-> p, EventType |-> current])
                           ELSE Unapplied(w)
<1>0. TypeOK /\ current \in EventType /\ worker' = worker /\ hand' = hand
  BY DEF Inv, RouterInv, Route, workerVars
<1>1. PICK u \in Update : u = [ProjectionName |-> p, EventType |-> current]
  BY <1>0 DEF Update
<1>2. PICK q \in Seq(Update) : q = queue[w]
  BY <1>0 DEF TypeOK
<1>3. queue'[w] = IF w = WorkerOf(p) THEN Append(q, u) ELSE q
  BY <1>0, <1>1, <1>2 DEF Enqueue, TypeOK
<1> DEFINE h == IF worker[w] \in {"lookup", "find", "apply"} THEN <<hand[w]>> ELSE <<>>
<1>4. PICK o \in Seq(Update) : o = h
  <2>1. worker[w] \in {"lookup", "find", "apply"} => hand[w] \in Update
    BY DEF Inv, UpdatesInv, Holding
  <2>2. h \in Seq(Update)
    BY <2>1
  <2> QED
    BY <2>2
<1>5. Unapplied(w) = o \o q /\ Unapplied(w)' = o \o queue'[w]
  BY <1>0, <1>2, <1>4 DEF Unapplied
<1>6. Append(o \o q, u) = o \o Append(q, u)
  BY AppendUpdate
<1> QED
  BY <1>1, <1>3, <1>5, <1>6

(* A send adds to the history what it adds behind the updates to apply. *)
LEMMA SendingSettles ==
    ASSUME Inv, AppliedInv, NEW p \in Projection, Route(p)
    PROVE  AppliedInv'
<1>0. TypeOK /\ current \in EventType /\ orders' = orders /\ \A q \in Projection : WorkerOf(q) \in Worker
  BY WorkerIsThere DEF Inv, RouterInv, Route, viewVars
<1>1. ASSUME UNCHANGED queueVars PROVE AppliedInv'
  <2>1. \A w \in Worker : Unapplied(w)' = Unapplied(w)
    BY <1>1 DEF Unapplied, Route, queueVars, workerVars
  <2> QED
    BY <1>0, <1>1, <2>1 DEF AppliedInv, queueVars, WorkerOf
<1>2. ASSUME Enqueue(WorkerOf(p), p), NEW q \in Projection
      PROVE  Settled(q, accepted[q], Unapplied(WorkerOf(q)), orders[q])'
  <2>1. PICK u \in Update : u = [ProjectionName |-> p, EventType |-> current]
    BY <1>0 DEF Update
  <2>2. PICK a \in Seq(Update) : a = Unapplied(WorkerOf(q))
    BY <1>0, UnappliedType
  <2>3. PICK s \in Seq(EventType) : accepted[q] = s \o TypesOf(q, a) /\ orders[q] = OrdersAfter(s)
    BY <2>2 DEF AppliedInv, Settled
  <2>4. PICK b \in Seq(EventType) : b = TypesOf(q, a)
    BY TypesType
  <2>5. PICK v \in Seq(Update) : v = Unapplied(WorkerOf(q))'
    <3>1. Append(a, u) \in Seq(Update)
      BY AppendProperties
    <3>2. Unapplied(WorkerOf(q))' = IF WorkerOf(q) = WorkerOf(p) THEN Append(a, u) ELSE a
      BY <1>0, <1>2, <2>1, <2>2, SendingAdds DEF WorkerOf
    <3> QED
      BY <3>1, <3>2
  <2>6. TypesOf(q, Append(a, u)) = Taken(b, u, q)
    BY <2>4, TypesAppend
  <2>7. CASE q = p
    <3>1. v = Append(a, u)
      BY <1>0, <1>2, <2>1, <2>2, <2>5, <2>7, SendingAdds DEF WorkerOf
    <3>2. TypesOf(q, v) = Append(b, current)
      BY <2>1, <2>6, <2>7, <3>1 DEF Taken
    <3>3. accepted'[q] = Append(s \o b, current)
      BY <1>0, <1>2, <2>3, <2>4, <2>7 DEF Enqueue, TypeOK
    <3>4. Append(s \o b, current) = s \o Append(b, current)
      BY <1>0, AppendType
    <3> QED
      BY <1>0, <2>3, <2>5, <3>2, <3>3, <3>4 DEF Settled
  <2>8. CASE q # p
    <3>1. v = Append(a, u) \/ v = a
      BY <1>0, <1>2, <2>1, <2>2, <2>5, SendingAdds DEF WorkerOf
    <3>2. TypesOf(q, v) = b
      BY <2>1, <2>4, <2>6, <2>8, <3>1 DEF Taken
    <3>3. accepted'[q] = accepted[q]
      BY <1>0, <1>2, <2>8 DEF Enqueue, TypeOK
    <3> QED
      BY <1>0, <2>3, <2>4, <2>5, <3>2, <3>3 DEF Settled
  <2> QED
    BY <2>7, <2>8
<1>3. UNCHANGED queueVars \/ Enqueue(WorkerOf(p), p)
  BY DEF Route
<1>4. CASE Enqueue(WorkerOf(p), p)
  BY <1>2, <1>4 DEF AppliedInv
<1> QED
  BY <1>1, <1>3, <1>4

(* A worker applies the first of the updates it has to apply, and that is   *)
(* the first one waiting for its projection.                                *)
LEMMA ApplyingSettles ==
    ASSUME Inv, AssignedInv, AppliedInv, NEW w \in Worker, WorkerApplies(w)
    PROVE  AppliedInv'
<1>0. TypeOK /\ \A q \in Projection : WorkerOf(q) \in Worker
  BY WorkerIsThere DEF Inv
<1>1. PICK u \in Update : u = hand[w] /\ WorkerOf(u.ProjectionName) = w
  BY DEF WorkerApplies, Inv, UpdatesInv, AssignedInv, Holding
<1>2. PICK p \in Projection : p = u.ProjectionName
  BY DEF Update
<1>3. PICK e \in EventType : e = u.EventType
  BY DEF Update
<1>4. /\ accepted' = accepted
      /\ orders' = [orders EXCEPT ![p] = Counted(@, e)]
      /\ worker' = [worker EXCEPT ![w] = "promote"]
      /\ queue' = queue /\ hand' = hand
  BY <1>1, <1>2, <1>3 DEF WorkerApplies, queueVars
<1>5. \A v \in Worker : queue[v] \in Seq(Update)
  BY <1>0 DEF TypeOK
<1>6. Unapplied(w)' = queue[w] /\ Unapplied(w) = <<u>> \o queue[w]
  <2>1. worker'[w] = "promote" /\ worker[w] = "apply"
    BY <1>0, <1>4 DEF WorkerApplies, TypeOK
  <2>2. Unapplied(w)' = <<>> \o queue[w]
    BY <1>4, <2>1 DEF Unapplied
  <2> QED
    BY <1>1, <1>5, <2>1, <2>2, ConcatEmptySeq DEF Unapplied
<1>7. ASSUME NEW v \in Worker, v # w PROVE Unapplied(v)' = Unapplied(v)
  BY <1>0, <1>4, <1>7 DEF Unapplied, TypeOK
<1>8. ASSUME NEW q \in Projection
      PROVE  Settled(q, accepted[q], Unapplied(WorkerOf(q)), orders[q])'
  <2>1. PICK a \in Seq(Update) : a = Unapplied(WorkerOf(q))
    BY <1>0, UnappliedType
  <2>2. PICK s \in Seq(EventType) : accepted[q] = s \o TypesOf(q, a) /\ orders[q] = OrdersAfter(s)
    BY <2>1 DEF AppliedInv, Settled
  <2>3. CASE WorkerOf(q) # w
    <3>1. q # p
      BY <1>1, <1>2, <2>3
    <3>2. orders'[q] = orders[q]
      BY <1>0, <1>4, <3>1 DEF TypeOK
    <3>3. Unapplied(WorkerOf(q))' = a
      BY <1>0, <1>7, <2>1, <2>3 DEF WorkerOf
    <3> QED
      BY <1>4, <2>2, <3>2, <3>3 DEF Settled
  <2>4. CASE WorkerOf(q) = w
    <3>1. PICK r \in Seq(Update) : r = queue[w]
      BY <1>5
    <3>2. a = <<u>> \o r /\ Unapplied(WorkerOf(q))' = r
      BY <1>6, <2>1, <2>4, <3>1 DEF WorkerOf
    <3>3. PICK b \in Seq(EventType) : b = TypesOf(q, r)
      BY TypesType
    <3>4. TypesOf(q, a) = IF p = q THEN <<e>> \o b ELSE b
      BY <1>2, <1>3, <3>2, <3>3, TypesHead
    <3>5. CASE q # p
      <4>1. orders'[q] = orders[q]
        BY <1>0, <1>4, <3>5 DEF TypeOK
      <4> QED
        BY <1>4, <2>2, <3>2, <3>3, <3>4, <3>5, <4>1 DEF Settled
    <3>6. CASE q = p
      <4>1. PICK o \in Seq(EventType) : o = <<e>>
        <5>1. <<e>> \in Seq(EventType)
          OBVIOUS
        <5> QED
          BY <5>1
      <4>2. PICK t \in Seq(EventType) : t = s \o o /\ t = Append(s, e)
        BY <4>1, ConcatProperties, AppendIsConcat
      <4>3. t \o b = s \o (o \o b)
        <5>1. (s \o o) \o b = s \o (o \o b)
          BY ConcatAssociative
        <5> QED
          BY <4>2, <5>1
      <4>4. accepted'[q] = t \o b
        BY <1>4, <2>2, <3>4, <3>6, <4>1, <4>3
      <4>5. OrdersAfter(t) = Counted(OrdersAfter(s), e)
        BY <4>2, OrdersAppend
      <4>6. orders'[q] = OrdersAfter(t)
        BY <1>0, <1>4, <2>2, <3>6, <4>5 DEF TypeOK
      <4> QED
        BY <3>2, <3>3, <4>4, <4>6 DEF Settled
    <3> QED
      BY <3>5, <3>6
  <2> QED
    BY <2>3, <2>4
<1> QED
  BY <1>8 DEF AppliedInv

LEMMA AppliedStep == ASSUME Inv, AssignedInv, AppliedInv, [Next]_vars PROVE AppliedInv'
<1>1. CASE \E p \in Projection : Route(p)
  BY <1>1, SendingSettles
<1>2. CASE \E w \in Worker : WorkerApplies(w)
  BY <1>2, ApplyingSettles
<1>3. CASE /\ \A p \in Projection : ~Route(p)
           /\ \A w \in Worker : ~WorkerApplies(w)
  <2>1. /\ UNCHANGED <<accepted, orders>>
        /\ \A w \in Worker : Unapplied(w)' = Unapplied(w)
    BY <1>3, UnappliedStays
  <2> QED
    BY <2>1, WorkerIsThere DEF AppliedInv, WorkerOf
<1> QED
  BY <1>1, <1>2, <1>3

LEMMA AppliedInit == Init => AssignedInv /\ AppliedInv
<1> SUFFICES ASSUME Init PROVE AssignedInv /\ AppliedInv
  OBVIOUS
<1>1. AssignedInv
  BY DEF Init, AssignedInv, Holding
<1>2. ASSUME NEW p \in Projection
      PROVE  Settled(p, accepted[p], Unapplied(WorkerOf(p)), orders[p])
  <2>1. accepted[p] = <<>> /\ orders[p] = 0 /\ Unapplied(WorkerOf(p)) = <<>> \o <<>>
    BY WorkerIsThere DEF Init, Unapplied
  <2>2. <<>> \in Seq(EventType) /\ <<>> \o <<>> = <<>>
    BY EmptySeq, ConcatEmptySeq
  <2>3. accepted[p] = <<>> \o TypesOf(p, Unapplied(WorkerOf(p))) /\ orders[p] = OrdersAfter(<<>>)
    BY <2>1, <2>2, TypesEmpty, OrdersEmpty
  <2> QED
    BY <2>2, <2>3 DEF Settled
<1> QED
  BY <1>1, <1>2 DEF AppliedInv

-----------------------------------------------------------------------------

(* The parts of a concatenation, cut out of it again. *)
LEMMA CutApart ==
    ASSUME NEW s \in Seq(EventType), NEW b \in Seq(EventType)
    PROVE  LET r == s \o b IN
           /\ Len(s) \in 0..Len(r)
           /\ SubSeq(r, 1, Len(s)) = s
           /\ SubSeq(r, Len(s) + 1, Len(r)) = b
<1>1. PICK r \in Seq(EventType) : r = s \o b
  BY ConcatProperties
<1>2. PICK n \in Nat : n = Len(s)
  BY LenProperties
<1>3. PICK m \in Nat : m = Len(b)
  BY LenProperties
<1>4. Len(r) = n + m /\ \A i \in 1..(n + m) : r[i] = IF i <= n THEN s[i] ELSE b[i - n]
  BY <1>1, <1>2, <1>3, ConcatProperties
<1>5. /\ \A i \in 1..n : r[i] = s[i] /\ r[i] \in EventType
      /\ \A i \in 1..m : r[n + i] = b[i]
      /\ \A i \in (n + 1)..(n + m) : r[i] \in EventType
  <2>1. \A i \in 1..n : i \in 1..(n + m) /\ i <= n
    OBVIOUS
  <2>2. \A i \in 1..m : n + i \in 1..(n + m) /\ ~(n + i <= n) /\ (n + i) - n = i
    OBVIOUS
  <2>3. \A i \in (n + 1)..(n + m) : i \in 1..(n + m)
    OBVIOUS
  <2>4. \A i \in 1..(n + m) : r[i] \in EventType
    BY <1>4, ElementOfSeq
  <2>5. \A i \in 1..n : r[i] = s[i]
    BY <1>4, <2>1
  <2>6. \A i \in 1..m : r[n + i] = b[i]
    BY <1>4, <2>2
  <2> QED
    BY <2>1, <2>3, <2>4, <2>5, <2>6
<1>6. SubSeq(r, 1, n) = s
  <2>1. PICK q : q = SubSeq(r, 1, n)
    OBVIOUS
  <2>2. /\ q \in Seq(EventType) /\ Len(q) = IF 1 <= n THEN n - 1 + 1 ELSE 0
        /\ \A i \in 1..(n - 1 + 1) : q[i] = r[1 + i - 1]
    BY <1>5, <2>1, SubSeqProperties
  <2>3. Len(q) = n /\ \A i \in 1..n : q[i] = s[i]
    <3>1. n - 1 + 1 = n /\ \A i \in 1..n : 1 + i - 1 = i
      OBVIOUS
    <3> QED
      BY <1>5, <2>2, <3>1
  <2> QED
    BY <1>2, <2>1, <2>2, <2>3, SeqEqual
<1>7. SubSeq(r, n + 1, n + m) = b
  <2>1. PICK q : q = SubSeq(r, n + 1, n + m)
    OBVIOUS
  <2>2. /\ q \in Seq(EventType) /\ Len(q) = IF n + 1 <= n + m THEN n + m - (n + 1) + 1 ELSE 0
        /\ \A i \in 1..(n + m - (n + 1) + 1) : q[i] = r[n + 1 + i - 1]
    BY <1>5, <2>1, SubSeqProperties
  <2>3. Len(q) = m /\ \A i \in 1..m : q[i] = b[i]
    <3>1. n + m - (n + 1) + 1 = m /\ \A i \in 1..m : n + 1 + i - 1 = n + i
      OBVIOUS
    <3> QED
      BY <1>5, <2>2, <3>1
  <2> QED
    BY <1>3, <2>1, <2>2, <2>3, SeqEqual
<1>8. Len(s) \in 0..Len(r)
  BY <1>2, <1>4
<1>9. SubSeq(r, 1, Len(s)) = s
  BY <1>2, <1>6
<1>10. SubSeq(r, Len(s) + 1, Len(r)) = b
  <2>1. SubSeq(r, n + 1, Len(r)) = b
    BY <1>4, <1>7, Zenon
  <2> QED
    BY <1>2, <2>1, Zenon
<1> QED
  BY <1>1, <1>8, <1>9, <1>10, Zenon

LEMMA SettledIsApplied == ASSUME Inv, AppliedInv PROVE AppliedInOrder
<1>1. ASSUME NEW p \in Projection
      PROVE  \E n \in 0..Len(accepted[p]) :
                /\ Pending(p) = SubSeq(accepted[p], n + 1, Len(accepted[p]))
                /\ orders[p] = FoldLeft(Counted, 0, SubSeq(accepted[p], 1, n))
  <2>1. PICK a \in Seq(Update) : a = Unapplied(WorkerOf(p))
    BY WorkerIsThere, UnappliedType
  <2>2. PICK s \in Seq(EventType) : accepted[p] = s \o TypesOf(p, a) /\ orders[p] = OrdersAfter(s)
    BY <2>1 DEF AppliedInv, Settled
  <2>3. PICK b \in Seq(EventType) : b = TypesOf(p, a)
    BY TypesType
  <2>4. /\ accepted[p] = s \o b
        /\ Len(s) \in 0..Len(accepted[p])
        /\ SubSeq(accepted[p], 1, Len(s)) = s
        /\ SubSeq(accepted[p], Len(s) + 1, Len(accepted[p])) = b
    BY <2>2, <2>3, CutApart
  <2>5. Pending(p) = b
    BY <2>1, <2>3 DEF Pending
  <2> QED
    BY <2>2, <2>4, <2>5 DEF OrdersAfter
<1> QED
  BY <1>1 DEF AppliedInOrder

(* However the router, the workers and the callers interleave, a            *)
(* projection's state is the effect of the updates its queue accepted, in   *)
(* the order in which they were routed and each once, up to those that its  *)
(* worker holds or has queued (routeEvent, processUpdate).                  *)
THEOREM AppliedInRoutingOrder == Spec => []AppliedInOrder
<1>1. Inv /\ AssignedInv /\ AppliedInv /\ [Next]_vars => AssignedInv' /\ AppliedInv'
  BY AssignedStep, AppliedStep
<1>2. Inv /\ AppliedInv => AppliedInOrder
  BY SettledIsApplied
<1> QED
  BY <1>1, <1>2, AppliedInit, SpecInv, PTL DEF Spec

=============================================================================
