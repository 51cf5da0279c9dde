----------------------------- MODULE NodeServer -----------------------------
(***************************************************************************)
(* The TypeScript event store and projection engine on one event loop.     *)
(* The engine's listener runs inside the store's broadcastEvent, so a      *)
(* broadcast routes the event and starts the workers in the same step.     *)
(***************************************************************************)
EXTENDS NodeEventStore, NodeProjector, FiniteSets

CONSTANTS Submitted,     \* bound: the events that callers try to write
          MayAsk         \* bound: the callers that ask for actor states

ASSUME NodeServerAssumption == Submitted \subseteq Event /\ MayAsk \subseteq Caller

VARIABLE started        \* whether the program has started its components

vars == <<started, loopVars, storeVars, projectorVars>>

Label ==
    {"stored", "refused", "copy", "written", "broadcast", "loaded", "resume", "worker"}

TypeOK ==
    /\ started \in BOOLEAN
    /\ jobs \in Seq([at : Label, of : Caller \cup Worker])
    /\ turn \in {"script", "drain"}
    /\ StoreTypeOK
    /\ ProjectorTypeOK(Event)

Init == started = FALSE /\ LoopInit /\ StoreInit /\ ProjectorInit

-----------------------------------------------------------------------------
(* What a macrotask's code may do                                           *)

\* The program starts the store, then the engine, once.
Start ==
    /\ ~started
    /\ started' = TRUE
    /\ Script(LeftoverJobs)
    /\ StoreStart
    /\ EngineStart

\* Its shutdown stops both in one go, whatever is under way.
Stop ==
    /\ running
    /\ Script(<<>>)
    /\ StoreStop
    /\ EngineStop
    /\ UNCHANGED started

Register(p) == Script(<<>>) /\ RegisterProjection(p) /\ UNCHANGED <<started, storeVars>>

AskProjection(p) == Script(<<>>) /\ Query(p) /\ UNCHANGED <<started, storeVars>>

Write(c, e) ==
    /\ Idle(c)
    /\ Script(<<Job(Awaits(e), c)>>)
    /\ WriteEvent(c, e)
    /\ UNCHANGED <<started, projectorVars>>

AskActor(c, a) ==
    /\ Idle(c)
    /\ Script(<<Job(ActorAwaits(a), c)>>)
    /\ GetActorState(c, a)
    /\ UNCHANGED <<started, projectorVars>>

-----------------------------------------------------------------------------
(* Jobs                                                                     *)

\* A caller takes its result, goes on and calls nothing more.
Resume(c) ==
    /\ RunJob(Job("resume", c), <<>>)
    /\ arg' = [arg EXCEPT ![c] = NoEvent]
    /\ outcome' = [outcome EXCEPT ![c] = "none"]
    /\ UNCHANGED <<running, events, snapshots, actors, local, broadcasts, started, projectorVars>>

\* A caller goes on with another write.
ResumeAndWrite(c, e) ==
    /\ RunJob(Job("resume", c), <<Job(Awaits(e), c)>>)
    /\ WriteEvent(c, e)
    /\ UNCHANGED <<started, projectorVars>>

\* A call's step that broadcasts: the listener is part of it.
BroadcastStep(c) ==
    /\ Stored(c, Woken(arg[c])) \/ SnapshotMade(c, Woken(arg[c]))
    /\ RouteEvent(arg[c])
    /\ UNCHANGED started

CallStep(c) ==
    /\ StoredSnapshotDue(c) \/ Refused(c) \/ Copy(c) \/ Written(c) \/ Loaded(c)
    /\ UNCHANGED <<started, projectorVars>>

WorkerStep(w) ==
    /\ WorkerContinues(w) \/ WorkerEnds(w)
    /\ UNCHANGED <<started, storeVars>>

JobStep ==
    \/ \E c \in Caller :
          \/ Resume(c)
          \/ \E e \in Submitted : ResumeAndWrite(c, e)
          \/ BroadcastStep(c)
          \/ CallStep(c)
    \/ \E w \in Worker : WorkerStep(w)

ScriptStep ==
    \/ Start
    \/ Stop
    \/ \E p \in Projection : Register(p) \/ AskProjection(p)
    \/ \E c \in Caller :
          \/ \E e \in Submitted : Write(c, e)
          \/ c \in MayAsk /\ \E a \in Aggregate : AskActor(c, a)

Next == ScriptStep \/ JobStep

Spec == Init /\ [][Next]_vars

\* The runtime always runs the jobs that are queued.
FairSpec == Spec /\ WF_vars(JobStep)

-----------------------------------------------------------------------------
(* Properties                                                               *)

\* Each log is numbered 1, 2, 3, ... although calls begin inside other calls'
\* awaits (MemoryStorage.writeEvent checks and appends without an await).
LogGapFree ==
    \A a \in Aggregate : \A i \in DOMAIN events[a] : events[a][i].sequence = i

\* The writes to a that the storage has and the cache does not reflect yet.
Uncached(a) ==
    {i \in DOMAIN jobs : jobs[i].at = "stored" /\ arg[jobs[i].of].aggregateId = a}

\* The cached number of an aggregate lags the log by the writes whose first
\* await has not been answered, and by nothing more: the queue being first-in
\* first-out, it can neither go back nor stay behind, as it can in Go.
CacheCurrent ==
    \A a \in Aggregate :
        actors[a] # <<>> => Last(actors[a]) + Cardinality(Uncached(a)) = LastSequence(a)

\* A snapshot never shows less than the event it is labelled with, nor more
\* than the log has: the state is serialised one await after its label was
\* fixed (createSnapshot).
SnapshotNotBehind ==
    \A a \in Aggregate :
        /\ snapshots[a].sequence <= snapshots[a].lastSequence
        /\ snapshots[a].lastSequence <= LastSequence(a)

\* Listeners hear of an event once, and only an event that a snapshot is due
\* for can be overtaken by a later one of its aggregate.
OvertakenOnlyAtSnapshots ==
    \A i, j \in DOMAIN broadcasts :
        i < j /\ broadcasts[i].aggregateId = broadcasts[j].aggregateId =>
            \/ broadcasts[i].sequence < broadcasts[j].sequence
            \/ broadcasts[i].sequence > broadcasts[j].sequence /\ SnapshotDue(broadcasts[j])

\* Number of orders after a sequence of events.
OrdersAfter(s) == FoldLeft(LAMBDA n, e : Counted(e.eventType, n), 0, s)

\* A projection's state is the result of the events routed to it, in the
\* order of routing, without those that still wait for its worker.
AppliedInOrder ==
    \A p \in Projection :
        LET n == Len(routed[p]) - Len(Waiting(p)) IN
        /\ projections[p].orders = OrdersAfter(SubSeq(routed[p], 1, n))
        /\ \A i \in 1..Len(Waiting(p)) : Waiting(p)[i].event = routed[p][n + i]

\* A running worker with updates in its queue has a job that will take them:
\* process() never leaves its loop, or keeps out of it, at a moment that
\* strands an update.
NoLostWakeup ==
    \A w \in Worker : awake[w] /\ queue[w] # <<>> => \E i \in DOMAIN jobs : jobs[i] = Job("worker", w)

\* Every stored event reaches the listeners, snapshot or not, stopped or not.
StoredIsBroadcast ==
    \A a \in Aggregate, n \in 1..MaxSequence :
        Len(events[a]) >= n ~> \E i \in DOMAIN broadcasts :
            broadcasts[i].aggregateId = a /\ broadcasts[i].sequence = n

=============================================================================
