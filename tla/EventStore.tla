----------------------------- MODULE EventStore -----------------------------
(***************************************************************************)
(* The Go event store (impl/go/internal/eventstore/eventstore.go) over its *)
(* in-memory storage (storage.go), as goroutines step through it.          *)
(*                                                                         *)
(* WriteEvent is one call to its caller and five separately locked steps   *)
(* to everyone else: the storage append (MemoryStorage.mu), the update of  *)
(* the cached actor state (actorsMu), at a snapshot boundary a read of the *)
(* cached state and a snapshot write, and the broadcast (subscribersMu).   *)
(* Each step is an action here, and pc says which step a goroutine is at.  *)
(***************************************************************************)
EXTENDS Integers, Sequences

CONSTANTS
    Thread,             \* goroutines calling into the event store
    Aggregate,          \* aggregate (actor) identifiers
    Subscriber,         \* places in the program that subscribe
    MayWrite,           \* which goroutine writes which aggregate
    MayQuery,           \* goroutines that call GetActorState
    MaxSequence,        \* bound: largest sequence number a caller asks for
    SnapshotInterval,   \* EventStoreConfig.SnapshotInterval
    ChannelCapacity,    \* buffer of a subscriber's channel (1000 in the code)
    NoEvent, NoState    \* "no value yet" in a goroutine's locals

ASSUME EventStoreAssumption ==
    /\ MayWrite \subseteq Thread \X Aggregate
    /\ MayQuery \subseteq Thread
    /\ MaxSequence \in Nat
    /\ SnapshotInterval \in Nat \ {0}
    /\ ChannelCapacity \in Nat \ {0}

VARIABLES
    running,            \* EventStore.running
    events,             \* MemoryStorage.events
    sequences,          \* MemoryStorage.sequences, 0 where the map has no key
    snapshots,          \* MemoryStorage.snapshots, Sequence 0 where there is none
    actors,             \* EventStore.actors: the cached LastSequence, or Absent
    subscribers,        \* EventStore.subscribers
    channels,           \* the buffered contents of each subscriber's channel
    pc,                 \* where each goroutine is
    arg,                \* the event argument of its latest WriteEvent
    outcome,            \* what its latest WriteEvent returned
    state,              \* its local *ActorState in GetActorState, createSnapshot
    targets             \* the channels its broadcast has still to try

storageVars == <<events, sequences, snapshots>>
channelVars == <<subscribers, channels>>
localVars == <<pc, arg, outcome, state, targets>>
vars == <<running, storageVars, actors, channelVars, localVars>>

Absent == -1

Event == [AggregateID : Aggregate, Sequence : Nat, Data : Thread]

ActorState == [AggregateID : Aggregate, LastSequence : Nat]

\* A stored snapshot: its label, and LastSequence of the actor state inside.
Snapshot == [Sequence : Nat, LastSequence : Nat]

\* Where a goroutine stands in WriteEvent after the storage accepted its event.
Accepted == {"update", "snapshot", "writeSnapshot", "broadcast", "send"}

Label == {"idle", "store", "load", "publish"} \cup Accepted

TypeOK ==
    /\ running \in BOOLEAN
    /\ events \in [Aggregate -> Seq(Event)]
    /\ sequences \in [Aggregate -> Nat]
    /\ snapshots \in [Aggregate -> Snapshot]
    /\ actors \in [Aggregate -> Nat \cup {Absent}]
    /\ subscribers \in SUBSET Subscriber
    /\ channels \in [Subscriber -> Seq(Event)]
    /\ \A s \in Subscriber : Len(channels[s]) <= ChannelCapacity
    /\ pc \in [Thread -> Label]
    /\ arg \in [Thread -> Event \cup {NoEvent}]
    /\ outcome \in [Thread -> {"none", "pending", "ok", "failed"}]
    /\ state \in [Thread -> ActorState \cup {NoState}]
    /\ targets \in [Thread -> SUBSET Subscriber]

Init ==
    /\ running = FALSE
    /\ events = [a \in Aggregate |-> <<>>]
    /\ sequences = [a \in Aggregate |-> 0]
    /\ snapshots = [a \in Aggregate |-> [Sequence |-> 0, LastSequence |-> 0]]
    /\ actors = [a \in Aggregate |-> Absent]
    /\ subscribers = {}
    /\ channels = [s \in Subscriber |-> <<>>]
    /\ pc = [t \in Thread |-> "idle"]
    /\ arg = [t \in Thread |-> NoEvent]
    /\ outcome = [t \in Thread |-> "none"]
    /\ state = [t \in Thread |-> NoState]
    /\ targets = [t \in Thread |-> {}]

Goto(t, label) == pc' = [pc EXCEPT ![t] = label]

-----------------------------------------------------------------------------
(* Start and Stop.  MemoryStorage's Open and Close do nothing, so the       *)
(* calls in flight when Stop clears running carry on.                       *)

Start ==
    /\ ~running
    /\ running' = TRUE
    /\ UNCHANGED <<storageVars, actors, channelVars, localVars>>

Stop ==
    /\ running
    /\ running' = FALSE
    /\ UNCHANGED <<storageVars, actors, channelVars, localVars>>

-----------------------------------------------------------------------------
(* WriteEvent                                                               *)

\* Mutant: the check misses gaps.
AcceptsGaps(e) ==
    LET log == events[e.AggregateID] IN
    log = <<>> \/ e.Sequence > log[Len(log)].Sequence

\* The sequence check of MemoryStorage.WriteEvent: a first event has number 1,
\* any other the number after the last stored event's.
Accepts(e) ==
    LET log == events[e.AggregateID] IN
    IF log = <<>> THEN e.Sequence = 1
                  ELSE e.Sequence = log[Len(log)].Sequence + 1

SnapshotDue(e) == e.Sequence % SnapshotInterval = 0

\* Mutant: the cached actor state is updated before the storage has agreed.
WriteEventCachesFirst(t, a, n) ==
    /\ pc[t] = "idle"
    /\ running
    /\ arg' = [arg EXCEPT ![t] = [AggregateID |-> a, Sequence |-> n, Data |-> t]]
    /\ actors' = [actors EXCEPT ![a] = n]
    /\ outcome' = [outcome EXCEPT ![t] = "pending"]
    /\ Goto(t, "store")
    /\ UNCHANGED <<running, storageVars, channelVars, state, targets>>

\* The unlocked running check, and the call into the storage.  A caller that
\* finds the store stopped gets an error and has changed nothing.
WriteEvent(t, a, n) ==
    /\ pc[t] = "idle"
    /\ running
    /\ arg' = [arg EXCEPT ![t] = [AggregateID |-> a, Sequence |-> n, Data |-> t]]
    /\ outcome' = [outcome EXCEPT ![t] = "pending"]
    /\ Goto(t, "store")
    /\ UNCHANGED <<running, storageVars, actors, channelVars, state, targets>>

\* Mutant: the event is put at its number, as a keyed store would, with the
\* check left to the caller.
StoreEventAsPut(t) ==
    /\ pc[t] = "store"
    /\ LET e == arg[t]
           log == events[e.AggregateID]
       IN  /\ e.Sequence \in 1..(Len(log) + 1)
           /\ events' = [events EXCEPT ![e.AggregateID] =
                            IF e.Sequence \in DOMAIN log
                            THEN [log EXCEPT ![e.Sequence] = e] ELSE Append(log, e)]
           /\ sequences' = [sequences EXCEPT ![e.AggregateID] = e.Sequence]
    /\ Goto(t, "update")
    /\ UNCHANGED <<running, snapshots, actors, channelVars, arg, outcome, state, targets>>

\* MemoryStorage.WriteEvent, one critical section of its mutex.
StoreEvent(t) ==
    /\ pc[t] = "store"
    /\ Accepts(arg[t])
    /\ LET e == arg[t] IN
          /\ events' = [events EXCEPT ![e.AggregateID] = Append(@, e)]
          /\ sequences' = [sequences EXCEPT ![e.AggregateID] = e.Sequence]
    /\ Goto(t, "update")
    /\ UNCHANGED <<running, snapshots, actors, channelVars, arg, outcome, state, targets>>

\* Mutant: the storage's error is not looked at.
StoreFailsUnnoticed(t) ==
    /\ pc[t] = "store"
    /\ ~Accepts(arg[t])
    /\ Goto(t, "update")
    /\ UNCHANGED <<running, storageVars, actors, channelVars, arg, outcome, state, targets>>

\* The storage returned an error: WriteEvent returns Success false.
StoreFails(t) ==
    /\ pc[t] = "store"
    /\ ~Accepts(arg[t])
    /\ outcome' = [outcome EXCEPT ![t] = "failed"]
    /\ Goto(t, "idle")
    /\ UNCHANGED <<running, storageVars, actors, channelVars, arg, state, targets>>

\* The cached actor state takes this event's number, whatever it held.
UpdateActor(t) ==
    /\ pc[t] = "update"
    /\ actors' = [actors EXCEPT ![arg[t].AggregateID] = arg[t].Sequence]
    /\ Goto(t, IF SnapshotDue(arg[t]) THEN "snapshot" ELSE "broadcast")
    /\ UNCHANGED <<running, storageVars, channelVars, arg, outcome, state, targets>>

\* createSnapshot copies the cached actor state, which UpdateActor has just
\* put there; GetActorState's storage lookup is not taken on this path.  The
\* copy is made after the lock is released, of an object that PublishActor may
\* have replaced in the map: what it reads is then what the map held when that
\* happened, so one read of the map at some moment stands for both steps.
CopyActor(t) ==
    /\ pc[t] = "snapshot"
    /\ LET a == arg[t].AggregateID IN
          state' = [state EXCEPT ![t] = [AggregateID |-> a, LastSequence |-> actors[a]]]
    /\ Goto(t, "writeSnapshot")
    /\ UNCHANGED <<running, storageVars, actors, channelVars, arg, outcome, targets>>

\* The copy is stored under the number of the event that caused the snapshot,
\* replacing the aggregate's earlier snapshot.
WriteSnapshot(t) ==
    /\ pc[t] = "writeSnapshot"
    /\ snapshots' = [snapshots EXCEPT ![arg[t].AggregateID] =
                        [Sequence |-> arg[t].Sequence,
                         LastSequence |-> state[t].LastSequence]]
    /\ state' = [state EXCEPT ![t] = NoState]
    /\ Goto(t, "broadcast")
    /\ UNCHANGED <<running, events, sequences, actors, channelVars, arg, outcome, targets>>

\* broadcastEvent takes subscribersMu for reading: several goroutines may
\* broadcast at once, while Subscribe and Unsubscribe wait for all of them.
Broadcast(t) ==
    /\ pc[t] = "broadcast"
    /\ targets' = [targets EXCEPT ![t] = subscribers]
    /\ Goto(t, "send")
    /\ UNCHANGED <<running, storageVars, actors, channelVars, arg, outcome, state>>

\* Mutant: the select has no default branch, and waits for room.
DeliverBlocking(s, e) ==
    /\ Len(channels[s]) < ChannelCapacity
    /\ channels' = [channels EXCEPT ![s] = Append(@, e)]

\* The non-blocking send to one channel, in the map's arbitrary order: a full
\* channel loses the event.
Deliver(s, e) ==
    IF Len(channels[s]) < ChannelCapacity
    THEN channels' = [channels EXCEPT ![s] = Append(@, e)]
    ELSE UNCHANGED channels

\* Mutant: a channel is not crossed off once it was tried.
SendRepeats(t, s) ==
    /\ pc[t] = "send"
    /\ s \in targets[t]
    /\ Deliver(s, arg[t])
    /\ \/ targets' = [targets EXCEPT ![t] = @ \ {s}]
       \/ UNCHANGED targets
    /\ UNCHANGED <<running, storageVars, actors, subscribers, pc, arg, outcome, state>>

\* One iteration of broadcastEvent's loop.
Send(t, s) ==
    /\ pc[t] = "send"
    /\ s \in targets[t]
    /\ Deliver(s, arg[t])
    /\ targets' = [targets EXCEPT ![t] = @ \ {s}]
    /\ UNCHANGED <<running, storageVars, actors, subscribers, pc, arg, outcome, state>>

WriteReturns(t) ==
    /\ pc[t] = "send"
    /\ targets[t] = {}
    /\ outcome' = [outcome EXCEPT ![t] = "ok"]
    /\ Goto(t, "idle")
    /\ UNCHANGED <<running, storageVars, actors, channelVars, arg, state, targets>>

-----------------------------------------------------------------------------
(* GetActorState, as its other callers use it.  On a cached actor it only    *)
(* returns a copy; these are the steps it takes when nothing is cached.      *)

LookupMisses(t, a) ==
    /\ pc[t] = "idle"
    /\ actors[a] = Absent
    /\ state' = [state EXCEPT ![t] = [AggregateID |-> a, LastSequence |-> 0]]
    /\ Goto(t, "load")
    /\ UNCHANGED <<running, storageVars, actors, channelVars, arg, outcome, targets>>

\* GetLastSequence reads the storage with no lock on the cache.
LoadSequence(t) ==
    /\ pc[t] = "load"
    /\ state' = [state EXCEPT ![t].LastSequence = sequences[state[t].AggregateID]]
    /\ Goto(t, "publish")
    /\ UNCHANGED <<running, storageVars, actors, channelVars, arg, outcome, targets>>

\* The new ActorState is put in the map without looking again for one that a
\* writer may have put there meanwhile.
PublishActor(t) ==
    /\ pc[t] = "publish"
    /\ actors' = [actors EXCEPT ![state[t].AggregateID] = state[t].LastSequence]
    /\ state' = [state EXCEPT ![t] = NoState]
    /\ Goto(t, "idle")
    /\ UNCHANGED <<running, storageVars, channelVars, arg, outcome, targets>>

-----------------------------------------------------------------------------
(* Subscribers                                                               *)

Broadcasting == \E t \in Thread : pc[t] = "send"

Subscribe(s) ==
    /\ s \notin subscribers
    /\ ~Broadcasting
    /\ subscribers' = subscribers \cup {s}
    /\ channels' = [channels EXCEPT ![s] = <<>>]
    /\ UNCHANGED <<running, storageVars, actors, localVars>>

\* The channel is not closed: what it holds can still be received.
Unsubscribe(s) ==
    /\ s \in subscribers
    /\ ~Broadcasting
    /\ subscribers' = subscribers \ {s}
    /\ UNCHANGED <<running, storageVars, actors, channels, localVars>>

\* The subscriber's receive from its channel.
Receive(s) ==
    /\ channels[s] # <<>>
    /\ channels' = [channels EXCEPT ![s] = Tail(@)]
    /\ UNCHANGED <<running, storageVars, actors, subscribers, localVars>>

-----------------------------------------------------------------------------

\* The steps by which a goroutine finishes a call it has begun.
Continue(t) ==
    \/ StoreEvent(t)
    \/ StoreFails(t)
    \/ UpdateActor(t)
    \/ CopyActor(t)
    \/ WriteSnapshot(t)
    \/ Broadcast(t)
    \/ \E s \in Subscriber : Send(t, s)
    \/ WriteReturns(t)
    \/ LoadSequence(t)
    \/ PublishActor(t)

Next ==
    \/ Start
    \/ Stop
    \/ \E t \in Thread : Continue(t)
    \/ \E t \in Thread, a \in Aggregate, n \in 0..MaxSequence :
          <<t, a>> \in MayWrite /\ WriteEvent(t, a, n)
    \/ \E t \in MayQuery, a \in Aggregate : LookupMisses(t, a)
    \/ \E s \in Subscriber : Subscribe(s) \/ Unsubscribe(s) \/ Receive(s)

Spec == Init /\ [][Next]_vars

\* The Go scheduler runs every goroutine that can take a step.  Nothing makes
\* a caller call, a subscriber receive, or the operator start or stop.
FairSpec == Spec /\ \A t \in Thread : WF_vars(Continue(t))

-----------------------------------------------------------------------------
(* Properties that hold however many goroutines write an aggregate           *)

\* Each log is its own numbering: the k-th event of an aggregate has sequence
\* k, and the separately kept last sequence is the log's length, although the
\* callers choose the numbers and race for them (storage.go WriteEvent).
LogGapFree ==
    \A a \in Aggregate :
        /\ sequences[a] = Len(events[a])
        /\ \A i \in 1..Len(events[a]) :
              /\ events[a][i].AggregateID = a
              /\ events[a][i].Sequence = i

\* The event of goroutine t is in the log, at its number.
Stored(t) ==
    LET log == events[arg[t].AggregateID] IN
    /\ arg[t].Sequence \in DOMAIN log
    /\ log[arg[t].Sequence] = arg[t]

\* A success answer is never false: the very event the caller passed is in
\* the log, so of two callers racing for one number at most one is told it
\* won (WriteEvent's WriteResult).
AcknowledgedIsStored ==
    \A t \in Thread : outcome[t] = "ok" \/ pc[t] \in Accepted => Stored(t)

\* The cache and the snapshots lag behind the log but never run ahead of it:
\* neither shows an event that a reader of the log would not find.
CacheNotAhead ==
    \A a \in Aggregate :
        /\ actors[a] <= sequences[a]
        /\ snapshots[a].Sequence <= sequences[a]
        /\ snapshots[a].LastSequence <= sequences[a]

\* A subscriber is told of an event only once it is stored, and of each event
\* at most once, whatever the interleaving of broadcasts and resubscriptions.
DeliveredOnceStored ==
    \A s \in Subscriber : \A i \in 1..Len(channels[s]) :
        LET e == channels[s][i] IN
        /\ e.Sequence \in DOMAIN events[e.AggregateID]
        /\ events[e.AggregateID][e.Sequence] = e
        /\ \A j \in 1..Len(channels[s]) : channels[s][j] = e => j = i

\* Stored history is never rewritten: each log only grows at its end, by one
\* event a step ("append-only semantics").
AppendOnly ==
    [][\A a \in Aggregate :
          \/ events'[a] = events[a]
          \/ /\ Len(events'[a]) = Len(events[a]) + 1
             /\ \A i \in DOMAIN events[a] : events'[a][i] = events[a][i]]_vars

\* The event store implements the append log its callers rely on: a call's
\* outcome is decided at the storage's critical section.
Log == INSTANCE AppendLog WITH
    Client <- Thread,
    log <- events,
    request <- arg,
    outcome <- [t \in Thread |-> IF pc[t] \in Accepted THEN "ok" ELSE outcome[t]]

ImplementsAppendLog == Log!LogSpec

\* A slow or absent subscriber never holds up a writer: every call returns,
\* although nothing makes a subscriber drain its full channel (the default
\* branch of broadcastEvent's select).
CallsReturn == \A t \in Thread : pc[t] # "idle" ~> pc[t] = "idle"

-----------------------------------------------------------------------------
(* Properties that need a single writer per aggregate                        *)

\* No goroutine is between changing a's log and its cached state, or about
\* to publish a state of a that it loaded.
Settled(a) ==
    \A t \in Thread :
        /\ pc[t] = "update" => arg[t].AggregateID # a
        /\ pc[t] \in {"load", "publish"} => state[t].AggregateID # a

\* GetActorState answers with the aggregate's current last sequence, from the
\* cache or (Absent) from a storage that has none.
CacheCurrent ==
    \A a \in Aggregate :
        Settled(a) => sequences[a] = IF actors[a] = Absent THEN 0 ELSE actors[a]

\* A subscriber receives the events of one aggregate in the order of the log.
DeliveredInOrder ==
    \A s \in Subscriber : \A i, j \in 1..Len(channels[s]) :
        i < j /\ channels[s][i].AggregateID = channels[s][j].AggregateID
        => channels[s][i].Sequence < channels[s][j].Sequence

\* A snapshot holds the actor state as of the event that labels it, so that
\* replaying the events after the label rebuilds the actor.
SnapshotFaithful ==
    \A a \in Aggregate : snapshots[a].LastSequence = snapshots[a].Sequence

=============================================================================
