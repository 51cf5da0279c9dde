--------------------------- MODULE NodeEventStore ---------------------------
(***************************************************************************)
(* The TypeScript event store (impl/typescript/src/eventstore) over its    *)
(* in-memory storage.  Nothing preempts its code, but each await of        *)
(* writeEvent, createSnapshot and getActorState lets the jobs of other     *)
(* calls run first.  The labels of a call's jobs say what it continues:    *)
(*                                                                         *)
(*   stored     the storage has the event           (await storage.write)  *)
(*   refused    the storage refused it              (the same await)       *)
(*   copy       the cached state is at hand         (await getActorState)  *)
(*   written    the snapshot is stored              (await writeSnapshot)  *)
(*   broadcast  the snapshot is made                (await createSnapshot) *)
(*   loaded     the last number was read            (await getLastSequence)*)
(*   resume     the call has returned: its caller goes on                  *)
(***************************************************************************)
EXTENDS EventLoop, Integers, SequencesExt

CONSTANTS
    Caller,             \* calls to the store that may be in progress at once
    Aggregate,          \* aggregateId
    EventType,          \* eventType
    MaxSequence,        \* bound: largest sequence number a caller asks for
    SnapshotInterval,   \* config.snapshot_interval
    NoEvent             \* the argument of a caller that has not written

ASSUME NodeEventStoreAssumption ==
    /\ MaxSequence \in Nat
    /\ SnapshotInterval \in Nat \ {0}

VARIABLES
    running,            \* EventStore.running
    events,             \* MemoryStorage.events
    snapshots,          \* MemoryStorage.snapshots; sequence 0 where there is none
    actors,             \* per aggregate lastSequence of every state object that
                        \* EventStore.actors has held; the last is in the map
    arg,                \* the argument of each caller's latest call
    outcome,            \* what its latest writeEvent resolved to
    local,              \* a call's local: the state object it holds (by its
                        \* place in actors), or the number it loaded
    broadcasts          \* history: the events handed to the listeners

storeVars == <<running, events, snapshots, actors, arg, outcome, local, broadcasts>>

Event == [aggregateId : Aggregate, sequence : 1..MaxSequence, eventType : EventType]

\* The argument of getActorState.
Question == [aggregateId : Aggregate]

StoreTypeOK ==
    /\ running \in BOOLEAN
    /\ events \in [Aggregate -> Seq(Event)]
    /\ snapshots \in [Aggregate -> [sequence : Nat, lastSequence : Nat]]
    /\ actors \in [Aggregate -> Seq(Nat)]
    /\ arg \in [Caller -> Event \cup Question \cup {NoEvent}]
    /\ outcome \in [Caller -> {"none", "pending", "ok", "failed"}]
    /\ local \in [Caller -> Nat]
    /\ broadcasts \in Seq(Event)

StoreInit ==
    /\ running = FALSE
    /\ events = [a \in Aggregate |-> <<>>]
    /\ snapshots = [a \in Aggregate |-> [sequence |-> 0, lastSequence |-> 0]]
    /\ actors = [a \in Aggregate |-> <<>>]
    /\ arg = [c \in Caller |-> NoEvent]
    /\ outcome = [c \in Caller |-> "none"]
    /\ local = [c \in Caller |-> 0]
    /\ broadcasts = <<>>

\* start over a storage that opens: its two awaits only delay it, since
\* nothing passes the running check meanwhile.
StoreStart ==
    /\ ~running
    /\ running' = TRUE
    /\ UNCHANGED <<events, snapshots, actors, arg, outcome, local, broadcasts>>

\* stop: MemoryStorage.close does nothing, and calls under way go on.
StoreStop ==
    /\ running' = FALSE
    /\ UNCHANGED <<events, snapshots, actors, arg, outcome, local, broadcasts>>

-----------------------------------------------------------------------------
(* MemoryStorage                                                            *)

\* getLastSequence: the sequences map is set with the log, in writeEvent.
LastSequence(a) == IF events[a] = <<>> THEN 0 ELSE Last(events[a]).sequence

\* Mutant: the last number is accepted again.
AcceptsTwice(e) ==
    \/ e.sequence = LastSequence(e.aggregateId) + 1
    \/ events[e.aggregateId] # <<>> /\ e.sequence = LastSequence(e.aggregateId)

\* The two sequence checks of MemoryStorage.writeEvent.
Accepts(e) ==
    IF events[e.aggregateId] = <<>>
    THEN e.sequence = 1
    ELSE e.sequence = Last(events[e.aggregateId]).sequence + 1

SnapshotDue(e) == e.sequence % SnapshotInterval = 0

-----------------------------------------------------------------------------
(* writeEvent                                                               *)

\* What the caller finds at its first await.
Awaits(e) == IF ~running THEN "resume" ELSE IF Accepts(e) THEN "stored" ELSE "refused"

\* From the call to the first await: the running check and the append.
WriteEvent(c, e) ==
    /\ arg' = [arg EXCEPT ![c] = e]
    /\ outcome' = [outcome EXCEPT ![c] = IF running THEN "pending" ELSE "failed"]
    /\ events' = IF running /\ Accepts(e)
                 THEN [events EXCEPT ![e.aggregateId] = Append(@, e)]
                 ELSE events
    /\ UNCHANGED <<running, snapshots, actors, local, broadcasts>>

\* broadcastEvent, and the successful return of writeEvent.
Broadcast(c) ==
    /\ broadcasts' = Append(broadcasts, arg[c])
    /\ outcome' = [outcome EXCEPT ![c] = "ok"]

\* Mutant: an actor that is in the map keeps its number.
CacheFirst(c) ==
    LET e == arg[c] IN
    actors' = [actors EXCEPT ![e.aggregateId] = IF @ = <<>> THEN <<e.sequence>> ELSE @]

\* The update of the cached state, a new object if the map has none.
CacheEvent(c) ==
    LET e == arg[c] IN
    actors' = [actors EXCEPT ![e.aggregateId] =
                  IF @ = <<>> THEN <<e.sequence>> ELSE Append(Front(@), e.sequence)]

\* After the append: cache the number, then broadcast and return.  The
\* listeners' calls leave the jobs woken.
Stored(c, woken) ==
    /\ RunJob(Job("stored", c), woken \o <<Job("resume", c)>>)
    /\ ~SnapshotDue(arg[c])
    /\ CacheEvent(c)
    /\ Broadcast(c)
    /\ UNCHANGED <<running, events, snapshots, arg, local>>

\* After the append of an event that a snapshot is due for: createSnapshot
\* asks for the cached state, which is there, and holds on to the object.
StoredSnapshotDue(c) ==
    /\ RunJob(Job("stored", c), <<Job("copy", c)>>)
    /\ SnapshotDue(arg[c])
    /\ CacheEvent(c)
    /\ local' = [local EXCEPT ![c] = Len(actors'[arg[c].aggregateId])]
    /\ UNCHANGED <<running, events, snapshots, arg, outcome, broadcasts>>

\* The storage refused the event: the result says so.
Refused(c) ==
    /\ RunJob(Job("refused", c), <<Job("resume", c)>>)
    /\ outcome' = [outcome EXCEPT ![c] = "failed"]
    /\ UNCHANGED <<running, events, snapshots, actors, arg, local, broadcasts>>

\* Mutant: the snapshot is labelled with the newest event's number.
CopyLabelsLast(c) ==
    LET a == arg[c].aggregateId IN
    /\ RunJob(Job("copy", c), <<Job("written", c)>>)
    /\ snapshots' = [snapshots EXCEPT ![a] =
          [sequence |-> LastSequence(a), lastSequence |-> actors[a][local[c]]]]
    /\ local' = [local EXCEPT ![c] = 0]
    /\ UNCHANGED <<running, events, actors, arg, outcome, broadcasts>>

\* createSnapshot serialises the state object as it is by now, and stores it
\* under the number of the event that caused it.
Copy(c) ==
    LET a == arg[c].aggregateId IN
    /\ RunJob(Job("copy", c), <<Job("written", c)>>)
    /\ snapshots' = [snapshots EXCEPT ![a] =
          [sequence |-> arg[c].sequence, lastSequence |-> actors[a][local[c]]]]
    /\ local' = [local EXCEPT ![c] = 0]
    /\ UNCHANGED <<running, events, actors, arg, outcome, broadcasts>>

\* Mutant: the write returns with its snapshot, and tells no listener.
WrittenReturns(c) ==
    /\ RunJob(Job("written", c), <<Job("resume", c)>>)
    /\ UNCHANGED storeVars

\* createSnapshot returns.
Written(c) ==
    /\ RunJob(Job("written", c), <<Job("broadcast", c)>>)
    /\ UNCHANGED storeVars

\* writeEvent goes on after createSnapshot.
SnapshotMade(c, woken) ==
    /\ RunJob(Job("broadcast", c), woken \o <<Job("resume", c)>>)
    /\ Broadcast(c)
    /\ UNCHANGED <<running, events, snapshots, actors, arg, local>>

-----------------------------------------------------------------------------
(* getActorState: a state that is not cached is loaded, and put in the map  *)
(* a job later.                                                             *)

ActorAwaits(a) == IF actors[a] = <<>> THEN "loaded" ELSE "resume"

GetActorState(c, a) ==
    /\ arg' = [arg EXCEPT ![c] = [aggregateId |-> a]]
    /\ outcome' = [outcome EXCEPT ![c] = "none"]
    /\ local' = [local EXCEPT ![c] = LastSequence(a)]
    /\ UNCHANGED <<running, events, snapshots, actors, broadcasts>>

Loaded(c) ==
    LET a == arg[c].aggregateId IN
    /\ RunJob(Job("loaded", c), <<Job("resume", c)>>)
    /\ actors' = IF local[c] > 0 THEN [actors EXCEPT ![a] = Append(@, local[c])] ELSE actors
    /\ local' = [local EXCEPT ![c] = 0]
    /\ UNCHANGED <<running, events, snapshots, arg, outcome, broadcasts>>

=============================================================================
