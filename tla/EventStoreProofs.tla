-------------------------- MODULE EventStoreProofs --------------------------
(***************************************************************************)
(* Theorems about EventStore, for any number of goroutines, aggregates and *)
(* subscribers, any snapshot interval and any channel capacity.            *)
(*                                                                         *)
(* None of LogGapFree, AcknowledgedIsStored and CacheNotAhead is inductive *)
(* by itself.  What a goroutine writes to the cache, the snapshots or a    *)
(* channel is what it remembers from an earlier critical section, so the   *)
(* invariant must say what the locals of a goroutine between two critical  *)
(* sections may hold: that is LocalsInv, and Inv is the conjunction.       *)
(*                                                                         *)
(* The second half is about what subscribers receive, and about what stays *)
(* current when each aggregate has one writer.  A channel is filled by     *)
(* goroutines that stored their events earlier and broadcast them in any   *)
(* order.  DeliveryInv says that an event still to be sent to a channel is *)
(* not in it: its goroutine has put its own name on it, and its number was *)
(* past the log when the channel was last filled by anything stored.       *)
(***************************************************************************)
EXTENDS EventStore, SequenceTheorems, TLAPS

\* The steps of WriteEvent, from the call to the return.
Writing == {"store"} \cup Accepted

\* What a goroutine remembers between two critical sections.
LocalInv(t) ==
    /\ pc[t] \in Writing => arg[t] \in Event /\ outcome[t] = "pending"
    /\ outcome[t] = "pending" => pc[t] \in Writing
    /\ outcome[t] = "ok" => arg[t] \in Event
    /\ pc[t] = "snapshot" => actors[arg[t].AggregateID] # Absent
    /\ pc[t] \in {"writeSnapshot", "load", "publish"} =>
          /\ state[t] \in ActorState
          /\ state[t].LastSequence <= sequences[state[t].AggregateID]
    /\ pc[t] = "writeSnapshot" => state[t].AggregateID = arg[t].AggregateID

LocalsInv == \A t \in Thread : LocalInv(t)

\* The inductive invariant.
Inv ==
    /\ TypeOK
    /\ LogGapFree
    /\ AcknowledgedIsStored
    /\ CacheNotAhead
    /\ LocalsInv

-----------------------------------------------------------------------------

(* The sequence check accepts an event exactly at the end of a gap-free log. *)
LEMMA AcceptsAtEnd ==
    ASSUME TypeOK, LogGapFree, NEW e \in Event
    PROVE  Accepts(e) <=> e.Sequence = Len(events[e.AggregateID]) + 1
<1> DEFINE log == events[e.AggregateID]
<1>1. /\ e.AggregateID \in Aggregate
      /\ log \in Seq(Event)
      /\ Len(log) \in Nat
      /\ \A i \in 1..Len(log) : log[i].Sequence = i
  <2>1. e.AggregateID \in Aggregate
    BY DEF Event
  <2>2. log \in Seq(Event)
    BY <2>1 DEF TypeOK
  <2>3. Len(log) \in Nat
    BY <2>2, LenProperties
  <2> QED
    BY <2>1, <2>2, <2>3 DEF LogGapFree
<1>2. CASE log = <<>>
  <2>1. Len(log) = 0
    BY <1>2
  <2> QED
    BY <2>1, <1>2 DEF Accepts
<1>3. CASE log # <<>>
  <2>1. Len(log) \in 1..Len(log)
    BY <1>1, <1>3, EmptySeq
  <2>2. log[Len(log)].Sequence = Len(log)
    BY <1>1, <2>1
  <2> QED
    BY <2>2, <1>3 DEF Accepts
<1> QED
  BY <1>2, <1>3

(* The initial state satisfies the invariant. *)
LEMMA InitInv == Init => Inv
<1> SUFFICES ASSUME Init PROVE Inv
  OBVIOUS
<1> USE EventStoreAssumption DEF Init
<1>1. TypeOK
  <2>1. <<>> \in Seq(Event) /\ Len(<<>>) = 0
    OBVIOUS
  <2>2. events \in [Aggregate -> Seq(Event)] /\ channels \in [Subscriber -> Seq(Event)]
    BY <2>1
  <2>3. \A s \in Subscriber : Len(channels[s]) <= ChannelCapacity
    BY <2>1
  <2> QED
    BY <2>2, <2>3 DEF TypeOK, Snapshot, Label, Absent
<1>2. LogGapFree
  BY DEF LogGapFree
<1>3. AcknowledgedIsStored
  BY DEF AcknowledgedIsStored, Accepted
<1>4. CacheNotAhead
  BY DEF CacheNotAhead, Absent
<1>5. LocalsInv
  BY DEF LocalsInv, LocalInv, Writing, Accepted
<1> QED
  BY <1>1, <1>2, <1>3, <1>4, <1>5 DEF Inv

-----------------------------------------------------------------------------

(* What Next comes to, one disjunct per action. *)
LEMMA StepCases ==
    ASSUME [Next]_vars
    PROVE  \/ Start \/ Stop
           \/ \E t \in Thread : \/ StoreEvent(t) \/ StoreFails(t) \/ UpdateActor(t)
                                \/ CopyActor(t) \/ WriteSnapshot(t) \/ Broadcast(t)
                                \/ \E s \in Subscriber : Send(t, s)
                                \/ WriteReturns(t) \/ LoadSequence(t) \/ PublishActor(t)
           \/ \E t \in Thread, a \in Aggregate, n \in 0..MaxSequence : WriteEvent(t, a, n)
           \/ \E t \in Thread, a \in Aggregate : LookupMisses(t, a)
           \/ \E s \in Subscriber : Subscribe(s) \/ Unsubscribe(s) \/ Receive(s)
           \/ UNCHANGED vars
BY EventStoreAssumption DEF Next, Continue

(* Only the storage's critical section changes the log: every other step    *)
(* leaves events and sequences as they are.                                 *)
LEMMA OnlyStoreEventWrites ==
    ASSUME [Next]_vars
    PROVE  \/ \E t \in Thread : StoreEvent(t)
           \/ UNCHANGED <<events, sequences>>
<1> USE DEF vars, storageVars, channelVars, localVars
<1>1. ASSUME NEW t \in Thread,
             \/ StoreFails(t) \/ UpdateActor(t) \/ CopyActor(t) \/ WriteSnapshot(t)
             \/ Broadcast(t) \/ WriteReturns(t) \/ LoadSequence(t) \/ PublishActor(t)
      PROVE  UNCHANGED <<events, sequences>>
  BY <1>1 DEF StoreFails, UpdateActor, CopyActor, WriteSnapshot, Broadcast, WriteReturns,
              LoadSequence, PublishActor
<1>2. ASSUME NEW t \in Thread, NEW s \in Subscriber, Send(t, s)
      PROVE  UNCHANGED <<events, sequences>>
  BY <1>2 DEF Send
<1>3. ASSUME NEW t \in Thread, NEW a \in Aggregate, NEW n \in 0..MaxSequence,
             WriteEvent(t, a, n) \/ LookupMisses(t, a)
      PROVE  UNCHANGED <<events, sequences>>
  BY <1>3 DEF WriteEvent, LookupMisses
<1>4. ASSUME NEW s \in Subscriber, Subscribe(s) \/ Unsubscribe(s) \/ Receive(s)
      PROVE  UNCHANGED <<events, sequences>>
  BY <1>4 DEF Subscribe, Unsubscribe, Receive
<1>5. ASSUME NEW t \in Thread, NEW a \in Aggregate, LookupMisses(t, a)
      PROVE  UNCHANGED <<events, sequences>>
  BY <1>5 DEF LookupMisses
<1>6. ASSUME Start \/ Stop PROVE UNCHANGED <<events, sequences>>
  BY <1>6 DEF Start, Stop
<1>7. ASSUME UNCHANGED vars PROVE UNCHANGED <<events, sequences>>
  BY <1>7
<1> QED
  BY StepCases, <1>1, <1>2, <1>3, <1>4, <1>5, <1>6, <1>7

(* What the storage's critical section does to the log of one aggregate.    *)
LEMMA StoreEventAppends ==
    ASSUME Inv, NEW t \in Thread, StoreEvent(t)
    PROVE  LET e == arg[t] IN
           /\ e \in Event
           /\ e.Sequence = Len(events[e.AggregateID]) + 1
           /\ events' = [events EXCEPT ![e.AggregateID] = Append(@, e)]
           /\ sequences' = [sequences EXCEPT ![e.AggregateID] = e.Sequence]
           /\ events' \in [Aggregate -> Seq(Event)]
           /\ sequences' \in [Aggregate -> Nat]
<1> DEFINE e == arg[t]
<1>1. e \in Event
  BY DEF Inv, LocalsInv, LocalInv, Writing, StoreEvent
<1>2. e.Sequence = Len(events[e.AggregateID]) + 1
  BY <1>1, AcceptsAtEnd DEF Inv, StoreEvent
<1>3. /\ events' = [events EXCEPT ![e.AggregateID] = Append(@, e)]
      /\ sequences' = [sequences EXCEPT ![e.AggregateID] = e.Sequence]
  BY DEF StoreEvent
<1>4. e.AggregateID \in Aggregate /\ e.Sequence \in Nat
  BY <1>1 DEF Event
<1>5. Append(events[e.AggregateID], e) \in Seq(Event)
  BY <1>1, <1>4, AppendProperties DEF Inv, TypeOK
<1>6. events' \in [Aggregate -> Seq(Event)] /\ sequences' \in [Aggregate -> Nat]
  BY <1>3, <1>4, <1>5 DEF Inv, TypeOK
<1> QED
  BY <1>1, <1>2, <1>3, <1>6

(* A step keeps the stored part of every log, and the log's numbering.      *)
LEMMA LogStep ==
    ASSUME Inv, [Next]_vars
    PROVE  /\ LogGapFree'
           /\ \A a \in Aggregate :
                 /\ Len(events[a]) <= Len(events'[a])
                 /\ \A i \in 1..Len(events[a]) : events'[a][i] = events[a][i]
<1>1. CASE UNCHANGED <<events, sequences>>
  <2>1. \A a \in Aggregate : Len(events[a]) \in Nat
    BY LenProperties DEF Inv, TypeOK
  <2> QED
    BY <2>1, <1>1 DEF Inv, LogGapFree
<1>2. ASSUME NEW t \in Thread, StoreEvent(t)
      PROVE  /\ LogGapFree'
             /\ \A a \in Aggregate :
                   /\ Len(events[a]) <= Len(events'[a])
                   /\ \A i \in 1..Len(events[a]) : events'[a][i] = events[a][i]
  <2> DEFINE e == arg[t]
  <2>1. /\ e \in Event
        /\ e.Sequence = Len(events[e.AggregateID]) + 1
        /\ events' = [events EXCEPT ![e.AggregateID] = Append(@, e)]
        /\ sequences' = [sequences EXCEPT ![e.AggregateID] = e.Sequence]
    BY <1>2, StoreEventAppends
  <2>2. ASSUME NEW a \in Aggregate
        PROVE  /\ sequences'[a] = Len(events'[a])
               /\ \A i \in 1..Len(events'[a]) :
                     events'[a][i].AggregateID = a /\ events'[a][i].Sequence = i
               /\ Len(events[a]) <= Len(events'[a])
               /\ \A i \in 1..Len(events[a]) : events'[a][i] = events[a][i]
    <3>1. /\ events[a] \in Seq(Event)
          /\ Len(events[a]) \in Nat
          /\ sequences[a] = Len(events[a])
          /\ \A i \in 1..Len(events[a]) :
                events[a][i].AggregateID = a /\ events[a][i].Sequence = i
      BY LenProperties DEF Inv, TypeOK, LogGapFree
    <3>2. CASE a # e.AggregateID
      <4>1. events'[a] = events[a] /\ sequences'[a] = sequences[a]
        BY <2>1, <3>2 DEF Inv, TypeOK
      <4> QED
        BY <4>1, <3>1
    <3>3. CASE a = e.AggregateID
      <4>1. events'[a] = Append(events[a], e) /\ sequences'[a] = e.Sequence
        BY <2>1, <3>3 DEF Inv, TypeOK
      <4>2. /\ Len(events'[a]) = Len(events[a]) + 1
            /\ \A i \in 1..Len(events[a]) : events'[a][i] = events[a][i]
            /\ events'[a][Len(events[a]) + 1] = e
        BY <4>1, <3>1, <2>1, AppendProperties
      <4> QED
        BY <4>1, <4>2, <3>1, <3>3, <2>1
    <3> QED
      BY <3>2, <3>3
  <2> QED
    BY <2>2 DEF LogGapFree
<1> QED
  BY <1>1, <1>2, OnlyStoreEventWrites

-----------------------------------------------------------------------------

(* Every step keeps the types of the variables.                             *)
LEMMA TypeStep ==
    ASSUME Inv, [Next]_vars
    PROVE  TypeOK'
<1> USE EventStoreAssumption
    DEF Inv, TypeOK, vars, storageVars, channelVars, localVars, Goto, Label, Accepted
<1>1. CASE Start \/ Stop
  BY <1>1 DEF Start, Stop
<1>2. ASSUME NEW t \in Thread, StoreEvent(t) PROVE TypeOK'
  BY <1>2, StoreEventAppends DEF StoreEvent
<1>3. ASSUME NEW t \in Thread, StoreFails(t) PROVE TypeOK'
  BY <1>3 DEF StoreFails
<1>4. ASSUME NEW t \in Thread, UpdateActor(t) PROVE TypeOK'
  <2>1. arg[t].AggregateID \in Aggregate /\ arg[t].Sequence \in Nat
    BY <1>4 DEF UpdateActor, LocalsInv, LocalInv, Writing, Event
  <2> QED
    BY <2>1, <1>4 DEF UpdateActor
<1>5. ASSUME NEW t \in Thread, CopyActor(t) PROVE TypeOK'
  <2>1. arg[t].AggregateID \in Aggregate
    BY <1>5 DEF CopyActor, LocalsInv, LocalInv, Writing, Event
  <2>2. actors[arg[t].AggregateID] \in Nat
    BY <2>1, <1>5 DEF CopyActor, LocalsInv, LocalInv
  <2>3. state' \in [Thread -> ActorState \cup {NoState}]
    BY <2>1, <2>2, <1>5 DEF CopyActor, ActorState
  <2> QED
    BY <2>3, <1>5 DEF CopyActor
<1>6. ASSUME NEW t \in Thread, WriteSnapshot(t) PROVE TypeOK'
  <2>1. arg[t].AggregateID \in Aggregate /\ arg[t].Sequence \in Nat
    BY <1>6 DEF WriteSnapshot, LocalsInv, LocalInv, Writing, Event
  <2>2. state[t].LastSequence \in Nat
    BY <1>6 DEF WriteSnapshot, LocalsInv, LocalInv, ActorState
  <2>3. snapshots' \in [Aggregate -> Snapshot]
    BY <2>1, <2>2, <1>6 DEF WriteSnapshot, Snapshot
  <2> QED
    BY <2>3, <1>6 DEF WriteSnapshot
<1>7. ASSUME NEW t \in Thread, Broadcast(t) PROVE TypeOK'
  BY <1>7 DEF Broadcast
<1>8. ASSUME NEW t \in Thread, NEW s \in Subscriber, Send(t, s) PROVE TypeOK'
  <2>1. arg[t] \in Event
    BY <1>8 DEF Send, LocalsInv, LocalInv, Writing
  <2>2. Append(channels[s], arg[t]) \in Seq(Event)
    BY <2>1, AppendProperties
  <2>3. Len(Append(channels[s], arg[t])) = Len(channels[s]) + 1 /\ Len(channels[s]) \in Nat
    BY <2>1, AppendProperties, LenProperties
  <2>4. channels' \in [Subscriber -> Seq(Event)]
    BY <2>2, <1>8 DEF Send, Deliver
  <2>5. ASSUME NEW r \in Subscriber PROVE Len(channels'[r]) <= ChannelCapacity
    <3>1. CASE channels'[r] = channels[r]
      BY <3>1
    <3>2. CASE r = s /\ channels'[s] = Append(channels[s], arg[t])
               /\ Len(channels[s]) < ChannelCapacity
      BY <3>2, <2>3
    <3> QED
      BY <3>1, <3>2, <1>8 DEF Send, Deliver
  <2> QED
    BY <2>4, <2>5, <1>8 DEF Send
<1>9. ASSUME NEW t \in Thread, WriteReturns(t) PROVE TypeOK'
  BY <1>9 DEF WriteReturns
<1>10. ASSUME NEW t \in Thread, LoadSequence(t) PROVE TypeOK'
  <2>1. state[t] \in ActorState /\ state[t].AggregateID \in Aggregate
    BY <1>10 DEF LoadSequence, LocalsInv, LocalInv, ActorState
  <2>2. [state[t] EXCEPT !.LastSequence = sequences[state[t].AggregateID]] \in ActorState
    BY <2>1 DEF ActorState
  <2>3. state' \in [Thread -> ActorState \cup {NoState}]
    BY <2>2, <1>10 DEF LoadSequence
  <2> QED
    BY <2>3, <1>10 DEF LoadSequence
<1>11. ASSUME NEW t \in Thread, PublishActor(t) PROVE TypeOK'
  <2>1. state[t].AggregateID \in Aggregate /\ state[t].LastSequence \in Nat
    BY <1>11 DEF PublishActor, LocalsInv, LocalInv, ActorState
  <2> QED
    BY <2>1, <1>11 DEF PublishActor
<1>12. ASSUME NEW t \in Thread, NEW a \in Aggregate, NEW n \in 0..MaxSequence, WriteEvent(t, a, n)
       PROVE  TypeOK'
  <2>1. [AggregateID |-> a, Sequence |-> n, Data |-> t] \in Event
    BY DEF Event
  <2> QED
    BY <2>1, <1>12 DEF WriteEvent
<1>13. ASSUME NEW t \in Thread, NEW a \in Aggregate, LookupMisses(t, a) PROVE TypeOK'
  <2>1. [AggregateID |-> a, LastSequence |-> 0] \in ActorState
    BY DEF ActorState
  <2> QED
    BY <2>1, <1>13 DEF LookupMisses
<1>14. ASSUME NEW s \in Subscriber, Subscribe(s) PROVE TypeOK'
  <2>1. <<>> \in Seq(Event) /\ Len(<<>>) = 0
    OBVIOUS
  <2> QED
    BY <2>1, <1>14 DEF Subscribe
<1>15. ASSUME NEW s \in Subscriber, Unsubscribe(s) PROVE TypeOK'
  BY <1>15 DEF Unsubscribe
<1>16. ASSUME NEW s \in Subscriber, Receive(s) PROVE TypeOK'
  <2>1. /\ Tail(channels[s]) \in Seq(Event)
        /\ Len(Tail(channels[s])) = Len(channels[s]) - 1
        /\ Len(channels[s]) \in Nat
    BY <1>16, HeadTailProperties, LenProperties DEF Receive
  <2>2. channels' \in [Subscriber -> Seq(Event)]
    BY <2>1, <1>16 DEF Receive
  <2>3. ASSUME NEW r \in Subscriber PROVE Len(channels'[r]) <= ChannelCapacity
    <3>1. CASE r = s
      <4>1. channels'[r] = Tail(channels[s])
        BY <3>1, <1>16 DEF Receive
      <4> QED
        BY <4>1, <2>1
    <3>2. CASE r # s
      BY <3>2, <1>16 DEF Receive
    <3> QED
      BY <3>1, <3>2
  <2> QED
    BY <2>2, <2>3, <1>16 DEF Receive
<1>17. CASE UNCHANGED vars
  BY <1>17
<1> QED
  BY StepCases, <1>1, <1>2, <1>3, <1>4, <1>5, <1>6, <1>7, <1>8, <1>9, <1>10, <1>11, <1>12,
     <1>13, <1>14, <1>15, <1>16, <1>17

-----------------------------------------------------------------------------

(* A stored event stays where it is, and the step that stores one leaves it *)
(* there: a success answer remains true for ever.                           *)
LEMMA AcknowledgedStep ==
    ASSUME Inv, [Next]_vars
    PROVE  AcknowledgedIsStored'
<1> SUFFICES ASSUME NEW t \in Thread, (outcome[t] = "ok" \/ pc[t] \in Accepted)'
             PROVE  Stored(t)'
  BY DEF AcknowledgedIsStored
<1> USE DEF Inv, vars, storageVars, channelVars, localVars, Goto, Accepted
<1>1. ASSUME Stored(t), arg[t] \in Event, arg'[t] = arg[t] PROVE Stored(t)'
  <2>1. arg[t].AggregateID \in Aggregate
    BY <1>1 DEF Event
  <2>2. DOMAIN events[arg[t].AggregateID] = 1..Len(events[arg[t].AggregateID])
        /\ Len(events[arg[t].AggregateID]) \in Nat
    BY <2>1, LenProperties DEF TypeOK
  <2>3. DOMAIN events'[arg[t].AggregateID] = 1..Len(events'[arg[t].AggregateID])
        /\ Len(events'[arg[t].AggregateID]) \in Nat
    BY <2>1, TypeStep, LenProperties DEF TypeOK
  <2> QED
    BY <1>1, <2>1, <2>2, <2>3, LogStep DEF Stored
<1>2. CASE StoreEvent(t)
  <2> DEFINE e == arg[t]
  <2>1. /\ e \in Event
        /\ e.Sequence = Len(events[e.AggregateID]) + 1
        /\ events' = [events EXCEPT ![e.AggregateID] = Append(@, e)]
    BY <1>2, StoreEventAppends
  <2>2. e.AggregateID \in Aggregate /\ events[e.AggregateID] \in Seq(Event)
    BY <2>1 DEF Event, TypeOK
  <2>3. events'[e.AggregateID] = Append(events[e.AggregateID], e)
    BY <2>1, <2>2 DEF TypeOK
  <2>4. /\ e.Sequence \in DOMAIN events'[e.AggregateID]
        /\ events'[e.AggregateID][e.Sequence] = e
    BY <2>1, <2>2, <2>3, AppendProperties, LenProperties
  <2>5. arg' = arg
    BY <1>2 DEF StoreEvent
  <2> QED
    BY <2>4, <2>5 DEF Stored
<1>3. CASE ~StoreEvent(t)
  <2>1. arg'[t] = arg[t] /\ (outcome[t] = "ok" \/ pc[t] \in Accepted)
    <3>1. CASE Start \/ Stop
      BY <3>1 DEF Start, Stop
    <3>2. ASSUME NEW u \in Thread, StoreEvent(u) PROVE <2>1
      BY <3>2, <1>3 DEF StoreEvent, TypeOK
    <3>3. ASSUME NEW u \in Thread, StoreFails(u) \/ LoadSequence(u) \/ PublishActor(u)
          PROVE  <2>1
      BY <3>3 DEF StoreFails, LoadSequence, PublishActor, TypeOK
    <3>4. ASSUME NEW u \in Thread,
                 UpdateActor(u) \/ CopyActor(u) \/ WriteSnapshot(u) \/ Broadcast(u)
          PROVE  <2>1
      BY <3>4 DEF UpdateActor, CopyActor, WriteSnapshot, Broadcast, TypeOK
    <3>5. ASSUME NEW u \in Thread, NEW s \in Subscriber, Send(u, s) PROVE <2>1
      BY <3>5 DEF Send
    <3>6. ASSUME NEW u \in Thread, WriteReturns(u) PROVE <2>1
      BY <3>6 DEF WriteReturns, TypeOK
    <3>7. ASSUME NEW u \in Thread, NEW a \in Aggregate, NEW n \in 0..MaxSequence,
                 WriteEvent(u, a, n)
          PROVE  <2>1
      BY <3>7 DEF WriteEvent, TypeOK
    <3>8. ASSUME NEW u \in Thread, NEW a \in Aggregate, LookupMisses(u, a) PROVE <2>1
      BY <3>8 DEF LookupMisses, TypeOK
    <3>9. ASSUME NEW s \in Subscriber, Subscribe(s) \/ Unsubscribe(s) \/ Receive(s)
          PROVE  <2>1
      BY <3>9 DEF Subscribe, Unsubscribe, Receive
    <3>10. CASE UNCHANGED vars
      BY <3>10
    <3> QED
      BY StepCases, <3>1, <3>2, <3>3, <3>4, <3>5, <3>6, <3>7, <3>8, <3>9, <3>10
  <2>2. Stored(t) /\ arg[t] \in Event
    BY <2>1 DEF AcknowledgedIsStored, LocalsInv, LocalInv, Writing
  <2> QED
    BY <1>1, <2>1, <2>2
<1> QED
  BY <1>2, <1>3

-----------------------------------------------------------------------------

(* The last sequence of an aggregate never decreases.                       *)
LEMMA SequencesGrow ==
    ASSUME Inv, [Next]_vars, NEW a \in Aggregate
    PROVE  sequences[a] \in Nat /\ sequences'[a] \in Nat /\ sequences[a] <= sequences'[a]
<1>1. sequences[a] = Len(events[a]) /\ sequences'[a] = Len(events'[a])
  BY LogStep DEF Inv, LogGapFree
<1>2. Len(events[a]) <= Len(events'[a])
  BY LogStep
<1> QED
  BY <1>1, <1>2, TypeStep DEF Inv, TypeOK

(* What is put in the cache or in a snapshot is at most the last sequence   *)
(* of the aggregate: it was, when the goroutine read or wrote it, and the   *)
(* last sequence has not gone back since.                                   *)
LEMMA CacheStep ==
    ASSUME Inv, [Next]_vars
    PROVE  CacheNotAhead'
<1> SUFFICES ASSUME NEW a \in Aggregate
             PROVE  /\ actors'[a] <= sequences'[a]
                    /\ snapshots'[a].Sequence <= sequences'[a]
                    /\ snapshots'[a].LastSequence <= sequences'[a]
  BY DEF CacheNotAhead
<1> DEFINE Kept == actors'[a] = actors[a] /\ snapshots'[a] = snapshots[a]
<1> USE DEF Inv, vars, storageVars, channelVars, localVars, Goto
<1>0. /\ sequences[a] \in Nat /\ sequences'[a] \in Nat /\ sequences[a] <= sequences'[a]
      /\ actors[a] \in Nat \cup {-1}
      /\ snapshots[a].Sequence \in Nat /\ snapshots[a].LastSequence \in Nat
      /\ actors[a] <= sequences[a]
      /\ snapshots[a].Sequence <= sequences[a]
      /\ snapshots[a].LastSequence <= sequences[a]
  BY SequencesGrow DEF TypeOK, Absent, Snapshot, CacheNotAhead
<1>1. CASE Kept
  BY <1>0, <1>1
<1>2. ASSUME NEW t \in Thread, UpdateActor(t), arg[t].AggregateID = a
      PROVE  actors'[a] <= sequences'[a] /\ snapshots'[a] = snapshots[a]
  <2>1. arg[t] \in Event /\ arg[t].Sequence \in DOMAIN events[a] /\ events[a] \in Seq(Event)
    BY <1>2 DEF UpdateActor, LocalsInv, LocalInv, Writing, AcknowledgedIsStored, Stored, Accepted, TypeOK
  <2>2. arg[t].Sequence \in 1..sequences[a]
    BY <2>1, LenProperties DEF LogGapFree
  <2>3. actors'[a] = arg[t].Sequence /\ snapshots' = snapshots
    BY <1>2 DEF UpdateActor, TypeOK
  <2> QED
    BY <2>2, <2>3, <1>0
<1>3. ASSUME NEW t \in Thread, WriteSnapshot(t), arg[t].AggregateID = a
      PROVE  /\ actors'[a] = actors[a]
             /\ snapshots'[a].Sequence <= sequences'[a]
             /\ snapshots'[a].LastSequence <= sequences'[a]
  <2>1. arg[t] \in Event /\ arg[t].Sequence \in DOMAIN events[a] /\ events[a] \in Seq(Event)
    BY <1>3 DEF WriteSnapshot, LocalsInv, LocalInv, Writing, AcknowledgedIsStored, Stored, Accepted, TypeOK
  <2>2. arg[t].Sequence \in 1..sequences[a]
    BY <2>1, LenProperties DEF LogGapFree
  <2>3. state[t].LastSequence <= sequences[a] /\ state[t].LastSequence \in Nat
    BY <1>3 DEF WriteSnapshot, LocalsInv, LocalInv, ActorState
  <2>4. /\ actors' = actors
        /\ snapshots'[a] = [Sequence |-> arg[t].Sequence, LastSequence |-> state[t].LastSequence]
    BY <1>3 DEF WriteSnapshot, TypeOK
  <2> QED
    BY <2>2, <2>3, <2>4, <1>0
<1>4. ASSUME NEW t \in Thread, PublishActor(t), state[t].AggregateID = a
      PROVE  actors'[a] <= sequences'[a] /\ snapshots'[a] = snapshots[a]
  <2>1. state[t].LastSequence <= sequences[a] /\ state[t].LastSequence \in Nat
    BY <1>4 DEF PublishActor, LocalsInv, LocalInv, ActorState
  <2>2. actors'[a] = state[t].LastSequence /\ snapshots' = snapshots
    BY <1>4 DEF PublishActor, TypeOK
  <2> QED
    BY <2>1, <2>2, <1>0
<1>5. ASSUME NEW t \in Thread,
             \/ UpdateActor(t) /\ arg[t].AggregateID # a
             \/ WriteSnapshot(t) /\ arg[t].AggregateID # a
             \/ PublishActor(t) /\ state[t].AggregateID # a
      PROVE  Kept
  BY <1>5 DEF UpdateActor, WriteSnapshot, PublishActor, TypeOK
<1>6. ASSUME NEW t \in Thread,
             \/ StoreEvent(t) \/ StoreFails(t) \/ CopyActor(t) \/ Broadcast(t)
             \/ WriteReturns(t) \/ LoadSequence(t)
      PROVE  Kept
  BY <1>6 DEF StoreEvent, StoreFails, CopyActor, Broadcast, WriteReturns, LoadSequence
<1>7. ASSUME NEW t \in Thread, NEW s \in Subscriber, Send(t, s) PROVE Kept
  BY <1>7 DEF Send
<1>8. ASSUME NEW t \in Thread, NEW b \in Aggregate, NEW n \in 0..MaxSequence, WriteEvent(t, b, n)
      PROVE  Kept
  BY <1>8 DEF WriteEvent
<1>9. ASSUME NEW t \in Thread, NEW b \in Aggregate, LookupMisses(t, b) PROVE Kept
  BY <1>9 DEF LookupMisses
<1>10. ASSUME NEW s \in Subscriber, Subscribe(s) \/ Unsubscribe(s) \/ Receive(s) PROVE Kept
  BY <1>10 DEF Subscribe, Unsubscribe, Receive
<1>11. ASSUME NEW t \in Thread, \/ StoreEvent(t) \/ StoreFails(t) \/ UpdateActor(t)
                                \/ CopyActor(t) \/ WriteSnapshot(t) \/ Broadcast(t)
                                \/ \E s \in Subscriber : Send(t, s)
                                \/ WriteReturns(t) \/ LoadSequence(t) \/ PublishActor(t)
       PROVE  \/ Kept
              \/ actors'[a] <= sequences'[a] /\ snapshots'[a] = snapshots[a]
              \/ /\ actors'[a] = actors[a]
                 /\ snapshots'[a].Sequence <= sequences'[a]
                 /\ snapshots'[a].LastSequence <= sequences'[a]
  BY <1>11, <1>2, <1>3, <1>4, <1>5, <1>6, <1>7
<1>12. \/ Kept
       \/ actors'[a] <= sequences'[a] /\ snapshots'[a] = snapshots[a]
       \/ /\ actors'[a] = actors[a]
          /\ snapshots'[a].Sequence <= sequences'[a]
          /\ snapshots'[a].LastSequence <= sequences'[a]
  <2> HIDE DEF Kept, Inv
  <2>1. CASE Start \/ Stop \/ UNCHANGED vars
    BY <2>1 DEF Start, Stop, Kept
  <2> QED
    BY StepCases, <2>1, <1>8, <1>9, <1>10, <1>11
<1> QED
  BY <1>0, <1>1, <1>12

-----------------------------------------------------------------------------

(* A cached actor is never removed from the cache.                          *)
LEMMA CacheKeeps ==
    ASSUME Inv, [Next]_vars, NEW a \in Aggregate, actors[a] # Absent
    PROVE  actors'[a] # Absent
<1> USE DEF Inv, vars, storageVars, channelVars, localVars, Absent
<1>1. ASSUME NEW t \in Thread, UpdateActor(t) PROVE actors'[a] # Absent
  <2>1. arg[t].Sequence \in Nat
    BY <1>1 DEF UpdateActor, LocalsInv, LocalInv, Writing, Accepted, Event
  <2> QED
    BY <2>1, <1>1 DEF UpdateActor, TypeOK
<1>2. ASSUME NEW t \in Thread, PublishActor(t) PROVE actors'[a] # Absent
  <2>1. state[t].LastSequence \in Nat
    BY <1>2 DEF PublishActor, LocalsInv, LocalInv, ActorState
  <2> QED
    BY <2>1, <1>2 DEF PublishActor, TypeOK
<1>3. \/ UNCHANGED actors \/ \E t \in Thread : UpdateActor(t) \/ PublishActor(t)
  BY StepCases DEF Start, Stop, StoreEvent, StoreFails, CopyActor, WriteSnapshot, Broadcast,
       Send, WriteReturns, LoadSequence, WriteEvent, LookupMisses, Subscribe, Unsubscribe, Receive
<1> QED
  BY <1>1, <1>2, <1>3

(* A goroutine's own step leaves it with locals that satisfy the invariant, *)
(* and the steps of others take nothing from what it relies on.             *)
LEMMA LocalsStep ==
    ASSUME Inv, [Next]_vars
    PROVE  LocalsInv'
<1> SUFFICES ASSUME NEW t \in Thread PROVE LocalInv(t)'
  BY DEF LocalsInv
<1> DEFINE Own == <<pc[t], arg[t], outcome[t], state[t]>>
<1> USE DEF Inv, vars, storageVars, channelVars, localVars, Goto
<1>1. CASE Own' = Own
  <2>1. pc'[t] = pc[t] /\ arg'[t] = arg[t] /\ outcome'[t] = outcome[t] /\ state'[t] = state[t]
    BY <1>1
  <2>2. LocalInv(t)
    BY DEF LocalsInv
  <2>3. pc[t] = "snapshot" => arg[t].AggregateID \in Aggregate
    BY <2>2 DEF LocalInv, Writing, Accepted, Event
  <2>4. pc'[t] = "snapshot" => actors'[arg'[t].AggregateID] # Absent
    BY <2>1, <2>2, <2>3, CacheKeeps DEF LocalInv
  <2>5. ASSUME pc[t] \in {"writeSnapshot", "load", "publish"}
        PROVE  state[t].LastSequence <= sequences'[state[t].AggregateID]
    <3>1. /\ state[t].AggregateID \in Aggregate /\ state[t].LastSequence \in Nat
          /\ state[t].LastSequence <= sequences[state[t].AggregateID]
      BY <2>2, <2>5 DEF LocalInv, ActorState
    <3> QED
      BY <3>1, SequencesGrow
  <2> QED
    BY <2>1, <2>2, <2>4, <2>5 DEF LocalInv
<1>2. CASE StoreEvent(t) \/ StoreFails(t) \/ Broadcast(t) \/ WriteReturns(t)
  BY <1>2 DEF StoreEvent, StoreFails, Broadcast, WriteReturns, TypeOK, LocalsInv, LocalInv,
              Writing, Accepted
<1>3. CASE UpdateActor(t)
  <2>1. arg[t] \in Event /\ arg[t].AggregateID \in Aggregate /\ arg[t].Sequence \in Nat
    BY <1>3 DEF UpdateActor, LocalsInv, LocalInv, Writing, Accepted, Event
  <2>2. actors'[arg[t].AggregateID] # Absent
    BY <2>1, <1>3 DEF UpdateActor, TypeOK, Absent
  <2> QED
    BY <2>1, <2>2, <1>3 DEF UpdateActor, TypeOK, LocalsInv, LocalInv, Writing, Accepted
<1>4. CASE CopyActor(t)
  <2>1. arg[t] \in Event /\ arg[t].AggregateID \in Aggregate
    BY <1>4 DEF CopyActor, LocalsInv, LocalInv, Writing, Accepted, Event
  <2>2. actors[arg[t].AggregateID] \in Nat
    BY <2>1, <1>4 DEF CopyActor, LocalsInv, LocalInv, TypeOK
  <2>3. actors[arg[t].AggregateID] <= sequences[arg[t].AggregateID] /\ sequences' = sequences
    BY <2>1, <1>4 DEF CopyActor, CacheNotAhead
  <2>4. state'[t] = [AggregateID |-> arg[t].AggregateID,
                     LastSequence |-> actors[arg[t].AggregateID]]
    BY <1>4 DEF CopyActor, TypeOK
  <2>5. state'[t] \in ActorState
    BY <2>1, <2>2, <2>4 DEF ActorState
  <2>6. pc'[t] = "writeSnapshot" /\ arg' = arg /\ outcome' = outcome
    BY <1>4 DEF CopyActor, TypeOK
  <2>7. outcome[t] = "pending"
    BY <1>4 DEF CopyActor, LocalsInv, LocalInv, Writing, Accepted
  <2> QED
    BY <2>1, <2>3, <2>4, <2>5, <2>6, <2>7 DEF LocalInv, Writing, Accepted
<1>5. CASE WriteSnapshot(t)
  BY <1>5 DEF WriteSnapshot, TypeOK, LocalsInv, LocalInv, Writing, Accepted
<1>6. CASE LoadSequence(t)
  <2>1. state[t] \in ActorState /\ state[t].AggregateID \in Aggregate
    BY <1>6 DEF LoadSequence, LocalsInv, LocalInv, ActorState
  <2>2. state'[t] = [state[t] EXCEPT !.LastSequence = sequences[state[t].AggregateID]]
    BY <1>6 DEF LoadSequence, TypeOK
  <2>3. /\ state'[t] \in ActorState
        /\ state'[t].LastSequence = sequences[state'[t].AggregateID]
        /\ sequences[state'[t].AggregateID] \in Nat
    BY <2>1, <2>2 DEF ActorState, TypeOK
  <2>4. pc'[t] = "publish" /\ pc[t] = "load" /\ UNCHANGED <<arg, outcome, sequences>>
    BY <1>6 DEF LoadSequence, TypeOK
  <2> QED
    BY <2>3, <2>4 DEF LocalsInv, LocalInv, Writing, Accepted
<1>7. CASE PublishActor(t)
  BY <1>7 DEF PublishActor, TypeOK, LocalsInv, LocalInv, Writing, Accepted
<1>8. ASSUME NEW a \in Aggregate, NEW n \in 0..MaxSequence, WriteEvent(t, a, n)
      PROVE  LocalInv(t)'
  <2>1. [AggregateID |-> a, Sequence |-> n, Data |-> t] \in Event
    BY EventStoreAssumption DEF Event
  <2>2. pc'[t] = "store" /\ outcome'[t] = "pending" /\ arg'[t] \in Event
    BY <2>1, <1>8 DEF WriteEvent, TypeOK
  <2> QED
    BY <2>2 DEF LocalInv, Writing, Accepted
<1>9. ASSUME NEW a \in Aggregate, LookupMisses(t, a) PROVE LocalInv(t)'
  <2>1. state'[t] = [AggregateID |-> a, LastSequence |-> 0]
    BY <1>9 DEF LookupMisses, TypeOK
  <2>2. state'[t] \in ActorState /\ state'[t].LastSequence <= sequences[state'[t].AggregateID]
    BY <2>1 DEF ActorState, TypeOK
  <2>3. pc'[t] = "load" /\ pc[t] = "idle" /\ UNCHANGED <<arg, outcome, sequences>>
    BY <1>9 DEF LookupMisses, TypeOK
  <2> QED
    BY <2>2, <2>3 DEF LocalsInv, LocalInv, Writing, Accepted
<1>10. \/ Own' = Own
       \/ StoreEvent(t) \/ StoreFails(t) \/ Broadcast(t) \/ WriteReturns(t)
       \/ UpdateActor(t) \/ CopyActor(t) \/ WriteSnapshot(t)
       \/ LoadSequence(t) \/ PublishActor(t)
       \/ \E a \in Aggregate, n \in 0..MaxSequence : WriteEvent(t, a, n)
       \/ \E a \in Aggregate : LookupMisses(t, a)
  <2>1. ASSUME NEW u \in Thread, u # t,
               \/ StoreEvent(u) \/ StoreFails(u) \/ UpdateActor(u) \/ CopyActor(u)
               \/ WriteSnapshot(u) \/ Broadcast(u) \/ WriteReturns(u)
               \/ LoadSequence(u) \/ PublishActor(u)
        PROVE  Own' = Own
    BY <2>1 DEF StoreEvent, StoreFails, UpdateActor, CopyActor, WriteSnapshot, Broadcast,
                WriteReturns, LoadSequence, PublishActor, TypeOK
  <2>2. ASSUME NEW u \in Thread, u # t, NEW a \in Aggregate, NEW n \in 0..MaxSequence,
               WriteEvent(u, a, n) \/ LookupMisses(u, a)
        PROVE  Own' = Own
    BY <2>2 DEF WriteEvent, LookupMisses, TypeOK
  <2>3. ASSUME NEW u \in Thread, NEW s \in Subscriber, Send(u, s) PROVE Own' = Own
    BY <2>3 DEF Send
  <2>4. ASSUME NEW s \in Subscriber, Subscribe(s) \/ Unsubscribe(s) \/ Receive(s)
        PROVE  Own' = Own
    BY <2>4 DEF Subscribe, Unsubscribe, Receive
  <2>5. CASE Start \/ Stop \/ UNCHANGED vars
    BY <2>5 DEF Start, Stop
  <2>6. ASSUME NEW u \in Thread, u # t, NEW a \in Aggregate, LookupMisses(u, a)
        PROVE  Own' = Own
    BY <2>6 DEF LookupMisses, TypeOK
  <2> HIDE DEF Own, Inv, vars
  <2> QED
    BY StepCases, <2>1, <2>2, <2>3, <2>4, <2>5, <2>6
<1> QED
  BY <1>1, <1>2, <1>3, <1>4, <1>5, <1>6, <1>7, <1>8, <1>9, <1>10

-----------------------------------------------------------------------------

(* Every step keeps the invariant.                                          *)
LEMMA NextInv == Inv /\ [Next]_vars => Inv'
BY TypeStep, LogStep, AcknowledgedStep, CacheStep, LocalsStep DEF Inv

(* The invariant holds throughout.                                          *)
LEMMA SpecInv == Spec => []Inv
BY InitInv, NextInv, PTL DEF Spec

(* The variables keep their types: no channel ever holds more than its      *)
(* capacity, and no cached number is ever negative.                         *)
THEOREM TypeCorrect == Spec => []TypeOK
<1>1. Inv => TypeOK
  BY DEF Inv
<1> QED
  BY <1>1, SpecInv, PTL

(* However many goroutines race for an aggregate's numbers, its log is the  *)
(* sequence 1, 2, 3, ... with no gap and no number given twice.             *)
THEOREM GapFree == Spec => []LogGapFree
<1>1. Inv => LogGapFree
  BY DEF Inv
<1> QED
  BY <1>1, SpecInv, PTL

(* A caller that is told Success finds its own event in the log, and no     *)
(* later step takes it away.                                                *)
THEOREM AcknowledgedStaysStored == Spec => []AcknowledgedIsStored
<1>1. Inv => AcknowledgedIsStored
  BY DEF Inv
<1> QED
  BY <1>1, SpecInv, PTL

(* Neither the cached actor states nor the snapshots show an event that is  *)
(* not in the log.                                                          *)
THEOREM CacheBehindLog == Spec => []CacheNotAhead
<1>1. Inv => CacheNotAhead
  BY DEF Inv
<1> QED
  BY <1>1, SpecInv, PTL

(* Stored history is never rewritten: a step leaves a log as it is or adds  *)
(* one event at its end.                                                    *)
THEOREM HistoryAppendOnly == Spec => AppendOnly
<1> DEFINE Grows(a) == /\ Len(events'[a]) = Len(events[a]) + 1
                       /\ \A i \in DOMAIN events[a] : events'[a][i] = events[a][i]
           Step == \A a \in Aggregate : events'[a] = events[a] \/ Grows(a)
<1>1. ASSUME Inv, [Next]_vars PROVE Step
  <2>1. CASE UNCHANGED <<events, sequences>>
    BY <2>1
  <2>2. ASSUME NEW t \in Thread, StoreEvent(t) PROVE Step
    <3> SUFFICES ASSUME NEW a \in Aggregate, events'[a] # events[a] PROVE Grows(a)
      OBVIOUS
    <3>1. /\ arg[t] \in Event
          /\ events' = [events EXCEPT ![arg[t].AggregateID] = Append(@, arg[t])]
      BY <2>2, <1>1, StoreEventAppends
    <3>2. events'[a] = Append(events[a], arg[t]) /\ events[a] \in Seq(Event)
      BY <3>1, <1>1 DEF Inv, TypeOK
    <3>3. DOMAIN events[a] = 1..Len(events[a])
      BY <3>2, LenProperties
    <3> QED
      BY <3>1, <3>2, <3>3, AppendProperties
  <2> QED
    BY <2>1, <2>2, <1>1, OnlyStoreEventWrites
<1>2. Inv /\ [Next]_vars =>
         [\A a \in Aggregate :
             \/ events'[a] = events[a]
             \/ /\ Len(events'[a]) = Len(events[a]) + 1
                /\ \A i \in DOMAIN events[a] : events'[a][i] = events[a][i]]_vars
  BY <1>1
<1> QED
  BY <1>2, SpecInv, PTL DEF Spec, AppendOnly

-----------------------------------------------------------------------------

\* The abstract outcome of a goroutine's call, as the refinement mapping
\* gives it: decided once the storage has accepted the event.
OutcomeOf(t) == IF pc[t] \in Accepted THEN "ok" ELSE outcome[t]

OutcomeBar == [t \in Thread |-> OutcomeOf(t)]

(* Steps that neither touch the log nor a call's outcome.                   *)
LEMMA OtherStepsStutter ==
    ASSUME Inv, [Next]_vars,
           \A t \in Thread : ~StoreEvent(t) /\ ~StoreFails(t),
           \A t \in Thread, a \in Aggregate, n \in 0..MaxSequence : ~WriteEvent(t, a, n)
    PROVE  UNCHANGED <<events, arg, OutcomeBar>>
<1> USE DEF Inv, vars, storageVars, channelVars, localVars, Goto, OutcomeBar, OutcomeOf
<1>1. CASE Start \/ Stop \/ UNCHANGED vars
  BY <1>1 DEF Start, Stop
<1>2. ASSUME NEW t \in Thread,
             UpdateActor(t) \/ CopyActor(t) \/ WriteSnapshot(t) \/ Broadcast(t)
      PROVE  UNCHANGED <<events, arg, OutcomeBar>>
  <2>1. events' = events /\ arg' = arg /\ outcome' = outcome
    BY <1>2 DEF UpdateActor, CopyActor, WriteSnapshot, Broadcast
  <2>2. \A u \in Thread : pc'[u] \in Accepted <=> pc[u] \in Accepted
    BY <1>2 DEF UpdateActor, CopyActor, WriteSnapshot, Broadcast, TypeOK, Accepted
  <2> QED
    BY <2>1, <2>2
<1>3. ASSUME NEW t \in Thread, WriteReturns(t) PROVE UNCHANGED <<events, arg, OutcomeBar>>
  <2>1. events' = events /\ arg' = arg
    BY <1>3 DEF WriteReturns
  <2>2. \A u \in Thread : OutcomeOf(u)' = OutcomeOf(u)
    BY <1>3 DEF WriteReturns, TypeOK, Accepted
  <2> QED
    BY <2>1, <2>2
<1>4. ASSUME NEW t \in Thread,
             \/ LoadSequence(t) \/ PublishActor(t)
             \/ \E a \in Aggregate : LookupMisses(t, a)
      PROVE  UNCHANGED <<events, arg, OutcomeBar>>
  <2>1. events' = events /\ arg' = arg /\ outcome' = outcome
    BY <1>4 DEF LoadSequence, PublishActor, LookupMisses
  <2>2. \A u \in Thread : pc'[u] \in Accepted <=> pc[u] \in Accepted
    BY <1>4 DEF LoadSequence, PublishActor, LookupMisses, TypeOK, Accepted
  <2> QED
    BY <2>1, <2>2
<1>5. ASSUME NEW t \in Thread, NEW s \in Subscriber, Send(t, s)
      PROVE  UNCHANGED <<events, arg, OutcomeBar>>
  BY <1>5 DEF Send
<1>6. ASSUME NEW s \in Subscriber, Subscribe(s) \/ Unsubscribe(s) \/ Receive(s)
      PROVE  UNCHANGED <<events, arg, OutcomeBar>>
  BY <1>6 DEF Subscribe, Unsubscribe, Receive
<1> HIDE DEF Inv, OutcomeBar, vars
<1> QED
  BY StepCases, <1>1, <1>2, <1>3, <1>4, <1>5, <1>6

(* The event store implements the append log: a call commits in the         *)
(* storage's critical section, is rejected there, or has not got there yet. *)
THEOREM Refinement == Spec => ImplementsAppendLog
<1> USE DEF OutcomeBar, OutcomeOf
<1>1. Init => Log!LogInit
  BY DEF Init, Log!LogInit, Accepted
<1>2. ASSUME Inv, [Next]_vars PROVE [Log!LogNext]_(Log!logVars)
  <2> USE <1>2 DEF Inv, Goto, channelVars, storageVars
  <2>1. ASSUME NEW t \in Thread, StoreEvent(t) PROVE Log!Commit(t)
    <3>1. pc[t] = "store" /\ outcome[t] = "pending"
      BY <2>1 DEF StoreEvent, LocalsInv, LocalInv, Writing
    <3>2. OutcomeOf(t) = "pending"
      BY <3>1 DEF Accepted
    <3>3. OutcomeBar' = [OutcomeBar EXCEPT ![t] = "ok"]
      BY <2>1 DEF StoreEvent, TypeOK, Accepted
    <3>4. /\ arg[t].Sequence = Len(events[arg[t].AggregateID]) + 1
          /\ events' = [events EXCEPT ![arg[t].AggregateID] = Append(@, arg[t])]
          /\ arg' = arg
      BY <2>1, StoreEventAppends DEF StoreEvent
    <3> QED
      BY <3>2, <3>3, <3>4 DEF Log!Commit
  <2>2. ASSUME NEW t \in Thread, StoreFails(t) PROVE Log!Reject(t)
    <3>1. pc[t] = "store" /\ outcome[t] = "pending"
      BY <2>2 DEF StoreFails, LocalsInv, LocalInv, Writing
    <3>2. OutcomeOf(t) = "pending"
      BY <3>1 DEF Accepted
    <3>3. OutcomeBar' = [OutcomeBar EXCEPT ![t] = "failed"]
      BY <2>2 DEF StoreFails, TypeOK, Accepted
    <3> QED
      BY <3>2, <3>3, <2>2 DEF Log!Reject, StoreFails
  <2>3. ASSUME NEW t \in Thread, NEW a \in Aggregate, NEW n \in 0..MaxSequence,
               WriteEvent(t, a, n)
        PROVE  Log!Invoke(t)
    <3>1. pc[t] = "idle" /\ outcome[t] # "pending" /\ OutcomeOf(t) # "pending"
      BY <2>3 DEF WriteEvent, LocalsInv, LocalInv, Writing, Accepted
    <3>2. OutcomeBar' = [OutcomeBar EXCEPT ![t] = "pending"]
      BY <2>3 DEF WriteEvent, TypeOK, Accepted
    <3>3. /\ arg'[t] = [AggregateID |-> a, Sequence |-> n, Data |-> t]
          /\ arg' = [arg EXCEPT ![t] = arg'[t]]
          /\ events' = events
      BY <2>3 DEF WriteEvent, TypeOK
    <3>4. arg'[t] \in {e \in Log!Event : e.Data = t}
      BY <3>3, EventStoreAssumption DEF Log!Event
    <3> QED
      BY <3>1, <3>2, <3>3, <3>4 DEF Log!Invoke
  <2> HIDE DEF Inv
  <2>4. CASE /\ \A t \in Thread : ~StoreEvent(t) /\ ~StoreFails(t)
             /\ \A t \in Thread, a \in Aggregate, n \in 0..MaxSequence : ~WriteEvent(t, a, n)
    <3>1. UNCHANGED <<events, arg, OutcomeBar>>
      BY <2>4, OtherStepsStutter
    <3> QED
      BY <3>1 DEF Log!logVars
  <2> QED
    BY <2>1, <2>2, <2>3, <2>4 DEF Log!LogNext
<1> QED
  BY <1>1, <1>2, SpecInv, PTL DEF Spec, ImplementsAppendLog, Log!LogSpec

-----------------------------------------------------------------------------
(* What subscribers receive                                                 *)

\* The very event is in its aggregate's log.
InLog(e) ==
    /\ e.Sequence \in DOMAIN events[e.AggregateID]
    /\ events[e.AggregateID][e.Sequence] = e

\* Goroutine t has stored its event and not yet tried the channel of s.
ToSend(t, s) == pc[t] \in Accepted /\ (pc[t] = "send" => s \in targets[t])

\* A goroutine writes events of its own.
OwnInv == \A t \in Thread : pc[t] \in Writing => arg[t].Data = t

\* What is still to be sent to a channel is not there yet.
FreshInv ==
    \A t \in Thread, s \in Subscriber :
        ToSend(t, s) => \A i \in 1..Len(channels[s]) : channels[s][i] # arg[t]

DeliveryInv == OwnInv /\ FreshInv /\ DeliveredOnceStored

-----------------------------------------------------------------------------

(* What a channel holds is a sequence of events.                             *)
LEMMA ChannelTypes ==
    ASSUME TypeOK, NEW s \in Subscriber
    PROVE  /\ channels[s] \in Seq(Event)
           /\ Len(channels[s]) \in Nat
           /\ \A i \in 1..Len(channels[s]) : channels[s][i] \in Event
BY LenProperties, ElementOfSeq DEF TypeOK

(* What is in a log is of that log's length, and stays.                      *)
LEMMA InLogStays ==
    ASSUME Inv, [Next]_vars, NEW e \in Event, InLog(e)
    PROVE  InLog(e)' /\ e.Sequence <= Len(events[e.AggregateID])
<1>1. e.AggregateID \in Aggregate
  BY DEF Event
<1>2. events[e.AggregateID] \in Seq(Event) /\ events'[e.AggregateID] \in Seq(Event)
  BY <1>1, TypeStep DEF Inv, TypeOK
<1>3. /\ DOMAIN events[e.AggregateID] = 1..Len(events[e.AggregateID])
      /\ DOMAIN events'[e.AggregateID] = 1..Len(events'[e.AggregateID])
      /\ Len(events[e.AggregateID]) \in Nat /\ Len(events'[e.AggregateID]) \in Nat
  BY <1>2, LenProperties
<1>4. /\ Len(events[e.AggregateID]) <= Len(events'[e.AggregateID])
      /\ \A i \in 1..Len(events[e.AggregateID]) :
            events'[e.AggregateID][i] = events[e.AggregateID][i]
  BY <1>1, LogStep
<1> QED
  BY <1>3, <1>4 DEF InLog

(* An event of a goroutine that has yet to send it was chosen by itself and  *)
(* is still to be sent because it was before, or is only now stored.         *)
LEMMA ToSendStep ==
    ASSUME Inv, [Next]_vars, NEW t \in Thread, NEW s \in Subscriber, ToSend(t, s)'
    PROVE  /\ arg'[t] = arg[t]
           /\ pc[t] \in Writing
           /\ ToSend(t, s) \/ StoreEvent(t)
<1>0. TypeOK
  BY DEF Inv
<1> DEFINE Kept == arg'[t] = arg[t] /\ pc[t] \in Writing /\ (ToSend(t, s) \/ StoreEvent(t))
<1>1. ASSUME NEW u \in Thread,
             \/ StoreEvent(u) \/ StoreFails(u) \/ UpdateActor(u) \/ CopyActor(u)
             \/ WriteSnapshot(u) \/ Broadcast(u) \/ WriteReturns(u)
             \/ LoadSequence(u) \/ PublishActor(u)
      PROVE  Kept
  <2>1. CASE u # t
    BY <1>0, <1>1, <2>1
       DEF StoreEvent, StoreFails, UpdateActor, CopyActor, WriteSnapshot, Broadcast, WriteReturns,
           LoadSequence, PublishActor, Goto, ToSend, Writing, Accepted, TypeOK
  <2>2. CASE u = t
    BY <1>0, <1>1, <2>2
       DEF StoreEvent, StoreFails, UpdateActor, CopyActor, WriteSnapshot, Broadcast, WriteReturns,
           LoadSequence, PublishActor, Goto, ToSend, Writing, Accepted, TypeOK
  <2> QED
    BY <2>1, <2>2
<1>2. ASSUME NEW u \in Thread, NEW r \in Subscriber, Send(u, r) PROVE Kept
  BY <1>0, <1>2 DEF Send, ToSend, Writing, Accepted, TypeOK
<1>3. ASSUME NEW u \in Thread, NEW a \in Aggregate, NEW n \in 0..MaxSequence, WriteEvent(u, a, n)
      PROVE  Kept
  BY <1>0, <1>3 DEF WriteEvent, Goto, ToSend, Writing, Accepted, TypeOK
<1>4. ASSUME NEW u \in Thread, NEW a \in Aggregate, LookupMisses(u, a) PROVE Kept
  BY <1>0, <1>4 DEF LookupMisses, Goto, ToSend, Writing, Accepted, TypeOK
<1>5. CASE UNCHANGED localVars
  BY <1>5 DEF localVars, ToSend, Writing
<1>6. CASE Start \/ Stop \/ (\E r \in Subscriber : Subscribe(r) \/ Unsubscribe(r) \/ Receive(r))
           \/ UNCHANGED vars
  <2>1. UNCHANGED localVars
    BY <1>6 DEF Start, Stop, Subscribe, Unsubscribe, Receive, vars
  <2> QED
    BY <1>5, <2>1
<1> QED
  BY <1>1, <1>2, <1>3, <1>4, <1>6, StepCases

(* What a step does to the channel of s: nothing, or it is emptied, loses    *)
(* its first event, or gets one more from a goroutine that then has sent it. *)
LEMMA ChannelStep ==
    ASSUME Inv, [Next]_vars, NEW s \in Subscriber
    PROVE  \/ channels'[s] = channels[s]
           \/ channels'[s] = <<>>
           \/ channels[s] # <<>> /\ channels'[s] = Tail(channels[s])
           \/ \E t \in Thread : /\ ToSend(t, s) /\ ~ToSend(t, s)' /\ arg' = arg
                                /\ channels'[s] = Append(channels[s], arg[t])
<1>0. TypeOK
  BY DEF Inv
<1> DEFINE Changed == \/ channels'[s] = channels[s]
                      \/ channels'[s] = <<>>
                      \/ channels[s] # <<>> /\ channels'[s] = Tail(channels[s])
                      \/ \E t \in Thread :
                            /\ ToSend(t, s) /\ ~ToSend(t, s)' /\ arg' = arg
                            /\ channels'[s] = Append(channels[s], arg[t])
<1>1. ASSUME NEW t \in Thread, NEW r \in Subscriber, Send(t, r) PROVE Changed
  <2>1. CASE r = s /\ channels' # channels
    <3>1. ToSend(t, s) /\ ~ToSend(t, s)' /\ arg' = arg
      BY <1>0, <1>1, <2>1 DEF Send, ToSend, Accepted, TypeOK
    <3>2. channels'[s] = Append(channels[s], arg[t])
      BY <1>0, <1>1, <2>1 DEF Send, Deliver, TypeOK
    <3> QED
      BY <3>1, <3>2
  <2>2. CASE r # s \/ channels' = channels
    BY <1>0, <1>1, <2>2 DEF Send, Deliver, TypeOK
  <2> QED
    BY <2>1, <2>2
<1>2. ASSUME NEW r \in Subscriber, Subscribe(r) \/ Receive(r) PROVE Changed
  BY <1>0, <1>2 DEF Subscribe, Receive, TypeOK
<1>3. ASSUME NEW t \in Thread,
             \/ StoreEvent(t) \/ StoreFails(t) \/ UpdateActor(t) \/ CopyActor(t)
             \/ WriteSnapshot(t) \/ Broadcast(t) \/ WriteReturns(t)
             \/ LoadSequence(t) \/ PublishActor(t)
      PROVE  channels' = channels
  BY <1>3 DEF StoreEvent, StoreFails, UpdateActor, CopyActor, WriteSnapshot, Broadcast,
              WriteReturns, LoadSequence, PublishActor, channelVars
<1>4. ASSUME NEW t \in Thread, NEW a \in Aggregate, NEW n \in 0..MaxSequence,
             WriteEvent(t, a, n) \/ LookupMisses(t, a)
      PROVE  channels' = channels
  BY <1>4 DEF WriteEvent, LookupMisses, channelVars
<1>5. ASSUME NEW t \in Thread, NEW a \in Aggregate, LookupMisses(t, a) PROVE channels' = channels
  BY <1>5 DEF LookupMisses, channelVars
<1>6. CASE Start \/ Stop \/ (\E r \in Subscriber : Unsubscribe(r)) \/ UNCHANGED vars
  BY <1>6 DEF Start, Stop, Unsubscribe, vars, channelVars
<1> QED
  BY <1>1, <1>2, <1>3, <1>4, <1>5, <1>6, StepCases

(* A goroutine puts its own name on the event it is asked to write.          *)
LEMMA OwnStep == ASSUME Inv, OwnInv, [Next]_vars PROVE OwnInv'
<1>0. TypeOK
  BY DEF Inv
<1> SUFFICES ASSUME NEW t \in Thread, pc'[t] \in Writing PROVE arg'[t].Data = t
  BY DEF OwnInv
<1>1. ASSUME NEW u \in Thread, NEW a \in Aggregate, NEW n \in 0..MaxSequence, WriteEvent(u, a, n)
      PROVE  arg'[t].Data = t
  <2>1. CASE u = t
    BY <1>0, <1>1, <2>1 DEF WriteEvent, TypeOK
  <2>2. CASE u # t
    BY <1>0, <1>1, <2>2 DEF WriteEvent, Goto, TypeOK, OwnInv
  <2> QED
    BY <2>1, <2>2
<1>2. ASSUME NEW u \in Thread,
             \/ StoreEvent(u) \/ StoreFails(u) \/ UpdateActor(u) \/ CopyActor(u)
             \/ WriteSnapshot(u) \/ Broadcast(u) \/ WriteReturns(u)
             \/ LoadSequence(u) \/ PublishActor(u)
      PROVE  arg' = arg /\ pc[t] \in Writing
  BY <1>0, <1>2
     DEF StoreEvent, StoreFails, UpdateActor, CopyActor, WriteSnapshot, Broadcast, WriteReturns,
         LoadSequence, PublishActor, Goto, Writing, Accepted, TypeOK
<1>3. ASSUME NEW u \in Thread, NEW a \in Aggregate, LookupMisses(u, a)
      PROVE  arg' = arg /\ pc[t] \in Writing
  BY <1>0, <1>3 DEF LookupMisses, Goto, Writing, Accepted, TypeOK
<1>4. ASSUME NEW u \in Thread, NEW s \in Subscriber, Send(u, s) PROVE arg' = arg /\ pc' = pc
  BY <1>4 DEF Send
<1>5. CASE Start \/ Stop \/ (\E r \in Subscriber : Subscribe(r) \/ Unsubscribe(r) \/ Receive(r))
           \/ UNCHANGED vars
  BY <1>5 DEF Start, Stop, Subscribe, Unsubscribe, Receive, vars, localVars, OwnInv
<1> QED
  BY <1>1, <1>2, <1>3, <1>4, <1>5, StepCases DEF OwnInv

(* An event that the storage accepts now is in no channel; one that is still *)
(* to be sent was in none, and what a channel gets meanwhile is another      *)
(* goroutine's.                                                              *)
LEMMA FreshStep == ASSUME Inv, DeliveryInv, [Next]_vars PROVE FreshInv'
<1>0. TypeOK /\ OwnInv /\ FreshInv /\ DeliveredOnceStored
  BY DEF Inv, DeliveryInv
<1> SUFFICES ASSUME NEW t \in Thread, NEW s \in Subscriber, ToSend(t, s)',
                    NEW i \in 1..Len(channels'[s])
             PROVE  channels'[s][i] # arg'[t]
  BY DEF FreshInv
<1>1. /\ arg'[t] = arg[t]
      /\ pc[t] \in Writing
      /\ ToSend(t, s) \/ StoreEvent(t)
  BY ToSendStep
<1>2. /\ channels[s] \in Seq(Event)
      /\ Len(channels[s]) \in Nat
      /\ \A j \in 1..Len(channels[s]) : channels[s][j] \in Event
  BY <1>0, ChannelTypes
<1>3. CASE StoreEvent(t)
  <2>1. channels' = channels
    BY <1>3 DEF StoreEvent, channelVars
  <2>2. arg[t].Sequence = Len(events[arg[t].AggregateID]) + 1 /\ arg[t] \in Event
    BY <1>3, StoreEventAppends
  <2>3. channels[s][i] \in Event /\ InLog(channels[s][i])
    BY <1>0, <1>2, <2>1 DEF DeliveredOnceStored, InLog
  <2>4. channels[s][i].Sequence <= Len(events[channels[s][i].AggregateID])
    BY <2>3, InLogStays
  <2>5. Len(events[arg[t].AggregateID]) \in Nat
    BY <1>0, <2>2, LenProperties DEF TypeOK, Event
  <2> QED
    BY <1>1, <2>1, <2>2, <2>4, <2>5
<1>4. CASE ToSend(t, s)
  <2>1. \A j \in 1..Len(channels[s]) : channels[s][j] # arg[t]
    BY <1>0, <1>4 DEF FreshInv
  <2>2. CASE channels'[s] = channels[s]
    BY <1>1, <2>1, <2>2
  <2>3. CASE channels'[s] = <<>>
    BY <2>3
  <2>4. CASE channels[s] # <<>> /\ channels'[s] = Tail(channels[s])
    <3>1. Len(channels'[s]) = Len(channels[s]) - 1 /\ channels'[s][i] = channels[s][i + 1]
      BY <1>2, <2>4, HeadTailProperties
    <3> QED
      BY <1>1, <1>2, <2>1, <3>1
  <2>5. ASSUME NEW u \in Thread, ToSend(u, s), ~ToSend(u, s)', arg' = arg,
               channels'[s] = Append(channels[s], arg[u])
        PROVE  channels'[s][i] # arg'[t]
    <3>1. u # t
      BY <2>5
    <3>2. pc[u] \in Writing /\ arg[u] \in Event
      BY <2>5 DEF ToSend, Writing, Inv, LocalsInv, LocalInv
    <3>3. arg[u].Data = u /\ arg[t].Data = t
      BY <1>0, <1>1, <3>2 DEF OwnInv
    <3>4. /\ Len(channels'[s]) = Len(channels[s]) + 1
          /\ \A j \in 1..Len(channels[s]) : channels'[s][j] = channels[s][j]
          /\ channels'[s][Len(channels[s]) + 1] = arg[u]
      BY <1>2, <2>5, <3>2, AppendProperties
    <3> QED
      BY <1>1, <1>2, <2>1, <3>1, <3>3, <3>4
  <2> QED
    BY <2>2, <2>3, <2>4, <2>5, ChannelStep
<1> QED
  BY <1>1, <1>3, <1>4

(* So no channel holds an event twice, or one that is not in the log.        *)
LEMMA DeliveredStep == ASSUME Inv, DeliveryInv, [Next]_vars PROVE DeliveredOnceStored'
<1>0. TypeOK /\ FreshInv /\ DeliveredOnceStored
  BY DEF Inv, DeliveryInv
<1> SUFFICES ASSUME NEW s \in Subscriber, NEW i \in 1..Len(channels'[s])
             PROVE  /\ InLog(channels[s][i])'
                    /\ \A j \in 1..Len(channels'[s]) : channels'[s][j] = channels'[s][i] => j = i
  BY DEF DeliveredOnceStored, InLog
<1>1. /\ channels[s] \in Seq(Event)
      /\ Len(channels[s]) \in Nat
      /\ \A j \in 1..Len(channels[s]) : channels[s][j] \in Event
  BY <1>0, ChannelTypes
<1>2. /\ \A j \in 1..Len(channels[s]) : InLog(channels[s][j])
      /\ \A j, k \in 1..Len(channels[s]) : channels[s][k] = channels[s][j] => k = j
  BY <1>0 DEF DeliveredOnceStored, InLog
<1>3. ASSUME NEW e \in Event, InLog(e), channels'[s][i] = e PROVE InLog(channels[s][i])'
  <2>1. InLog(e)'
    BY <1>3, InLogStays
  <2> QED
    BY <1>3, <2>1 DEF InLog
<1>4. CASE channels'[s] = channels[s]
  BY <1>1, <1>2, <1>3, <1>4
<1>5. CASE channels'[s] = <<>>
  BY <1>5
<1>6. CASE channels[s] # <<>> /\ channels'[s] = Tail(channels[s])
  <2>1. /\ Len(channels'[s]) = Len(channels[s]) - 1
        /\ \A j \in 1..Len(channels'[s]) : channels'[s][j] = channels[s][j + 1]
    BY <1>1, <1>6, HeadTailProperties
  <2>2. \A j \in 1..Len(channels'[s]) : j + 1 \in 1..Len(channels[s])
    BY <1>1, <2>1
  <2>3. InLog(channels[s][i])'
    BY <1>1, <1>2, <1>3, <2>1, <2>2
  <2>4. ASSUME NEW j \in 1..Len(channels'[s]), channels'[s][j] = channels'[s][i] PROVE j = i
    <3>1. channels[s][j + 1] = channels[s][i + 1]
      BY <2>1, <2>4
    <3>2. j + 1 = i + 1
      BY <1>2, <2>2, <3>1
    <3> QED
      BY <1>1, <2>1, <3>2
  <2> QED
    BY <2>3, <2>4
<1>7. ASSUME NEW t \in Thread, ToSend(t, s), channels'[s] = Append(channels[s], arg[t])
      PROVE  /\ InLog(channels[s][i])'
             /\ \A j \in 1..Len(channels'[s]) : channels'[s][j] = channels'[s][i] => j = i
  <2>1. arg[t] \in Event /\ InLog(arg[t])
    BY <1>7 DEF ToSend, Inv, LocalsInv, LocalInv, Writing, AcknowledgedIsStored, Stored, InLog
  <2>2. \A j \in 1..Len(channels[s]) : channels[s][j] # arg[t]
    BY <1>0, <1>7 DEF FreshInv
  <2>3. /\ Len(channels'[s]) = Len(channels[s]) + 1
        /\ \A j \in 1..Len(channels[s]) : channels'[s][j] = channels[s][j]
        /\ channels'[s][Len(channels[s]) + 1] = arg[t]
    BY <1>1, <1>7, <2>1, AppendProperties
  <2>4. CASE i = Len(channels[s]) + 1
    BY <1>1, <1>3, <2>1, <2>2, <2>3, <2>4
  <2>5. CASE i \in 1..Len(channels[s])
    <3>1. InLog(channels[s][i])'
      BY <1>1, <1>2, <1>3, <2>3, <2>5
    <3> QED
      BY <1>1, <1>2, <2>2, <2>3, <2>5, <3>1
  <2> QED
    BY <1>1, <2>3, <2>4, <2>5
<1> QED
  BY <1>4, <1>5, <1>6, <1>7, ChannelStep

-----------------------------------------------------------------------------

(* Both invariants hold throughout.                                          *)
LEMMA DeliverySpecInv == Spec => [](Inv /\ DeliveryInv)
<1>1. Init => DeliveryInv
  <2> SUFFICES ASSUME Init PROVE DeliveryInv
    OBVIOUS
  <2> QED
    BY DEF Init, DeliveryInv, OwnInv, FreshInv, ToSend, DeliveredOnceStored, Writing, Accepted
<1>2. Inv /\ DeliveryInv /\ [Next]_vars => (Inv /\ DeliveryInv)'
  BY NextInv, OwnStep, FreshStep, DeliveredStep DEF DeliveryInv
<1> QED
  BY InitInv, <1>1, <1>2, PTL DEF Spec

(* Whatever order goroutines broadcast in, and however subscribers come and  *)
(* go, a channel never holds an event twice or one that is not stored.       *)
THEOREM EachDeliveredOnce == Spec => []DeliveredOnceStored
<1>1. DeliveryInv => DeliveredOnceStored
  BY DEF DeliveryInv
<1> QED
  BY <1>1, DeliverySpecInv, PTL

-----------------------------------------------------------------------------
(* One writer per aggregate                                                  *)

\* Each aggregate is written by one goroutine at most, and nobody asks for
\* actor states: what the code asks of its callers without saying so.
OneWriter ==
    /\ \A t, u \in Thread, a \in Aggregate :
          <<t, a>> \in MayWrite /\ <<u, a>> \in MayWrite => t = u
    /\ MayQuery = {}

\* Goroutines keep to what they may do.
ScopeInv ==
    \A t \in Thread :
        /\ pc[t] \in Writing => <<t, arg[t].AggregateID>> \in MayWrite
        /\ pc[t] \notin {"load", "publish"}

\* The event under way is its aggregate's last, and once the cache has it, it
\* is the cached one and the one copied for the snapshot.
LastInv ==
    \A t \in Thread :
        /\ pc[t] \in Accepted => arg[t].Sequence = sequences[arg[t].AggregateID]
        /\ pc[t] \in {"snapshot", "writeSnapshot"} =>
              actors[arg[t].AggregateID] = arg[t].Sequence
        /\ pc[t] = "writeSnapshot" => state[t].LastSequence = arg[t].Sequence

SoloInv == ScopeInv /\ LastInv /\ CacheCurrent /\ SnapshotFaithful /\ DeliveredInOrder

(* What Next comes to with one writer.                                       *)
LEMMA SoloCases ==
    ASSUME OneWriter, [Next]_vars
    PROVE  \/ \E t \in Thread : \/ StoreEvent(t) \/ StoreFails(t) \/ UpdateActor(t)
                                \/ CopyActor(t) \/ WriteSnapshot(t) \/ Broadcast(t)
                                \/ \E s \in Subscriber : Send(t, s)
                                \/ WriteReturns(t) \/ LoadSequence(t) \/ PublishActor(t)
           \/ \E t \in Thread, a \in Aggregate, n \in 0..MaxSequence :
                 <<t, a>> \in MayWrite /\ WriteEvent(t, a, n)
           \/ UNCHANGED <<storageVars, actors, localVars>>
BY DEF OneWriter, Next, Continue, Start, Stop, Subscribe, Unsubscribe, Receive, vars

(* Two goroutines that write, write different aggregates.                    *)
LEMMA Apart ==
    ASSUME OneWriter, ScopeInv, TypeOK, LocalsInv,
           NEW t \in Thread, NEW u \in Thread, t # u, pc[t] \in Writing, pc[u] \in Writing
    PROVE  arg[t].AggregateID # arg[u].AggregateID
<1>1. arg[t].AggregateID \in Aggregate /\ arg[u].AggregateID \in Aggregate
  BY DEF LocalsInv, LocalInv, Event
<1> QED
  BY <1>1 DEF OneWriter, ScopeInv

(* No goroutine leaves its aggregates or asks for a state.                   *)
LEMMA ScopeStep == ASSUME OneWriter, Inv, ScopeInv, [Next]_vars PROVE ScopeInv'
<1>0. TypeOK
  BY DEF Inv
<1> SUFFICES ASSUME NEW u \in Thread
             PROVE  /\ pc'[u] \in Writing => <<u, arg'[u].AggregateID>> \in MayWrite
                    /\ pc'[u] \notin {"load", "publish"}
  BY DEF ScopeInv
<1>1. ASSUME NEW t \in Thread, NEW a \in Aggregate, NEW n \in 0..MaxSequence,
             <<t, a>> \in MayWrite, WriteEvent(t, a, n)
      PROVE  /\ pc'[u] \in Writing => <<u, arg'[u].AggregateID>> \in MayWrite
             /\ pc'[u] \notin {"load", "publish"}
  <2>1. CASE u = t
    BY <1>0, <1>1, <2>1 DEF WriteEvent, Goto, TypeOK
  <2>2. CASE u # t
    BY <1>0, <1>1, <2>2 DEF WriteEvent, Goto, TypeOK, ScopeInv
  <2> QED
    BY <2>1, <2>2
<1>2. ASSUME NEW t \in Thread,
             \/ StoreEvent(t) \/ StoreFails(t) \/ UpdateActor(t) \/ CopyActor(t)
             \/ WriteSnapshot(t) \/ Broadcast(t) \/ WriteReturns(t)
             \/ LoadSequence(t) \/ PublishActor(t)
      PROVE  /\ arg' = arg
             /\ pc'[u] \in Writing => pc[u] \in Writing
             /\ pc'[u] \notin {"load", "publish"}
  BY <1>0, <1>2
     DEF StoreEvent, StoreFails, UpdateActor, CopyActor, WriteSnapshot, Broadcast, WriteReturns,
         LoadSequence, PublishActor, Goto, Writing, Accepted, TypeOK, ScopeInv
<1>3. ASSUME NEW t \in Thread, NEW s \in Subscriber, Send(t, s) PROVE arg' = arg /\ pc' = pc
  BY <1>3 DEF Send
<1>4. CASE UNCHANGED localVars
  BY <1>4 DEF localVars, ScopeInv
<1> QED
  BY <1>1, <1>2, <1>3, <1>4, SoloCases DEF ScopeInv

(* The writer of an aggregate is the only one to move its last sequence and  *)
(* its cached state.                                                         *)
LEMMA LastStep == ASSUME OneWriter, Inv, ScopeInv, LastInv, [Next]_vars PROVE LastInv'
<1>0. TypeOK /\ LocalsInv
  BY DEF Inv
<1> DEFINE Last(u) ==
             /\ pc[u] \in Accepted => arg[u].Sequence = sequences[arg[u].AggregateID]
             /\ pc[u] \in {"snapshot", "writeSnapshot"} =>
                   actors[arg[u].AggregateID] = arg[u].Sequence
             /\ pc[u] = "writeSnapshot" => state[u].LastSequence = arg[u].Sequence
<1> SUFFICES ASSUME NEW u \in Thread PROVE Last(u)'
  BY DEF LastInv
<1>1. Last(u)
  BY DEF LastInv
<1>2. \A t \in Thread : pc[t] \in Writing => arg[t] \in Event /\ arg[t].AggregateID \in Aggregate
  BY <1>0 DEF LocalsInv, LocalInv, Event
<1>3. ASSUME NEW t \in Thread, StoreEvent(t) PROVE Last(u)'
  <2>1. pc[t] = "store" /\ pc' = [pc EXCEPT ![t] = "update"] /\ arg' = arg
        /\ actors' = actors /\ state' = state
    BY <1>3 DEF StoreEvent, Goto
  <2>2. sequences' = [sequences EXCEPT ![arg[t].AggregateID] = arg[t].Sequence]
    BY <1>3 DEF StoreEvent
  <2>3. arg[t].AggregateID \in Aggregate
    BY <1>2, <2>1 DEF Writing
  <2>4. CASE u = t
    BY <1>0, <2>1, <2>2, <2>3, <2>4 DEF TypeOK
  <2>5. CASE u # t
    <3>1. pc[u] \in Accepted => arg[u].AggregateID # arg[t].AggregateID
      BY <1>0, <2>1, <2>5, Apart DEF Writing
    <3> QED
      BY <1>0, <1>1, <1>2, <2>1, <2>2, <2>5, <3>1 DEF TypeOK, Writing
  <2> QED
    BY <2>4, <2>5
<1>4. ASSUME NEW t \in Thread, UpdateActor(t) PROVE Last(u)'
  <2>1. pc[t] = "update" /\ arg' = arg /\ sequences' = sequences /\ state' = state
    BY <1>4 DEF UpdateActor, storageVars
  <2>2. /\ actors' = [actors EXCEPT ![arg[t].AggregateID] = arg[t].Sequence]
        /\ pc' = [pc EXCEPT ![t] = IF SnapshotDue(arg[t]) THEN "snapshot" ELSE "broadcast"]
    BY <1>4 DEF UpdateActor, Goto
  <2>3. arg[t].AggregateID \in Aggregate
    BY <1>2, <2>1 DEF Writing, Accepted
  <2>4. CASE u = t
    BY <1>0, <1>1, <2>1, <2>2, <2>3, <2>4 DEF TypeOK, Accepted
  <2>5. CASE u # t
    <3>1. pc[u] \in Accepted => arg[u].AggregateID # arg[t].AggregateID
      BY <1>0, <2>1, <2>5, Apart DEF Writing, Accepted
    <3> QED
      BY <1>0, <1>1, <1>2, <2>1, <2>2, <2>5, <3>1 DEF TypeOK, Writing, Accepted
  <2> QED
    BY <2>4, <2>5
<1>5. ASSUME NEW t \in Thread, CopyActor(t) PROVE Last(u)'
  <2>1. pc[t] = "snapshot" /\ arg' = arg /\ sequences' = sequences /\ actors' = actors
    BY <1>5 DEF CopyActor, storageVars
  <2>2. /\ state' = [state EXCEPT ![t] = [AggregateID |-> arg[t].AggregateID,
                                          LastSequence |-> actors[arg[t].AggregateID]]]
        /\ pc' = [pc EXCEPT ![t] = "writeSnapshot"]
    BY <1>5 DEF CopyActor, Goto
  <2> QED
    BY <1>0, <1>1, <2>1, <2>2 DEF TypeOK, Accepted
<1>6. ASSUME NEW t \in Thread,
             StoreFails(t) \/ WriteSnapshot(t) \/ Broadcast(t) \/ WriteReturns(t)
      PROVE  Last(u)'
  <2>1. arg' = arg /\ sequences' = sequences /\ actors' = actors
    BY <1>6 DEF StoreFails, WriteSnapshot, Broadcast, WriteReturns, storageVars
  <2>2. /\ pc'[u] \in Accepted => pc[u] \in Accepted
        /\ pc'[u] \in {"snapshot", "writeSnapshot"} => pc[u] = pc'[u] /\ state'[u] = state[u]
    BY <1>0, <1>6 DEF StoreFails, WriteSnapshot, Broadcast, WriteReturns, Goto, TypeOK, Accepted
  <2> QED
    BY <1>1, <2>1, <2>2
<1>7. ASSUME NEW t \in Thread, LoadSequence(t) \/ PublishActor(t) PROVE FALSE
  BY <1>7 DEF LoadSequence, PublishActor, ScopeInv
<1>8. ASSUME NEW t \in Thread, NEW s \in Subscriber, Send(t, s) PROVE Last(u)'
  BY <1>1, <1>8 DEF Send, storageVars
<1>9. ASSUME NEW t \in Thread, NEW a \in Aggregate, NEW n \in 0..MaxSequence, WriteEvent(t, a, n)
      PROVE  Last(u)'
  BY <1>0, <1>1, <1>9 DEF WriteEvent, Goto, TypeOK, Accepted, storageVars
<1>10. CASE UNCHANGED <<storageVars, actors, localVars>>
  BY <1>1, <1>10 DEF storageVars, localVars
<1> QED
  BY <1>3, <1>4, <1>5, <1>6, <1>7, <1>8, <1>9, <1>10, SoloCases

(* The cache is behind the log only while the writer is between the two.     *)
LEMMA CurrentStep == ASSUME OneWriter, Inv, SoloInv, [Next]_vars PROVE CacheCurrent'
<1>0. TypeOK /\ LocalsInv /\ ScopeInv /\ LastInv
  BY DEF Inv, SoloInv
<1> DEFINE Current(a) == sequences[a] = IF actors[a] = Absent THEN 0 ELSE actors[a]
<1> SUFFICES ASSUME NEW a \in Aggregate, Settled(a)' PROVE Current(a)'
  BY DEF CacheCurrent
<1>1. Settled(a) => Current(a)
  BY DEF SoloInv, CacheCurrent
<1>2. \A u \in Thread : pc'[u] = "update" => arg'[u].AggregateID # a
  BY DEF Settled
<1>3. ASSUME NEW t \in Thread, StoreEvent(t) PROVE Current(a)'
  <2>1. arg' = arg /\ actors' = actors /\ pc[t] = "store" /\ pc' = [pc EXCEPT ![t] = "update"]
    BY <1>3 DEF StoreEvent, Goto
  <2>2. arg[t].AggregateID # a
    BY <1>0, <1>2, <2>1 DEF TypeOK
  <2>3. Settled(a)
    BY <1>0, <1>2, <2>1 DEF Settled, ScopeInv, TypeOK
  <2>4. sequences'[a] = sequences[a]
    BY <1>0, <1>3, <2>2 DEF StoreEvent, TypeOK
  <2> QED
    BY <1>1, <2>1, <2>3, <2>4
<1>4. ASSUME NEW t \in Thread, UpdateActor(t) PROVE Current(a)'
  <2>1. arg' = arg /\ sequences' = sequences /\ pc[t] = "update"
    BY <1>4 DEF UpdateActor, storageVars
  <2>2. actors' = [actors EXCEPT ![arg[t].AggregateID] = arg[t].Sequence]
    BY <1>4 DEF UpdateActor
  <2>3. CASE arg[t].AggregateID = a
    <3>1. arg[t].Sequence = sequences[a] /\ sequences[a] \in Nat
      BY <1>0, <2>1, <2>3 DEF LastInv, Accepted, TypeOK
    <3>2. actors'[a] = sequences'[a]
      BY <1>0, <2>1, <2>2, <2>3, <3>1 DEF TypeOK
    <3> QED
      BY <2>1, <3>1, <3>2 DEF Absent
  <2>4. CASE arg[t].AggregateID # a
    <3>1. \A u \in Thread : u # t => pc'[u] = pc[u]
      BY <1>0, <1>4 DEF UpdateActor, Goto, TypeOK
    <3>2. Settled(a)
      BY <1>0, <1>2, <2>1, <2>4, <3>1 DEF Settled, ScopeInv
    <3>3. actors'[a] = actors[a]
      BY <1>0, <2>2, <2>4 DEF TypeOK
    <3> QED
      BY <1>1, <2>1, <3>2, <3>3
  <2> QED
    BY <2>3, <2>4
<1>5. ASSUME NEW t \in Thread,
             \/ StoreFails(t) \/ CopyActor(t) \/ WriteSnapshot(t) \/ Broadcast(t)
             \/ WriteReturns(t) \/ (\E s \in Subscriber : Send(t, s))
      PROVE  Current(a)'
  <2>1. arg' = arg /\ sequences' = sequences /\ actors' = actors
    BY <1>5 DEF StoreFails, CopyActor, WriteSnapshot, Broadcast, WriteReturns, Send, storageVars
  <2>2. \A u \in Thread : pc[u] = "update" => pc'[u] = "update"
    BY <1>0, <1>5 DEF StoreFails, CopyActor, WriteSnapshot, Broadcast, WriteReturns, Send, Goto,
                      TypeOK
  <2>3. Settled(a)
    BY <1>0, <1>2, <2>1, <2>2 DEF Settled, ScopeInv
  <2> QED
    BY <1>1, <2>1, <2>3
<1>6. ASSUME NEW t \in Thread, NEW b \in Aggregate, NEW n \in 0..MaxSequence, WriteEvent(t, b, n)
      PROVE  Current(a)'
  <2>1. sequences' = sequences /\ actors' = actors
    BY <1>6 DEF WriteEvent, storageVars
  <2>2. \A u \in Thread : pc[u] = "update" => pc'[u] = "update" /\ arg'[u] = arg[u]
    BY <1>0, <1>6 DEF WriteEvent, Goto, TypeOK
  <2>3. Settled(a)
    BY <1>0, <1>2, <2>2 DEF Settled, ScopeInv
  <2> QED
    BY <1>1, <2>1, <2>3
<1>7. ASSUME NEW t \in Thread, LoadSequence(t) \/ PublishActor(t) PROVE FALSE
  BY <1>0, <1>7 DEF LoadSequence, PublishActor, ScopeInv
<1>8. CASE UNCHANGED <<storageVars, actors, localVars>>
  <2>1. Settled(a)
    BY <1>0, <1>2, <1>8 DEF Settled, ScopeInv, localVars
  <2> QED
    BY <1>1, <1>8, <2>1 DEF storageVars
<1> QED
  BY <1>3, <1>4, <1>5, <1>6, <1>7, <1>8, SoloCases

(* The state that is copied is that of the event the snapshot is made for.   *)
LEMMA SnapshotStep == ASSUME OneWriter, Inv, SoloInv, [Next]_vars PROVE SnapshotFaithful'
<1>0. TypeOK /\ LastInv /\ SnapshotFaithful
  BY DEF Inv, SoloInv
<1>1. ASSUME NEW t \in Thread, WriteSnapshot(t) PROVE SnapshotFaithful'
  BY <1>0, <1>1 DEF WriteSnapshot, LastInv, SnapshotFaithful, TypeOK
<1>2. ASSUME NEW t \in Thread,
             \/ StoreEvent(t) \/ StoreFails(t) \/ UpdateActor(t) \/ CopyActor(t) \/ Broadcast(t)
             \/ WriteReturns(t) \/ LoadSequence(t) \/ PublishActor(t)
             \/ (\E s \in Subscriber : Send(t, s))
      PROVE  snapshots' = snapshots
  BY <1>2 DEF StoreEvent, StoreFails, UpdateActor, CopyActor, Broadcast, WriteReturns,
              LoadSequence, PublishActor, Send, storageVars
<1>3. ASSUME NEW t \in Thread, NEW b \in Aggregate, NEW n \in 0..MaxSequence, WriteEvent(t, b, n)
      PROVE  snapshots' = snapshots
  BY <1>3 DEF WriteEvent, storageVars
<1>4. CASE UNCHANGED <<storageVars, actors, localVars>>
  BY <1>0, <1>4 DEF storageVars, SnapshotFaithful
<1> QED
  BY <1>0, <1>1, <1>2, <1>3, <1>4, SoloCases DEF SnapshotFaithful

(* An event that is sent is its log's last, and all that the channel has of  *)
(* the aggregate is from before it.                                          *)
LEMMA OrderStep ==
    ASSUME OneWriter, Inv, DeliveryInv, SoloInv, [Next]_vars
    PROVE  DeliveredInOrder'
<1>0. TypeOK /\ LastInv /\ DeliveredInOrder /\ FreshInv /\ DeliveredOnceStored
  BY DEF Inv, SoloInv, DeliveryInv
<1> SUFFICES ASSUME NEW s \in Subscriber,
                    NEW i \in 1..Len(channels'[s]), NEW j \in 1..Len(channels'[s]), i < j,
                    channels'[s][i].AggregateID = channels'[s][j].AggregateID
             PROVE  channels'[s][i].Sequence < channels'[s][j].Sequence
  BY DEF DeliveredInOrder
<1>1. /\ channels[s] \in Seq(Event)
      /\ Len(channels[s]) \in Nat
      /\ \A k \in 1..Len(channels[s]) : channels[s][k] \in Event
  BY <1>0, ChannelTypes
<1>2. \A k, l \in 1..Len(channels[s]) :
        k < l /\ channels[s][k].AggregateID = channels[s][l].AggregateID
        => channels[s][k].Sequence < channels[s][l].Sequence
  BY <1>0 DEF DeliveredInOrder
<1>3. CASE channels'[s] = channels[s]
  BY <1>2, <1>3
<1>4. CASE channels'[s] = <<>>
  BY <1>4
<1>5. CASE channels[s] # <<>> /\ channels'[s] = Tail(channels[s])
  <2>1. /\ Len(channels'[s]) = Len(channels[s]) - 1
        /\ channels'[s][i] = channels[s][i + 1] /\ channels'[s][j] = channels[s][j + 1]
    BY <1>1, <1>5, HeadTailProperties
  <2>2. i + 1 \in 1..Len(channels[s]) /\ j + 1 \in 1..Len(channels[s]) /\ i + 1 < j + 1
    BY <1>1, <2>1
  <2> QED
    BY <1>2, <2>1, <2>2
<1>6. ASSUME NEW t \in Thread, ToSend(t, s), channels'[s] = Append(channels[s], arg[t])
      PROVE  channels'[s][i].Sequence < channels'[s][j].Sequence
  <2>1. /\ arg[t] \in Event /\ InLog(arg[t])
        /\ arg[t].Sequence = sequences[arg[t].AggregateID]
    BY <1>0, <1>6 DEF ToSend, Inv, LocalsInv, LocalInv, Writing, AcknowledgedIsStored, Stored,
                      InLog, LastInv
  <2>2. arg[t].AggregateID \in Aggregate /\ arg[t].Sequence \in Nat
    BY <2>1 DEF Event
  <2>3. arg[t].Sequence = Len(events[arg[t].AggregateID])
    BY <2>1, <2>2 DEF Inv, LogGapFree
  <2>4. ASSUME NEW k \in 1..Len(channels[s]), channels[s][k].AggregateID = arg[t].AggregateID
        PROVE  channels[s][k].Sequence < arg[t].Sequence
    <3>1. channels[s][k] \in Event /\ InLog(channels[s][k]) /\ channels[s][k] # arg[t]
      BY <1>0, <1>1, <1>6 DEF FreshInv, DeliveredOnceStored, InLog
    <3>2. channels[s][k].Sequence # arg[t].Sequence
      BY <2>1, <2>4, <3>1 DEF InLog
    <3>3. channels[s][k].Sequence <= Len(events[arg[t].AggregateID])
      BY <2>4, <3>1, InLogStays
    <3>4. channels[s][k].Sequence \in Nat
      BY <3>1 DEF Event
    <3> QED
      BY <2>2, <2>3, <3>2, <3>3, <3>4
  <2>5. /\ Len(channels'[s]) = Len(channels[s]) + 1
        /\ \A k \in 1..Len(channels[s]) : channels'[s][k] = channels[s][k]
        /\ channels'[s][Len(channels[s]) + 1] = arg[t]
    BY <1>1, <1>6, <2>1, AppendProperties
  <2>6. CASE j = Len(channels[s]) + 1
    <3>1. i \in 1..Len(channels[s])
      BY <1>1, <2>6
    <3> QED
      BY <2>4, <2>5, <2>6, <3>1
  <2>7. CASE j \in 1..Len(channels[s])
    <3>1. i \in 1..Len(channels[s])
      BY <1>1, <2>7
    <3> QED
      BY <1>2, <2>5, <2>7, <3>1
  <2> QED
    BY <1>1, <2>5, <2>6, <2>7
<1> QED
  BY <1>3, <1>4, <1>5, <1>6, ChannelStep

(* With one writer per aggregate all of this holds throughout.               *)
LEMMA SoloSpecInv == ASSUME OneWriter PROVE Spec => []SoloInv
<1>1. Init => SoloInv
  <2> SUFFICES ASSUME Init PROVE SoloInv
    OBVIOUS
  <2>1. ScopeInv /\ LastInv
    BY DEF Init, ScopeInv, LastInv, Writing, Accepted
  <2>2. CacheCurrent /\ SnapshotFaithful /\ DeliveredInOrder
    BY DEF Init, CacheCurrent, SnapshotFaithful, DeliveredInOrder, Absent
  <2> QED
    BY <2>1, <2>2 DEF SoloInv
<1>2. Inv /\ DeliveryInv /\ SoloInv /\ [Next]_vars => SoloInv'
  <2> SUFFICES ASSUME Inv, DeliveryInv, SoloInv, [Next]_vars PROVE SoloInv'
    OBVIOUS
  <2>1. ScopeInv' /\ LastInv'
    BY ScopeStep, LastStep DEF SoloInv
  <2>2. CacheCurrent' /\ SnapshotFaithful' /\ DeliveredInOrder'
    BY CurrentStep, SnapshotStep, OrderStep
  <2> QED
    BY <2>1, <2>2 DEF SoloInv
<1> QED
  BY <1>1, <1>2, DeliverySpecInv, PTL DEF Spec

(* With one writer per aggregate GetActorState answers with the last number  *)
(* of the log, whenever that writer is not just between log and cache.       *)
THEOREM CacheStaysCurrent == ASSUME OneWriter PROVE Spec => []CacheCurrent
<1>1. SoloInv => CacheCurrent
  BY DEF SoloInv
<1> QED
  BY <1>1, SoloSpecInv, PTL

(* With one writer per aggregate each subscriber receives an aggregate's     *)
(* events in the order of the log, even those that come after lost ones.     *)
THEOREM DeliveredInLogOrder == ASSUME OneWriter PROVE Spec => []DeliveredInOrder
<1>1. SoloInv => DeliveredInOrder
  BY DEF SoloInv
<1> QED
  BY <1>1, SoloSpecInv, PTL

(* With one writer per aggregate a snapshot holds the state as of the event  *)
(* it is labelled with.                                                      *)
THEOREM SnapshotsFaithful == ASSUME OneWriter PROVE Spec => []SnapshotFaithful
<1>1. SoloInv => SnapshotFaithful
  BY DEF SoloInv
<1> QED
  BY <1>1, SoloSpecInv, PTL

=============================================================================
