------------------------------ MODULE KVStorage ------------------------------
(***************************************************************************)
(* The Go key-value storages of the event store                            *)
(* (impl/go/internal/eventstore/leveldb.go and rocksdb.go, which write     *)
(* events the same way).                                                   *)
(*                                                                         *)
(* The database keeps an event under its aggregate and number (the e: keys)*)
(* and an aggregate's last number under a key of its own (s:), and writes a*)
(* batch of keys atomically.  The storage keeps the last numbers in memory *)
(* too, checks new events against those, and holds no lock from the check  *)
(* to the write and the update of the memory.  A crash of the process loses*)
(* the memory; Open reads it back from the s: keys.                        *)
(*                                                                         *)
(* The events of one aggregate in a batch come in the order of their       *)
(* numbers.  One that comes out of order is refused, as one with a number  *)
(* that is not the next is.  An event's payload is the goroutine that      *)
(* writes it, which tells apart the events that race for a number.         *)
(***************************************************************************)
EXTENDS Integers, FiniteSets

CONSTANTS
    Thread,             \* goroutines calling the storage
    Aggregate,          \* aggregate identifiers
    MayWrite,           \* which goroutine writes which aggregate
    MayBatch,           \* goroutines that call WriteEventsBatch
    MaxSequence,        \* bound: largest sequence number a caller asks for
    MaxBatch,           \* bound: largest number of events in a batch
    NoAggregate

ASSUME KVStorageAssumption ==
    /\ MayWrite \subseteq Thread \X Aggregate
    /\ MayBatch \subseteq Thread
    /\ MaxSequence \in Nat
    /\ MaxBatch \in Nat
    /\ NoAggregate \notin Aggregate

VARIABLES
    open,               \* the database is open
    stored,             \* the events in the database, at most one per e: key
    lastKey,            \* the s: keys, 0 where there is none
    sequences,          \* the storage's sync.Map of last numbers
    pc,                 \* where each goroutine is
    call,               \* the events of its latest call
    todo,               \* the aggregates its batch has still to check
    target,             \* the aggregate its batch is at
    outcome,            \* what its latest call returned
    spoiled             \* history: aggregates of batches that failed too late

diskVars == <<stored, lastKey>>
batchVars == <<todo, target>>
vars == <<open, diskVars, sequences, pc, call, batchVars, outcome, spoiled>>

Event == [AggregateID : Aggregate, Sequence : Nat, Data : Thread]

TypeOK ==
    /\ open \in BOOLEAN
    /\ stored \subseteq Event
    /\ \A d, e \in stored :
          d.AggregateID = e.AggregateID /\ d.Sequence = e.Sequence => d = e
    /\ lastKey \in [Aggregate -> Nat]
    /\ sequences \in [Aggregate -> Nat]
    /\ pc \in [Thread -> {"idle", "check", "put", "remember", "group", "advance", "putBatch"}]
    /\ call \in [Thread -> SUBSET Event]
    /\ todo \in [Thread -> SUBSET Aggregate]
    /\ target \in [Thread -> Aggregate \cup {NoAggregate}]
    /\ outcome \in [Thread -> {"none", "pending", "ok", "failed", "unheard"}]
    /\ spoiled \subseteq Aggregate

\* A new database, not opened yet.
Init ==
    /\ open = FALSE
    /\ stored = {}
    /\ lastKey = [a \in Aggregate |-> 0]
    /\ sequences = [a \in Aggregate |-> 0]
    /\ pc = [t \in Thread |-> "idle"]
    /\ call = [t \in Thread |-> {}]
    /\ todo = [t \in Thread |-> {}]
    /\ target = [t \in Thread |-> NoAggregate]
    /\ outcome = [t \in Thread |-> "none"]
    /\ spoiled = {}

Numbers(E, a) == {e.Sequence : e \in {e \in E : e.AggregateID = a}}

Aggregates(E) == {e.AggregateID : e \in E}

Goto(t, label) == pc' = [pc EXCEPT ![t] = label]

Return(t, result) ==
    /\ outcome' = [outcome EXCEPT ![t] = result]
    /\ Goto(t, "idle")

-----------------------------------------------------------------------------
(* Opening and crashing                                                      *)

\* Mutant: the sequences are not loaded.
OpenForgets ==
    /\ ~open
    /\ open' = TRUE
    /\ sequences' = [a \in Aggregate |-> 0]
    /\ UNCHANGED <<diskVars, pc, call, batchVars, outcome, spoiled>>

\* Open and loadSequences.
Open ==
    /\ ~open
    /\ open' = TRUE
    /\ sequences' = lastKey
    /\ UNCHANGED <<diskVars, pc, call, batchVars, outcome, spoiled>>

\* The aggregates whose number a batch in progress has advanced in memory.
Advanced(t) ==
    IF pc[t] \in {"group", "advance", "putBatch"}
    THEN Aggregates(call[t]) \ todo[t] ELSE {}

\* The process ends anywhere, and with it the calls under way: nobody hears
\* that an event was stored.
Crash ==
    /\ open
    /\ open' = FALSE
    /\ sequences' = [a \in Aggregate |-> 0]
    /\ pc' = [t \in Thread |-> "idle"]
    /\ outcome' = [t \in Thread |-> CASE pc[t] = "idle"     -> outcome[t]
                                      [] pc[t] = "remember" -> "unheard"
                                      [] OTHER              -> "failed"]
    /\ todo' = [t \in Thread |-> {}]
    /\ target' = [t \in Thread |-> NoAggregate]
    /\ spoiled' = spoiled \cup UNION {Advanced(t) : t \in Thread}
    /\ UNCHANGED <<diskVars, call>>

-----------------------------------------------------------------------------
(* The check and the database write                                          *)

\* Mutant: the check lets a group start late.
IsNextOrLater(E, a) ==
    \A n \in Numbers(E, a) : n > sequences[a]

\* The events of E for a carry the numbers after the one in memory
\* (getExpectedSequence, and the comparison in the loop over a group).
IsNext(E, a) ==
    Numbers(E, a) = (sequences[a] + 1) .. (sequences[a] + Cardinality(Numbers(E, a)))

Highest(E, a) == CHOOSE n \in Numbers(E, a) : \A k \in Numbers(E, a) : k <= n

\* Mutant: one write of the s: keys, before the write of the events.
PutKeysOnly(E) ==
    /\ \/ stored' = {e \in stored : \A d \in E : \/ d.AggregateID # e.AggregateID
                                                  \/ d.Sequence # e.Sequence} \cup E
       \/ UNCHANGED stored
    /\ lastKey' = [a \in Aggregate |->
                      IF a \in Aggregates(E) THEN Highest(E, a) ELSE lastKey[a]]

\* Mutant: a batch is begun anew for every aggregate, so only the last counts.
PutLastGroup(E) ==
    \E a \in Aggregates(E) :
        LET F == {e \in E : e.AggregateID = a} IN
        /\ stored' = {e \in stored : \A d \in F : \/ d.AggregateID # e.AggregateID
                                                  \/ d.Sequence # e.Sequence} \cup F
        /\ lastKey' = [lastKey EXCEPT ![a] = Highest(F, a)]

\* db.Write of the events' keys and their aggregates' s: keys, replacing what
\* the keys held.
Put(E) ==
    /\ stored' = {e \in stored : \A d \in E : \/ d.AggregateID # e.AggregateID
                                               \/ d.Sequence # e.Sequence} \cup E
    /\ lastKey' = [a \in Aggregate |->
                      IF a \in Aggregates(E) THEN Highest(E, a) ELSE lastKey[a]]

-----------------------------------------------------------------------------
(* WriteEvent                                                                *)

WriteEvent(t, a, n) ==
    /\ open
    /\ pc[t] = "idle"
    /\ call' = [call EXCEPT ![t] = {[AggregateID |-> a, Sequence |-> n, Data |-> t]}]
    /\ outcome' = [outcome EXCEPT ![t] = "pending"]
    /\ Goto(t, "check")
    /\ UNCHANGED <<open, diskVars, sequences, batchVars, spoiled>>

OwnAggregate(t) == CHOOSE a \in Aggregate : a \in Aggregates(call[t])

CheckPasses(t) ==
    /\ pc[t] = "check"
    /\ IsNext(call[t], OwnAggregate(t))
    /\ Goto(t, "put")
    /\ UNCHANGED <<open, diskVars, sequences, call, batchVars, outcome, spoiled>>

CheckFails(t) ==
    /\ pc[t] = "check"
    /\ ~IsNext(call[t], OwnAggregate(t))
    /\ Return(t, "failed")
    /\ UNCHANGED <<open, diskVars, sequences, call, batchVars, spoiled>>

PutEvent(t) ==
    /\ pc[t] = "put"
    /\ Put(call[t])
    /\ Goto(t, "remember")
    /\ UNCHANGED <<open, sequences, call, batchVars, outcome, spoiled>>

\* db.Write returns an error and has written nothing.
PutFails(t) ==
    /\ pc[t] = "put"
    /\ Return(t, "failed")
    /\ UNCHANGED <<open, diskVars, sequences, call, batchVars, spoiled>>

\* Mutant: the memory is not updated.
RememberNothing(t) ==
    /\ pc[t] = "remember"
    /\ Return(t, "ok")
    /\ UNCHANGED <<open, diskVars, sequences, call, batchVars, spoiled>>

Remember(t) ==
    /\ pc[t] = "remember"
    /\ LET a == OwnAggregate(t) IN
          sequences' = [sequences EXCEPT ![a] = Highest(call[t], a)]
    /\ Return(t, "ok")
    /\ UNCHANGED <<open, diskVars, call, batchVars, spoiled>>

-----------------------------------------------------------------------------
(* WriteEventsBatch                                                          *)

WriteEventsBatch(t, E) ==
    /\ open
    /\ pc[t] = "idle"
    /\ E # {}
    /\ call' = [call EXCEPT ![t] = E]
    /\ outcome' = [outcome EXCEPT ![t] = "pending"]
    /\ todo' = [todo EXCEPT ![t] = Aggregates(E)]
    /\ Goto(t, "group")
    /\ UNCHANGED <<open, diskVars, sequences, target, spoiled>>

\* The groups are checked in the map's arbitrary order.
CheckGroup(t, a) ==
    /\ pc[t] = "group"
    /\ a \in todo[t]
    /\ IsNext(call[t], a)
    /\ target' = [target EXCEPT ![t] = a]
    /\ Goto(t, "advance")
    /\ UNCHANGED <<open, diskVars, sequences, call, todo, outcome, spoiled>>

\* A mismatch ends the call; the groups already checked stay advanced.
GroupFails(t, a) ==
    /\ pc[t] = "group"
    /\ a \in todo[t]
    /\ ~IsNext(call[t], a)
    /\ spoiled' = spoiled \cup Advanced(t)
    /\ todo' = [todo EXCEPT ![t] = {}]
    /\ target' = [target EXCEPT ![t] = NoAggregate]
    /\ Return(t, "failed")
    /\ UNCHANGED <<open, diskVars, sequences, call>>

\* The memory is updated before anything is written.
AdvanceGroup(t) ==
    /\ pc[t] = "advance"
    /\ sequences' = [sequences EXCEPT ![target[t]] = Highest(call[t], target[t])]
    /\ todo' = [todo EXCEPT ![t] = @ \ {target[t]}]
    /\ target' = [target EXCEPT ![t] = NoAggregate]
    /\ Goto(t, IF todo'[t] = {} THEN "putBatch" ELSE "group")
    /\ UNCHANGED <<open, diskVars, call, outcome, spoiled>>

PutBatch(t) ==
    /\ pc[t] = "putBatch"
    /\ Put(call[t])
    /\ Return(t, "ok")
    /\ UNCHANGED <<open, sequences, call, batchVars, spoiled>>

PutBatchFails(t) ==
    /\ pc[t] = "putBatch"
    /\ spoiled' = spoiled \cup Advanced(t)
    /\ Return(t, "failed")
    /\ UNCHANGED <<open, diskVars, sequences, call, batchVars>>

-----------------------------------------------------------------------------

\* The batches a goroutine may ask for.
Batches(t) ==
    LET own == [AggregateID : {a \in Aggregate : <<t, a>> \in MayWrite},
                Sequence : 1..MaxSequence, Data : {t}]
    IN  {E \in SUBSET own : Cardinality(E) \in 1..MaxBatch}

Next ==
    \/ Open
    \/ Crash
    \/ \E t \in Thread :
          \/ \E a \in Aggregate, n \in 0..MaxSequence :
                <<t, a>> \in MayWrite /\ WriteEvent(t, a, n)
          \/ CheckPasses(t)
          \/ CheckFails(t)
          \/ PutEvent(t)
          \/ PutFails(t)
          \/ Remember(t)
    \/ \E t \in MayBatch :
          \/ \E E \in Batches(t) : WriteEventsBatch(t, E)
          \/ \E a \in Aggregate : CheckGroup(t, a) \/ GroupFails(t, a)
          \/ AdvanceGroup(t)
          \/ PutBatch(t)
          \/ PutBatchFails(t)

Spec == Init /\ [][Next]_vars

-----------------------------------------------------------------------------
(* Properties                                                                *)

Contiguous(a) == Numbers(stored, a) = 1 .. Cardinality(Numbers(stored, a))

SingleWriter(a) == \E t \in Thread : \A u \in Thread : <<u, a>> \in MayWrite => u = t

\* The memory of a is changing: a write has still to be remembered, or a batch
\* has advanced the number before its write.
Unsettled(a) ==
    \E t \in Thread : a \in Advanced(t) \/ (pc[t] = "remember" /\ OwnAggregate(t) = a)

\* While open, the number in memory of an aggregate that one goroutine writes
\* is that of its s: key and counts its events, across failed writes, crashes
\* and restarts, unless a batch of it has failed too late.
MemoryFollowsDisk ==
    \A a \in Aggregate :
        open /\ SingleWriter(a) /\ ~Unsettled(a) /\ a \notin spoiled =>
            sequences[a] = lastKey[a] /\ lastKey[a] = Cardinality(Numbers(stored, a))

\* The s: key of an aggregate, from which a restart takes the number to go on
\* from, names an event that is in the database, wherever a crash falls.
SequenceKeyHasEvent ==
    \A a \in Aggregate : lastKey[a] > 0 => lastKey[a] \in Numbers(stored, a)

\* A number that a caller was told is stored can be read, even if by now it is
\* another caller's event that it names; of a batch, all numbers.
AcknowledgedReadable ==
    \A t \in Thread : outcome[t] = "ok" =>
        \A e \in call[t] : e.Sequence \in Numbers(stored, e.AggregateID)

\* Racing writers may overwrite each other's events but leave no gap in the
\* numbers.  A gap comes only from a batch, which advances the number in
\* memory before it writes, and which is still to write or has failed since.
GapsComeFromBatches ==
    \A a \in Aggregate : ~Contiguous(a) =>
        a \in spoiled \/ \E t \in Thread : a \in Advanced(t)

=============================================================================
