------------------------------ MODULE SqlStorage ------------------------------
(***************************************************************************)
(* The Go SQL storages of the event store                                  *)
(* (impl/go/internal/eventstore/postgresql.go, libsql.go, sqlite.go, which *)
(* run the same statements).                                               *)
(*                                                                         *)
(* WriteEvent and WriteEventsBatch run one transaction: for each event read*)
(* the aggregate's row of the sequences table, compare, insert the event,  *)
(* update the row; at the end commit.  A deferred rollback covers every    *)
(* error.  WriteEvent is the batch of one event.                           *)
(*                                                                         *)
(* The database is modelled by what these statements see at the isolation  *)
(* they run at, read committed: a query sees what is committed and what its*)
(* own transaction wrote; an insert waits while another transaction has an *)
(* uncommitted row of its primary key, and fails if there is a committed   *)
(* one; an update of a row waits for the transaction that has written it;  *)
(* of transactions that wait for each other one is made to fail.  Any      *)
(* statement may fail for reasons of its own: a lost connection, a busy    *)
(* database, the caller's context.  SQLite, which locks the whole database *)
(* and refuses to write on an outdated read, does some of that and no more.*)
(***************************************************************************)
EXTENDS Integers, Sequences, FiniteSets

CONSTANTS
    Thread,             \* goroutines calling the storage
    Aggregate,          \* aggregate identifiers
    MaxOpenConns,       \* the size of the connection pool
    Request             \* bound: the batches a caller may ask for

ASSUME SqlStorageAssumption ==
    /\ MaxOpenConns \in Nat \ {0}
    /\ Request \subseteq Seq([AggregateID : Aggregate, Sequence : Nat])
    /\ <<>> \notin Request

VARIABLES
    events,             \* the events table, committed rows
    sequences,          \* the sequences table, 0 where there is no row
    pc,                 \* where each goroutine is
    batch,              \* the events of its latest call
    at,                 \* which of them its transaction is at
    inUse,              \* connections of the pool that are taken
    outcome             \* what became of its latest call

tables == <<events, sequences>>
vars == <<tables, pc, batch, at, inUse, outcome>>

Event == [AggregateID : Aggregate, Sequence : Nat, Data : Thread]

InTransaction(t) == pc[t] \in {"read", "insert", "update", "commit"}

TypeOK ==
    /\ events \subseteq Event
    /\ sequences \in [Aggregate -> Nat]
    /\ pc \in [Thread -> {"idle", "begin", "read", "insert", "update", "commit"}]
    /\ batch \in [Thread -> Seq(Event)]
    /\ at \in [Thread -> Nat]
    /\ \A t \in Thread : /\ pc[t] # "idle" => at[t] \in 1..Len(batch[t])
                         /\ pc[t] = "begin" => at[t] = 1
                         /\ pc[t] = "idle" => at[t] = 0
    /\ inUse \in 0..MaxOpenConns
    /\ outcome \in [Thread -> {"none", "pending", "ok", "unheard", "failed"}]

Init ==
    /\ events = {}
    /\ sequences = [a \in Aggregate |-> 0]
    /\ pc = [t \in Thread |-> "idle"]
    /\ batch = [t \in Thread |-> <<>>]
    /\ at = [t \in Thread |-> 0]
    /\ inUse = 0
    /\ outcome = [t \in Thread |-> "none"]

-----------------------------------------------------------------------------
(* What a transaction has written and not committed                          *)

Current(t) == batch[t][at[t]]

Written(t, n) == {batch[t][i] : i \in 1..n}

\* Its rows of the events table.
Inserted(t) == Written(t, IF pc[t] \in {"update", "commit"} THEN at[t] ELSE at[t] - 1)

\* The events for which it has updated the sequences table.
Counted(t) == Written(t, IF pc[t] = "commit" THEN at[t] ELSE at[t] - 1)

SameKey(d, e) == d.AggregateID = e.AggregateID /\ d.Sequence = e.Sequence

Numbers(E, a) == {e.Sequence : e \in {e \in E : e.AggregateID = a}}

Highest(E, a) == CHOOSE n \in Numbers(E, a) : \A k \in Numbers(E, a) : k <= n

\* The sequences table with the rows updated for E: each update writes the
\* number of its event, and these increase.
Updated(E) ==
    [a \in Aggregate |-> IF Numbers(E, a) = {} THEN sequences[a] ELSE Highest(E, a)]

\* Transaction t's statement has to wait for transaction u.
WaitsFor(t, u) ==
    /\ t # u
    /\ \/ pc[t] = "insert" /\ \E d \in Inserted(u) : SameKey(d, Current(t))
       \/ pc[t] = "update" /\ \E d \in Counted(u) : d.AggregateID = Current(t).AggregateID

Waits(t) == \E u \in Thread : WaitsFor(t, u)

\* Some transactions, t one of them, all wait for each other.
Deadlocked(t) ==
    \E S \in SUBSET Thread : t \in S /\ \A s \in S : \E u \in S : WaitsFor(s, u)

-----------------------------------------------------------------------------

Goto(t, label) == pc' = [pc EXCEPT ![t] = label]

Return(t, result) ==
    /\ outcome' = [outcome EXCEPT ![t] = result]
    /\ at' = [at EXCEPT ![t] = 0]
    /\ Goto(t, "idle")

\* Mutant: no deferred rollback, the connection is never given back.
RollbackLeaks(t) ==
    /\ Return(t, "failed")
    /\ UNCHANGED <<tables, batch, inUse>>

\* The deferred tx.Rollback: the error is returned, what the transaction wrote
\* is gone, and the connection is back in the pool.
Rollback(t) ==
    /\ Return(t, "failed")
    /\ inUse' = inUse - 1
    /\ UNCHANGED <<tables, batch>>

\* The events a goroutine writes; a request for one event is WriteEvent's.
EventsAt(t, keys) ==
    [i \in 1..Len(keys) |->
        [AggregateID |-> keys[i].AggregateID, Sequence |-> keys[i].Sequence, Data |-> t]]

WriteEventsBatch(t, keys) ==
    /\ pc[t] = "idle"
    /\ batch' = [batch EXCEPT ![t] = EventsAt(t, keys)]
    /\ at' = [at EXCEPT ![t] = 1]
    /\ outcome' = [outcome EXCEPT ![t] = "pending"]
    /\ Goto(t, "begin")
    /\ UNCHANGED <<tables, inUse>>

\* BeginTx waits for a connection.
BeginTx(t) ==
    /\ pc[t] = "begin"
    /\ inUse < MaxOpenConns
    /\ inUse' = inUse + 1
    /\ Goto(t, "read")
    /\ UNCHANGED <<tables, batch, at, outcome>>

BeginTxFails(t) ==
    /\ pc[t] = "begin"
    /\ Return(t, "failed")
    /\ UNCHANGED <<tables, batch, inUse>>

\* The row for the aggregate, plus one.
ExpectedSequence(t) == Updated(Counted(t))[Current(t).AggregateID] + 1

ReadSequence(t) ==
    /\ pc[t] = "read"
    /\ Current(t).Sequence = ExpectedSequence(t)
    /\ Goto(t, "insert")
    /\ UNCHANGED <<tables, batch, at, inUse, outcome>>

SequenceMismatch(t) ==
    /\ pc[t] = "read"
    /\ Current(t).Sequence # ExpectedSequence(t)
    /\ Rollback(t)

\* Mutant: the events table has no primary key.
InsertEventAnyway(t) ==
    /\ pc[t] = "insert"
    /\ Goto(t, "update")
    /\ UNCHANGED <<tables, batch, at, inUse, outcome>>

InsertEvent(t) ==
    /\ pc[t] = "insert"
    /\ ~Waits(t)
    /\ \A d \in events : ~SameKey(d, Current(t))
    /\ Goto(t, "update")
    /\ UNCHANGED <<tables, batch, at, inUse, outcome>>

InsertConflicts(t) ==
    /\ pc[t] = "insert"
    /\ \E d \in events : SameKey(d, Current(t))
    /\ Rollback(t)

UpdateSequence(t) ==
    /\ pc[t] = "update"
    /\ ~Waits(t)
    /\ IF at[t] < Len(batch[t])
       THEN at' = [at EXCEPT ![t] = @ + 1] /\ Goto(t, "read")
       ELSE UNCHANGED at /\ Goto(t, "commit")
    /\ UNCHANGED <<tables, batch, inUse, outcome>>

CommitAs(t, result) ==
    /\ pc[t] = "commit"
    /\ events' = events \cup Inserted(t)
    /\ sequences' = Updated(Counted(t))
    /\ inUse' = inUse - 1
    /\ Return(t, result)
    /\ UNCHANGED batch

Commit(t) == CommitAs(t, "ok")

\* The transaction is committed, but the connection is lost before the answer:
\* the caller gets an error.
CommitUnheard(t) == CommitAs(t, "unheard")

\* Mutant: outside a transaction, what was inserted stays.
StatementFailsKeeping(t) ==
    /\ InTransaction(t)
    /\ events' = events \cup Inserted(t)
    /\ sequences' = Updated(Counted(t))
    /\ inUse' = inUse - 1
    /\ Return(t, "failed")
    /\ UNCHANGED batch

StatementFails(t) ==
    /\ InTransaction(t)
    /\ Rollback(t)

\* The database ends a deadlock by failing one of the transactions.
DeadlockDetected(t) ==
    /\ Deadlocked(t)
    /\ Rollback(t)

-----------------------------------------------------------------------------

Next == \E t \in Thread :
    \/ \E keys \in Request : WriteEventsBatch(t, keys)
    \/ BeginTx(t) \/ BeginTxFails(t)
    \/ ReadSequence(t) \/ SequenceMismatch(t)
    \/ InsertEvent(t) \/ InsertConflicts(t)
    \/ UpdateSequence(t)
    \/ Commit(t) \/ CommitUnheard(t)
    \/ StatementFails(t) \/ DeadlockDetected(t)

Spec == Init /\ [][Next]_vars

\* Statements are executed; the pool and the database's locks serve those who
\* wait in turn; deadlocks are detected.
Fairness == \A t \in Thread :
    /\ SF_vars(BeginTx(t))
    /\ WF_vars(ReadSequence(t) \/ SequenceMismatch(t))
    /\ SF_vars(InsertEvent(t) \/ InsertConflicts(t))
    /\ SF_vars(UpdateSequence(t))
    /\ WF_vars(Commit(t) \/ CommitUnheard(t))
    /\ WF_vars(DeadlockDetected(t))

FairSpec == Spec /\ Fairness

-----------------------------------------------------------------------------

\* The sequences table, which readers and later writers go by, counts exactly
\* the stored events, and these are numbered without a gap or a duplicate.
SequenceTableExact ==
    /\ \A d, e \in events : SameKey(d, e) => d = e
    /\ \A a \in Aggregate : Numbers(events, a) = 1..sequences[a]

\* The primary key alone serializes the writers: two transactions never both
\* have uncommitted events of one aggregate.
OneTransactionPerAggregate ==
    \A t, u \in Thread : \A d \in Inserted(t), e \in Inserted(u) :
        d.AggregateID = e.AggregateID => t = u

EventAt(a, n) == CHOOSE e \in events : e.AggregateID = a /\ e.Sequence = n

LogBar == [a \in Aggregate |-> [n \in 1..sequences[a] |-> EventAt(a, n)]]

\* A call is decided when its transaction commits, heard of or not.
OutcomeBar == [t \in Thread |-> IF outcome[t] = "unheard" THEN "ok" ELSE outcome[t]]

Log == INSTANCE AtomicLog WITH
    Client <- Thread, log <- LogBar, request <- batch, outcome <- OutcomeBar

\* The storage implements the atomic log: a batch is stored whole or not at
\* all, in the place of its numbers, whatever fails.
ImplementsAtomicLog == Log!LogSpec

\* Every call returns: no transaction keeps its connection or its locks, and
\* batches that lock each other's aggregates do not wait for ever.
CallsReturn == \A t \in Thread : outcome[t] = "pending" ~> outcome[t] # "pending"

=============================================================================
