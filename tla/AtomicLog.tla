----------------------------- MODULE AtomicLog -----------------------------
(***************************************************************************)
(* What a transactional storage of the event store promises: per aggregate *)
(* one append-only, gap-free log, extended by whole batches.  The events of*)
(* a batch, whichever aggregates they belong to, are appended together, if *)
(* each carries the next number of its aggregate by then, or not at all.   *)
(***************************************************************************)
EXTENDS Naturals, Sequences

CONSTANTS Client,       \* concurrent callers of the storage
          Aggregate     \* aggregate (actor) identifiers

VARIABLES log,          \* the events of each aggregate, oldest first
          request,      \* the batch of each client's current or last call
          outcome       \* what has become of that call

logVars == <<log, request, outcome>>

Event == [AggregateID : Aggregate, Sequence : Nat, Data : Client]

LogInit ==
    /\ log = [a \in Aggregate |-> <<>>]
    /\ request = [c \in Client |-> <<>>]
    /\ outcome = [c \in Client |-> "none"]

\* A client asks for a batch of its own events.
Invoke(c) ==
    /\ outcome[c] # "pending"
    /\ \A i \in 1..Len(request'[c]) : /\ request'[c][i] \in Event
                                      /\ request'[c][i].Data = c
    /\ request' = [request EXCEPT ![c] = request'[c]]
    /\ outcome' = [outcome EXCEPT ![c] = "pending"]
    /\ UNCHANGED log

EventsOf(E, a) == {E[i] : i \in {i \in 1..Len(E) : E[i].AggregateID = a}}

\* The events of each aggregate come in the order of their numbers.
InOrder(E) ==
    \A i, j \in 1..Len(E) :
        i < j /\ E[i].AggregateID = E[j].AggregateID => E[i].Sequence < E[j].Sequence

\* M is L with the events of E added at its ends.
Extends(L, M, E) ==
    \A a \in Aggregate :
        /\ Len(L[a]) <= Len(M[a])
        /\ \A n \in 1..Len(L[a]) : M[a][n] = L[a][n]
        /\ {M[a][n] : n \in (Len(L[a]) + 1)..Len(M[a])} = EventsOf(E, a)

\* The whole batch is appended, its events at the places they name.
Commit(c) ==
    /\ outcome[c] = "pending"
    /\ log' \in [Aggregate -> Seq(Event)]
    /\ InOrder(request[c])
    /\ Extends(log, log', request[c])
    /\ \A a \in Aggregate : \A n \in 1..Len(log'[a]) : log'[a][n].Sequence = n
    /\ outcome' = [outcome EXCEPT ![c] = "ok"]
    /\ UNCHANGED request

\* The call fails and leaves no trace in the log.
Reject(c) ==
    /\ outcome[c] = "pending"
    /\ outcome' = [outcome EXCEPT ![c] = "failed"]
    /\ UNCHANGED <<log, request>>

LogNext == \E c \in Client : Invoke(c) \/ Commit(c) \/ Reject(c)

LogSpec == LogInit /\ [][LogNext]_logVars

=============================================================================
