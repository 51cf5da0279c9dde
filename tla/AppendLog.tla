----------------------------- MODULE AppendLog -----------------------------
(***************************************************************************)
(* What every storage backend of the event store promises its callers: per *)
(* aggregate one append-only, gap-free log, extended by compare-and-append.*)
(* A caller names the sequence number its event is to have.  The event is  *)
(* appended if that number is the next one, and a call reports success     *)
(* only when its own event was appended.  A call may fail for reasons the  *)
(* caller does not see (a lost transaction, an I/O error).                 *)
(***************************************************************************)
EXTENDS Naturals, Sequences

CONSTANTS Client,       \* concurrent callers of the storage
          Aggregate,    \* aggregate (actor) identifiers
          NoEvent       \* the request of a client that has made none

VARIABLES log,          \* the events of each aggregate, oldest first
          request,      \* the event of each client's current or last call
          outcome       \* what is known of that call

logVars == <<log, request, outcome>>

Event == [AggregateID : Aggregate, Sequence : Nat, Data : Client]

Outcome == {"none", "pending", "ok", "failed"}

LogTypeOK ==
    /\ log \in [Aggregate -> Seq(Event)]
    /\ request \in [Client -> Event \cup {NoEvent}]
    /\ outcome \in [Client -> Outcome]

LogInit ==
    /\ log = [a \in Aggregate |-> <<>>]
    /\ request = [c \in Client |-> NoEvent]
    /\ outcome = [c \in Client |-> "none"]

\* A client asks for some event of its own to be appended.
Invoke(c) ==
    /\ outcome[c] # "pending"
    /\ request'[c] \in {e \in Event : e.Data = c}
    /\ request' = [request EXCEPT ![c] = request'[c]]
    /\ outcome' = [outcome EXCEPT ![c] = "pending"]
    /\ UNCHANGED log

\* The event takes the next place of its aggregate's log.
Commit(c) ==
    /\ outcome[c] = "pending"
    /\ LET e == request[c] IN
          /\ e.Sequence = Len(log[e.AggregateID]) + 1
          /\ log' = [log EXCEPT ![e.AggregateID] = Append(@, e)]
    /\ outcome' = [outcome EXCEPT ![c] = "ok"]
    /\ UNCHANGED request

\* The call fails and leaves no trace in the log.
Reject(c) ==
    /\ outcome[c] = "pending"
    /\ outcome' = [outcome EXCEPT ![c] = "failed"]
    /\ UNCHANGED <<log, request>>

\* A crash of the storage fails whatever is not committed.
Abort ==
    /\ outcome' = [c \in Client |-> IF outcome[c] = "pending" THEN "failed" ELSE outcome[c]]
    /\ UNCHANGED <<log, request>>

LogNext ==
    \/ \E c \in Client :
          \/ Invoke(c)
          \/ Commit(c)
          \/ Reject(c)
    \/ Abort

LogSpec == LogInit /\ [][LogNext]_logVars

=============================================================================
