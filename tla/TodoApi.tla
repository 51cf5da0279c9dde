------------------------------ MODULE TodoApi ------------------------------
(***************************************************************************)
(* The HTTP API of demo/nextjs-supabase and the server actions that call   *)
(* it (src/app).  Each of its three routes has an event store of its own,  *)
(* made and started by the route's first request while others arrive; all  *)
(* three are configured for one PostgreSQL database.  The database itself  *)
(* is external: PostgreSQLStorage is a placeholder whose open throws, and  *)
(* `opens` also admits the storage it stands for, which is taken to append *)
(* an event atomically and only under its aggregate's next number, and     *)
(* whose reads and writes may throw at any time.                           *)
(***************************************************************************)
EXTENDS Naturals, Sequences

CONSTANTS
    Call,           \* HTTP requests, each sent at most once
    Id,             \* identifiers of lists and items that clients name
    MaxNumber       \* bound: sequence numbers that a client puts in an event

ASSUME TodoApiAssumption == MaxNumber \in Nat

VARIABLES
    configured,     \* whether the environment names a database
    opens,          \* whether the storage can be opened
    store,          \* each route's module-level eventStore
    log,            \* the events of each aggregate in the database
    request,        \* the handler of each request
    report,         \* what the server action around a request told its caller
    early,          \* history: requests that got a store that was not running
    failed          \* history: requests whose write the database has failed

vars == <<configured, opens, store, log, request, report, early, failed>>

Route == {"todo", "item", "events"}

Creation == {"list", "item"}                    \* POST /api/todo
Edit == {"complete", "update", "delete"}        \* PUT and DELETE /api/todo/[id]
Reading == {"getTodo", "getEvents"}             \* GETs that read events
Kind == Creation \cup Edit \cup Reading
            \cup {"postEvent", "otherType", "status"}

RouteOf(kind) ==
    CASE kind \in Creation \cup {"getTodo", "otherType"} -> "todo"
      [] kind \in Edit                                   -> "item"
      [] OTHER                                           -> "events"

TodoEvent == {"todo_item_created", "todo_item_updated", "todo_item_completed", "todo_item_deleted"}

\* An event's data.type is what the aggregates go by.
Event == [type : TodoEvent \cup {"undefined"}, by : Call, seen : Nat]

Handler ==
    [at : {"unsent", "sent", "starting", "ready", "decided", "over"},
     kind : Kind, id : Id \cup {"none"}, type : TodoEvent \cup {"undefined"}, number : Nat,
     seen : Nat, code : {0, 200, 400, 404, 500}]

Unsent ==
    [at |-> "unsent", kind |-> "status", id |-> "none", type |-> "undefined",
     number |-> 0, seen |-> 0, code |-> 0]

TypeOK ==
    /\ configured \in BOOLEAN
    /\ opens \in BOOLEAN
    /\ store \in [Route -> {"none", "starting", "running", "dead"}]
    /\ log \in [Id -> Seq(Event)]
    /\ request \in [Call -> Handler]
    /\ report \in [Call -> {"waiting", "resolved", "rejected"}]
    /\ early \subseteq Call
    /\ failed \subseteq Call

Init ==
    /\ configured \in BOOLEAN
    /\ opens \in BOOLEAN
    /\ store = [r \in Route |-> "none"]
    /\ log = [i \in Id |-> <<>>]
    /\ request = [q \in Call |-> Unsent]
    /\ report = [q \in Call |-> "waiting"]
    /\ early = {}
    /\ failed = {}

-----------------------------------------------------------------------------

At(q, a) == request[q].at = a

Continues(q, to) == request' = [request EXCEPT ![q].at = to]

Answers(q, code) == request' = [request EXCEPT ![q] = [@ EXCEPT !.at = "over", !.code = code]]

\* The data type of the event that a request writes.  POST /api/todo takes
\* `type` out of the body, to tell a list from an item, and puts no other in.
DataType(kind) ==
    CASE kind \in Creation  -> "undefined"
      [] kind = "update"    -> "todo_item_updated"
      [] kind = "complete"  -> "todo_item_completed"
      [] kind = "delete"    -> "todo_item_deleted"

\* A client sends a request: the number of an event that is posted raw is
\* the client's, a creation's is 1, an edit's is chosen by its handler.
Send(q, kind, id, type, number) ==
    /\ At(q, "unsent")
    /\ request' = [request EXCEPT ![q] =
          [@ EXCEPT !.at = "sent", !.kind = kind, !.id = id, !.type = type, !.number = number]]
    /\ UNCHANGED <<configured, opens, store, log, report, early, failed>>

Post(q, id, type, number) == Send(q, "postEvent", id, type, number)

Ask(q, kind, id) ==
    IF kind \in Creation \cup Edit THEN Send(q, kind, id, DataType(kind), 1)
                                   ELSE Send(q, kind, id, "undefined", 0)

\* getEventStore of a request's route: without a configuration it throws; the
\* first request makes the store and awaits its start, later ones get it
\* whatever has become of that.
GetEventStore(q) ==
    /\ At(q, "sent")
    /\ request[q].kind # "status"
    /\ LET r == RouteOf(request[q].kind) IN
       CASE ~configured ->
                Answers(q, 500) /\ UNCHANGED <<store, early>>
         [] configured /\ store[r] = "none" ->
                /\ Continues(q, "starting")
                /\ store' = [store EXCEPT ![r] = "starting"]
                /\ UNCHANGED early
         [] configured /\ store[r] # "none" ->
                /\ Continues(q, "ready")
                /\ early' = IF store[r] = "running" THEN early ELSE early \cup {q}
                /\ UNCHANGED store
    /\ UNCHANGED <<configured, opens, log, report, failed>>

\* The debugger's status check asks for events of no aggregate.
RefuseStatus(q) ==
    /\ At(q, "sent")
    /\ request[q].kind = "status"
    /\ Answers(q, 400)
    /\ UNCHANGED <<configured, opens, store, log, report, early, failed>>

\* start() of a route's store ends.
StartEnds(q) ==
    /\ At(q, "starting")
    /\ store' = [store EXCEPT ![RouteOf(request[q].kind)] = IF opens THEN "running" ELSE "dead"]
    /\ IF opens THEN Continues(q, "ready") ELSE Answers(q, 500)
    /\ UNCHANGED <<configured, opens, log, report, early, failed>>

\* The item is there: the handler goes on to make its event.
Decides(q, events, number) ==
    request' = [request EXCEPT ![q] =
        [@ EXCEPT !.at = "decided", !.seen = Len(events), !.number = number]]

\* The item is not there.
NotFound(q, events) ==
    request' = [request EXCEPT ![q] = [@ EXCEPT !.at = "over", !.seen = Len(events), !.code = 404]]

Running(q) == store[RouteOf(request[q].kind)] = "running"

\* Mutant: any event makes an item.
ExistsAtAll(events) == events # <<>>

\* createTodoItemFromEvents: the item there is, if any.
Exists(events) == \E k \in DOMAIN events : events[k].type = "todo_item_created"

\* Mutant: the event is made with the last number, not the one after it.
ReadItemAtLast(q) ==
    /\ At(q, "ready")
    /\ request[q].kind \in Edit
    /\ LET events == log[request[q].id] IN
       \/ Answers(q, 500)
       \/ Running(q) /\ ~Exists(events) /\ NotFound(q, events)
       \/ Running(q) /\ Exists(events) /\ Decides(q, events, Len(events))
    /\ UNCHANGED <<configured, opens, store, log, report, early, failed>>

\* readEvents for an edit: it throws in a store that does not run, and in one
\* that runs when the database does; an item that is not there is not found.
ReadItem(q) ==
    /\ At(q, "ready")
    /\ request[q].kind \in Edit
    /\ LET events == log[request[q].id] IN
       \/ Answers(q, 500)
       \/ Running(q) /\ ~Exists(events) /\ NotFound(q, events)
       \/ Running(q) /\ Exists(events) /\ Decides(q, events, Len(events) + 1)
    /\ UNCHANGED <<configured, opens, store, log, report, early, failed>>

\* The GETs, which change nothing, and throw as ReadItem does.
ReadEvents(q) ==
    /\ At(q, "ready")
    /\ request[q].kind \in Reading
    /\ \/ Answers(q, 500)
       \/ Running(q) /\ Answers(q, 200)
    /\ UNCHANGED <<configured, opens, store, log, report, early, failed>>

RefuseType(q) ==
    /\ At(q, "ready")
    /\ request[q].kind = "otherType"
    /\ Answers(q, 400)
    /\ UNCHANGED <<configured, opens, store, log, report, early, failed>>

\* The database takes an event under its aggregate's next number only.
Accepts(h) == h.number = Len(log[h.id]) + 1

\* A handler that has its event.
HasEvent(q) ==
    \/ At(q, "ready") /\ request[q].kind \in Creation \cup {"postEvent"}
    \/ At(q, "decided")

\* writeEvent never throws: stored, not running or refused, the answer is 200,
\* with success in its body.
WriteEvent(q) ==
    /\ HasEvent(q)
    /\ LET h == request[q] IN
       log' = IF Running(q) /\ Accepts(h)
                 THEN [log EXCEPT ![h.id] = Append(@, [type |-> h.type, by |-> q, seen |-> h.seen])]
                 ELSE log
    /\ Answers(q, 200)
    /\ UNCHANGED <<configured, opens, store, report, early, failed>>

\* The database fails the write of a store that runs: writeEvent catches that
\* too.  (A write that fails after its commit is one that WriteEvent stores.)
WriteFails(q) ==
    /\ HasEvent(q)
    /\ Running(q)
    /\ failed' = failed \cup {q}
    /\ Answers(q, 200)
    /\ UNCHANGED <<configured, opens, store, log, report, early>>

-----------------------------------------------------------------------------
(* The server actions createTodo, updateTodoStatus and deleteTodo           *)

\* An answer that is ok resolves the action; success is not looked at.
ActionReturns(q) ==
    /\ At(q, "over")
    /\ report[q] = "waiting"
    /\ report' = [report EXCEPT ![q] = IF request[q].code = 200 THEN "resolved" ELSE "rejected"]
    /\ UNCHANGED <<configured, opens, store, log, request, early, failed>>

\* The fetch fails, while the handler goes on or after it is done.
FetchFails(q) ==
    /\ ~At(q, "unsent")
    /\ report[q] = "waiting"
    /\ report' = [report EXCEPT ![q] = "rejected"]
    /\ UNCHANGED <<configured, opens, store, log, request, early, failed>>

Next ==
    \E q \in Call :
        \/ \E kind \in Kind \ {"postEvent"}, i \in Id : Ask(q, kind, i)
        \/ \E i \in Id, type \in TodoEvent, n \in 1..MaxNumber : Post(q, i, type, n)
        \/ GetEventStore(q)
        \/ RefuseStatus(q)
        \/ StartEnds(q)
        \/ ReadItem(q)
        \/ ReadEvents(q)
        \/ RefuseType(q)
        \/ WriteEvent(q)
        \/ WriteFails(q)
        \/ ActionReturns(q)
        \/ FetchFails(q)

Spec == Init /\ [][Next]_vars

-----------------------------------------------------------------------------
(* Properties                                                               *)

Stored(q) == \E k \in DOMAIN log[request[q].id] : log[request[q].id][k].by = q

\* A server action that resolves without its event in the log either came to a
\* route's store before that ran (for ever, if its start has failed), or lost
\* its number to an event it had not seen, or had its write failed by the
\* database.  Nothing else loses a change.
LossesExplained ==
    \A q \in Call :
        report[q] = "resolved" /\ request[q].kind \in Creation \cup Edit /\ ~Stored(q) =>
            \/ q \in early \cup failed
            \/ Len(log[request[q].id]) > request[q].seen

\* An edit that is stored was decided on all the events before it, and its
\* item is there in them, whatever requests ran meanwhile.
EditsOnlyWhatIsThere ==
    \A i \in Id : \A k \in DOMAIN log[i] :
        request[log[i][k].by].kind \in Edit =>
            /\ log[i][k].seen = k - 1
            /\ \E j \in 1..(k - 1) : log[i][j].type = "todo_item_created"

=============================================================================
