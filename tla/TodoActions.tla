---------------------------- MODULE TodoActions ----------------------------
(***************************************************************************)
(* The server actions of demo/nextjs-libsql (src/app/todo/actions.ts): an  *)
(* action reads the sequence of its item, writes one event under the next  *)
(* number and then has the projection engine process it, with other pages' *)
(* actions at work in each of its awaits.  The store and the engine        *)
(* (lib/actordb) are not in the repository: the store is taken to refuse a *)
(* number that is not next, the engine to apply its reducers at once.      *)
(***************************************************************************)
EXTENDS TodoItem, Naturals, FiniteSets

CONSTANTS
    Page,           \* open pages, each with at most one action under way
    List,           \* identifiers of todo lists
    Item,           \* identifiers of todo items
    MaxFaults       \* bound: awaits that throw

ASSUME TodoActionsAssumption == List \cap Item = {} /\ MaxFaults \in Nat

VARIABLES
    events,         \* per list or item, the types of its stored events
    lists,          \* the todo_lists projection
    items,          \* the todo_items projection: the status of each item
    processed,      \* history: the numbers of an item's events as processed
    action,         \* the server action each page has under way
    faults          \* awaits that have thrown

serverVars == <<events, lists, items, processed, action, faults>>

Change == {"createTodoList", "createTodoItem", "completeTodoItem", "deleteTodoItem"}

Question == {"getTodoLists", "getTodoItems", "getTodoStatistics"}

\* The event an action writes.
EventOf(name) ==
    CASE name = "createTodoList"   -> "todo_list_created"
      [] name = "createTodoItem"   -> "todo_item_created"
      [] name = "completeTodoItem" -> "todo_item_completed"
      [] name = "deleteTodoItem"   -> "todo_item_deleted"

NoAction == [name |-> "none", id |-> "all", number |-> 0, at |-> "none"]

\* What an action awaits, and its result.
Awaited == {"state", "write", "process", "query"}

Action ==
    [name : Change \cup Question, id : List \cup Item \cup {"all"},
     number : Nat, at : Awaited \cup {"success", "failure"}]

ServerTypeOK ==
    /\ events \in [List \cup Item -> Seq(TodoEvent \cup {"todo_list_created"})]
    /\ lists \subseteq List
    /\ items \in [Item -> Status \cup {"absent"}]
    /\ processed \in [Item -> Seq(Nat)]
    /\ action \in [Page -> Action \cup {NoAction}]
    /\ faults \in Nat

ServerInit ==
    /\ events = [a \in List \cup Item |-> <<>>]
    /\ lists = {}
    /\ items = [i \in Item |-> "absent"]
    /\ processed = [i \in Item |-> <<>>]
    /\ action = [p \in Page |-> NoAction]
    /\ faults = 0

\* The reducer of the todo_items projection: other events than the creation
\* change an item that is there, and pass over one that is not.
Project(status, type) ==
    IF type # "todo_item_created" /\ status = "absent" THEN "absent" ELSE Reduce(status, type)

\* The projection of an item whose events are processed in the log's order.
Expected(i) == FoldLeft(Project, "absent", events[i])

-----------------------------------------------------------------------------

At(p, a) == action[p].at = a

Goes(p, to) == action' = [action EXCEPT ![p].at = to]

\* Where an action begins: a creation writes event 1.
First(name) ==
    CASE name \in Question -> "query"
      [] name \in {"createTodoList", "createTodoItem"} -> "write"
      [] OTHER -> "state"

ActionOf(name, id) == [name |-> name, id |-> id, number |-> 1, at |-> First(name)]

\* getActorState: an item without events is not found.
StateRead(p) ==
    /\ At(p, "state")
    /\ LET n == Len(events[action[p].id]) IN
       IF n = 0 THEN Goes(p, "failure")
                ELSE action' = [action EXCEPT ![p].number = n + 1, ![p].at = "write"]
    /\ UNCHANGED <<events, lists, items, processed, faults>>

Store(a) == events' = [events EXCEPT ![a.id] = Append(@, EventOf(a.name))]

IsNext(a) == a.number = Len(events[a.id]) + 1

\* EventWritten, had completeTodoItem no processEvent to await.
EventWrittenReturns(p) ==
    /\ At(p, "write")
    /\ IF IsNext(action[p])
          THEN /\ Store(action[p])
               /\ Goes(p, IF action[p].name = "completeTodoItem" THEN "success" ELSE "process")
          ELSE Goes(p, "failure") /\ UNCHANGED events
    /\ UNCHANGED <<lists, items, processed, faults>>

\* writeEvent: a number that was taken meanwhile is the action's failure.
EventWritten(p) ==
    /\ At(p, "write")
    /\ IF IsNext(action[p])
          THEN Store(action[p]) /\ Goes(p, "process")
          ELSE Goes(p, "failure") /\ UNCHANGED events
    /\ UNCHANGED <<lists, items, processed, faults>>

\* Process, had todo_items been registered without todo_item_deleted.
ProcessWithoutDeletions(a) ==
    IF a.name \in {"createTodoList", "deleteTodoItem"}
       THEN /\ lists' = IF a.id \in List THEN lists \cup {a.id} ELSE lists
            /\ UNCHANGED <<items, processed>>
       ELSE /\ items' = [items EXCEPT ![a.id] = Project(@, EventOf(a.name))]
            /\ processed' = [processed EXCEPT ![a.id] = Append(@, a.number)]
            /\ UNCHANGED lists

\* processEvent applies the reducer to the projection as it is by now.
Process(a) ==
    IF a.name = "createTodoList"
       THEN lists' = lists \cup {a.id} /\ UNCHANGED <<items, processed>>
       ELSE /\ items' = [items EXCEPT ![a.id] = Project(@, EventOf(a.name))]
            /\ processed' = [processed EXCEPT ![a.id] = Append(@, a.number)]
            /\ UNCHANGED lists

EventProcessed(p) ==
    /\ At(p, "process")
    /\ Process(action[p])
    /\ Goes(p, "success")
    /\ UNCHANGED <<events, faults>>

\* An action's catch: what was awaited has thrown, a write perhaps after it
\* was stored, and the event is never processed.
Throws(p) ==
    /\ action[p].at \in Awaited
    /\ faults < MaxFaults
    /\ faults' = faults + 1
    /\ Goes(p, "failure")
    /\ \/ UNCHANGED events
       \/ action[p].at = "write" /\ IsNext(action[p]) /\ Store(action[p])
    /\ UNCHANGED <<lists, items, processed>>

=============================================================================
