------------------------------ MODULE TodoPage ------------------------------
(***************************************************************************)
(* The pages of demo/nextjs-libsql: a dashboard with its lists, items and  *)
(* statistics, and the forms and buttons that call the server actions.     *)
(* Next.js runs the server actions of a page one after the other, in the   *)
(* order they were called; those of different pages run side by side.      *)
(***************************************************************************)
EXTENDS TodoActions

CONSTANTS
    MaxQueue,       \* bound: calls that wait on a page when another is made
    MaxEvents       \* bound: events of an item that a button is used on

\* An identifier is a string: there are finitely many, and the statistics
\* are numbers.
ASSUME TodoPageAssumption == IsFiniteSet(Item)

VARIABLES
    queue,          \* the calls of each page that its actions wait for
    gathered,       \* what the load under way has got so far
    shown,          \* the state hooks lists, items and stats
    selected,       \* selectedListId
    loading,        \* whether the first load has not ended
    busy,           \* the forms and buttons that are disabled
    finished        \* history: the items a page has completed and reloaded

pageVars == <<queue, gathered, shown, selected, loading, busy, finished>>
allVars == <<serverVars, pageVars>>

\* A call remembers whether no list was selected when its handler was made:
\* the load that follows it goes by that.
PageCall == [name : Change \cup Question, id : List \cup Item \cup {"all"}, unselected : BOOLEAN]

Statistics == [total : Nat, pending : Nat, completed : Nat]

\* `listed` says that the load under way has got its lists.
View ==
    [lists : SUBSET List, items : [Item -> Status \cup {"absent"}], stats : Statistics,
     listed : BOOLEAN]

Empty ==
    [lists |-> {}, items |-> [i \in Item |-> "absent"],
     stats |-> [total |-> 0, pending |-> 0, completed |-> 0], listed |-> FALSE]

\* "list" and "item" are the forms; completing and deleting name one item.
Disabled == [forms : SUBSET {"list", "item"}, completing : Item \cup {"none"}, deleting : Item \cup {"none"}]

PageTypeOK ==
    /\ ServerTypeOK
    /\ queue \in [Page -> Seq(PageCall)]
    /\ gathered \in [Page -> View]
    /\ shown \in [Page -> View]
    /\ selected \in [Page -> List \cup {"none"}]
    /\ loading \in [Page -> BOOLEAN]
    /\ busy \in [Page -> Disabled]
    /\ finished \in [Page -> SUBSET Item]

Calls(name, id, unselected) == [name |-> name, id |-> id, unselected |-> unselected]

\* loadData calls the three reads at once.
Load(unselected) ==
    <<Calls("getTodoLists", "all", unselected),
      Calls("getTodoItems", "all", unselected),
      Calls("getTodoStatistics", "all", unselected)>>

\* A page is mounted and loads.
PageInit ==
    /\ ServerInit
    /\ queue = [p \in Page |-> Load(TRUE)]
    /\ gathered = [p \in Page |-> Empty]
    /\ shown = [p \in Page |-> Empty]
    /\ selected = [p \in Page |-> "none"]
    /\ loading = [p \in Page |-> TRUE]
    /\ busy = [p \in Page |-> [forms |-> {}, completing |-> "none", deleting |-> "none"]]
    /\ finished = [p \in Page |-> {}]

-----------------------------------------------------------------------------
(* The user                                                                 *)

\* An identifier made of the time and a random number is nobody else's.
Fresh(id) ==
    /\ events[id] = <<>>
    /\ \A p \in Page :
          /\ action[p].id # id
          /\ \A k \in DOMAIN queue[p] : queue[p][k].id # id

Enqueue(p, name, id) ==
    /\ Len(queue[p]) < MaxQueue
    /\ Len(events[id]) < MaxEvents
    /\ queue' = [queue EXCEPT ![p] = Append(@, Calls(name, id, selected[p] = "none"))]

\* TodoListForm's handleSubmit
SubmitList(p, l) ==
    /\ ~loading[p]
    /\ "list" \notin busy[p].forms
    /\ Fresh(l)
    /\ Enqueue(p, "createTodoList", l)
    /\ busy' = [busy EXCEPT ![p].forms = @ \cup {"list"}]
    /\ UNCHANGED <<serverVars, gathered, shown, selected, loading, finished>>

\* TodoItemForm's handleSubmit; the form is there when a list is selected.
SubmitItem(p, i) ==
    /\ ~loading[p]
    /\ selected[p] \in shown[p].lists
    /\ "item" \notin busy[p].forms
    /\ Fresh(i)
    /\ Enqueue(p, "createTodoItem", i)
    /\ busy' = [busy EXCEPT ![p].forms = @ \cup {"item"}]
    /\ UNCHANGED <<serverVars, gathered, shown, selected, loading, finished>>

\* TodoList shows the items of the selected list that are not cancelled.
Active(p, i) == selected[p] \in shown[p].lists /\ shown[p].items[i] \notin {"absent", "cancelled"}

\* handleComplete: the button is disabled by the latest item it was used on.
ClickComplete(p, i) ==
    /\ Active(p, i)
    /\ shown[p].items[i] # "completed"
    /\ busy[p].completing # i
    /\ Enqueue(p, "completeTodoItem", i)
    /\ busy' = [busy EXCEPT ![p].completing = i]
    /\ UNCHANGED <<serverVars, gathered, shown, selected, loading, finished>>

\* handleDelete, confirmed
ClickDelete(p, i) ==
    /\ Active(p, i)
    /\ busy[p].deleting # i
    /\ Enqueue(p, "deleteTodoItem", i)
    /\ busy' = [busy EXCEPT ![p].deleting = i]
    /\ UNCHANGED <<serverVars, gathered, shown, selected, loading, finished>>

Select(p, l) ==
    /\ l \in shown[p].lists
    /\ selected' = [selected EXCEPT ![p] = l]
    /\ UNCHANGED <<serverVars, queue, gathered, shown, loading, busy, finished>>

-----------------------------------------------------------------------------
(* The page's actions                                                       *)

\* The page's next call becomes its action.
Dispatch(p) ==
    /\ action[p] = NoAction
    /\ queue[p] # <<>>
    /\ action' = [action EXCEPT ![p] = ActionOf(Head(queue[p]).name, Head(queue[p]).id)]
    /\ UNCHANGED <<events, lists, items, processed, faults, pageVars>>

ServerStep(p) ==
    /\ StateRead(p) \/ EventWritten(p) \/ EventProcessed(p) \/ Throws(p)
    /\ UNCHANGED pageVars

\* The statistics count cancelled items in the total only.
Counts(projection) ==
    [total     |-> Cardinality({i \in Item : projection[i] # "absent"}),
     pending   |-> Cardinality({i \in Item : projection[i] = "pending"}),
     completed |-> Cardinality({i \in Item : projection[i] = "completed"})]

\* queryProjection answers; what it says is not shown yet.
Answered(p) ==
    /\ At(p, "query")
    /\ gathered' = [gathered EXCEPT ![p] =
          CASE action[p].name = "getTodoLists"      -> [@ EXCEPT !.lists = lists, !.listed = TRUE]
            [] action[p].name = "getTodoItems"      -> [@ EXCEPT !.items = items]
            [] action[p].name = "getTodoStatistics" -> [@ EXCEPT !.stats = Counts(items)]]
    /\ Goes(p, "success")
    /\ UNCHANGED <<events, lists, items, processed, faults, queue, shown, selected, loading, busy, finished>>

Over(p) == At(p, "success") \/ At(p, "failure")

\* The third result of a load: the hooks are set, those of failed reads to
\* what they held.  No list selected when the handler was made means that the
\* first of the lists got is selected now.
LoadEnds(p) ==
    /\ Over(p)
    /\ action[p].name = "getTodoStatistics"
    /\ action' = [action EXCEPT ![p] = NoAction]
    /\ queue' = [queue EXCEPT ![p] = Tail(@)]
    /\ gathered' = [gathered EXCEPT ![p].listed = FALSE]
    /\ shown' = [shown EXCEPT ![p] = gathered'[p]]
    /\ IF Head(queue[p]).unselected /\ gathered[p].listed /\ gathered[p].lists # {}
          THEN \E l \in gathered[p].lists : selected' = [selected EXCEPT ![p] = l]
          ELSE UNCHANGED selected
    /\ loading' = [loading EXCEPT ![p] = FALSE]
    /\ UNCHANGED <<events, lists, items, processed, faults, busy, finished>>

\* One of its other results.
Gathered(p) ==
    /\ Over(p)
    /\ action[p].name \in {"getTodoLists", "getTodoItems"}
    /\ action' = [action EXCEPT ![p] = NoAction]
    /\ queue' = [queue EXCEPT ![p] = Tail(@)]
    /\ UNCHANGED <<events, lists, items, processed, faults, gathered, shown, selected, loading, busy, finished>>

\* The handlers' finally: a button is enabled whichever item it was used on last.
Released(p) ==
    CASE action[p].name = "createTodoList"   -> [busy[p] EXCEPT !.forms = @ \ {"list"}]
      [] action[p].name = "createTodoItem"   -> [busy[p] EXCEPT !.forms = @ \ {"item"}]
      [] action[p].name = "completeTodoItem" -> [busy[p] EXCEPT !.completing = "none"]
      [] action[p].name = "deleteTodoItem"   -> [busy[p] EXCEPT !.deleting = "none"]

\* A change that succeeded is followed by a load, one that failed by an alert.
Changed(p) ==
    /\ Over(p)
    /\ action[p].name \in Change
    /\ action' = [action EXCEPT ![p] = NoAction]
    /\ queue' = [queue EXCEPT ![p] =
          Tail(@) \o (IF At(p, "success") THEN Load(Head(@).unselected) ELSE <<>>)]
    /\ busy' = [busy EXCEPT ![p] = Released(p)]
    /\ finished' = IF At(p, "success") /\ action[p].name = "completeTodoItem"
                      THEN [finished EXCEPT ![p] = @ \cup {action[p].id}] ELSE finished
    /\ UNCHANGED <<events, lists, items, processed, faults, gathered, shown, selected, loading>>

PageNext ==
    \E p \in Page :
        \/ \E l \in List : SubmitList(p, l) \/ Select(p, l)
        \/ \E i \in Item : SubmitItem(p, i) \/ ClickComplete(p, i) \/ ClickDelete(p, i)
        \/ Dispatch(p)
        \/ ServerStep(p)
        \/ Answered(p)
        \/ Gathered(p)
        \/ LoadEnds(p)
        \/ Changed(p)

PageSpec == PageInit /\ [][PageNext]_allVars

-----------------------------------------------------------------------------
(* Properties                                                               *)

\* A page that has completed an item and has nothing left to load does not
\* show it as pending, whatever other pages do to it: the event is processed
\* before the action returns, and no later event makes an item pending again.
\* (While faults occur the load itself may fail.)
ReadsItsWrites ==
    \A p \in Page : \A i \in finished[p] :
        queue[p] = <<>> /\ faults = 0 => shown[p].items[i] \notin {"absent", "pending"}

\* The actions that have written to item i and have not processed it.
Unprocessed(i) == {p \in Page : At(p, "process") /\ action[p].id = i}

\* The projection of an item and its log differ in the end only if an event
\* was lost to a failure, or one was processed before an earlier one: by
\* itself an item's projection can neither miss an event nor repeat one.
DivergesOnlyByOvertaking ==
    \A i \in Item :
        Unprocessed(i) = {} /\ items[i] # Expected(i) =>
            \/ faults > 0
            \/ \E j, k \in DOMAIN processed[i] : j < k /\ processed[i][j] > processed[i][k]

=============================================================================
