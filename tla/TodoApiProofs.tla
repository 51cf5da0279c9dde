--------------------------- MODULE TodoApiProofs ---------------------------
(***************************************************************************)
(* Theorems about TodoApi, for any number of requests, identifiers and     *)
(* numbers.                                                                *)
(*                                                                         *)
(* The invariants speak of an event and of the request that wrote    *)
(* it.  What connects them is what a request knows at each of its stages   *)
(* (HandlerInv), that what it has seen is still there (SeenInv), that an   *)
(* event is as its request had it (EventInv), and which requests may find  *)
(* their route's store running (StartInv).                                 *)
(***************************************************************************)
EXTENDS TodoApi, SequenceTheorems, TLAPS

Writes == Creation \cup Edit

\* What a handler holds at each stage.
HandlerInv ==
    \A q \in Call :
        /\ At(q, "unsent") => request[q] = Unsent
        /\ ~At(q, "unsent") => request[q].id \in Id
        /\ ~At(q, "unsent") /\ request[q].kind \in Creation => request[q].number = 1
        /\ request[q].type = "todo_item_created" => request[q].kind = "postEvent"
        /\ request[q].seen > 0 => request[q].kind \in Edit /\ (At(q, "decided") \/ At(q, "over"))
        /\ At(q, "decided") => /\ request[q].kind \in Edit
                               /\ request[q].seen > 0
                               /\ request[q].number = request[q].seen + 1
        /\ ~At(q, "over") => request[q].code = 0

\* What a handler that found its item has read is a beginning of the log, and an item is in it.
SeenInv ==
    \A q \in Call : request[q].seen > 0 /\ request[q].code # 404 =>
        /\ request[q].seen <= Len(log[request[q].id])
        /\ \E k \in 1..request[q].seen : log[request[q].id][k].type = "todo_item_created"

\* An event is what its request, now answered, had it.
EventInv ==
    \A i \in Id : \A k \in 1..Len(log[i]) :
        /\ At(log[i][k].by, "over") /\ request[log[i][k].by].code = 200
        /\ request[log[i][k].by].id = i
        /\ log[i][k].type = request[log[i][k].by].type
        /\ log[i][k].seen = request[log[i][k].by].seen
        /\ request[log[i][k].by].kind \in Edit => log[i][k].seen = k - 1 /\ log[i][k].seen > 0

\* One request starts a route's store; others get it running or early.
StartInv ==
    /\ \A q \in Call : At(q, "starting") => store[RouteOf(request[q].kind)] = "starting"
    /\ \A q, p \in Call :
          At(q, "starting") /\ At(p, "starting") /\ RouteOf(request[q].kind) = RouteOf(request[p].kind)
              => q = p
    /\ \A q \in Call : At(q, "ready") \/ At(q, "decided") => q \in early \/ Running(q)

\* What an answer with code 200 means for the event.
AnswerInv ==
    /\ \A q \in Call :
          At(q, "over") /\ request[q].code = 200 /\ request[q].kind \in Writes =>
              Stored(q) \/ q \in early \cup failed \/ Len(log[request[q].id]) > request[q].seen
    /\ \A q \in Call : report[q] = "resolved" => At(q, "over") /\ request[q].code = 200

\* The inductive invariant.
Inv == TypeOK /\ HandlerInv /\ SeenInv /\ EventInv /\ StartInv /\ AnswerInv

-----------------------------------------------------------------------------

(* The initial states satisfy the invariant. *)
LEMMA InitInv == Init => Inv
<1> SUFFICES ASSUME Init PROVE Inv
  OBVIOUS
<1> USE DEF Init
<1>1. TypeOK
  <2>1. log \in [Id -> Seq(Event)]
    OBVIOUS
  <2>2. request \in [Call -> Handler]
    BY DEF Handler, Unsent, Kind, Creation, Edit, Reading, TodoEvent
  <2> QED
    BY <2>1, <2>2 DEF TypeOK
<1>0. \A q \in Call : /\ request[q] = Unsent
                      /\ request[q].at = "unsent" /\ request[q].type = "undefined"
                      /\ request[q].seen = 0 /\ request[q].code = 0
  BY DEF Unsent
<1>2. HandlerInv
  <2> SUFFICES ASSUME NEW q \in Call
               PROVE  /\ request[q] = Unsent /\ At(q, "unsent")
                      /\ request[q].type # "todo_item_created"
                      /\ ~(request[q].seen > 0)
                      /\ request[q].code = 0
    BY DEF HandlerInv, At
  <2> QED
    BY <1>0 DEF At
<1>3. SeenInv
  BY <1>0 DEF SeenInv
<1>4. EventInv
  BY DEF EventInv
<1>5. StartInv
  BY <1>0 DEF StartInv, At
<1>6. AnswerInv
  BY <1>0 DEF AnswerInv, At
<1> QED
  BY <1>1, <1>2, <1>3, <1>4, <1>5, <1>6 DEF Inv

(* Where a step of a request takes it. *)
LEMMA StepCases ==
    ASSUME [Next]_vars
    PROVE  \/ UNCHANGED vars
           \/ \E q \in Call :
                 \/ \E kind \in Kind \ {"postEvent"}, i \in Id : Ask(q, kind, i)
                 \/ \E i \in Id, type \in TodoEvent, n \in 1..MaxNumber : Post(q, i, type, n)
                 \/ GetEventStore(q)
                 \/ RefuseStatus(q)
                 \/ StartEnds(q)
                 \/ ReadItem(q)
                 \/ ReadEvents(q)
                 \/ RefuseType(q)
                 \/ WriteEvent(q)
                 \/ WriteFails(q)
                 \/ ActionReturns(q)
                 \/ FetchFails(q)
BY DEF Next

(* A kind's route is a route, and its data type is one of the four or none. *)
LEMMA KindTypes ==
    ASSUME NEW kind \in Kind
    PROVE  /\ RouteOf(kind) \in Route
           /\ kind \in Writes => DataType(kind) \in (TodoEvent \cup {"undefined"}) \ {"todo_item_created"}
BY DEF Kind, Creation, Edit, Reading, Writes, Route, RouteOf, DataType, TodoEvent

(* Sending a request makes it what HandlerInv says.                         *)
LEMMA SendStep ==
    ASSUME Inv, NEW q \in Call,
           \/ \E kind \in Kind \ {"postEvent"}, i \in Id : Ask(q, kind, i)
           \/ \E i \in Id, type \in TodoEvent, n \in 1..MaxNumber : Post(q, i, type, n)
    PROVE  \E kind \in Kind, i \in Id, type \in TodoEvent \cup {"undefined"}, n \in Nat :
              /\ Send(q, kind, i, type, n)
              /\ kind \in Creation => n = 1
              /\ type = "todo_item_created" => kind = "postEvent"
<1>1. CASE \E kind \in Kind \ {"postEvent"}, i \in Id : Ask(q, kind, i)
  <2>1. PICK kind \in Kind \ {"postEvent"}, i \in Id : Ask(q, kind, i)
    BY <1>1
  <2>2. CASE kind \in Writes
    <3>1. Send(q, kind, i, DataType(kind), 1)
      BY <2>1, <2>2 DEF Ask, Writes
    <3> QED
      BY <3>1, <2>2, KindTypes
  <2>3. CASE kind \notin Writes
    <3>1. Send(q, kind, i, "undefined", 0)
      BY <2>1, <2>3 DEF Ask, Writes
    <3> QED
      BY <3>1, <2>3 DEF Writes
  <2> QED
    BY <2>2, <2>3
<1>2. CASE \E i \in Id, type \in TodoEvent, n \in 1..MaxNumber : Post(q, i, type, n)
  <2>1. PICK i \in Id, type \in TodoEvent, n \in 1..MaxNumber : Post(q, i, type, n)
    BY <1>2
  <2> QED
    BY <2>1, TodoApiAssumption DEF Post, Kind, Creation
<1> QED
  BY <1>1, <1>2

(* Every request that is made is sent. *)
LEMMA Sends ==
    ASSUME Inv, NEW q \in Call,
           \/ \E kind \in Kind \ {"postEvent"}, i \in Id : Ask(q, kind, i)
           \/ \E i \in Id, type \in TodoEvent, n \in 1..MaxNumber : Post(q, i, type, n)
    PROVE  \E kind \in Kind, i \in Id, type \in TodoEvent \cup {"undefined"}, n \in Nat :
              Send(q, kind, i, type, n)
<1>1. PICK kind \in Kind, i \in Id, type \in TodoEvent \cup {"undefined"}, n \in Nat :
              /\ Send(q, kind, i, type, n)
              /\ kind \in Creation => n = 1
              /\ type = "todo_item_created" => kind = "postEvent"
  BY SendStep
<1> QED
  BY <1>1

(* The four ways in which a step changes a handler.                         *)
LEMMA SendFields ==
    ASSUME TypeOK, NEW q \in Call, NEW kind \in Kind, NEW i \in Id,
           NEW type \in TodoEvent \cup {"undefined"}, NEW n \in Nat, Send(q, kind, i, type, n)
    PROVE  /\ request' \in [Call -> Handler]
           /\ \A p \in Call \ {q} : request'[p] = request[p]
           /\ request'[q].at = "sent" /\ request'[q].kind = kind /\ request'[q].id = i
           /\ request'[q].type = type /\ request'[q].number = n
           /\ request'[q].seen = request[q].seen /\ request'[q].code = request[q].code
<1> DEFINE h == [request[q] EXCEPT !.at = "sent", !.kind = kind, !.id = i,
                             !.type = type, !.number = n]
<1>1. request[q] \in Handler
  BY DEF TypeOK
<1>2. h \in Handler
  <2> DEFINE h1 == [request[q] EXCEPT !.at = "sent"]
  <2> DEFINE h2 == [h1 EXCEPT !.kind = kind]
  <2> DEFINE h3 == [h2 EXCEPT !.id = i]
  <2> DEFINE h4 == [h3 EXCEPT !.type = type]
  <2> DEFINE h5 == [h4 EXCEPT !.number = n]
  <2>1. h1 \in Handler
    BY <1>1 DEF Handler
  <2>2. h2 \in Handler
    <3> HIDE DEF h1
    <3> QED
      BY <1>1, <2>1 DEF Handler
  <2>3. h3 \in Handler
    <3> HIDE DEF h2
    <3> QED
      BY <1>1, <2>2 DEF Handler
  <2>4. h4 \in Handler
    <3> HIDE DEF h3
    <3> QED
      BY <1>1, <2>3 DEF Handler
  <2>5. h5 \in Handler
    <3> HIDE DEF h4
    <3> QED
      BY <1>1, <2>4 DEF Handler
  <2>6. h = h5
    OBVIOUS
  <2> QED
    BY <2>5, <2>6
<1>3. request' = [request EXCEPT ![q] = h]
  BY DEF Send
<1>5. request' \in [Call -> Handler] /\ request'[q] = h /\ \A p \in Call \ {q} : request'[p] = request[p]
  <2> HIDE DEF h
  <2> QED
    BY <1>2, <1>3 DEF TypeOK
<1> QED
  BY <1>1, <1>5 DEF Handler

LEMMA ContinuesFields ==
    ASSUME TypeOK, NEW q \in Call, NEW to \in {"starting", "ready"}, Continues(q, to)
    PROVE  /\ request' \in [Call -> Handler]
           /\ \A p \in Call \ {q} : request'[p] = request[p]
           /\ request'[q].at = to /\ request'[q].kind = request[q].kind
           /\ request'[q].id = request[q].id /\ request'[q].type = request[q].type
           /\ request'[q].number = request[q].number
           /\ request'[q].seen = request[q].seen /\ request'[q].code = request[q].code
<1> DEFINE h == [request[q] EXCEPT !.at = to]
<1>1. request[q] \in Handler
  BY DEF TypeOK
<1>2. h \in Handler
  BY <1>1 DEF Handler
<1>3. request' = [request EXCEPT ![q] = h]
  BY DEF Continues
<1>5. request' \in [Call -> Handler] /\ request'[q] = h /\ \A p \in Call \ {q} : request'[p] = request[p]
  <2> HIDE DEF h
  <2> QED
    BY <1>2, <1>3 DEF TypeOK
<1> QED
  BY <1>1, <1>5 DEF Handler

LEMMA AnswersFields ==
    ASSUME TypeOK, NEW q \in Call, NEW code \in {200, 400, 404, 500}, Answers(q, code)
    PROVE  /\ request' \in [Call -> Handler]
           /\ \A p \in Call \ {q} : request'[p] = request[p]
           /\ request'[q].at = "over" /\ request'[q].kind = request[q].kind
           /\ request'[q].id = request[q].id /\ request'[q].type = request[q].type
           /\ request'[q].number = request[q].number
           /\ request'[q].seen = request[q].seen /\ request'[q].code = code
<1> DEFINE h == [request[q] EXCEPT !.at = "over", !.code = code]
<1>1. request[q] \in Handler
  BY DEF TypeOK
<1>2. h \in Handler
  <2> DEFINE h1 == [request[q] EXCEPT !.at = "over"]
  <2> DEFINE h2 == [h1 EXCEPT !.code = code]
  <2>1. h1 \in Handler
    BY <1>1 DEF Handler
  <2>2. h2 \in Handler
    <3> HIDE DEF h1
    <3> QED
      BY <1>1, <2>1 DEF Handler
  <2>3. h = h2
    OBVIOUS
  <2> QED
    BY <2>2, <2>3
<1>3. request' = [request EXCEPT ![q] = h]
  BY DEF Answers
<1>5. request' \in [Call -> Handler] /\ request'[q] = h /\ \A p \in Call \ {q} : request'[p] = request[p]
  <2> HIDE DEF h
  <2> QED
    BY <1>2, <1>3 DEF TypeOK
<1> QED
  BY <1>1, <1>5 DEF Handler

LEMMA DecidesFields ==
    ASSUME TypeOK, NEW q \in Call, NEW i \in Id, Decides(q, log[i], Len(log[i]) + 1)
    PROVE  /\ request' \in [Call -> Handler]
           /\ \A p \in Call \ {q} : request'[p] = request[p]
           /\ request'[q].at = "decided" /\ request'[q].kind = request[q].kind
           /\ request'[q].id = request[q].id /\ request'[q].type = request[q].type
           /\ request'[q].number = Len(log[i]) + 1
           /\ request'[q].seen = Len(log[i]) /\ request'[q].code = request[q].code
<1> DEFINE h == [request[q] EXCEPT !.at = "decided", !.seen = Len(log[i]),
                             !.number = Len(log[i]) + 1]
<1>1. request[q] \in Handler
  BY DEF TypeOK
<1>4. Len(log[i]) \in Nat /\ Len(log[i]) + 1 \in Nat
  BY LenProperties DEF TypeOK
<1>2. h \in Handler
  <2> DEFINE h1 == [request[q] EXCEPT !.at = "decided"]
  <2> DEFINE h2 == [h1 EXCEPT !.seen = Len(log[i])]
  <2> DEFINE h3 == [h2 EXCEPT !.number = Len(log[i]) + 1]
  <2>1. h1 \in Handler
    BY <1>1 DEF Handler
  <2>2. h2 \in Handler
    <3> HIDE DEF h1
    <3> QED
      BY <1>1, <2>1, <1>4 DEF Handler
  <2>3. h3 \in Handler
    <3> HIDE DEF h2
    <3> QED
      BY <1>1, <2>2, <1>4 DEF Handler
  <2>4. h = h3
    OBVIOUS
  <2> QED
    BY <2>3, <2>4
<1>3. request' = [request EXCEPT ![q] = h]
  BY DEF Decides
<1>5. request' \in [Call -> Handler] /\ request'[q] = h /\ \A p \in Call \ {q} : request'[p] = request[p]
  <2> HIDE DEF h
  <2> QED
    BY <1>2, <1>3 DEF TypeOK
<1> QED
  BY <1>1, <1>5 DEF Handler

LEMMA NotFoundFields ==
    ASSUME TypeOK, NEW q \in Call, NEW i \in Id, NotFound(q, log[i])
    PROVE  /\ request' \in [Call -> Handler]
           /\ \A p \in Call \ {q} : request'[p] = request[p]
           /\ request'[q].at = "over" /\ request'[q].kind = request[q].kind
           /\ request'[q].id = request[q].id /\ request'[q].type = request[q].type
           /\ request'[q].number = request[q].number
           /\ request'[q].code = 404
<1> DEFINE h == [request[q] EXCEPT !.at = "over", !.seen = Len(log[i]), !.code = 404]
<1>1. request[q] \in Handler
  BY DEF TypeOK
<1>4. Len(log[i]) \in Nat
  BY LenProperties DEF TypeOK
<1>2. h \in Handler
  <2> DEFINE h1 == [request[q] EXCEPT !.at = "over"]
  <2> DEFINE h2 == [h1 EXCEPT !.seen = Len(log[i])]
  <2> DEFINE h3 == [h2 EXCEPT !.code = 404]
  <2>1. h1 \in Handler
    BY <1>1 DEF Handler
  <2>2. h2 \in Handler
    <3> HIDE DEF h1
    <3> QED
      BY <1>1, <2>1, <1>4 DEF Handler
  <2>3. h3 \in Handler
    <3> HIDE DEF h2
    <3> QED
      BY <1>1, <2>2 DEF Handler
  <2>4. h = h3
    OBVIOUS
  <2> QED
    BY <2>3, <2>4
<1>3. request' = [request EXCEPT ![q] = h]
  BY DEF NotFound
<1>5. request' \in [Call -> Handler] /\ request'[q] = h /\ \A p \in Call \ {q} : request'[p] = request[p]
  <2> HIDE DEF h
  <2> QED
    BY <1>2, <1>3 DEF TypeOK
<1> QED
  BY <1>1, <1>5 DEF Handler

\* What a step does to the handler of request q, one disjunct per stage.
Moves(q) ==
    \/ /\ request[q] = Unsent /\ request'[q].at = "sent" /\ request'[q].id \in Id
       /\ request'[q].seen = 0 /\ request'[q].code = 0
       /\ request'[q].kind \in Creation => request'[q].number = 1
       /\ request'[q].type = "todo_item_created" => request'[q].kind = "postEvent"
    \/ /\ request[q].at \in {"sent", "starting", "ready", "decided"}
       /\ request'[q].kind = request[q].kind /\ request'[q].id = request[q].id
       /\ request'[q].type = request[q].type
       /\ \/ /\ request'[q].at \in {"starting", "ready", "over"}
             /\ request'[q].number = request[q].number /\ request'[q].seen = request[q].seen
             /\ request'[q].at # "over" =>
                   request[q].at # "decided" /\ request'[q].code = request[q].code
             /\ request'[q].code # 404
          \/ request[q].kind \in Edit /\ request'[q].at = "over" /\ request'[q].code = 404
             /\ request'[q].number = request[q].number
          \/ /\ request[q].kind \in Edit /\ At(q, "ready")
             /\ request'[q].at = "decided" /\ request'[q].code = request[q].code
             /\ Exists(log[request[q].id]) /\ log' = log
             /\ request'[q].seen = Len(log[request[q].id])
             /\ request'[q].number = Len(log[request[q].id]) + 1

(* A step moves one handler at most, and leaves the others as they are.     *)
LEMMA HandlersMove ==
    ASSUME Inv, [Next]_vars
    PROVE  /\ request' \in [Call -> Handler]
           /\ \/ request' = request
              \/ \E q \in Call : Moves(q) /\ \A p \in Call \ {q} : request'[p] = request[p]
<1> DEFINE Goal(q) == /\ request' \in [Call -> Handler]
                      /\ Moves(q) /\ \A p \in Call \ {q} : request'[p] = request[p]
<1> USE DEF Inv, At
<1>1. ASSUME NEW q \in Call,
             \/ \E kind \in Kind \ {"postEvent"}, i \in Id : Ask(q, kind, i)
             \/ \E i \in Id, type \in TodoEvent, n \in 1..MaxNumber : Post(q, i, type, n)
      PROVE  Goal(q)
  <2>1. PICK kind \in Kind, i \in Id, type \in TodoEvent \cup {"undefined"}, n \in Nat :
              /\ Send(q, kind, i, type, n)
              /\ kind \in Creation => n = 1
              /\ type = "todo_item_created" => kind = "postEvent"
    BY <1>1, SendStep
  <2>2. request[q] = Unsent
    BY <2>1 DEF Send, HandlerInv
  <2>3. request[q].seen = 0 /\ request[q].code = 0
    BY <2>2 DEF Unsent
  <2> QED
    BY <2>1, <2>2, <2>3, SendFields DEF Moves
<1>2. ASSUME NEW q \in Call, GetEventStore(q) PROVE Goal(q)
  <2>1. Answers(q, 500) \/ Continues(q, "starting") \/ Continues(q, "ready")
    BY <1>2 DEF GetEventStore
  <2>2. request[q].at = "sent"
    BY <1>2 DEF GetEventStore
  <2>3. request[q].code = 0
    BY <2>2 DEF HandlerInv
  <2> QED
    BY <2>1, <2>2, <2>3, ContinuesFields, AnswersFields DEF Moves
<1>3. ASSUME NEW q \in Call, RefuseStatus(q) PROVE Goal(q)
  BY <1>3, AnswersFields DEF RefuseStatus, Moves
<1>4. ASSUME NEW q \in Call, StartEnds(q) PROVE Goal(q)
  <2>1. request[q].at = "starting" /\ request[q].code = 0
    BY <1>4 DEF StartEnds, HandlerInv
  <2>2. Answers(q, 500) \/ Continues(q, "ready")
    BY <1>4 DEF StartEnds
  <2> QED
    BY <2>1, <2>2, ContinuesFields, AnswersFields DEF Moves
<1>5. ASSUME NEW q \in Call, ReadItem(q) PROVE Goal(q)
  <2>1. request[q].id \in Id
    BY <1>5 DEF ReadItem, HandlerInv
  <2>2. CASE Running(q) /\ Exists(log[request[q].id])
    <3>1. \/ Answers(q, 500)
          \/ Decides(q, log[request[q].id], Len(log[request[q].id]) + 1) /\ log' = log
      BY <1>5, <2>2 DEF ReadItem
    <3>2. request[q].kind \in Edit /\ request[q].at = "ready"
      BY <1>5 DEF ReadItem
    <3> QED
      BY <2>1, <2>2, <3>1, <3>2, AnswersFields, DecidesFields DEF Moves
  <2>3. CASE ~(Running(q) /\ Exists(log[request[q].id]))
    <3>1. Answers(q, 500) \/ NotFound(q, log[request[q].id])
      BY <1>5, <2>3 DEF ReadItem
    <3>2. request[q].at = "ready" /\ request[q].kind \in Edit
      BY <1>5 DEF ReadItem
    <3> QED
      BY <2>1, <3>1, <3>2, AnswersFields, NotFoundFields DEF Moves
  <2> QED
    BY <2>2, <2>3
<1>6. ASSUME NEW q \in Call, ReadEvents(q) PROVE Goal(q)
  BY <1>6, AnswersFields DEF ReadEvents, Moves
<1>7. ASSUME NEW q \in Call, RefuseType(q) PROVE Goal(q)
  BY <1>7, AnswersFields DEF RefuseType, Moves
<1>8. ASSUME NEW q \in Call, WriteEvent(q) \/ WriteFails(q) PROVE Goal(q)
  BY <1>8, AnswersFields DEF WriteEvent, WriteFails, HasEvent, Moves
<1>9. ASSUME NEW q \in Call, ActionReturns(q) \/ FetchFails(q)
      PROVE  request' = request /\ request' \in [Call -> Handler]
  BY <1>9 DEF ActionReturns, FetchFails, TypeOK
<1>10. ASSUME UNCHANGED vars PROVE request' = request /\ request' \in [Call -> Handler]
  BY <1>10 DEF vars, TypeOK
<1> QED
  BY <1>1, <1>2, <1>3, <1>4, <1>5, <1>6, <1>7, <1>8, <1>9, <1>10, StepCases

\* Request q has its event appended to the log.
Appends(q) ==
    LET i == request[q].id IN
    /\ i \in Id
    /\ At(q, "ready") \/ At(q, "decided")
    /\ request[q].kind \in Creation \cup {"postEvent"} \/ At(q, "decided")
    /\ Accepts(request[q])
    /\ Len(log'[i]) = Len(log[i]) + 1
    /\ \A k \in 1..Len(log[i]) : log'[i][k] = log[i][k]
    /\ log'[i][Len(log[i]) + 1] = [type |-> request[q].type, by |-> q, seen |-> request[q].seen]
    /\ \A j \in Id \ {i} : log'[j] = log[j]

(* A write appends its event, or leaves the log as it is.                   *)
LEMMA WriteAppends ==
    ASSUME Inv, NEW q \in Call, WriteEvent(q)
    PROVE  /\ log' \in [Id -> Seq(Event)]
           /\ log' = log \/ Appends(q)
           /\ Running(q) /\ Accepts(request[q]) => Appends(q)
<1> DEFINE i == request[q].id
           e == [type |-> request[q].type, by |-> q, seen |-> request[q].seen]
<1>1. At(q, "ready") \/ At(q, "decided")
  BY DEF WriteEvent, HasEvent
<1>2. i \in Id
  BY <1>1 DEF Inv, HandlerInv, At
<1>3. log[i] \in Seq(Event) /\ log \in [Id -> Seq(Event)]
  BY <1>2 DEF Inv, TypeOK
<1>4. e \in Event
  BY DEF Inv, TypeOK, Handler, Event
<1>5. CASE Running(q) /\ Accepts(request[q])
  <2>1. log' = [log EXCEPT ![i] = Append(log[i], e)]
    BY <1>5 DEF WriteEvent
  <2>2. /\ Append(log[i], e) \in Seq(Event)
        /\ Len(Append(log[i], e)) = Len(log[i]) + 1
        /\ \A k \in 1..Len(log[i]) : Append(log[i], e)[k] = log[i][k]
        /\ Append(log[i], e)[Len(log[i]) + 1] = e
    BY <1>3, <1>4, AppendProperties
  <2> HIDE DEF e, i
  <2>3. /\ log' \in [Id -> Seq(Event)]
        /\ log'[i] = Append(log[i], e)
        /\ \A j \in Id \ {i} : log'[j] = log[j]
    BY <1>2, <1>3, <2>1, <2>2
  <2>4. request[q].kind \in Creation \cup {"postEvent"} \/ At(q, "decided")
    BY DEF WriteEvent, HasEvent
  <2> QED
    BY <1>1, <1>2, <1>5, <2>2, <2>3, <2>4 DEF Appends, e, i
<1>6. CASE ~(Running(q) /\ Accepts(request[q]))
  BY <1>3, <1>6 DEF WriteEvent
<1> QED
  BY <1>5, <1>6

(* The log changes by appends of a write only.                              *)
LEMMA LogGrows ==
    ASSUME Inv, [Next]_vars
    PROVE  /\ log' \in [Id -> Seq(Event)]
           /\ \A i \in Id : /\ Len(log[i]) \in Nat /\ Len(log'[i]) \in Nat
                            /\ Len(log[i]) <= Len(log'[i])
                            /\ \A k \in 1..Len(log[i]) : log'[i][k] = log[i][k]
           /\ log' = log \/ \E q \in Call : WriteEvent(q) /\ Appends(q)
<1>1. log \in [Id -> Seq(Event)] /\ \A i \in Id : Len(log[i]) \in Nat
  BY LenProperties DEF Inv, TypeOK
<1>2. CASE log' = log
  BY <1>1, <1>2
<1>3. CASE \E q \in Call : WriteEvent(q) /\ log' # log
  <2>1. PICK q \in Call : WriteEvent(q) /\ Appends(q)
    BY <1>3, WriteAppends
  <2>2. log' \in [Id -> Seq(Event)]
    BY <2>1, WriteAppends
  <2>3. ASSUME NEW i \in Id
        PROVE  /\ Len(log'[i]) \in Nat /\ Len(log[i]) <= Len(log'[i])
               /\ \A k \in 1..Len(log[i]) : log'[i][k] = log[i][k]
    <3>1. CASE i = request[q].id
      BY <1>1, <2>1, <3>1 DEF Appends
    <3>2. CASE i # request[q].id
      BY <1>1, <2>1, <3>2 DEF Appends
    <3> QED
      BY <3>1, <3>2
  <2> QED
    BY <1>1, <2>1, <2>2, <2>3
<1>4. log' = log \/ \E q \in Call : WriteEvent(q) /\ log' # log
  <2>1. ASSUME NEW q \in Call,
               \/ \E kind \in Kind \ {"postEvent"}, i \in Id : Ask(q, kind, i)
               \/ \E i \in Id, type \in TodoEvent, n \in 1..MaxNumber : Post(q, i, type, n)
        PROVE  log' = log
    BY <2>1, Sends DEF Send
  <2>2. ASSUME NEW q \in Call,
               \/ GetEventStore(q) \/ RefuseStatus(q) \/ StartEnds(q) \/ ReadItem(q)
               \/ ReadEvents(q) \/ RefuseType(q) \/ WriteFails(q) \/ ActionReturns(q)
               \/ FetchFails(q)
        PROVE  log' = log
    BY <2>2 DEF GetEventStore, RefuseStatus, StartEnds, ReadItem, ReadEvents, RefuseType,
                WriteFails, ActionReturns, FetchFails
  <2> QED
    BY <2>1, <2>2, StepCases DEF vars
<1> QED
  BY <1>2, <1>3, <1>4

-----------------------------------------------------------------------------
(* The parts of the invariant, one lemma each                               *)

(* A handler moves to its next stage with what that stage holds. *)
LEMMA HandlerStep == ASSUME Inv, [Next]_vars PROVE HandlerInv'
<1>1. CASE request' = request
  BY <1>1 DEF Inv, HandlerInv, At
<1>2. ASSUME NEW q \in Call, Moves(q), \A p \in Call \ {q} : request'[p] = request[p]
      PROVE  HandlerInv'
  <2> DEFINE Holds(p) ==
        /\ At(p, "unsent") => request[p] = Unsent
        /\ ~At(p, "unsent") => request[p].id \in Id
        /\ ~At(p, "unsent") /\ request[p].kind \in Creation => request[p].number = 1
        /\ request[p].type = "todo_item_created" => request[p].kind = "postEvent"
        /\ request[p].seen > 0 => request[p].kind \in Edit /\ (At(p, "decided") \/ At(p, "over"))
        /\ At(p, "decided") => /\ request[p].kind \in Edit
                               /\ request[p].seen > 0
                               /\ request[p].number = request[p].seen + 1
        /\ ~At(p, "over") => request[p].code = 0
  <2>1. \A p \in Call : Holds(p)
    BY DEF Inv, HandlerInv
  <2>2. \A p \in Call \ {q} : Holds(p)'
    BY <1>2, <2>1 DEF At
  <2>3. Holds(q)'
    <3>1. CASE request[q] = Unsent /\ request'[q].at = "sent"
      BY <1>2, <3>1 DEF Moves, At, Unsent
    <3>2. CASE request'[q].at \in {"starting", "ready", "over"}
      BY <1>2, <2>1, <3>2 DEF Moves, At, Unsent
    <3>3. CASE request'[q].at = "decided"
      <4>1. Exists(log[request[q].id]) /\ request[q].id \in Id
        BY <1>2, <2>1, <3>3 DEF Moves, At, Unsent
      <4>2. Len(log[request[q].id]) \in Nat /\ Len(log[request[q].id]) # 0
        BY <4>1, LenProperties DEF Inv, TypeOK, Exists
      <4> QED
        BY <1>2, <2>1, <3>3, <4>1, <4>2 DEF Moves, At, Creation, Edit
    <3> QED
      BY <1>2, <3>1, <3>2, <3>3 DEF Moves
  <2> QED
    BY <2>2, <2>3 DEF HandlerInv
<1> QED
  BY <1>1, <1>2, HandlersMove

(* What has been read stays a beginning of the log. *)
LEMMA SeenStep == ASSUME Inv, [Next]_vars PROVE SeenInv'
<1> SUFFICES ASSUME NEW q \in Call, request'[q].seen > 0, request'[q].code # 404
             PROVE  /\ request'[q].seen <= Len(log'[request'[q].id])
                    /\ \E k \in 1..request'[q].seen :
                          log'[request'[q].id][k].type = "todo_item_created"
  BY DEF SeenInv
<1>1. request[q] \in Handler
  BY DEF Inv, TypeOK
<1>2. CASE request'[q].seen = request[q].seen /\ request'[q].id = request[q].id
  <2>1. request[q].seen > 0 /\ request[q].seen \in Nat /\ request[q].code # 404
    <3>1. request[q].code # 404
      BY HandlersMove DEF Moves, Unsent, Inv, HandlerInv, At
    <3> QED
      BY <1>1, <1>2, <3>1 DEF Handler
  <2>2. request[q].id \in Id
    BY <2>1 DEF Inv, HandlerInv, At
  <2>3. PICK k \in 1..request[q].seen : log[request[q].id][k].type = "todo_item_created"
    BY <2>1 DEF Inv, SeenInv
  <2>4. request[q].seen <= Len(log[request[q].id])
    BY <2>1 DEF Inv, SeenInv
  <2>5. k \in 1..Len(log[request[q].id])
    BY <2>1, <2>2, <2>4, LogGrows
  <2>6. /\ Len(log[request[q].id]) <= Len(log'[request[q].id])
        /\ Len(log[request[q].id]) \in Nat /\ Len(log'[request[q].id]) \in Nat
        /\ log'[request[q].id][k] = log[request[q].id][k]
    BY <2>2, <2>5, LogGrows
  <2>7. request'[q].seen <= Len(log'[request'[q].id])
    BY <1>2, <2>1, <2>4, <2>6
  <2>8. k \in 1..request'[q].seen /\ log'[request'[q].id][k].type = "todo_item_created"
    BY <1>2, <2>3, <2>6
  <2> QED
    BY <2>7, <2>8
<1>3. CASE ~(request'[q].seen = request[q].seen /\ request'[q].id = request[q].id)
  <2>1. Moves(q)
    BY <1>3, HandlersMove
  <2>2. /\ At(q, "ready") /\ Exists(log[request[q].id]) /\ log' = log
        /\ request'[q].id = request[q].id /\ request'[q].seen = Len(log[request[q].id])
    BY <1>3, <2>1 DEF Moves
  <2>3. request[q].id \in Id
    BY <2>2 DEF Inv, HandlerInv, At
  <2>4. Len(log[request[q].id]) \in Nat /\ DOMAIN log[request[q].id] = 1..Len(log[request[q].id])
    BY <2>3, LenProperties DEF Inv, TypeOK
  <2>5. PICK k \in 1..Len(log[request[q].id]) : log[request[q].id][k].type = "todo_item_created"
    BY <2>2, <2>4 DEF Exists
  <2> QED
    BY <2>2, <2>4, <2>5
<1> QED
  BY <1>2, <1>3

(* What the last of a log's events is, and that the others stay true. *)
LEMMA EventStep == ASSUME Inv, [Next]_vars PROVE EventInv'
<1> DEFINE Holds(i, k) ==
      /\ At(log[i][k].by, "over") /\ request[log[i][k].by].code = 200
      /\ request[log[i][k].by].id = i
      /\ log[i][k].type = request[log[i][k].by].type
      /\ log[i][k].seen = request[log[i][k].by].seen
      /\ request[log[i][k].by].kind \in Edit => log[i][k].seen = k - 1 /\ log[i][k].seen > 0
<1> SUFFICES ASSUME NEW i \in Id, NEW k \in 1..Len(log'[i]) PROVE Holds(i, k)'
  BY DEF EventInv
<1>1. \A p \in Call : At(p, "over") => request'[p] = request[p]
  BY HandlersMove DEF Moves, At, Unsent
<1>2. CASE k \in 1..Len(log[i])
  <2>1. log'[i][k] = log[i][k]
    BY <1>2, LogGrows
  <2>2. Holds(i, k)
    BY <1>2 DEF Inv, EventInv
  <2>3. log[i][k] \in Event
    BY <1>2, ElementOfSeq DEF Inv, TypeOK
  <2>4. request'[log[i][k].by] = request[log[i][k].by]
    BY <1>1, <2>2, <2>3 DEF Event
  <2> QED
    BY <2>1, <2>2, <2>4 DEF At
<1>3. CASE k \notin 1..Len(log[i])
  <2>1. PICK q \in Call : WriteEvent(q) /\ Appends(q)
    BY <1>3, LogGrows
  <2>2. Len(log[i]) \in Nat /\ k \in Nat /\ k >= 1 /\ k <= Len(log'[i])
    BY LogGrows
  <2>3. i = request[q].id /\ k = Len(log[i]) + 1
    BY <1>3, <2>1, <2>2 DEF Appends
  <2>4. log'[i][k] = [type |-> request[q].type, by |-> q, seen |-> request[q].seen]
    BY <2>1, <2>3 DEF Appends
  <2>5. /\ request'[q].at = "over" /\ request'[q].kind = request[q].kind
        /\ request'[q].code = 200 /\ request'[q].id = request[q].id /\ request'[q].type = request[q].type
        /\ request'[q].seen = request[q].seen
    BY <2>1, AnswersFields DEF WriteEvent, Inv
  <2>6. request[q].kind \in Edit => request[q].seen = k - 1 /\ request[q].seen > 0
    <3> SUFFICES ASSUME request[q].kind \in Edit PROVE request[q].seen = k - 1 /\ request[q].seen > 0
      OBVIOUS
    <3>1. At(q, "decided")
      BY <2>1 DEF Appends, Creation, Edit
    <3>2. request[q].seen > 0 /\ request[q].number = request[q].seen + 1
      BY <3>1 DEF Inv, HandlerInv
    <3>3. request[q].number = k
      BY <2>1, <2>3 DEF Appends, Accepts
    <3>4. request[q].seen \in Nat
      BY DEF Inv, TypeOK, Handler
    <3> QED
      BY <2>2, <3>2, <3>3, <3>4
  <2> QED
    BY <2>3, <2>4, <2>5, <2>6 DEF At
<1> QED
  BY <1>2, <1>3

(* Only the start of a route's store, and its end, change the store. *)
LEMMA StoreChanges ==
    ASSUME Inv, [Next]_vars
    PROVE  \/ /\ store' = store /\ early \subseteq early'
              /\ \A q \in Call : ~At(q, "starting") => request'[q].at # "starting"
              /\ \A q \in Call : At(q, "starting") => request'[q] = request[q]
              /\ \A q \in Call : request'[q].at = "ready" /\ request'[q] # request[q] =>
                    q \in early' \/ store[RouteOf(request[q].kind)] = "running"
           \/ \E q \in Call : GetEventStore(q) /\ Continues(q, "starting")
           \/ \E q \in Call : StartEnds(q)
<1> USE DEF Inv
<1>1. ASSUME NEW q \in Call,
             \/ \E kind \in Kind \ {"postEvent"}, i \in Id : Ask(q, kind, i)
             \/ \E i \in Id, type \in TodoEvent, n \in 1..MaxNumber : Post(q, i, type, n)
      PROVE  /\ store' = store /\ early' = early /\ request'[q].at = "sent" /\ At(q, "unsent")
             /\ \A p \in Call \ {q} : request'[p] = request[p]
  <2>1. PICK kind \in Kind, i \in Id, type \in TodoEvent \cup {"undefined"}, n \in Nat :
              Send(q, kind, i, type, n)
    BY <1>1, Sends
  <2>2. store' = store /\ early' = early /\ At(q, "unsent")
    BY <2>1 DEF Send
  <2> QED
    BY <2>1, <2>2, SendFields
<1>2. ASSUME NEW q \in Call, RefuseStatus(q) \/ ReadItem(q) \/ ReadEvents(q) \/ RefuseType(q)
                             \/ WriteEvent(q) \/ WriteFails(q)
      PROVE  /\ store' = store /\ early' = early /\ ~At(q, "starting")
             /\ \A p \in Call \ {q} : request'[p] = request[p]
             /\ request'[q].at \in {"over", "decided"}
  <2>1. \/ Answers(q, 200) \/ Answers(q, 400) \/ Answers(q, 500)
        \/ ReadItem(q) /\ NotFound(q, log[request[q].id])
        \/ ReadItem(q) /\ Decides(q, log[request[q].id], Len(log[request[q].id]) + 1)
    <3>1. CASE ReadItem(q)
      BY <3>1 DEF ReadItem
    <3>2. CASE ReadEvents(q)
      BY <3>2 DEF ReadEvents
    <3>3. CASE ~ReadItem(q) /\ ~ReadEvents(q)
      BY <1>2, <3>3 DEF RefuseStatus, RefuseType, WriteEvent, WriteFails
    <3> QED
      BY <3>1, <3>2, <3>3
  <2>2. ReadItem(q) => request[q].id \in Id
    BY DEF ReadItem, HandlerInv, At
  <2>3. store' = store /\ early' = early /\ ~At(q, "starting")
    BY <1>2 DEF RefuseStatus, ReadItem, ReadEvents, RefuseType, WriteEvent, WriteFails,
                HasEvent, At
  <2> QED
    BY <2>1, <2>2, <2>3, AnswersFields, NotFoundFields, DecidesFields
<1>3. ASSUME NEW q \in Call, ActionReturns(q) \/ FetchFails(q)
      PROVE  store' = store /\ early' = early /\ request' = request
  BY <1>3 DEF ActionReturns, FetchFails
<1>4. ASSUME NEW q \in Call, GetEventStore(q), ~Continues(q, "starting")
      PROVE  /\ store' = store /\ early \subseteq early' /\ At(q, "sent")
             /\ \A p \in Call \ {q} : request'[p] = request[p]
             /\ \/ request'[q].at = "over"
                \/ /\ request'[q].at = "ready"
                   /\ q \in early' \/ store[RouteOf(request[q].kind)] = "running"
  <2>1. \/ Answers(q, 500) /\ UNCHANGED early
        \/ /\ Continues(q, "ready") /\ early \subseteq early'
           /\ q \in early' \/ store[RouteOf(request[q].kind)] = "running"
    BY <1>4 DEF GetEventStore
  <2>2. store' = store /\ At(q, "sent")
    BY <1>4 DEF GetEventStore
  <2> QED
    BY <2>1, <2>2, ContinuesFields, AnswersFields
<1>5. ASSUME UNCHANGED vars PROVE store' = store /\ early' = early /\ request' = request
  BY <1>5 DEF vars
<1> USE DEF At
<1> QED
  BY <1>1, <1>2, <1>3, <1>4, <1>5, StepCases

(* A route's store is started once, and runs for those who come after. *)
LEMMA StartStep == ASSUME Inv, [Next]_vars PROVE StartInv'
<1> USE DEF At
<1>1. \A p \in Call : /\ request[p].kind \in Kind
                      /\ RouteOf(request[p].kind) \in Route
                      /\ request[p] \in Handler
  BY KindTypes DEF Inv, TypeOK, Handler
<1>2. store \in [Route -> {"none", "starting", "running", "dead"}]
  BY DEF Inv, TypeOK
<1>3. ASSUME NEW p \in Call, request'[p].at = "decided", request'[p] # request[p]
      PROVE  request[p].at = "ready" /\ request'[p].kind = request[p].kind
  BY <1>3, HandlersMove DEF Moves
<1>4. ASSUME NEW p \in Call, request'[p].at = "ready", request'[p] # request[p]
      PROVE  request'[p].kind = request[p].kind
  BY <1>4, HandlersMove DEF Moves
<1>5. ASSUME store' = store, early \subseteq early',
             \A p \in Call : ~At(p, "starting") => request'[p].at # "starting",
             \A p \in Call : At(p, "starting") => request'[p] = request[p],
             \A p \in Call : request'[p].at = "ready" /\ request'[p] # request[p] =>
                p \in early' \/ store[RouteOf(request[p].kind)] = "running"
      PROVE  StartInv'
  <2>1. ASSUME NEW p \in Call, request'[p].at = "starting"
        PROVE  request'[p] = request[p] /\ request[p].at = "starting"
    BY <1>5, <2>1
  <2>2. ASSUME NEW p \in Call, request'[p].at = "ready" \/ request'[p].at = "decided"
        PROVE  p \in early' \/ store'[RouteOf(request'[p].kind)] = "running"
    BY <1>3, <1>4, <1>5, <2>2 DEF Inv, StartInv, Running
  <2> QED
    BY <1>5, <2>1, <2>2 DEF Inv, StartInv, Running
<1>6. ASSUME NEW q \in Call, GetEventStore(q), Continues(q, "starting") PROVE StartInv'
  <2> DEFINE r == RouteOf(request[q].kind)
  <2>1. /\ request'[q].at = "starting" /\ request'[q].kind = request[q].kind
        /\ \A p \in Call \ {q} : request'[p] = request[p]
    BY <1>6, ContinuesFields DEF Inv
  <2>2. ~Answers(q, 500) /\ ~Continues(q, "ready")
    BY <2>1, AnswersFields, ContinuesFields DEF Inv
  <2>3. store[r] = "none" /\ store' = [store EXCEPT ![r] = "starting"] /\ early' = early
    BY <1>6, <2>2 DEF GetEventStore
  <2>4. \A p \in Call \ {q} : At(p, "starting") => RouteOf(request[p].kind) # r
    BY <2>3 DEF Inv, StartInv
  <2>5. \A p \in Call : Running(p) => RouteOf(request[p].kind) # r
    BY <2>3 DEF Running
  <2>6. store'[r] = "starting" /\ \A x \in Route \ {r} : store'[x] = store[x]
    BY <1>1, <1>2, <2>3
  <2> HIDE DEF r
  <2>7. \A p \in Call : p # q /\ At(p, "starting")' => store'[RouteOf(request'[p].kind)] = "starting"
    BY <1>1, <2>1, <2>4, <2>6 DEF Inv, StartInv
  <2>8. \A p \in Call : (At(p, "ready") \/ At(p, "decided"))' =>
            p \in early' \/ store'[RouteOf(request'[p].kind)] = "running"
    BY <1>1, <2>1, <2>3, <2>5, <2>6 DEF Inv, StartInv, Running
  <2> QED
    <3>1. store'[RouteOf(request'[q].kind)] = "starting"
      BY <2>1, <2>6 DEF r
    <3>2. ASSUME NEW p \in Call, NEW x \in Call, At(p, "starting")', At(x, "starting")',
                 RouteOf(request'[p].kind) = RouteOf(request'[x].kind)
          PROVE  p = x
      BY <2>1, <2>4, <3>2 DEF Inv, StartInv, r
    <3> QED
      BY <2>7, <2>8, <3>1, <3>2 DEF StartInv, Running
<1>7. ASSUME NEW q \in Call, StartEnds(q) PROVE StartInv'
  <2> DEFINE r == RouteOf(request[q].kind)
  <2>1. store[r] = "starting"
    BY <1>7 DEF StartEnds, Inv, StartInv
  <2>2. /\ request'[q].at \in {"ready", "over"} /\ request'[q].kind = request[q].kind
        /\ request'[q].at = "ready" => opens
        /\ \A p \in Call \ {q} : request'[p] = request[p]
    BY <1>7, ContinuesFields, AnswersFields DEF StartEnds, Inv
  <2>3. early' = early /\ opens => store' = [store EXCEPT ![r] = "running"]
    BY <1>7 DEF StartEnds
  <2>4. \A x \in Route \ {r} : store'[x] = store[x]
    BY <1>1, <1>2, <1>7 DEF StartEnds
  <2>5. \A p \in Call \ {q} : At(p, "starting") => RouteOf(request[p].kind) # r
    BY <1>7 DEF Inv, StartInv, StartEnds
  <2>6. \A p \in Call : Running(p) => RouteOf(request[p].kind) # r
    BY <2>1 DEF Running
  <2>7. opens => store'[r] = "running"
    BY <1>1, <1>2, <1>7 DEF StartEnds
  <2>8. early' = early
    BY <1>7 DEF StartEnds
  <2> HIDE DEF r
  <2>9. \A p \in Call : At(p, "starting")' => p # q /\ store'[RouteOf(request'[p].kind)] = "starting"
    BY <1>1, <2>2, <2>4, <2>5 DEF Inv, StartInv
  <2>10. \A p \in Call : (At(p, "ready") \/ At(p, "decided"))' =>
            p \in early' \/ store'[RouteOf(request'[p].kind)] = "running"
    BY <1>1, <2>2, <2>4, <2>6, <2>7, <2>8 DEF Inv, StartInv, Running, r
  <2> QED
    BY <2>2, <2>9, <2>10 DEF Inv, StartInv, Running
<1> QED
  BY <1>5, <1>6, <1>7, StoreChanges

(* A request that came early, or whose write failed, stays marked as such. *)
LEMMA EarlyGrows == ASSUME [Next]_vars PROVE early \subseteq early' /\ failed \subseteq failed'
<1>1. ASSUME NEW q \in Call,
             \/ \E kind \in Kind \ {"postEvent"}, i \in Id : Ask(q, kind, i)
             \/ \E i \in Id, type \in TodoEvent, n \in 1..MaxNumber : Post(q, i, type, n)
      PROVE  early' = early /\ failed' = failed
  BY <1>1 DEF Ask, Post, Send
<1>2. ASSUME NEW q \in Call, GetEventStore(q) PROVE early \subseteq early' /\ failed' = failed
  BY <1>2 DEF GetEventStore
<1>4. ASSUME NEW q \in Call, WriteFails(q) PROVE early' = early /\ failed \subseteq failed'
  BY <1>4 DEF WriteFails
<1>3. ASSUME NEW q \in Call,
             \/ RefuseStatus(q) \/ StartEnds(q) \/ ReadItem(q) \/ ReadEvents(q) \/ RefuseType(q)
             \/ WriteEvent(q) \/ ActionReturns(q) \/ FetchFails(q)
      PROVE  early' = early /\ failed' = failed
  BY <1>3 DEF RefuseStatus, StartEnds, ReadItem, ReadEvents, RefuseType, WriteEvent,
              ActionReturns, FetchFails
<1> QED
  BY <1>1, <1>2, <1>3, <1>4, StepCases DEF vars

(* A write that is answered 200 is answered by writeEvent. *)
LEMMA AnswersOfWrites ==
    ASSUME Inv, [Next]_vars, NEW q \in Call, request'[q] # request[q],
           request'[q].at = "over", request'[q].code = 200
    PROVE  WriteEvent(q) \/ WriteFails(q) \/ request'[q].kind \notin Writes
<1>0. ASSUME NEW p \in Call,
             \/ \E kind \in Kind \ {"postEvent"}, i \in Id : Ask(p, kind, i)
             \/ \E i \in Id, type \in TodoEvent, n \in 1..MaxNumber : Post(p, i, type, n)
      PROVE  \E kind \in Kind, i \in Id, type \in TodoEvent \cup {"undefined"}, n \in Nat :
                Send(p, kind, i, type, n)
  BY <1>0, Sends
<1> USE DEF Inv, At
<1>1. ASSUME NEW p \in Call,
             \/ \E kind \in Kind \ {"postEvent"}, i \in Id : Ask(p, kind, i)
             \/ \E i \in Id, type \in TodoEvent, n \in 1..MaxNumber : Post(p, i, type, n)
      PROVE  request'[p].at = "sent" /\ \A x \in Call \ {p} : request'[x] = request[x]
  <2>1. PICK kind \in Kind, i \in Id, type \in TodoEvent \cup {"undefined"}, n \in Nat :
              Send(p, kind, i, type, n)
    BY <1>0, <1>1
  <2> QED
    BY <2>1, SendFields
<1>2. ASSUME NEW p \in Call, GetEventStore(p) \/ StartEnds(p) \/ RefuseStatus(p) \/ RefuseType(p)
      PROVE  /\ request'[p].at # "over" \/ request'[p].code # 200
             /\ \A x \in Call \ {p} : request'[x] = request[x]
  <2>1. \/ Continues(p, "starting") \/ Continues(p, "ready")
        \/ Answers(p, 500) \/ Answers(p, 400)
    BY <1>2 DEF GetEventStore, StartEnds, RefuseStatus, RefuseType
  <2> QED
    BY <2>1, ContinuesFields, AnswersFields
<1>3. ASSUME NEW p \in Call, ReadItem(p)
      PROVE  /\ request'[p].at # "over" \/ request'[p].code # 200
             /\ \A x \in Call \ {p} : request'[x] = request[x]
  <2>1. \/ Answers(p, 500) \/ NotFound(p, log[request[p].id])
        \/ Decides(p, log[request[p].id], Len(log[request[p].id]) + 1)
    BY <1>3 DEF ReadItem
  <2>2. request[p].id \in Id
    BY <1>3 DEF ReadItem, HandlerInv
  <2> QED
    BY <2>1, <2>2, DecidesFields, NotFoundFields, AnswersFields
<1>4. ASSUME NEW p \in Call, ReadEvents(p)
      PROVE  /\ request'[p].kind \notin Writes
             /\ \A x \in Call \ {p} : request'[x] = request[x]
  <2>1. Answers(p, 200) \/ Answers(p, 500)
    BY <1>4 DEF ReadEvents
  <2>2. request[p].kind \notin Writes
    BY <1>4 DEF ReadEvents, Reading, Writes, Creation, Edit
  <2> QED
    BY <2>1, <2>2, AnswersFields
<1>5. ASSUME NEW p \in Call, WriteEvent(p) \/ WriteFails(p)
      PROVE  \A x \in Call \ {p} : request'[x] = request[x]
  BY <1>5, AnswersFields DEF WriteEvent, WriteFails
<1>6. ASSUME NEW p \in Call, ActionReturns(p) \/ FetchFails(p) PROVE request' = request
  BY <1>6 DEF ActionReturns, FetchFails
<1>7. ASSUME UNCHANGED vars PROVE request' = request
  BY <1>7 DEF vars
<1> QED
  BY <1>1, <1>2, <1>3, <1>4, <1>5, <1>6, <1>7, StepCases

(* An action resolves only on an answer of 200. *)
LEMMA ReportsWhatCame ==
    ASSUME Inv, [Next]_vars, NEW q \in Call, report'[q] = "resolved"
    PROVE  request[q].at = "over" /\ request[q].code = 200
<1> USE DEF Inv, At
<1>1. CASE report'[q] = report[q]
  BY <1>1 DEF AnswerInv
<1>2. ASSUME NEW p \in Call, ActionReturns(p) PROVE request[q].at = "over" /\ request[q].code = 200
  BY <1>2 DEF ActionReturns, TypeOK, AnswerInv
<1>3. ASSUME NEW p \in Call, FetchFails(p) PROVE report'[q] = report[q]
  BY <1>3 DEF FetchFails, TypeOK
<1>4. ASSUME NEW p \in Call,
             \/ \E kind \in Kind \ {"postEvent"}, i \in Id : Ask(p, kind, i)
             \/ \E i \in Id, type \in TodoEvent, n \in 1..MaxNumber : Post(p, i, type, n)
      PROVE  report' = report
  BY <1>4 DEF Ask, Post, Send
<1>5. ASSUME NEW p \in Call,
             \/ GetEventStore(p) \/ RefuseStatus(p) \/ StartEnds(p) \/ ReadItem(p)
             \/ ReadEvents(p) \/ RefuseType(p) \/ WriteEvent(p) \/ WriteFails(p)
      PROVE  report' = report
  BY <1>5 DEF GetEventStore, RefuseStatus, StartEnds, ReadItem, ReadEvents, RefuseType, WriteEvent,
              WriteFails
<1>6. ASSUME UNCHANGED vars PROVE report' = report
  BY <1>6 DEF vars
<1> QED
  BY <1>1, <1>2, <1>3, <1>4, <1>5, <1>6, StepCases

(* An answer of 200 to a write has its event stored, or one of three excuses. *)
LEMMA AnswerStep == ASSUME Inv, [Next]_vars PROVE AnswerInv'
<1> USE DEF At
<1>1. ASSUME NEW q \in Call, request'[q] = request[q], At(q, "over"),
             request[q].code = 200, request[q].kind \in Writes
      PROVE  (Stored(q) \/ q \in early \cup failed \/ Len(log[request[q].id]) > request[q].seen)'
  <2>1. Stored(q) \/ q \in early \cup failed \/ Len(log[request[q].id]) > request[q].seen
    BY <1>1 DEF Inv, AnswerInv
  <2>2. request[q].id \in Id
    BY <1>1 DEF Inv, HandlerInv
  <2>3. CASE Stored(q)
    <3>1. PICK k \in 1..Len(log[request[q].id]) : log[request[q].id][k].by = q
      BY <2>2, <2>3, LenProperties DEF Stored, Inv, TypeOK
    <3>2. log'[request[q].id][k].by = q /\ k \in 1..Len(log'[request[q].id])
      BY <2>2, <3>1, LogGrows
    <3>3. DOMAIN log'[request[q].id] = 1..Len(log'[request[q].id])
      BY <2>2, LogGrows, LenProperties
    <3> QED
      BY <1>1, <3>2, <3>3 DEF Stored
  <2>4. CASE q \in early \cup failed
    BY <2>4, EarlyGrows
  <2>5. CASE Len(log[request[q].id]) > request[q].seen
    <3>1. request[q].seen \in Nat
      BY DEF Inv, TypeOK, Handler
    <3> QED
      BY <1>1, <2>2, <2>5, <3>1, LogGrows
  <2> QED
    BY <2>1, <2>3, <2>4, <2>5
<1>2. ASSUME NEW q \in Call, WriteEvent(q), request[q].kind \in Writes
      PROVE  (Stored(q) \/ q \in early \cup failed \/ Len(log[request[q].id]) > request[q].seen)'
  <2>1. request'[q].id = request[q].id /\ request'[q].seen = request[q].seen /\ early' = early
    BY <1>2, AnswersFields DEF WriteEvent, Inv
  <2>2. request[q].id \in Id /\ (At(q, "ready") \/ At(q, "decided"))
    BY <1>2 DEF WriteEvent, HasEvent, Inv, HandlerInv
  <2>3. CASE ~Running(q)
    BY <2>1, <2>2, <2>3 DEF Inv, StartInv
  <2>4. CASE Running(q) /\ Accepts(request[q])
    <3>1. Appends(q)
      BY <1>2, <2>4, WriteAppends
    <3>2. DOMAIN log'[request[q].id] = 1..Len(log'[request[q].id])
      BY <2>2, LogGrows, LenProperties
    <3>3. Len(log[request[q].id]) + 1 \in 1..Len(log'[request[q].id])
      BY <2>2, <3>1, LogGrows DEF Appends
    <3>4. log'[request[q].id][Len(log[request[q].id]) + 1].by = q
      BY <3>1 DEF Appends
    <3> QED
      BY <2>1, <3>2, <3>3, <3>4 DEF Stored
  <2>5. CASE Running(q) /\ ~Accepts(request[q])
    <3>1. request[q].number = request[q].seen + 1
      <4>1. CASE At(q, "decided")
        BY <4>1 DEF Inv, HandlerInv
      <4>2. CASE At(q, "ready")
        <5>1. request[q].kind \in Creation
          BY <1>2, <4>2 DEF WriteEvent, HasEvent, Writes, Creation, Edit
        <5>2. request[q].number = 1 /\ ~(request[q].seen > 0) /\ request[q].seen \in Nat
          BY <4>2, <5>1 DEF Inv, HandlerInv, TypeOK, Handler, Creation, Edit
        <5> QED
          BY <5>2
      <4> QED
        BY <2>2, <4>1, <4>2
    <3>2. request[q].seen \in Nat /\ request[q].seen <= Len(log[request[q].id])
      <4>1. request[q].seen \in Nat
        BY DEF Inv, TypeOK, Handler
      <4>2. Len(log[request[q].id]) \in Nat
        BY <2>2, LogGrows
      <4>3. request[q].code = 0
        BY <2>2 DEF Inv, HandlerInv
      <4> QED
        BY <4>1, <4>2, <4>3 DEF Inv, SeenInv
    <3>3. Len(log[request[q].id]) > request[q].seen
      BY <2>2, <2>5, <3>1, <3>2, LogGrows DEF Accepts
    <3> QED
      BY <2>1, <2>2, <3>2, <3>3, LogGrows
  <2> QED
    BY <2>3, <2>4, <2>5
<1>3. ASSUME NEW q \in Call, request'[q] # request[q], request'[q].at = "over", request'[q].code = 200
      PROVE  WriteEvent(q) \/ WriteFails(q) \/ request'[q].kind \notin Writes
  BY <1>3, AnswersOfWrites
<1>4. ASSUME NEW q \in Call, request'[q].at = "over", request'[q].code = 200,
             request'[q].kind \in Writes
      PROVE  (Stored(q) \/ q \in early \cup failed \/ Len(log[request[q].id]) > request[q].seen)'
  <2>1. CASE request'[q] = request[q]
    BY <1>1, <1>4, <2>1
  <2>2. CASE request'[q] # request[q] /\ WriteEvent(q)
    <3>1. request[q].kind = request'[q].kind
      BY <2>2, AnswersFields DEF WriteEvent, Inv
    <3> QED
      BY <1>2, <1>4, <2>2, <3>1
  <2>3. CASE request'[q] # request[q] /\ WriteFails(q)
    BY <2>3 DEF WriteFails
  <2> QED
    BY <1>3, <1>4, <2>1, <2>2, <2>3
<1>5. ASSUME NEW q \in Call, report'[q] = "resolved"
      PROVE  request'[q].at = "over" /\ request'[q].code = 200
  <2>1. request[q].at = "over" /\ request[q].code = 200
    BY <1>5, ReportsWhatCame
  <2> QED
    BY <2>1, HandlersMove DEF Moves, Unsent
<1> QED
  BY <1>4, <1>5 DEF AnswerInv

(* The variables keep their types. *)
LEMMA TypeStep == ASSUME Inv, [Next]_vars PROVE TypeOK'
<1> USE DEF Inv, TypeOK
<1>1. request' \in [Call -> Handler] /\ log' \in [Id -> Seq(Event)]
  BY HandlersMove, LogGrows
<1>2. ASSUME NEW q \in Call,
             \/ \E kind \in Kind \ {"postEvent"}, i \in Id : Ask(q, kind, i)
             \/ \E i \in Id, type \in TodoEvent, n \in 1..MaxNumber : Post(q, i, type, n)
      PROVE  UNCHANGED <<configured, opens, store, report, early, failed>>
  BY <1>2 DEF Ask, Post, Send
<1>3. ASSUME NEW q \in Call,
             \/ RefuseStatus(q) \/ ReadItem(q) \/ ReadEvents(q) \/ RefuseType(q) \/ WriteEvent(q)
      PROVE  UNCHANGED <<configured, opens, store, report, early, failed>>
  BY <1>3 DEF RefuseStatus, ReadItem, ReadEvents, RefuseType, WriteEvent
<1>4. ASSUME NEW q \in Call, GetEventStore(q)
      PROVE  /\ UNCHANGED <<configured, opens, report, failed>> /\ early' \subseteq Call
             /\ store' \in [Route -> {"none", "starting", "running", "dead"}]
  BY <1>4 DEF GetEventStore
<1>5. ASSUME NEW q \in Call, StartEnds(q)
      PROVE  /\ UNCHANGED <<configured, opens, report, early, failed>>
             /\ store' \in [Route -> {"none", "starting", "running", "dead"}]
  BY <1>5 DEF StartEnds
<1>6. ASSUME NEW q \in Call, ActionReturns(q) \/ FetchFails(q)
      PROVE  /\ UNCHANGED <<configured, opens, store, early, failed>>
             /\ report' \in [Call -> {"waiting", "resolved", "rejected"}]
  BY <1>6 DEF ActionReturns, FetchFails
<1>8. ASSUME NEW q \in Call, WriteFails(q)
      PROVE  UNCHANGED <<configured, opens, store, report, early>> /\ failed' \subseteq Call
  BY <1>8 DEF WriteFails
<1>7. ASSUME UNCHANGED vars PROVE UNCHANGED <<configured, opens, store, report, early, failed>>
  BY <1>7 DEF vars
<1> QED
  BY <1>1, <1>2, <1>3, <1>4, <1>5, <1>6, <1>7, <1>8, StepCases

-----------------------------------------------------------------------------

(* The invariant holds in every reachable state. *)
LEMMA SpecInv == Spec => []Inv
<1>1. Inv /\ [Next]_vars => Inv'
  BY TypeStep, HandlerStep, SeenStep, EventStep, StartStep, AnswerStep DEF Inv
<1> QED
  BY InitInv, <1>1, PTL DEF Spec

(* The variables of the API keep their types, whatever clients send. *)
THEOREM TypeCorrect == Spec => []TypeOK
<1>1. Inv => TypeOK
  BY DEF Inv
<1> QED
  BY SpecInv, <1>1, PTL

(* A server action that resolves has its event in the log, unless it came   *)
(* before its route's store ran, lost its number to an event it had not     *)
(* seen, or had its write failed by the database: nothing else loses a      *)
(* change.                                                                  *)
THEOREM ChangesAccounted == Spec => []LossesExplained
<1>1. Inv => LossesExplained
  BY DEF Inv, AnswerInv, LossesExplained, Writes
<1> QED
  BY SpecInv, <1>1, PTL

(* A stored edit was decided on all the events before it, and its item is   *)
(* among them: the database's numbers are what protects the read-then-write *)
(* of PUT and DELETE.                                                       *)
THEOREM EditsDecidedOnLog == Spec => []EditsOnlyWhatIsThere
<1>1. ASSUME Inv PROVE EditsOnlyWhatIsThere
  <2> SUFFICES ASSUME NEW i \in Id, NEW k \in DOMAIN log[i],
                      request[log[i][k].by].kind \in Edit
               PROVE  /\ log[i][k].seen = k - 1
                      /\ \E j \in 1..(k - 1) : log[i][j].type = "todo_item_created"
    BY DEF EditsOnlyWhatIsThere
  <2>1. log[i] \in Seq(Event) /\ k \in 1..Len(log[i])
    BY <1>1, LenProperties DEF Inv, TypeOK
  <2>2. log[i][k].by \in Call
    <3>1. log[i][k] \in Event
      BY <2>1, ElementOfSeq
    <3> QED
      BY <3>1 DEF Event
  <2>3. /\ log[i][k].seen = k - 1 /\ log[i][k].seen > 0
        /\ request[log[i][k].by].id = i /\ request[log[i][k].by].seen = log[i][k].seen
        /\ request[log[i][k].by].code = 200
    BY <1>1, <2>1 DEF Inv, EventInv
  <2> QED
    BY <1>1, <2>2, <2>3 DEF Inv, SeenInv
<1> QED
  BY SpecInv, <1>1, PTL

=============================================================================
