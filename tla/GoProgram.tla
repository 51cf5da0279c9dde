----------------------------- MODULE GoProgram -----------------------------
(***************************************************************************)
(* The Go program (impl/go/cmd/actordb/main.go): it starts its five        *)
(* components one after the other, waits for a signal, stops them in the   *)
(* reverse order and returns, which ends the process with whatever runs in *)
(* it.  Three of the components have an HTTP server whose handlers run     *)
(* beside main; Stop gives them five seconds and then goes on without      *)
(* them.  The security gateway's validations feed an audit stream that a   *)
(* goroutine of its own empties.                                           *)
(***************************************************************************)
EXTENDS Naturals, Sequences, SequencesExt

CONSTANTS
    Request,            \* requests to the program's HTTP servers
    AuditCapacity       \* capacity of auditStream (1000 in the code)

ASSUME GoProgramAssumption == AuditCapacity \in Nat \ {0}

VARIABLES
    main,               \* what main does, and to which component
    exit,               \* how the process ended
    signalled,          \* whether sigCh holds a signal
    running,            \* SecurityGateway.running
    cancelled,          \* whether SecurityGateway.ctx is cancelled
    server,             \* per component with an HTTP server, that server
    overrun,            \* history: the servers whose Shutdown has timed out
    auditStream,        \* SecurityGateway.auditStream
    closed,             \* whether auditStream is closed
    auditor,            \* the goroutine processAuditStream
    request             \* per request, where its handler is and its answer

mainVars == <<main, exit, signalled, overrun>>
gatewayVars == <<running, cancelled, closed, auditor>>
vars == <<mainVars, gatewayVars, auditStream, server, request>>

Server == {"security", "query", "control"}

Component == Server \cup {"eventstore", "projector"}

\* The order of the Starts in main.
StartOrder == <<"security", "eventstore", "projector", "query", "control">>

\* Mutant: components stop in the order in which they have started.
StopOrderAsStarted == StartOrder

\* The order of the Stops in main.
StopOrder == Reverse(StartOrder)

Token == {"missing", "invalid", "user", "admin"}

\* validate: the gateway's /validate.  admin: the query interface's
\* /query/admin.  open: a route that asks for no token.
Route == {"validate", "admin", "open"}

Serves(s, route) == IF s = "control" THEN route = "open"
                    ELSE route \in {"open", IF s = "security" THEN "validate" ELSE "admin"}

\* Where a handler is: it has a request, has found the gateway running, has
\* left its audit event, is over, or was aborted by a panic.
HandlerState == {"unsent", "accepted", "validating", "validated", "over", "aborted"}

Unsent == [at |-> "unsent", server |-> "control", route |-> "open", token |-> "missing", code |-> 0]

TypeOK ==
    /\ main \in ({"init", "notify", "wait", "return"} \X {"program"}) \cup
                ({"start", "stop", "shutdown", "drain", "close"} \X Component)
    /\ exit \in {"no", "0", "1", "killed"}
    /\ signalled \in BOOLEAN /\ running \in BOOLEAN /\ cancelled \in BOOLEAN /\ closed \in BOOLEAN
    /\ server \in [Server -> {"none", "binding", "listening", "failed", "closed"}]
    /\ overrun \subseteq Server
    /\ auditStream \in Seq(Request) /\ Len(auditStream) <= AuditCapacity
    /\ auditor \in {"none", "running", "ended"}
    /\ request \in [Request -> [at : HandlerState, server : Server, route : Route, token : Token,
                                code : {0, 200, 401, 403}]]

Init ==
    /\ main = <<"init", "program">>
    /\ exit = "no"
    /\ signalled = FALSE
    /\ running = FALSE
    /\ cancelled = FALSE
    /\ server = [s \in Server |-> "none"]
    /\ overrun = {}
    /\ auditStream = <<>>
    /\ closed = FALSE
    /\ auditor = "none"
    /\ request = [r \in Request |-> Unsent]

Alive == exit = "no"

Does(op, c) == Alive /\ main = <<op, c>>

-----------------------------------------------------------------------------
(* main                                                                     *)

\* What main does after its `op` of the component c.
After(op, order, c, end) ==
    LET i == CHOOSE k \in DOMAIN order : order[k] = c IN
    IF i = Len(order) THEN <<end, "program">> ELSE <<op, order[i + 1]>>

Started(c) == After("start", StartOrder, c, "notify")

Stopped(c) == After("stop", StopOrder, c, "return")

Exits(how) == exit' = how /\ UNCHANGED <<main, signalled, overrun>>

Goes(to) == main' = to /\ UNCHANGED <<exit, signalled, overrun>>

\* The configuration is loaded and the components are made.
New ==
    /\ Does("init", "program")
    /\ Goes(<<"start", StartOrder[1]>>)
    /\ UNCHANGED <<gatewayVars, auditStream, server, request>>

\* The configuration, mTLS or the storage's type is no good; or a token was
\* all that was asked for.
InitEnds ==
    /\ Does("init", "program")
    /\ Exits("1") \/ Exits("0")
    /\ UNCHANGED <<gatewayVars, auditStream, server, request>>

\* Start of a component with a server: it leaves listening to a goroutine.
StartServer(s) ==
    /\ Does("start", s)
    /\ server' = [server EXCEPT ![s] = "binding"]
    /\ IF s = "security"
          THEN running' = TRUE /\ auditor' = "running"
          ELSE UNCHANGED <<running, auditor>>
    /\ Goes(Started(s))
    /\ UNCHANGED <<cancelled, closed, auditStream, request>>

StartOther(c) ==
    /\ Does("start", c)
    /\ Goes(Started(c))
    /\ UNCHANGED <<gatewayVars, auditStream, server, request>>

\* The storage cannot be opened: log.Fatalf, with the gateway left running.
StartFails ==
    /\ Does("start", "eventstore")
    /\ Exits("1")
    /\ UNCHANGED <<gatewayVars, auditStream, server, request>>

Notify ==
    /\ Does("notify", "program")
    /\ Goes(<<"wait", "program">>)
    /\ UNCHANGED <<gatewayVars, auditStream, server, request>>

\* Until signal.Notify a signal has its default effect; then sigCh, with room
\* for one, keeps the first, and later ones are lost.
Signal ==
    /\ Alive
    /\ \/ main[1] \in {"init", "start", "notify"} /\ Exits("killed")
       \/ main[1] = "wait" /\ signalled' = TRUE /\ UNCHANGED <<main, exit, overrun>>
    /\ UNCHANGED <<gatewayVars, auditStream, server, request>>

TakeSignal ==
    /\ Does("wait", "program")
    /\ signalled
    /\ Goes(<<"stop", StopOrder[1]>>)
    /\ UNCHANGED <<gatewayVars, auditStream, server, request>>

\* The projector's and the event store's Stop, which wait for nobody.
StopOther(c) ==
    /\ Does("stop", c)
    /\ Goes(Stopped(c))
    /\ UNCHANGED <<gatewayVars, auditStream, server, request>>

\* Mutant: Stop closes the audit stream before it shuts the server down.
WithdrawAndClose(s) ==
    /\ Does("stop", s)
    /\ IF s = "security" THEN running' = FALSE /\ cancelled' = TRUE /\ closed' = TRUE
                         ELSE UNCHANGED <<running, cancelled, closed>>
    /\ Goes(<<"shutdown", s>>)
    /\ UNCHANGED <<auditor, auditStream, server, request>>

\* The head of Stop.  Only the gateway's running is ever read.
Withdraw(s) ==
    /\ Does("stop", s)
    /\ IF s = "security" THEN running' = FALSE /\ cancelled' = TRUE
                         ELSE UNCHANGED <<running, cancelled>>
    /\ Goes(<<"shutdown", s>>)
    /\ UNCHANGED <<closed, auditor, auditStream, server, request>>

\* Shutdown closes the listener, if there is one: from here the server takes
\* no request.
Shutdown(s) ==
    /\ Does("shutdown", s)
    /\ server' = [server EXCEPT ![s] = "closed"]
    /\ Goes(<<"drain", s>>)
    /\ UNCHANGED <<gatewayVars, auditStream, request>>

InProgress(r) == request[r].at \in {"accepted", "validating", "validated"}

\* Shutdown returns when no handler of this server runs any more.
Drained(s) ==
    /\ Does("drain", s)
    /\ \A r \in Request : InProgress(r) => request[r].server # s
    /\ Goes(<<"close", s>>)
    /\ UNCHANGED <<gatewayVars, auditStream, server, request>>

\* Mutant: Shutdown is given a context without a timeout.
TimesOutNever(s) == FALSE /\ UNCHANGED vars

\* Five seconds are over: Stop goes on, and so do the handlers.
TimesOut(s) ==
    /\ Does("drain", s)
    /\ \E r \in Request : InProgress(r) /\ request[r].server = s
    /\ overrun' = overrun \cup {s}
    /\ main' = <<"close", s>>
    /\ UNCHANGED <<exit, signalled, gatewayVars, auditStream, server, request>>

\* The end of Stop: the gateway closes its audit stream, the control plane the
\* channel of its decisions, into which it has never put one.
Close(s) ==
    /\ Does("close", s)
    /\ closed' = (closed \/ s = "security")
    /\ Goes(Stopped(s))
    /\ UNCHANGED <<running, cancelled, auditor, auditStream, server, request>>

Return ==
    /\ Does("return", "program")
    /\ Exits("0")
    /\ UNCHANGED <<gatewayVars, auditStream, server, request>>

-----------------------------------------------------------------------------
(* The HTTP servers and their handlers                                      *)

\* ListenAndServe, on the goroutine that Start has made; after a Shutdown it
\* returns at once.  That the address is taken is logged, and no more.
Listens(s) ==
    /\ Alive
    /\ server[s] = "binding"
    /\ server' = [server EXCEPT ![s] = "listening"] \/ server' = [server EXCEPT ![s] = "failed"]
    /\ UNCHANGED <<mainVars, gatewayVars, auditStream, request>>

Send(r, s, route, token) ==
    /\ Alive
    /\ request[r] = Unsent
    /\ server[s] = "listening"
    /\ Serves(s, route)
    /\ request' = [request EXCEPT ![r] =
          [at |-> "accepted", server |-> s, route |-> route, token |-> token, code |-> 0]]
    /\ UNCHANGED <<mainVars, gatewayVars, auditStream, server>>

At(r, a) == Alive /\ request[r].at = a

Continues(r, to) == request' = [request EXCEPT ![r].at = to]

Answers(r, code) == request' = [request EXCEPT ![r].at = "over", ![r].code = code]

\* handleValidateToken refuses a request without a token itself.
AsksGateway(r) ==
    \/ request[r].route = "admin"
    \/ request[r].route = "validate" /\ request[r].token # "missing"

AnswerAtOnce(r) ==
    /\ At(r, "accepted")
    /\ ~AsksGateway(r)
    /\ Answers(r, IF request[r].route = "open" THEN 200 ELSE 401)
    /\ UNCHANGED <<mainVars, gatewayVars, auditStream, server>>

\* ValidateToken begins: a gateway that does not run validates nothing.
ValidateToken(r) ==
    /\ At(r, "accepted")
    /\ AsksGateway(r)
    /\ IF running THEN Continues(r, "validating") ELSE Answers(r, 401)
    /\ UNCHANGED <<mainVars, gatewayVars, auditStream, server>>

\* Mutant: the stream is a slice, appended to without a limit.
AuditEventUnbounded(r) ==
    /\ At(r, "validating")
    /\ Continues(r, IF closed THEN "aborted" ELSE "validated")
    /\ IF ~closed THEN auditStream' = Append(auditStream, r)
                  ELSE UNCHANGED auditStream
    /\ UNCHANGED <<mainVars, gatewayVars, server>>

\* auditEvent: a full stream drops the event, and the send panics on a closed
\* one, which net/http recovers from by aborting the connection.
AuditEvent(r) ==
    /\ At(r, "validating")
    /\ Continues(r, IF closed THEN "aborted" ELSE "validated")
    /\ IF ~closed /\ Len(auditStream) < AuditCapacity
          THEN auditStream' = Append(auditStream, r)
          ELSE UNCHANGED auditStream
    /\ UNCHANGED <<mainVars, gatewayVars, server>>

Valid(r) == request[r].token \in {"user", "admin"}

\* The handler answers as ValidateToken and, for an administrator's query,
\* CheckPermission say.
AnswerValidated(r) ==
    /\ At(r, "validated")
    /\ Answers(r, CASE ~Valid(r)                                           -> 401
                    [] Valid(r) /\ request[r].route = "validate"           -> 200
                    [] request[r].route = "admin" /\ request[r].token = "user"  -> 403
                    [] request[r].route = "admin" /\ request[r].token = "admin" -> 200)
    /\ UNCHANGED <<mainVars, gatewayVars, auditStream, server>>

-----------------------------------------------------------------------------
(* processAuditStream                                                       *)

\* It takes an event and logs it.
ProcessAudit ==
    /\ Alive
    /\ auditor = "running"
    /\ auditStream # <<>>
    /\ auditStream' = Tail(auditStream)
    /\ UNCHANGED <<mainVars, gatewayVars, server, request>>

\* Its select may choose the cancelled context with events still to take.
AuditorEnds ==
    /\ Alive
    /\ auditor = "running"
    /\ cancelled \/ (closed /\ auditStream = <<>>)
    /\ auditor' = "ended"
    /\ UNCHANGED <<mainVars, running, cancelled, closed, auditStream, server, request>>

-----------------------------------------------------------------------------

MainStep ==
    \/ New \/ InitEnds \/ StartFails \/ Notify \/ TakeSignal \/ Return
    \/ \E s \in Server :
          StartServer(s) \/ Withdraw(s) \/ Shutdown(s) \/ Drained(s) \/ TimesOut(s) \/ Close(s)
    \/ \E c \in Component \ Server : StartOther(c) \/ StopOther(c)

HandlerStep(r) ==
    \/ AnswerAtOnce(r) \/ ValidateToken(r) \/ AuditEvent(r) \/ AnswerValidated(r)
    \/ \E s \in Server, route \in Route, token \in Token : Send(r, s, route, token)

Next ==
    \/ MainStep \/ Signal \/ ProcessAudit \/ AuditorEnds
    \/ \E s \in Server : Listens(s)
    \/ \E r \in Request : HandlerStep(r)

Spec == Init /\ [][Next]_vars

\* The scheduler runs main, and Shutdown's timeout passes.  Nothing is assumed
\* of the handlers, which may hang on their clients, nor of the auditor.
FairSpec == Spec /\ WF_vars(MainStep)

-----------------------------------------------------------------------------
(* Properties                                                               *)

\* The query interface depends on the gateway and is stopped before it: while
\* it answers, a valid token is not turned away as invalid, unless main has
\* given up waiting for its handlers (main.go:103-107, authMiddleware).
AdminsNotTurnedAway ==
    \A r \in Request :
        request[r].route = "admin" /\ Valid(r) /\ request[r].code = 401 => "query" \in overrun

\* A handler sends on a closed audit stream only if the Shutdown of its own
\* server timed out: of the gateway's server, or of the query interface's,
\* which uses the gateway to the end (SecurityGateway.Stop, auditEvent).
PanicsOnlyPastTimeouts ==
    \A r \in Request : request[r].at = "aborted" => request[r].server \in overrun

\* A signal that main has been given ends the program, whatever its handlers
\* do (main, Stop).
StopsEventually == signalled ~> ~Alive

=============================================================================
