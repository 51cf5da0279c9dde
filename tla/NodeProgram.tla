---------------------------- MODULE NodeProgram ----------------------------
(***************************************************************************)
(* The TypeScript program (impl/typescript/src/main.ts): it builds its five*)
(* components, starts them one after the other, and on a signal stops them *)
(* all at once and exits when the last connection of its three servers has *)
(* ended.  A start that fails stops whatever was built and exits with 1.   *)
(* Nothing in the program writes events, so its store stays empty.         *)
(***************************************************************************)
EXTENDS Naturals, Sequences, FiniteSets, SequencesExt, FiniteSetsExt

CONSTANTS
    Connection,         \* clients' connections
    AuditLimit,         \* audit events kept in memory (1000 in the code)
    ReportLimit,        \* default limit of getAuditEvents (100 in the code)
    MaxValidations      \* bound: audited token validations in a run

ASSUME NodeProgramAssumption ==
    /\ AuditLimit \in Nat \ {0}
    /\ ReportLimit \in Nat \ {0}
    /\ MaxValidations \in Nat

VARIABLES
    config,             \* what the configuration file says, as far as it matters
    main,               \* where main() is
    exit,               \* how the process ended
    running,            \* per component its running flag
    server,             \* per component with an HTTP server, that server's state
    connections,        \* the open connections of each server
    timers,             \* the control plane's intervals that are set
    auditStream,        \* SecurityGateway.auditStream: whether each token was valid
    metrics,            \* ControlPlane.metrics, where it may differ from 0
    decisions,          \* ControlPlane.decisions
    validations,        \* history: the result of every validation, oldest first
    answer              \* the status of the latest answer on each connection

programVars == <<config, main, exit>>
componentVars == <<running, server, connections, timers>>
dataVars == <<auditStream, metrics, decisions, validations, answer>>
vars == <<programVars, componentVars, dataVars>>

Component == {"secGW", "es", "proj", "qry", "ctrl"}

Server == {"secGW", "qry", "ctrl"}

\* The order of the awaits in main.
StartOrder == <<"secGW", "es", "proj", "qry", "ctrl">>

Token == {"none", "invalid", "user", "admin"}

Route == {"query", "admin", "events", "actors"}

\* Storage types whose open, like every other operation, throws "not
\* implemented yet" (SQLiteStorage and PostgreSQLStorage).
Placeholder == {"sqlite", "postgresql"}

Config == [storage : {"memory"} \cup Placeholder, mtls_enabled : BOOLEAN]

\* A latency of 0 stands for one that is undefined.
Metrics == [auditEvents : Nat, queryLatencyP99 : Nat]

TypeOK ==
    /\ config \in Config
    /\ main \in {"load"} \cup Component \cup {"started", "shutdown", "cleanup"}
    /\ exit \in {"no", "0", "1", "killed"}
    /\ running \in [Component -> BOOLEAN]
    /\ server \in [Server -> {"none", "binding", "listening", "closing", "closed"}]
    /\ connections \in [Server -> SUBSET Connection]
    /\ timers \subseteq {"metrics", "scaling", "health"}
    /\ auditStream \in Seq(BOOLEAN)
    /\ metrics \in Metrics
    /\ decisions \in Seq({"scale_up"})
    /\ validations \in Seq(BOOLEAN)
    /\ answer \in [Connection -> {0, 200, 401, 403, 404, 500}]

\* The components as their constructors leave them.
Init ==
    /\ config \in Config
    /\ main = "load"
    /\ exit = "no"
    /\ running = [c \in Component |-> FALSE]
    /\ server = [s \in Server |-> "none"]
    /\ connections = [s \in Server |-> {}]
    /\ timers = {}
    /\ auditStream = <<>>
    /\ metrics = [auditEvents |-> 0, queryLatencyP99 |-> 0]
    /\ decisions = <<>>
    /\ validations = <<>>
    /\ answer = [k \in Connection |-> 0]

Alive == exit = "no"

-----------------------------------------------------------------------------
(* main                                                                     *)

\* The configuration is read; the components are built.
Load ==
    /\ Alive
    /\ main = "load"
    /\ main' = Head(StartOrder)
    /\ UNCHANGED <<config, exit, componentVars, dataVars>>

\* A file that cannot be read or parsed rejects main before there is
\* anything to clean up.
LoadFails ==
    /\ Alive
    /\ main = "load"
    /\ exit' = "1"
    /\ UNCHANGED <<config, main, componentVars, dataVars>>

\* --generate-token prints a token and main returns.
GenerateToken ==
    /\ Alive
    /\ main = "load"
    /\ exit' = "0"
    /\ UNCHANGED <<config, main, componentVars, dataVars>>

\* The await that follows the start of component c.
After(c) ==
    LET i == CHOOSE k \in DOMAIN StartOrder : StartOrder[k] = c IN
    IF i = Len(StartOrder) THEN "started" ELSE StartOrder[i + 1]

\* What stop() does at once, for every component: the flag, the intervals,
\* the listening sockets.  A server that could not bind holds nothing to close.
StopAll ==
    /\ running' = [c \in Component |-> FALSE]
    /\ timers' = {}
    /\ server' = [s \in Server |->
          CASE server[s] = "listening" -> "closing"
            [] server[s] = "binding"   -> "closed"
            [] OTHER                   -> server[s]]

\* Mutant: the catch clause only clears the flags.
CleanupForgets ==
    /\ main' = "cleanup"
    /\ running' = [c \in Component |-> FALSE]
    /\ UNCHANGED <<config, exit, server, timers, connections, dataVars>>

\* A start rejected: the catch clause stops what there is.
Cleanup ==
    /\ main' = "cleanup"
    /\ StopAll
    /\ UNCHANGED <<config, exit, connections, dataVars>>

\* Mutant: the components that the query interface depends on are left
\* running until later, but for the store.
ShutdownStoreFirst ==
    /\ Alive
    /\ main = "started"
    /\ main' = "shutdown"
    /\ running' = [c \in Component |-> c = "secGW"]
    /\ timers' = {}
    /\ server' = [s \in Server |-> IF server[s] = "listening" THEN "closing" ELSE server[s]]
    /\ UNCHANGED <<config, exit, connections, dataVars>>

\* A signal, once the handlers are installed.
Shutdown ==
    /\ Alive
    /\ main = "started"
    /\ main' = "shutdown"
    /\ StopAll
    /\ UNCHANGED <<config, exit, connections, dataVars>>

\* A signal before that ends the process as the system does by default.
SignalKills ==
    /\ Alive
    /\ main \notin {"started", "shutdown"}
    /\ exit' = "killed"
    /\ UNCHANGED <<config, main, componentVars, dataVars>>

\* Mutant: only the gateway's server is waited for.
DrainedGateway == server["secGW"] \in {"none", "closed"}

\* Every server that was made has emitted 'close', which resolves its stop().
Drained == \A s \in Server : server[s] \in {"none", "closed"}

\* Promise.all resolves and the process exits.
Exit ==
    /\ Alive
    /\ main \in {"shutdown", "cleanup"}
    /\ Drained
    /\ exit' = IF main = "shutdown" THEN "0" ELSE "1"
    /\ UNCHANGED <<config, main, componentVars, dataVars>>

-----------------------------------------------------------------------------
(* start() of each component                                                *)

\* A server begins to bind its address; the flag is set before it has one.
StartServer(s) ==
    /\ Alive
    /\ main = s
    /\ server[s] = "none"
    /\ running' = [running EXCEPT ![s] = TRUE]
    /\ server' = [server EXCEPT ![s] = "binding"]
    /\ timers' = IF s = "ctrl" THEN {"metrics", "scaling", "health"} ELSE timers
    /\ UNCHANGED <<programVars, connections, dataVars>>

\* SecurityGateway.start without the certificates that mTLS needs.
MTLSFails ==
    /\ Alive
    /\ main = "secGW"
    /\ config.mtls_enabled
    /\ server["secGW"] = "none"
    /\ Cleanup

Listening(s) ==
    /\ Alive
    /\ main = s
    /\ server[s] = "binding"
    /\ server' = [server EXCEPT ![s] = "listening"]
    /\ main' = After(s)
    /\ UNCHANGED <<config, exit, running, connections, timers, dataVars>>

\* The 'error' event: the address is taken, and start() rejects.
ListenFails(s) ==
    /\ Alive
    /\ main = s
    /\ server[s] = "binding"
    /\ Cleanup

StartStore ==
    /\ Alive
    /\ main = "es"
    /\ config.storage \notin Placeholder
    /\ running' = [running EXCEPT !["es"] = TRUE]
    /\ main' = After("es")
    /\ UNCHANGED <<config, exit, server, connections, timers, dataVars>>

OpenFails ==
    /\ Alive
    /\ main = "es"
    /\ config.storage \in Placeholder
    /\ Cleanup

StartProjector ==
    /\ Alive
    /\ main = "proj"
    /\ running' = [running EXCEPT !["proj"] = TRUE]
    /\ main' = After("proj")
    /\ UNCHANGED <<config, exit, server, connections, timers, dataVars>>

-----------------------------------------------------------------------------
(* Connections.  A server that is closing keeps those it has, and serves    *)
(* what is asked on them, until the clients end them.                       *)

Connect(s, k) ==
    /\ Alive
    /\ server[s] = "listening"
    /\ k \notin UNION Range(connections)
    /\ connections' = [connections EXCEPT ![s] = @ \cup {k}]
    /\ UNCHANGED <<programVars, running, server, timers, dataVars>>

Disconnect(s, k) ==
    /\ Alive
    /\ k \in connections[s]
    /\ connections' = [connections EXCEPT ![s] = @ \ {k}]
    /\ answer' = [answer EXCEPT ![k] = 0]
    /\ UNCHANGED <<programVars, running, server, timers, auditStream, metrics, decisions, validations>>

\* The 'close' event.
Closes(s) ==
    /\ Alive
    /\ server[s] = "closing"
    /\ connections[s] = {}
    /\ server' = [server EXCEPT ![s] = "closed"]
    /\ UNCHANGED <<programVars, running, connections, timers, dataVars>>

-----------------------------------------------------------------------------
(* The security gateway                                                     *)

\* The roles of a token that verifies, and what they permit.
Valid(token) == token \in {"user", "admin"}

\* checkPermission(context, 'admin:access')
MayAdmin(token) == token = "admin"

\* Mutant: the stream is cut before the event is added.
AuditedLate(valid) ==
    auditStream' = IF Len(auditStream) > AuditLimit
                   THEN Append(Tail(auditStream), valid)
                   ELSE Append(auditStream, valid)

\* auditEvent: the oldest event makes room.
Audited(valid) ==
    auditStream' = LET longer == Append(auditStream, valid) IN
                   IF Len(longer) > AuditLimit THEN Tail(longer) ELSE longer

\* validateToken of a token that was sent, in a gateway that runs or not.
Validate(token) ==
    IF running["secGW"]
    THEN /\ Len(validations) < MaxValidations
         /\ Audited(Valid(token))
         /\ validations' = Append(validations, Valid(token))
    ELSE UNCHANGED <<auditStream, validations>>

Accepted(token) == running["secGW"] /\ Valid(token)

\* POST /validate
AskGateway(k, token) ==
    /\ Alive
    /\ k \in connections["secGW"]
    /\ token # "none"
    /\ Validate(token)
    /\ UNCHANGED <<programVars, componentVars, metrics, decisions, answer>>

-----------------------------------------------------------------------------
(* The query interface                                                      *)

Answer(k, code) == answer' = [answer EXCEPT ![k] = code]

\* POST /query needs no token; the others are refused without one.
AskOpen(k, route) ==
    /\ Alive
    /\ k \in connections["qry"]
    /\ Answer(k, IF route = "query" THEN 200 ELSE 401)
    /\ UNCHANGED <<programVars, componentVars, auditStream, metrics, decisions, validations>>

\* What the handlers behind authMiddleware answer.  The store is empty:
\* there is no actor to be found.
Handled(route, token) ==
    CASE route = "admin"  -> IF MayAdmin(token) THEN 200 ELSE 403
      [] route = "events" -> IF running["es"] THEN 200 ELSE 500
      [] route = "actors" -> 404

\* A request with a token: authMiddleware, then the handler.
AskWithToken(k, route, token) ==
    /\ Alive
    /\ k \in connections["qry"]
    /\ route # "query"
    /\ token # "none"
    /\ Validate(token)
    /\ Answer(k, IF Accepted(token) THEN Handled(route, token) ELSE 401)
    /\ UNCHANGED <<programVars, componentVars, metrics, decisions>>

-----------------------------------------------------------------------------
(* The control plane: its intervals, and the endpoints                      *)

\* updateMetrics sets no latency.
UpdateMetrics ==
    /\ Alive
    /\ "metrics" \in timers
    /\ running["ctrl"]
    /\ metrics' = [auditEvents |-> Min({Len(auditStream), ReportLimit}), queryLatencyP99 |-> 0]
    /\ UNCHANGED <<programVars, componentVars, auditStream, decisions, validations, answer>>

\* evaluateScaling keeps the last 100 decisions.
EvaluateScaling ==
    /\ Alive
    /\ "scaling" \in timers
    /\ running["ctrl"]
    /\ decisions' = IF metrics.queryLatencyP99 > 100
                    THEN LET longer == Append(decisions, "scale_up") IN
                         IF Len(longer) > 100 THEN Tail(longer) ELSE longer
                    ELSE decisions
    /\ UNCHANGED <<programVars, componentVars, auditStream, metrics, validations, answer>>

\* getHealthStatus looks whether a component was built, not whether it runs.
Healthy(c) == main # "load"

\* GET /health of any server: the control plane's says "degraded", not an
\* error, when a component is unhealthy.
AskHealth(s, k) ==
    /\ Alive
    /\ k \in connections[s]
    /\ \A c \in {"es", "proj", "secGW"} : Healthy(c)
    /\ Answer(k, 200)
    /\ UNCHANGED <<programVars, componentVars, auditStream, metrics, decisions, validations>>

-----------------------------------------------------------------------------
MainStep ==
    \/ Load
    \/ MTLSFails
    \/ StartStore
    \/ OpenFails
    \/ StartProjector
    \/ Exit
    \/ \E s \in Server : StartServer(s) \/ Listening(s) \/ ListenFails(s) \/ Closes(s)

Signal == Shutdown \/ SignalKills

ClientStep ==
    \E k \in Connection :
        \/ \E s \in Server : Connect(s, k) \/ Disconnect(s, k) \/ AskHealth(s, k)
        \/ \E token \in Token : AskGateway(k, token)
        \/ \E route \in Route : AskOpen(k, route)
        \/ \E route \in Route, token \in Token : AskWithToken(k, route, token)

Next == MainStep \/ LoadFails \/ GenerateToken \/ Signal \/ ClientStep \/ UpdateMetrics \/ EvaluateScaling

Spec == Init /\ [][Next]_vars

\* The runtime runs what is due, and a client does not keep its connection
\* for ever (Node's keep-alive and request timeouts end an idle one).
FairSpec ==
    /\ Spec
    /\ WF_vars(MainStep)
    /\ \A s \in Server, k \in Connection : WF_vars(Disconnect(s, k))

-----------------------------------------------------------------------------
(* Properties                                                               *)

\* No request is answered 500: the query interface listens only once the
\* store runs, and when the store stops, so does the gateway that lets
\* requests through to it (main.ts stops both in one go, while connections
\* of the query interface are still served).
NoServerError == \A k \in Connection : answer[k] # 500

\* The process ends by exit(0) after a start, or exit(1), only when no server
\* of its own holds an address or a connection and no interval is set.
ExitsClean ==
    exit \in {"0", "1"} =>
        /\ timers = {}
        /\ \A s \in Server :
              connections[s] = {} /\ server[s] \in {"none", "closed"} /\ ~running[s]

\* The audit stream is the newest validations, as many as it holds.
AuditKeepsNewest ==
    auditStream = SubSeq(validations, Len(validations) - Min({AuditLimit, Len(validations)}) + 1,
                         Len(validations))

\* A program that is told to stop, or that could not start, ends.
StopsEventually == main \in {"shutdown", "cleanup"} ~> exit # "no"

=============================================================================
