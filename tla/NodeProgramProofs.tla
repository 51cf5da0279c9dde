------------------------- MODULE NodeProgramProofs -------------------------
(***************************************************************************)
(* Theorems about NodeProgram, for any number of connections and any sizes *)
(* of the audit stream.                                                    *)
(*                                                                         *)
(* Which components run, which servers hold an address and what connections*)
(* there may be all follow from where main() is: that is StageInv.         *)
(***************************************************************************)
EXTENDS NodeProgram, SequenceTheorems, TLAPS

\* What holds of the components at each await of main.
StageInv ==
    /\ main = "load" => /\ timers = {} /\ \A c \in Component : ~running[c]
                        /\ \A s \in Server : server[s] = "none"
    /\ main \in {"shutdown", "cleanup"} => timers = {} /\ \A c \in Component : ~running[c]
    /\ main \in {"proj", "qry", "ctrl", "started"} => running["es"]
    /\ server["qry"] # "none" => main \in {"qry", "ctrl", "started", "shutdown", "cleanup"}

\* Only a server that has listened has connections.
ConnectedInv ==
    \A s \in Server : connections[s] # {} => server[s] \in {"listening", "closing"}

\* The audit stream is a suffix of the history, shorter than it only when the
\* stream is full.
AuditInv ==
    /\ Len(auditStream) <= AuditLimit
    /\ Len(auditStream) <= Len(validations)
    /\ Len(auditStream) < AuditLimit => Len(auditStream) = Len(validations)
    /\ \A i \in 1..Len(auditStream) :
          auditStream[i] = validations[Len(validations) - Len(auditStream) + i]

\* The inductive invariant.
Inv == TypeOK /\ StageInv /\ ConnectedInv /\ AuditInv /\ NoServerError /\ ExitsClean

-----------------------------------------------------------------------------

(* The awaits of main follow each other in the order of StartOrder. *)
LEMMA AfterEach ==
    /\ After("secGW") = "es"
    /\ After("es") = "proj"
    /\ After("proj") = "qry"
    /\ After("qry") = "ctrl"
    /\ After("ctrl") = "started"
<1>1. DOMAIN StartOrder = 1..5 /\ Len(StartOrder) = 5
  BY DEF StartOrder
<1>2. /\ StartOrder[1] = "secGW" /\ StartOrder[2] = "es" /\ StartOrder[3] = "proj"
      /\ StartOrder[4] = "qry" /\ StartOrder[5] = "ctrl"
  BY DEF StartOrder
<1>3. \A k \in DOMAIN StartOrder : k = 1 \/ k = 2 \/ k = 3 \/ k = 4 \/ k = 5
  BY <1>1
<1> DEFINE Place(c) == CHOOSE k \in DOMAIN StartOrder : StartOrder[k] = c
<1>4. Place("secGW") = 1 /\ Place("es") = 2 /\ Place("proj") = 3 /\ Place("qry") = 4 /\ Place("ctrl") = 5
  BY <1>1, <1>2, <1>3
<1> QED
  BY <1>1, <1>2, <1>4 DEF After

(* main starts the gateway first. *)
LEMMA FirstStart == Head(StartOrder) = "secGW"
BY DEF StartOrder

(* The smaller of two numbers is one. *)
LEMMA MinIsNat == ASSUME NEW m \in Nat, NEW n \in Nat PROVE Min({m, n}) \in Nat
BY DEF Min

(* The initial states satisfy the invariant. *)
LEMMA InitInv == Init => Inv
<1> SUFFICES ASSUME Init PROVE Inv
  OBVIOUS
<1> USE DEF Init, Server, Component
<1>1. TypeOK
  BY DEF TypeOK, Metrics
<1>2. StageInv /\ ConnectedInv
  BY DEF StageInv, ConnectedInv
<1>3. NoServerError /\ ExitsClean
  BY DEF NoServerError, ExitsClean
<1>4. AuditInv
  BY NodeProgramAssumption DEF AuditInv
<1> QED
  BY <1>1, <1>2, <1>3, <1>4 DEF Inv

(* What Next comes to.  The three ways in which a start fails are cleanups. *)
LEMMA StepCases ==
    ASSUME [Next]_vars
    PROVE  \/ Load \/ LoadFails \/ GenerateToken \/ Shutdown \/ SignalKills \/ Exit
           \/ Alive /\ main \in Component /\ Cleanup
           \/ StartStore \/ StartProjector \/ UpdateMetrics \/ EvaluateScaling
           \/ \E s \in Server : StartServer(s) \/ Listening(s) \/ Closes(s)
           \/ \E k \in Connection, s \in Server : Connect(s, k) \/ Disconnect(s, k) \/ AskHealth(s, k)
           \/ \E k \in Connection, token \in Token : AskGateway(k, token)
           \/ \E k \in Connection, route \in Route : AskOpen(k, route)
           \/ \E k \in Connection, route \in Route, token \in Token : AskWithToken(k, route, token)
           \/ UNCHANGED vars
<1>1. MTLSFails \/ OpenFails => Alive /\ main \in Component /\ Cleanup
  BY DEF MTLSFails, OpenFails, Component
<1>2. \A s \in Server : ListenFails(s) => Alive /\ main \in Component /\ Cleanup
  BY DEF ListenFails, Server, Component
<1> QED
  BY <1>1, <1>2 DEF Next, MainStep, Signal, ClientStep

-----------------------------------------------------------------------------
(* Types                                                                    *)

(* A stop keeps the types. *)
LEMMA StopAllTypes ==
    ASSUME TypeOK, StopAll
    PROVE  /\ running' \in [Component -> BOOLEAN] /\ \A c \in Component : ~running'[c]
           /\ timers' = {}
           /\ server' \in [Server -> {"none", "binding", "listening", "closing", "closed"}]
           /\ \A s \in Server : /\ server[s] = "listening" => server'[s] = "closing"
                                /\ server[s] = "binding" => server'[s] = "closed"
                                /\ server[s] \notin {"listening", "binding"} => server'[s] = server[s]
BY DEF TypeOK, StopAll

(* What validateToken does to the audit stream and the history. *)
LEMMA ValidateTypes ==
    ASSUME TypeOK, NEW token \in Token, Validate(token)
    PROVE  auditStream' \in Seq(BOOLEAN) /\ validations' \in Seq(BOOLEAN)
<1>1. auditStream \in Seq(BOOLEAN) /\ validations \in Seq(BOOLEAN) /\ Valid(token) \in BOOLEAN
  BY DEF TypeOK, Valid
<1> DEFINE longer == Append(auditStream, Valid(token))
<1>2. longer \in Seq(BOOLEAN) /\ Append(validations, Valid(token)) \in Seq(BOOLEAN)
  BY <1>1
<1>3. longer # <<>>
  BY <1>1
<1>4. Tail(longer) \in Seq(BOOLEAN)
  <2> HIDE DEF longer
  <2> QED
    BY <1>2, <1>3
<1> QED
  BY <1>1, <1>2, <1>4 DEF Validate, Audited

(* Where main goes, and which components run, when a start succeeds. *)
LEMMA TypeStep == ASSUME Inv, [Next]_vars PROVE TypeOK'
<1> USE NodeProgramAssumption DEF Inv, TypeOK
<1>1. ASSUME Load \/ LoadFails \/ GenerateToken \/ SignalKills \/ Exit PROVE TypeOK'
  <2>1. CASE Load
    <3>1. main' = "secGW" /\ "secGW" \in Component
      BY <2>1, FirstStart DEF Load, Component
    <3> QED
      BY <2>1, <3>1 DEF Load, componentVars, dataVars
  <2>2. CASE LoadFails \/ GenerateToken \/ SignalKills \/ Exit
    <3>1. UNCHANGED <<config, main, componentVars, dataVars>> /\ exit' \in {"0", "1", "killed"}
      BY <2>2 DEF LoadFails, GenerateToken, SignalKills, Exit
    <3> QED
      BY <3>1 DEF componentVars, dataVars
  <2> QED
    BY <1>1, <2>1, <2>2
<1>2. ASSUME Shutdown \/ Cleanup PROVE TypeOK'
  <2>1. StopAll
    BY <1>2 DEF Shutdown, Cleanup
  <2> QED
    BY <1>2, <2>1, StopAllTypes DEF Shutdown, Cleanup, dataVars
<1>3. ASSUME StartStore \/ StartProjector PROVE TypeOK'
  <2>1. main' \in {"proj", "qry"} /\ main' \in Component
    BY <1>3, AfterEach DEF StartStore, StartProjector, Component
  <2>2. CASE StartStore
    BY <2>1, <2>2 DEF StartStore, dataVars
  <2>3. CASE StartProjector
    BY <2>1, <2>3 DEF StartProjector, dataVars
  <2> QED
    BY <1>3, <2>2, <2>3
<1>4. ASSUME NEW s \in Server, StartServer(s) \/ Listening(s) \/ Closes(s) PROVE TypeOK'
  <2>1. CASE StartServer(s)
    BY <2>1 DEF StartServer, programVars, dataVars
  <2>2. CASE Listening(s)
    BY <2>2, AfterEach DEF Listening, Server, Component, dataVars
  <2>3. CASE Closes(s)
    BY <2>3 DEF Closes, programVars, dataVars
  <2> QED
    BY <1>4, <2>1, <2>2, <2>3
<1>5. ASSUME NEW k \in Connection, NEW s \in Server, Connect(s, k) \/ Disconnect(s, k) \/ AskHealth(s, k)
      PROVE  TypeOK'
  <2>1. CASE Connect(s, k)
    BY <2>1 DEF Connect, programVars, dataVars
  <2>2. CASE Disconnect(s, k)
    BY <2>2 DEF Disconnect, programVars
  <2>3. CASE AskHealth(s, k)
    BY <2>3 DEF AskHealth, Answer, programVars, componentVars
  <2> QED
    BY <1>5, <2>1, <2>2, <2>3
<1>6. ASSUME NEW k \in Connection, NEW token \in Token, AskGateway(k, token) PROVE TypeOK'
  BY <1>6, ValidateTypes DEF AskGateway, programVars, componentVars
<1>7. ASSUME NEW k \in Connection, NEW route \in Route, AskOpen(k, route) PROVE TypeOK'
  BY <1>7 DEF AskOpen, Answer, programVars, componentVars
<1>8. ASSUME NEW k \in Connection, NEW route \in Route, NEW token \in Token,
             AskWithToken(k, route, token)
      PROVE  TypeOK'
  <2>1. (IF Accepted(token) THEN Handled(route, token) ELSE 401) \in {0, 200, 401, 403, 404, 500}
    BY <1>8 DEF AskWithToken, Handled, Route
  <2> HIDE DEF Accepted
  <2> QED
    BY <1>8, <2>1, ValidateTypes DEF AskWithToken, Answer, programVars, componentVars
<1>9. ASSUME UpdateMetrics PROVE TypeOK'
  <2>1. Min({Len(auditStream), ReportLimit}) \in Nat
    <3>1. Len(auditStream) \in Nat
      BY LenProperties
    <3> QED
      BY <3>1, MinIsNat
  <2> QED
    BY <1>9, <2>1 DEF UpdateMetrics, Metrics, programVars, componentVars
<1>10. ASSUME EvaluateScaling PROVE TypeOK'
  <2> DEFINE longer == Append(decisions, "scale_up")
  <2>1. longer \in Seq({"scale_up"}) /\ longer # <<>>
    <3>1. decisions \in Seq({"scale_up"}) /\ "scale_up" \in {"scale_up"}
      OBVIOUS
    <3> HIDE DEF TypeOK, Inv
    <3> QED
      BY <3>1, AppendProperties
  <2>2. Tail(longer) \in Seq({"scale_up"})
    <3> HIDE DEF longer
    <3> QED
      BY <2>1
  <2>3. decisions' \in Seq({"scale_up"})
    BY <1>10, <2>1, <2>2 DEF EvaluateScaling
  <2> QED
    BY <1>10, <2>3 DEF EvaluateScaling, programVars, componentVars
<1>11. ASSUME UNCHANGED vars PROVE TypeOK'
  BY <1>11 DEF vars, programVars, componentVars, dataVars
<1> HIDE DEF TypeOK
<1> QED
  BY <1>1, <1>2, <1>3, <1>4, <1>5, <1>6, <1>7, <1>8, <1>9, <1>10, <1>11, StepCases

-----------------------------------------------------------------------------
(* The stages of main                                                       *)

(* Each stage is reached from the one before it. *)
LEMMA StageStep == ASSUME Inv, [Next]_vars PROVE StageInv'
<1> USE DEF Inv, TypeOK, StageInv, Server, Component
<1>1. ASSUME Load \/ LoadFails \/ GenerateToken \/ SignalKills \/ Exit PROVE StageInv'
  <2>1. CASE Load
    BY <2>1, FirstStart DEF Load, componentVars
  <2>2. CASE LoadFails \/ GenerateToken \/ SignalKills \/ Exit
    <3>1. UNCHANGED <<main, componentVars>>
      BY <2>2 DEF LoadFails, GenerateToken, SignalKills, Exit
    <3> QED
      BY <3>1 DEF componentVars
  <2> QED
    BY <1>1, <2>1, <2>2
<1>2. ASSUME Shutdown \/ (main \in Component /\ Cleanup) PROVE StageInv'
  <2>1. StopAll /\ main' \in {"shutdown", "cleanup"}
    BY <1>2 DEF Shutdown, Cleanup
  <2> QED
    BY <2>1, StopAllTypes
<1>3. ASSUME StartStore \/ StartProjector PROVE StageInv'
  BY <1>3, AfterEach DEF StartStore, StartProjector
<1>4. ASSUME NEW s \in Server, StartServer(s) \/ Listening(s) \/ Closes(s) PROVE StageInv'
  <2>1. CASE StartServer(s)
    BY <2>1 DEF StartServer, programVars
  <2>2. CASE Listening(s)
    BY <2>2, AfterEach DEF Listening
  <2>3. CASE Closes(s)
    BY <2>3 DEF Closes, programVars
  <2> QED
    BY <1>4, <2>1, <2>2, <2>3
<1>5. ASSUME UNCHANGED <<main, running, server, timers>> PROVE StageInv'
  BY <1>5
<1>6. ASSUME \/ \E k \in Connection, s \in Server : Connect(s, k) \/ Disconnect(s, k) \/ AskHealth(s, k)
             \/ \E k \in Connection, token \in Token : AskGateway(k, token)
             \/ \E k \in Connection, route \in Route : AskOpen(k, route)
             \/ \E k \in Connection, route \in Route, token \in Token : AskWithToken(k, route, token)
             \/ UpdateMetrics \/ EvaluateScaling \/ UNCHANGED vars
      PROVE  UNCHANGED <<main, running, server, timers>>
  BY <1>6 DEF Connect, Disconnect, AskHealth, AskGateway, AskOpen, AskWithToken, UpdateMetrics,
              EvaluateScaling, vars, programVars, componentVars
<1> QED
  BY <1>1, <1>2, <1>3, <1>4, <1>5, <1>6, StepCases

(* A server gets connections while it listens, and closes without any. *)
LEMMA ConnectedStep == ASSUME Inv, [Next]_vars PROVE ConnectedInv'
<1> USE DEF Inv, TypeOK, ConnectedInv
<1>1. ASSUME StopAll, UNCHANGED connections PROVE ConnectedInv'
  <2> SUFFICES ASSUME NEW s \in Server, connections[s] # {}
               PROVE  server'[s] \in {"listening", "closing"}
    BY <1>1
  <2>1. server[s] \in {"listening", "closing"}
    OBVIOUS
  <2>2. /\ server[s] = "listening" => server'[s] = "closing"
        /\ server[s] \notin {"listening", "binding"} => server'[s] = server[s]
    BY <1>1 DEF StopAll
  <2> QED
    BY <2>1, <2>2
<1>2. ASSUME NEW s \in Server, StartServer(s) \/ Listening(s) \/ Closes(s) PROVE ConnectedInv'
  <2>1. CASE StartServer(s)
    BY <2>1 DEF StartServer
  <2>2. CASE Listening(s)
    BY <2>2 DEF Listening
  <2>3. CASE Closes(s)
    BY <2>3 DEF Closes
  <2> QED
    BY <1>2, <2>1, <2>2, <2>3
<1>3. ASSUME NEW k \in Connection, NEW s \in Server, Connect(s, k) \/ Disconnect(s, k)
      PROVE  ConnectedInv'
  <2>1. CASE Connect(s, k)
    BY <2>1 DEF Connect
  <2>2. CASE Disconnect(s, k)
    BY <2>2 DEF Disconnect
  <2> QED
    BY <1>3, <2>1, <2>2
<1>4. ASSUME UNCHANGED <<server, connections>> PROVE ConnectedInv'
  BY <1>4
<1>5. Shutdown \/ Cleanup => StopAll /\ UNCHANGED connections
  BY DEF Shutdown, Cleanup
<1>6. ASSUME \/ Load \/ LoadFails \/ GenerateToken \/ SignalKills \/ Exit
             \/ StartStore \/ StartProjector
             \/ \E k \in Connection, s \in Server : AskHealth(s, k)
             \/ \E k \in Connection, token \in Token : AskGateway(k, token)
             \/ \E k \in Connection, route \in Route : AskOpen(k, route)
             \/ \E k \in Connection, route \in Route, token \in Token : AskWithToken(k, route, token)
             \/ UpdateMetrics \/ EvaluateScaling \/ UNCHANGED vars
      PROVE  UNCHANGED <<server, connections>>
  BY <1>6 DEF Load, LoadFails, GenerateToken, SignalKills, Exit, StartStore, StartProjector,
              AskHealth, AskGateway, AskOpen, AskWithToken, UpdateMetrics, EvaluateScaling,
              vars, componentVars
<1> QED
  BY <1>1, <1>2, <1>3, <1>4, <1>5, <1>6, StepCases

(* The event that is added to a full stream takes the place of the oldest:  *)
(* the stream stays a suffix of the history.                                *)
LEMMA ValidateAudits ==
    ASSUME TypeOK, AuditInv, NEW token \in Token, Validate(token)
    PROVE  AuditInv'
<1> USE NodeProgramAssumption DEF AuditInv
<1> DEFINE valid == Valid(token)
           longer == Append(auditStream, valid)
<1>1. auditStream \in Seq(BOOLEAN) /\ validations \in Seq(BOOLEAN) /\ valid \in BOOLEAN
  BY DEF TypeOK, Valid
<1>2. CASE ~running["secGW"]
  BY <1>2 DEF Validate
<1>3. CASE running["secGW"]
  <2>1. /\ validations' = Append(validations, valid)
        /\ auditStream' = IF Len(longer) > AuditLimit THEN Tail(longer) ELSE longer
    BY <1>3 DEF Validate, Audited
  <2> HIDE DEF valid
  <2>2. /\ Len(auditStream) \in Nat /\ Len(validations) \in Nat
        /\ longer \in Seq(BOOLEAN) /\ Len(longer) = Len(auditStream) + 1
        /\ \A i \in 1..Len(auditStream) : longer[i] = auditStream[i]
        /\ longer[Len(auditStream) + 1] = valid
        /\ Len(validations') = Len(validations) + 1
        /\ \A i \in 1..Len(validations) : validations'[i] = validations[i]
        /\ validations'[Len(validations) + 1] = valid
    BY <1>1, <2>1, AppendProperties, LenProperties
  <2> HIDE DEF longer
  <2> DEFINE n == Len(auditStream)
             l == Len(validations)
  <2>6. /\ n \in Nat /\ l \in Nat /\ n <= l /\ n <= AuditLimit /\ (n < AuditLimit => n = l)
        /\ Len(longer) = n + 1 /\ Len(validations') = l + 1
    BY <2>2
  <2>3. \A i \in 1..(n + 1) : longer[i] = validations'[l - n + i]
    <3> SUFFICES ASSUME NEW i \in 1..(n + 1) PROVE longer[i] = validations'[l - n + i]
      OBVIOUS
    <3>1. CASE i \in 1..n
      <4>1. longer[i] = auditStream[i] /\ auditStream[i] = validations[l - n + i]
        BY <2>2, <3>1
      <4>2. l - n + i \in 1..l
        BY <2>6, <3>1
      <4>3. validations'[l - n + i] = validations[l - n + i]
        BY <2>2, <4>2
      <4> QED
        BY <4>1, <4>3
    <3>2. CASE i = n + 1
      <4>1. l - n + i = l + 1
        BY <2>6, <3>2
      <4> QED
        BY <2>2, <3>2, <4>1
    <3> QED
      BY <2>6, <3>1, <3>2
  <2>4. CASE Len(longer) > AuditLimit
    <3>1. /\ auditStream' = Tail(longer) /\ longer # <<>>
          /\ Len(auditStream') = Len(longer) - 1
          /\ \A i \in 1..Len(auditStream') : auditStream'[i] = longer[i + 1]
      BY <2>1, <2>2, <2>4, HeadTailProperties
    <3>2. Len(auditStream') = n /\ n = AuditLimit
      BY <2>6, <2>4, <3>1
    <3>3. \A i \in 1..n : auditStream'[i] = validations'[l + 1 - n + i]
      <4> SUFFICES ASSUME NEW i \in 1..n PROVE auditStream'[i] = validations'[l + 1 - n + i]
        OBVIOUS
      <4>1. i + 1 \in 1..(n + 1) /\ l - n + (i + 1) = l + 1 - n + i
        BY <2>6
      <4> HIDE DEF n, l
      <4>2. auditStream'[i] = longer[i + 1] /\ longer[i + 1] = validations'[l - n + (i + 1)]
        BY <2>3, <3>1, <3>2, <4>1
      <4> QED
        BY <4>1, <4>2
    <3> HIDE DEF n, l
    <3> QED
      BY <2>6, <3>2, <3>3
  <2>5. CASE ~(Len(longer) > AuditLimit)
    <3>1. auditStream' = longer /\ Len(auditStream') = n + 1 /\ n < AuditLimit
      BY <2>1, <2>6, <2>5
    <3>2. \A i \in 1..(n + 1) : auditStream'[i] = validations'[l + 1 - (n + 1) + i]
      BY <2>6, <2>3, <3>1
    <3> HIDE DEF n, l
    <3> QED
      BY <2>6, <3>1, <3>2
  <2> QED
    BY <2>4, <2>5
<1> QED
  BY <1>2, <1>3

(* Nothing but the validation of a token changes the stream.                *)
LEMMA AuditStep == ASSUME Inv, [Next]_vars PROVE AuditInv'
<1> USE DEF Inv
<1>1. ASSUME NEW token \in Token, Validate(token) PROVE AuditInv'
  BY <1>1, ValidateAudits
<1>2. ASSUME UNCHANGED <<auditStream, validations>> PROVE AuditInv'
  BY <1>2 DEF AuditInv
<1>3. \/ \E token \in Token : Validate(token)
      \/ UNCHANGED <<auditStream, validations>>
  BY StepCases DEF Load, LoadFails, GenerateToken, Shutdown, SignalKills, Exit, Cleanup, StartStore,
       StartProjector, StartServer, Listening, Closes, Connect, Disconnect, AskHealth, AskGateway,
       AskOpen, AskWithToken, UpdateMetrics, EvaluateScaling, vars, dataVars
<1> QED
  BY <1>1, <1>2, <1>3

(* The query interface answers a request whose token the gateway accepts    *)
(* only while the store runs.                                               *)
LEMMA AnswerStep == ASSUME Inv, [Next]_vars PROVE NoServerError'
<1> USE DEF Inv, TypeOK, NoServerError
<1>1. ASSUME NEW k \in Connection, NEW route \in Route, NEW token \in Token, AskWithToken(k, route, token)
      PROVE  NoServerError'
  <2>1. Accepted(token) => running["es"]
    <3> SUFFICES ASSUME running["secGW"] PROVE running["es"]
      BY DEF Accepted
    <3>1. connections["qry"] # {} /\ "qry" \in Server
      BY <1>1 DEF AskWithToken, Server
    <3>2. server["qry"] # "none"
      BY <3>1 DEF ConnectedInv
    <3>3. main \notin {"shutdown", "cleanup"}
      BY DEF StageInv, Component
    <3> QED
      BY <3>2, <3>3 DEF StageInv
  <2>2. (IF Accepted(token) THEN Handled(route, token) ELSE 401) # 500
    BY <1>1, <2>1 DEF AskWithToken, Handled, Route
  <2>3. answer' = [answer EXCEPT ![k] = IF Accepted(token) THEN Handled(route, token) ELSE 401]
    BY <1>1 DEF AskWithToken, Answer
  <2> QED
    BY <2>2, <2>3
<1>2. ASSUME NEW k \in Connection, NEW s \in Server, Disconnect(s, k) \/ AskHealth(s, k)
      PROVE  NoServerError'
  BY <1>2 DEF Disconnect, AskHealth, Answer
<1>3. ASSUME NEW k \in Connection, NEW route \in Route, AskOpen(k, route) PROVE NoServerError'
  BY <1>3 DEF AskOpen, Answer
<1>4. ASSUME UNCHANGED answer PROVE NoServerError'
  BY <1>4
<1>5. ASSUME \/ Load \/ LoadFails \/ GenerateToken \/ Shutdown \/ SignalKills \/ Exit \/ Cleanup
             \/ StartStore \/ StartProjector
             \/ \E s \in Server : StartServer(s) \/ Listening(s) \/ Closes(s)
             \/ \E k \in Connection, s \in Server : Connect(s, k)
             \/ \E k \in Connection, token \in Token : AskGateway(k, token)
             \/ UpdateMetrics \/ EvaluateScaling \/ UNCHANGED vars
      PROVE  UNCHANGED answer
  BY <1>5 DEF Load, LoadFails, GenerateToken, Shutdown, SignalKills, Exit, Cleanup, StartStore,
              StartProjector, StartServer, Listening, Closes, Connect, AskGateway, UpdateMetrics,
              EvaluateScaling, vars, dataVars
<1> QED
  BY <1>1, <1>2, <1>3, <1>4, <1>5, StepCases

(* The process ends by itself where nothing has been started, or where all  *)
(* has been stopped and no connection is left; then nothing moves any more. *)
LEMMA ExitStep == ASSUME Inv, [Next]_vars PROVE ExitsClean'
<1> USE DEF Inv, ExitsClean
<1> DEFINE Clean == /\ timers = {}
                    /\ \A s \in Server :
                          connections[s] = {} /\ server[s] \in {"none", "closed"} /\ ~running[s]
<1>1. ASSUME LoadFails \/ GenerateToken PROVE Clean'
  <2>1. main = "load" /\ UNCHANGED <<timers, connections, server, running>>
    BY <1>1 DEF LoadFails, GenerateToken, componentVars
  <2> QED
    BY <2>1 DEF StageInv, ConnectedInv, Server, Component
<1>2. ASSUME Exit PROVE Clean'
  <2>1. main \in {"shutdown", "cleanup"} /\ Drained /\ UNCHANGED <<timers, connections, server, running>>
    BY <1>2 DEF Exit, componentVars
  <2> QED
    BY <2>1 DEF StageInv, ConnectedInv, Drained, Server, Component
<1>3. ASSUME SignalKills PROVE ExitsClean'
  BY <1>3 DEF SignalKills
<1>4. ASSUME Alive, exit' = exit PROVE ExitsClean'
  BY <1>4 DEF Alive
<1>5. ASSUME UNCHANGED vars PROVE ExitsClean'
  BY <1>5 DEF vars, programVars, componentVars
<1>6. ASSUME \/ Load \/ Shutdown \/ StartStore \/ StartProjector \/ UpdateMetrics \/ EvaluateScaling
             \/ \E s \in Server : StartServer(s) \/ Listening(s) \/ Closes(s)
             \/ \E k \in Connection, s \in Server : Connect(s, k) \/ Disconnect(s, k) \/ AskHealth(s, k)
             \/ \E k \in Connection, token \in Token : AskGateway(k, token)
             \/ \E k \in Connection, route \in Route : AskOpen(k, route)
             \/ \E k \in Connection, route \in Route, token \in Token : AskWithToken(k, route, token)
      PROVE  Alive /\ exit' = exit
  BY <1>6 DEF Load, Shutdown, StartStore, StartProjector, UpdateMetrics, EvaluateScaling, StartServer,
              Listening, Closes, Connect, Disconnect, AskHealth, AskGateway, AskOpen, AskWithToken,
              programVars
<1>7. Cleanup => exit' = exit
  BY DEF Cleanup
<1> QED
  BY <1>1, <1>2, <1>3, <1>4, <1>5, <1>6, <1>7, StepCases

-----------------------------------------------------------------------------

(* The invariant holds in every reachable state. *)
LEMMA SpecInv == Spec => []Inv
<1>1. Inv /\ [Next]_vars => Inv'
  BY TypeStep, StageStep, ConnectedStep, AuditStep, AnswerStep, ExitStep DEF Inv
<1> QED
  BY InitInv, <1>1, PTL DEF Spec

(* The variables of the program keep their types. *)
THEOREM TypeCorrect == Spec => []TypeOK
<1>1. Inv => TypeOK
  BY DEF Inv
<1> QED
  BY SpecInv, <1>1, PTL

(* The order in which main starts its components, and that it stops them in *)
(* one go, keep every request of an accepted token away from a store that   *)
(* does not run, for any number of connections.                             *)
THEOREM NeverAnswers500 == Spec => []NoServerError
<1>1. Inv => NoServerError
  BY DEF Inv
<1> QED
  BY SpecInv, <1>1, PTL

(* The process that ends by itself leaves no interval, address or           *)
(* connection behind, wherever its start failed.                            *)
THEOREM LeavesNothing == Spec => []ExitsClean
<1>1. Inv => ExitsClean
  BY DEF Inv
<1> QED
  BY SpecInv, <1>1, PTL

(* The audit stream holds the newest validations in the order in which they *)
(* were made, as many as its limit allows, for every limit and however many *)
(* tokens have been validated.                                              *)
THEOREM AuditNewest == Spec => []AuditKeepsNewest
<1>1. Inv => AuditKeepsNewest
  <2> SUFFICES ASSUME Inv PROVE AuditKeepsNewest
    OBVIOUS
  <2> USE NodeProgramAssumption DEF AuditInv
  <2> DEFINE from == Len(validations) - Min({AuditLimit, Len(validations)}) + 1
             newest == SubSeq(validations, from, Len(validations))
  <2>1. /\ auditStream \in Seq(BOOLEAN) /\ validations \in Seq(BOOLEAN)
        /\ Len(auditStream) \in Nat /\ Len(validations) \in Nat /\ AuditInv
    BY LenProperties DEF Inv, TypeOK
  <2>2. Min({AuditLimit, Len(validations)}) = Len(auditStream)
    <3> DEFINE a == AuditLimit  l == Len(validations)  n == Len(auditStream)
    <3>1. n \in {a, l} /\ n <= a /\ n <= l /\ a \in Nat /\ l \in Nat /\ n \in Nat
      BY <2>1
    <3> HIDE DEF a, l, n
    <3>2. Min({a, l}) = n
      BY <3>1 DEF Min
    <3> QED
      BY <3>2 DEF a, l, n
  <2>3. from = Len(validations) - Len(auditStream) + 1 /\ from \in 1..(Len(validations) + 1)
    BY <2>1, <2>2
  <2> HIDE DEF from
  <2>4. /\ newest \in Seq(BOOLEAN) /\ Len(newest) = Len(auditStream)
        /\ \A i \in 1..Len(auditStream) : newest[i] = validations[from + i - 1]
    <3>1. /\ Len(newest) = IF from <= Len(validations) THEN Len(validations) - from + 1 ELSE 0
          /\ \A i \in 1..(Len(validations) - from + 1) : newest[i] = validations[from + i - 1]
      BY <2>1, <2>3, SubSeqProperties
    <3>2. newest \in Seq(BOOLEAN)
      BY <2>1, <2>3, SubSeqProperties
    <3> QED
      BY <2>1, <2>3, <3>1, <3>2
  <2> HIDE DEF newest
  <2>5. auditStream = newest
    <3>1. \A i \in 1..Len(auditStream) : auditStream[i] = newest[i]
      BY <2>1, <2>3, <2>4
    <3> QED
      BY <2>1, <2>4, <3>1, SeqEqual
  <2> QED
    BY <2>5 DEF newest, from, AuditKeepsNewest
<1> QED
  BY SpecInv, <1>1, PTL

=============================================================================
