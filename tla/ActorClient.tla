---------------------------- MODULE ActorClient ----------------------------
(***************************************************************************)
(* The TypeScript client (client/dekigotojs): Actor, ActorManager and      *)
(* TypedActorManager over ActorDBClient, as the holders of one aggregate's *)
(* actors use them against a server that refuses a number that is not next *)
(* in its log.  Clients of different aggregates share nothing.             *)
(***************************************************************************)
EXTENDS Naturals, Sequences, FiniteSets, SequencesExt

CONSTANTS
    Holder,         \* the flows of code that hold an Actor each
    Bare,           \* those that use ActorManager's; the others use handles
    Call,           \* the calls of the client's methods that can be under way
    EventType,
    StateOf(_),     \* the state of an aggregate with events of these types
    Offers(_),      \* the events that the handle of a state can write
    MaxSequence,    \* bound: the largest number each holder writes under
    MaxLate         \* bound: writes given up that may still arrive

ASSUME ActorClientAssumption == MaxSequence \in [Holder -> Nat] /\ MaxLate \in Nat /\ Bare \subseteq Holder

VARIABLES
    log,            \* the server's log: who wrote what, and what it went by
    sequence,       \* Actor.sequence of each holder's Actor
    holds,          \* what a holder has: nothing, a bare Actor, or a handle
    basis,          \* history: what getHandle read for the holder's handle
    call,           \* the calls under way
    answer,         \* what the server has answered to a call's latest request
    late            \* writes that their callers have given up

clientVars == <<sequence, holds, basis, call>>
wireVars == <<answer, late>>
actorVars == <<log, clientVars, wireVars>>

\* seen: how many events the handle's state is made of; loaded: the number
\* that its Actor started from; uses: the writes asked of it before.
Basis == [handle : BOOLEAN, seen : Nat, loaded : Nat, uses : Nat]

NoBasis == [handle |-> FALSE, seen |-> 0, loaded |-> 0, uses |-> 0]

\* What a new handle goes by.
Read(seen, loaded) == [handle |-> TRUE, seen |-> seen, loaded |-> loaded, uses |-> 0]

Used(b) == IF b.handle THEN [b EXCEPT !.uses = @ + 1] ELSE b

Write == [type : EventType, number : Nat, by : Holder, basis : Basis]

\* What a call is waiting for: a read of getHandle, its second read, a read
\* of loadSequence, or a write.
Waiting == {"get", "reload", "load", "write"}

Idle == [at |-> "idle"]

\* A read remembers who it is for, and how many events are seen already.
CallState ==
    {Idle} \cup [at : Waiting \ {"write"}, of : Holder, seen : Nat]
           \cup [at : {"write"}, write : Write]

Answer ==
    [kind : {"none", "stored", "refused"}] \cup [kind : {"events"}, length : Nat]

NoAnswer == [kind |-> "none"]

ActorTypeOK ==
    /\ log \in Seq(Write)
    /\ sequence \in [Holder -> Nat]
    /\ holds \in [Holder -> {"nothing", "actor", "handle"}]
    /\ basis \in [Holder -> Basis]
    /\ call \in [Call -> CallState]
    /\ answer \in [Call -> Answer]
    /\ late \subseteq Write

ActorInit ==
    /\ log = <<>>
    /\ sequence = [h \in Holder |-> 0]
    /\ holds = [h \in Holder |-> "nothing"]
    /\ basis = [h \in Holder |-> NoBasis]
    /\ call = [c \in Call |-> Idle]
    /\ answer = [c \in Call |-> NoAnswer]
    /\ late = {}

Types(events) == [i \in DOMAIN events |-> events[i].type]

\* The state after the first n events.
StateAt(n) == StateOf(Types(SubSeq(log, 1, n)))

Free(c) == call[c] = Idle

\* The holder a call is for.
HolderOf(c) == IF call[c].at = "write" THEN call[c].write.by ELSE call[c].of

\* Holder h awaits a call: getHandle is not begun by a holder that does.
Busy(h) == \E c \in Call : ~Free(c) /\ HolderOf(c) = h

-----------------------------------------------------------------------------
(* The holder's side                                                        *)

\* ActorManager.getActor: made on first use, shared afterwards.
GetActor(h) ==
    /\ h \in Bare
    /\ holds[h] = "nothing"
    /\ holds' = [holds EXCEPT ![h] = "actor"]
    /\ UNCHANGED <<log, sequence, basis, call, wireVars>>

\* Actor.writeEvent: the number is taken before the request is answered, and
\* nothing takes it back.
WriteEvent(c, h, t) ==
    /\ holds[h] # "nothing"
    /\ sequence[h] < MaxSequence[h]
    /\ sequence' = [sequence EXCEPT ![h] = @ + 1]
    /\ call' = [call EXCEPT ![c] =
          [at    |-> "write",
           write |-> [type |-> t, number |-> sequence[h] + 1, by |-> h, basis |-> basis[h]]]]
    /\ basis' = [basis EXCEPT ![h] = Used(@)]
    /\ answer' = [answer EXCEPT ![c] = NoAnswer]
    /\ UNCHANGED <<log, holds, late>>

\* A holder of a bare Actor writes what it likes.
WriteBare(c, h, t) ==
    /\ Free(c)
    /\ holds[h] = "actor"
    /\ WriteEvent(c, h, t)

\* A holder of a handle writes what the handle of its state offers.
WriteByHandle(c, h, t) ==
    /\ Free(c)
    /\ holds[h] = "handle"
    /\ t \in Offers(StateAt(basis[h].seen))
    /\ WriteEvent(c, h, t)

\* A read is sent.
Reads(c, h, purpose, seen) ==
    /\ call' = [call EXCEPT ![c] = [at |-> purpose, of |-> h, seen |-> seen]]
    /\ answer' = [answer EXCEPT ![c] = NoAnswer]

\* Actor.loadSequence
LoadSequence(c, h) ==
    /\ Free(c)
    /\ holds[h] = "actor"
    /\ Reads(c, h, "load", 0)
    /\ UNCHANGED <<log, sequence, holds, basis, late>>

\* TypedActorManager.getHandle makes an Actor of its own and reads its events.
GetHandle(c, h) ==
    /\ h \notin Bare
    /\ Free(c)
    /\ ~Busy(h)
    /\ sequence' = [sequence EXCEPT ![h] = 0]
    /\ holds' = [holds EXCEPT ![h] = "nothing"]
    /\ basis' = [basis EXCEPT ![h] = NoBasis]
    /\ Reads(c, h, "get", 0)
    /\ UNCHANGED <<log, late>>

-----------------------------------------------------------------------------
(* The server, as far as the client depends on it                           *)

Accepts(w) == w.number = Len(log) + 1

ServeRead(c) ==
    /\ call[c].at \in Waiting \ {"write"}
    /\ answer[c] = NoAnswer
    /\ answer' = [answer EXCEPT ![c] = [kind |-> "events", length |-> Len(log)]]
    /\ UNCHANGED <<log, clientVars, late>>

ServeWrite(c) ==
    /\ call[c].at = "write"
    /\ answer[c] = NoAnswer
    /\ LET w == call[c].write IN
       IF Accepts(w)
          THEN /\ log' = Append(log, w)
               /\ answer' = [answer EXCEPT ![c] = [kind |-> "stored"]]
          ELSE /\ answer' = [answer EXCEPT ![c] = [kind |-> "refused"]]
               /\ UNCHANGED log
    /\ UNCHANGED <<clientVars, late>>

\* A write that its caller has given up reaches the server all the same, or
\* never does; one that is refused then makes no difference.
ServeLate(w) ==
    /\ w \in late
    /\ Accepts(w)
    /\ late' = late \ {w}
    /\ log' = Append(log, w)
    /\ UNCHANGED <<clientVars, answer>>

-----------------------------------------------------------------------------
(* Answers and timeouts                                                     *)

\* A call ends.
Returns(c) ==
    /\ call' = [call EXCEPT ![c] = Idle]
    /\ answer' = [answer EXCEPT ![c] = NoAnswer]

\* The first read of getHandle: no events, no handle.
NotFound(c) ==
    /\ call[c].at = "get"
    /\ answer[c] = [kind |-> "events", length |-> 0]
    /\ Returns(c)
    /\ UNCHANGED <<log, sequence, holds, basis, late>>

\* Otherwise the events are folded, and loadSequence reads them again.
Found(c) ==
    /\ call[c].at = "get"
    /\ answer[c].kind = "events"
    /\ answer[c].length > 0
    /\ Reads(c, call[c].of, "reload", answer[c].length)
    /\ UNCHANGED <<log, sequence, holds, basis, late>>

\* They cannot be when the manager's class is an arrow function, as todo.ts
\* has it, and the build keeps it one: `new` throws.  A build does so always or
\* never; either may happen here.
CannotConstruct(c) ==
    /\ call[c].at = "get"
    /\ answer[c].kind = "events"
    /\ answer[c].length > 0
    /\ Returns(c)
    /\ UNCHANGED <<log, sequence, holds, basis, late>>

\* getHandle fails with its first read.
GetFails(c) ==
    /\ call[c].at = "get"
    /\ Returns(c)
    /\ UNCHANGED <<log, sequence, holds, basis, late>>

\* What loadSequence may leave in the new Actor: the last number, or 0 when
\* its read failed.
Reloaded(c, n) ==
    \/ answer[c].kind = "events" /\ n = answer[c].length
    \/ n = 0

\* getHandle has its handle, whose Actor starts from n.
TakeHandle(c, n) ==
    /\ call[c].at = "reload"
    /\ Reloaded(c, n)
    /\ holds' = [holds EXCEPT ![call[c].of] = "handle"]
    /\ UNCHANGED <<log, late>>

HandleTaken(c, n) ==
    /\ TakeHandle(c, n)
    /\ basis' = [basis EXCEPT ![call[c].of] = Read(call[c].seen, n)]
    /\ sequence' = [sequence EXCEPT ![call[c].of] = n]
    /\ Returns(c)

\* loadSequence has read: an empty stream leaves the number as it is.
Loaded(c) ==
    /\ call[c].at = "load"
    /\ answer[c].kind = "events"
    /\ sequence' = [sequence EXCEPT ![call[c].of] = IF answer[c].length > 0 THEN answer[c].length ELSE @]
    /\ Returns(c)
    /\ UNCHANGED <<log, holds, basis, late>>

\* loadSequence has failed: taken for an actor that does not exist.
LoadFails(c) ==
    /\ call[c].at = "load"
    /\ sequence' = [sequence EXCEPT ![call[c].of] = 0]
    /\ Returns(c)
    /\ UNCHANGED <<log, holds, basis, late>>

\* Written, had the client a retry that takes the next number by itself.
WrittenOrRetried(c) ==
    /\ call[c].at = "write"
    /\ answer[c] # NoAnswer
    /\ IF answer[c].kind = "refused" /\ call[c].write.number < MaxSequence[HolderOf(c)]
          THEN /\ call' = [call EXCEPT ![c].write.number = @ + 1]
               /\ answer' = [answer EXCEPT ![c] = NoAnswer]
          ELSE Returns(c)
    /\ UNCHANGED <<log, sequence, holds, basis, late>>

\* writeEvent resolves with what the server said.
Written(c) ==
    /\ call[c].at = "write"
    /\ answer[c] # NoAnswer
    /\ Returns(c)
    /\ UNCHANGED <<log, sequence, holds, basis, late>>

\* writeEvent rejects: the request or its answer is lost, or the
\* request is under way still.
WriteFails(c) ==
    /\ call[c].at = "write"
    /\ \/ late' = late
       \/ /\ answer[c] = NoAnswer
          /\ call[c].write.number > Len(log)
          /\ Cardinality(late) < MaxLate
          /\ late' = late \cup {call[c].write}
    /\ Returns(c)
    /\ UNCHANGED <<log, sequence, holds, basis>>

=============================================================================
