----------------------------- MODULE TodoClient -----------------------------
(***************************************************************************)
(* The commands of demo/nextjs-libsql (lib/application/use-cases.ts) on    *)
(* the client's handles, beside code that uses the client directly.        *)
(***************************************************************************)
EXTENDS ActorClient, TodoItem

CONSTANTS
    BareTypes,      \* bound: what the holders of bare Actors write
    HandleTypes     \* bound: what a handle is asked to write without a command

ASSUME TodoClientAssumption ==
    BareTypes \cup HandleTypes \cup {"todo_item_completed"} \subseteq EventType

VARIABLES
    command,        \* the calls that a CompleteTodoItem command makes
    done            \* history: what each holder's latest command went by

vars == <<actorVars, command, done>>

TypeOK ==
    /\ ActorTypeOK
    /\ command \subseteq Call
    /\ done \in [Holder -> Nat]

Init ==
    /\ ActorInit
    /\ command = {}
    /\ done = [h \in Holder |-> 0]

\* The command's call ends, and with it the command: it resolves by a number,
\* the one it wrote under or that of the last event it saw, or it throws (0).
Ends(c, h, number) ==
    /\ command' = command \ {c}
    /\ done' = [done EXCEPT ![h] = number]

\* CompleteTodoItemHandler.handle asks for a handle.
Complete(c, h) ==
    /\ GetHandle(c, h)
    /\ command' = command \cup {c}
    /\ done' = [done EXCEPT ![h] = 0]

CompleteFinds(c) ==
    /\ c \in command
    /\ Found(c)
    /\ UNCHANGED <<command, done>>

CompleteFindsNothing(c) ==
    /\ c \in command
    /\ NotFound(c) \/ CannotConstruct(c) \/ GetFails(c)
    /\ Ends(c, call[c].of, 0)

\* A pending item is completed with the handle, at once.
CompleteWrites(c, n) ==
    /\ c \in command
    /\ TakeHandle(c, n)
    /\ LET h == call[c].of IN
       /\ "todo_item_completed" \in Offers(StateAt(call[c].seen))
       /\ sequence' = [sequence EXCEPT ![h] = n + 1]
       /\ basis' = [basis EXCEPT ![h] = Used(Read(call[c].seen, n))]
       /\ call' = [call EXCEPT ![c] =
             [at    |-> "write",
              write |-> [type   |-> "todo_item_completed",
                         number |-> n + 1,
                         by     |-> h,
                         basis  |-> Read(call[c].seen, n)]]]
       /\ answer' = [answer EXCEPT ![c] = NoAnswer]
    /\ UNCHANGED <<command, done>>

\* A completed item is left alone, a cancelled one is an error.
CompleteDeclines(c, n) ==
    /\ c \in command
    /\ HandleTaken(c, n)
    /\ \/ /\ StateAt(call[c].seen) = "completed"
          /\ Ends(c, call[c].of, call[c].seen)
       \/ /\ StateAt(call[c].seen) = "cancelled"
          /\ Ends(c, call[c].of, 0)

\* CompleteReturns, had the handler no await.
CompleteReturnsAtOnce(c) ==
    /\ c \in command
    /\ WriteFails(c)
    /\ Ends(c, HolderOf(c), call[c].write.number)

\* The handler awaits the write and does not look at what it returns.
CompleteReturns(c) ==
    /\ c \in command
    /\ Written(c)
    /\ Ends(c, HolderOf(c), call[c].write.number)

CompleteRejects(c) ==
    /\ c \in command
    /\ WriteFails(c)
    /\ Ends(c, HolderOf(c), 0)

-----------------------------------------------------------------------------
(* Code that uses the client without a command                              *)

Begin ==
    /\ \E h \in Holder :
          \/ GetActor(h)
          \/ \E c \in Call :
                \/ GetHandle(c, h)
                \/ LoadSequence(c, h)
                \/ \E t \in BareTypes : WriteBare(c, h, t)
                \/ \E t \in HandleTypes : WriteByHandle(c, h, t)
    /\ UNCHANGED <<command, done>>

Plain(c) ==
    /\ c \notin command
    /\ \/ NotFound(c)
       \/ Found(c)
       \/ CannotConstruct(c)
       \/ GetFails(c)
       \/ \E n \in 0..Len(log) : HandleTaken(c, n)
       \/ Loaded(c)
       \/ LoadFails(c)
       \/ Written(c)
       \/ WriteFails(c)
    /\ UNCHANGED <<command, done>>

Serve ==
    /\ \/ \E c \in Call : ServeRead(c) \/ ServeWrite(c)
       \/ \E w \in late : ServeLate(w)
    /\ UNCHANGED <<command, done>>

\* Call c goes on with an answer, or without one when it times out.
Continue(c) ==
    \/ Plain(c)
    \/ CompleteFinds(c)
    \/ CompleteFindsNothing(c)
    \/ \E n \in 0..Len(log) : CompleteWrites(c, n) \/ CompleteDeclines(c, n)
    \/ CompleteReturns(c)
    \/ CompleteRejects(c)

Next ==
    \/ Begin
    \/ \E c \in Call, h \in Holder : Complete(c, h)
    \/ Serve
    \/ \E c \in Call : Continue(c)

Spec == Init /\ [][Next]_vars

-----------------------------------------------------------------------------
(* Properties                                                               *)

\* An event stored by a handle that the item's state does not offer at its
\* place was written past events the handle had not seen, and that takes one
\* of two things: events that came between getHandle's two reads (the number
\* is loaded later than the state), or an earlier write of the same handle,
\* stored or not (the number it took is never given back).
StaleOnlyThroughGaps ==
    \A i \in DOMAIN log :
        LET b == log[i].basis IN
        b.handle /\ log[i].type \notin Offers(StateAt(i - 1)) => b.loaded > b.seen \/ b.uses > 0

\* A CompleteTodoItem command that resolves has an event to show for it: the
\* number it went by is taken, by its own event or by one it lost to, since
\* it does not look at the result of its write.
DoneIsDecided ==
    \A h \in Holder : done[h] # 0 => done[h] \in DOMAIN log

=============================================================================
