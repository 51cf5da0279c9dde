----------------------------- MODULE TodoProofs -----------------------------
(***************************************************************************)
(* Theorems about the todo list of demo/nextjs-libsql: first TodoClient,   *)
(* for any holders and calls, any reducer and any handles (StateOf and     *)
(* Offers are arbitrary), then TodoPage, for any pages, lists and items.   *)
(*                                                                         *)
(* A handle decides on what it read, and its write arrives later, if ever. *)
(* The invariant follows a write from the handle's two reads to the log:   *)
(* wherever the write is, its type was offered after a prefix of the log   *)
(* that still is one, and its number says what the Actor had loaded.       *)
(***************************************************************************)
EXTENDS TodoClient, TodoPage, SequenceTheorems, FiniteSetTheorems, WellFoundedInduction, TLAPS

-----------------------------------------------------------------------------
(* The client: the invariant                                                *)

\* What a write under way or stored was decided on.
WriteInv(w) ==
    w.basis.handle =>
        /\ w.basis.seen <= Len(log)
        /\ w.type \in Offers(StateAt(w.basis.seen))
        /\ w.basis.uses = 0 => w.number = w.basis.loaded + 1

\* A stored write had seen nothing that came after it.
LogInv ==
    \A i \in 1..Len(log) :
        /\ log[i].number = i
        /\ log[i].basis.handle => log[i].basis.seen < i
        /\ WriteInv(log[i])

\* Only holders of handles have a basis, and an unused handle's Actor has
\* the number it loaded.
HolderInv ==
    \A h \in Holder :
        /\ holds[h] = "actor" => h \in Bare
        /\ holds[h] = "handle" => basis[h].handle
        /\ basis[h].handle =>
              /\ h \notin Bare
              /\ basis[h].seen <= Len(log)
              /\ basis[h].uses = 0 => sequence[h] = basis[h].loaded

\* What a call has been told is still so.
CallInv ==
    \A c \in Call :
        /\ call[c].at = "load" => call[c].of \in Bare
        /\ call[c].at \in {"get", "reload"} => call[c].of \notin Bare /\ call[c].seen <= Len(log)
        /\ call[c].at = "write" => WriteInv(call[c].write)
        /\ answer[c].kind = "events" => answer[c].length <= Len(log)

LateInv == \A w \in late : WriteInv(w)

\* A command's write takes a number that is next or taken, and once it is
\* answered that number is taken.
CommandInv ==
    \A c \in command :
        /\ call[c].at \in {"get", "reload", "write"}
        /\ call[c].at = "write" =>
              /\ call[c].write.number \in 1..(Len(log) + 1)
              /\ answer[c] # NoAnswer => call[c].write.number <= Len(log)

\* The inductive invariant.
Inv == TypeOK /\ LogInv /\ HolderInv /\ CallInv /\ LateInv /\ CommandInv /\ DoneIsDecided

-----------------------------------------------------------------------------

(* The initial states satisfy the invariant.                                *)
LEMMA InitInv == Init => Inv
<1> SUFFICES ASSUME Init PROVE Inv
  OBVIOUS
<1> USE DEF Init, ActorInit, Idle, NoAnswer, NoBasis
<1>1. TypeOK
  BY DEF TypeOK, ActorTypeOK, CallState, Basis, Answer
<1>2. LogInv /\ HolderInv /\ CallInv /\ LateInv /\ CommandInv /\ DoneIsDecided
  BY DEF LogInv, HolderInv, CallInv, LateInv, CommandInv, DoneIsDecided
<1> QED
  BY <1>1, <1>2 DEF Inv

\* A call ends, in one of the ways that leave its holder as it was.
Dropped(c) == NotFound(c) \/ GetFails(c) \/ Written(c) \/ WriteFails(c)

(* A handle that cannot be made leaves what a failing read leaves.           *)
LEMMA NothingConstructed == ASSUME NEW c, CannotConstruct(c) PROVE GetFails(c)
BY DEF CannotConstruct, GetFails

(* What a step does to the client and the server, whoever takes it.  Of     *)
(* what commands do, only the write differs from what any code can do.      *)
LEMMA StepCases ==
    ASSUME TypeOK, [Next]_vars
    PROVE  \/ \E h \in Holder : GetActor(h)
           \/ \E c \in Call, h \in Holder : GetHandle(c, h) \/ LoadSequence(c, h)
           \/ \E c \in Call, h \in Holder, t \in EventType : WriteBare(c, h, t) \/ WriteByHandle(c, h, t)
           \/ \E c \in Call : ServeRead(c) \/ ServeWrite(c)
           \/ \E w \in late : ServeLate(w)
           \/ \E c \in Call : Dropped(c) \/ Found(c) \/ Loaded(c) \/ LoadFails(c)
           \/ \E c \in Call, n \in 0..Len(log) : HandleTaken(c, n) \/ CompleteWrites(c, n)
           \/ UNCHANGED actorVars
<1>1. CASE Begin
  BY <1>1, TodoClientAssumption DEF Begin
<1>2. CASE \E c \in Call, h \in Holder : Complete(c, h)
  BY <1>2 DEF Complete
<1>3. CASE Serve
  BY <1>3 DEF Serve
<1>4. ASSUME NEW c \in Call, Continue(c)
      PROVE  \/ Dropped(c) \/ Found(c) \/ Loaded(c) \/ LoadFails(c)
             \/ \E n \in 0..Len(log) : HandleTaken(c, n) \/ CompleteWrites(c, n)
  BY <1>4, NothingConstructed
     DEF Continue, Plain, CompleteFinds, CompleteFindsNothing, CompleteDeclines, CompleteReturns,
         CompleteRejects, Dropped
<1>5. CASE UNCHANGED vars
  BY <1>5 DEF vars
<1> QED
  BY <1>1, <1>2, <1>3, <1>4, <1>5 DEF Next

-----------------------------------------------------------------------------
(* Types                                                                    *)

(* What a call under way is, by what it waits for.                          *)
LEMMA CallTypes ==
    ASSUME TypeOK, NEW c \in Call
    PROVE  /\ call[c] \in CallState
           /\ call[c].at \in {"get", "reload", "load"} =>
                 call[c] \in [at : {"get", "reload", "load"}, of : Holder, seen : Nat]
           /\ call[c].at = "write" => call[c] \in [at : {"write"}, write : Write]
           /\ call[c].at \in {"get", "reload", "load"} => call[c].of \in Holder /\ call[c].seen \in Nat
           /\ call[c].at = "write" => call[c].write \in Write
           /\ answer[c] \in Answer
           /\ answer[c].kind = "events" => answer[c].length \in Nat
<1>1. call[c] \in CallState /\ answer[c] \in Answer
  BY DEF TypeOK, ActorTypeOK
<1>2. /\ call[c].at \in {"get", "reload", "load"} =>
            call[c] \in [at : {"get", "reload", "load"}, of : Holder, seen : Nat]
      /\ call[c].at = "write" => call[c] \in [at : {"write"}, write : Write]
  BY <1>1 DEF CallState, Idle, Waiting
<1> QED
  BY <1>1, <1>2 DEF Answer

(* A write's fields.                                                        *)
LEMMA WriteTypes ==
    ASSUME NEW w \in Write
    PROVE  /\ w.type \in EventType /\ w.number \in Nat /\ w.by \in Holder /\ w.basis \in Basis
           /\ w.basis.seen \in Nat /\ w.basis.loaded \in Nat /\ w.basis.uses \in Nat
           /\ w.basis.handle \in BOOLEAN
BY DEF Write, Basis

(* A use of a handle is counted, and changes nothing else of its basis.     *)
LEMMA UsedTypes ==
    ASSUME NEW b \in Basis
    PROVE  /\ Used(b) \in Basis
           /\ Used(b).handle = b.handle /\ Used(b).seen = b.seen /\ Used(b).loaded = b.loaded
           /\ b.handle => Used(b).uses = b.uses + 1
BY DEF Basis, Used

(* A step keeps the types of the client and the server.                     *)
LEMMA ActorTypeStep == ASSUME TypeOK, [Next]_vars PROVE ActorTypeOK'
<1> USE DEF TypeOK, ActorTypeOK
<1>a. Idle \in CallState /\ NoAnswer \in Answer
  BY DEF CallState, Answer, NoAnswer
<1>b. \A h \in Holder, k \in {"get", "reload", "load"}, n \in Nat :
              [at |-> k, of |-> h, seen |-> n] \in CallState
  BY DEF CallState, Waiting
<1>c. \A w \in Write : [at |-> "write", write |-> w] \in CallState
  BY DEF CallState
<1>1. ASSUME NEW h \in Holder, GetActor(h) PROVE ActorTypeOK'
  BY <1>1 DEF GetActor, wireVars
<1>2. ASSUME NEW c \in Call, NEW h \in Holder, GetHandle(c, h) \/ LoadSequence(c, h) PROVE ActorTypeOK'
  <2>1. CASE GetHandle(c, h)
    <3>1. NoBasis \in Basis
      BY DEF NoBasis, Basis
    <3> QED
      BY <2>1, <3>1, <1>a, <1>b DEF GetHandle, Reads
  <2>2. CASE LoadSequence(c, h)
    BY <2>2, <1>a, <1>b DEF LoadSequence, Reads
  <2> QED
    BY <1>2, <2>1, <2>2
<1>3. ASSUME NEW c \in Call, NEW h \in Holder, NEW t \in EventType,
             WriteBare(c, h, t) \/ WriteByHandle(c, h, t)
      PROVE  ActorTypeOK'
  <2>1. WriteEvent(c, h, t)
    BY <1>3 DEF WriteBare, WriteByHandle
  <2>2. [type |-> t, number |-> sequence[h] + 1, by |-> h, basis |-> basis[h]] \in Write
    BY DEF Write
  <2>3. Used(basis[h]) \in Basis
    BY UsedTypes
  <2> QED
    BY <2>1, <2>2, <2>3, <1>a, <1>c DEF WriteEvent
<1>4. ASSUME NEW c \in Call, ServeRead(c) \/ ServeWrite(c) PROVE ActorTypeOK'
  <2>1. CASE ServeRead(c)
    <3>1. [kind |-> "events", length |-> Len(log)] \in Answer
      BY LenProperties DEF Answer
    <3> QED
      BY <2>1, <3>1 DEF ServeRead, clientVars
  <2>2. CASE ServeWrite(c)
    <3>1. call[c].write \in Write
      BY <2>2, CallTypes DEF ServeWrite
    <3>2. [kind |-> "stored"] \in Answer /\ [kind |-> "refused"] \in Answer
      BY DEF Answer
    <3>3. Append(log, call[c].write) \in Seq(Write)
      BY <3>1, AppendProperties
    <3> QED
      BY <2>2, <3>2, <3>3 DEF ServeWrite, clientVars
  <2> QED
    BY <1>4, <2>1, <2>2
<1>5. ASSUME NEW w \in late, ServeLate(w) PROVE ActorTypeOK'
  <2>1. Append(log, w) \in Seq(Write)
    BY AppendProperties
  <2> QED
    BY <1>5, <2>1 DEF ServeLate, clientVars
<1>6. ASSUME NEW c \in Call, Dropped(c) PROVE ActorTypeOK'
  <2>1. Returns(c) /\ UNCHANGED <<log, sequence, holds, basis>>
    BY <1>6 DEF Dropped, NotFound, GetFails, Written, WriteFails
  <2>2. late' \subseteq Write
    BY <1>6, CallTypes DEF Dropped, NotFound, GetFails, Written, WriteFails
  <2> QED
    BY <2>1, <2>2, <1>a DEF Returns
<1>7. ASSUME NEW c \in Call, Found(c) PROVE ActorTypeOK'
  <2>1. call[c].of \in Holder /\ answer[c].length \in Nat
    BY <1>7, CallTypes DEF Found
  <2> QED
    BY <1>7, <2>1, <1>a, <1>b DEF Found, Reads
<1>8. ASSUME NEW c \in Call, Loaded(c) \/ LoadFails(c) PROVE ActorTypeOK'
  <2>1. call[c].of \in Holder /\ sequence' \in [Holder -> Nat]
    <3>1. call[c].of \in Holder
      BY <1>8, CallTypes DEF Loaded, LoadFails
    <3>2. CASE Loaded(c)
      BY <3>1, <3>2, CallTypes DEF Loaded
    <3>3. CASE LoadFails(c)
      BY <3>1, <3>3 DEF LoadFails
    <3> QED
      BY <1>8, <3>1, <3>2, <3>3
  <2> QED
    BY <1>8, <2>1, <1>a DEF Loaded, LoadFails, Returns
<1>9. ASSUME NEW c \in Call, NEW n \in 0..Len(log), HandleTaken(c, n) \/ CompleteWrites(c, n) PROVE ActorTypeOK'
  <2>1. call[c].of \in Holder /\ call[c].seen \in Nat /\ n \in Nat
    BY <1>9, CallTypes, LenProperties DEF HandleTaken, CompleteWrites, TakeHandle
  <2>2. Read(call[c].seen, n) \in Basis
    BY <2>1 DEF Read, Basis
  <2>3. CASE HandleTaken(c, n)
    BY <2>1, <2>2, <2>3, <1>a DEF HandleTaken, TakeHandle, Returns
  <2>4. CASE CompleteWrites(c, n)
    <3>1. [type |-> "todo_item_completed", number |-> n + 1, by |-> call[c].of,
           basis |-> Read(call[c].seen, n)] \in Write
      BY <2>1, <2>2, TodoClientAssumption DEF Write
    <3>2. Used(Read(call[c].seen, n)) \in Basis
      BY <2>2, UsedTypes
    <3> QED
      BY <2>1, <2>4, <3>1, <3>2, <1>a, <1>c DEF CompleteWrites, TakeHandle
  <2> QED
    BY <1>9, <2>3, <2>4
<1>10. ASSUME UNCHANGED actorVars PROVE ActorTypeOK'
  BY <1>10 DEF actorVars, clientVars, wireVars
<1> QED
  BY <1>1, <1>2, <1>3, <1>4, <1>5, <1>6, <1>7, <1>8, <1>9, <1>10, StepCases

(* A step keeps all types: a command resolves by the number of a write, or  *)
(* by how many events it saw.                                               *)
LEMMA TypeStep == ASSUME TypeOK, [Next]_vars PROVE TypeOK'
<1> USE DEF TypeOK
<1>1. ASSUME UNCHANGED <<command, done>> PROVE TypeOK'
  BY <1>1, ActorTypeStep
<1>2. ASSUME NEW c \in Call, NEW h \in Holder, NEW n \in Nat, Ends(c, h, n) PROVE TypeOK'
  BY <1>2, ActorTypeStep DEF Ends
<1>3. ASSUME NEW c \in Call, NEW h \in Holder, Complete(c, h) PROVE TypeOK'
  BY <1>3, ActorTypeStep DEF Complete
<1>4. ASSUME NEW c \in Call, Continue(c)
      PROVE  UNCHANGED <<command, done>> \/ \E h \in Holder, n \in Nat : Ends(c, h, n)
  <2>1. CASE Plain(c) \/ CompleteFinds(c) \/ \E n \in 0..Len(log) : CompleteWrites(c, n)
    BY <2>1 DEF Plain, CompleteFinds, CompleteWrites
  <2>2. CASE CompleteFindsNothing(c)
    BY <2>2, CallTypes DEF CompleteFindsNothing, NotFound, CannotConstruct, GetFails
  <2>3. ASSUME NEW n \in 0..Len(log), CompleteDeclines(c, n)
        PROVE  \E h \in Holder, m \in Nat : Ends(c, h, m)
    BY <2>3, CallTypes DEF CompleteDeclines, HandleTaken, TakeHandle
  <2>4. CASE CompleteReturns(c) \/ CompleteRejects(c)
    <3>1. call[c].at = "write" /\ HolderOf(c) \in Holder /\ call[c].write.number \in Nat
      BY <2>4, CallTypes, WriteTypes
         DEF CompleteReturns, CompleteRejects, Written, WriteFails, HolderOf
    <3> QED
      BY <2>4, <3>1 DEF CompleteReturns, CompleteRejects
  <2> QED
    BY <1>4, <2>1, <2>2, <2>3, <2>4 DEF Continue
<1>5. CASE Begin \/ Serve \/ UNCHANGED vars
  BY <1>1, <1>5 DEF Begin, Serve, vars
<1> QED
  BY <1>1, <1>2, <1>3, <1>4, <1>5 DEF Next

-----------------------------------------------------------------------------
(* The log grows at its end                                                 *)

(* A prefix of the log stays, and so does the state it leads to.            *)
LEMMA PrefixStays ==
    ASSUME TypeOK, NEW w \in Write, log' = Append(log, w), NEW n \in 0..Len(log)
    PROVE  StateAt(n)' = StateAt(n)
<1>1. log \in Seq(Write) /\ Len(log) \in Nat
  BY LenProperties DEF TypeOK, ActorTypeOK
<1>2. /\ log' \in Seq(Write) /\ Len(log') = Len(log) + 1
      /\ \A i \in 1..Len(log) : log'[i] = log[i]
  BY <1>1, AppendProperties
<1>3. \A i \in 1..n : log[i] \in Write /\ log'[i] \in Write
  BY <1>1, <1>2
<1>4. /\ SubSeq(log, 1, n) \in Seq(Write) /\ Len(SubSeq(log, 1, n)) = n
      /\ \A i \in 1..n : SubSeq(log, 1, n)[i] = log[i]
  BY <1>1, <1>3, SubSeqProperties
<1>5. /\ SubSeq(log', 1, n) \in Seq(Write) /\ Len(SubSeq(log', 1, n)) = n
      /\ \A i \in 1..n : SubSeq(log', 1, n)[i] = log'[i]
  BY <1>1, <1>3, SubSeqProperties
<1>6. SubSeq(log', 1, n) = SubSeq(log, 1, n)
  <2>1. \A i \in 1..n : SubSeq(log', 1, n)[i] = SubSeq(log, 1, n)[i]
    BY <1>1, <1>2, <1>4, <1>5
  <2> QED
    BY <1>4, <1>5, <2>1, SeqEqual
<1> QED
  BY <1>6 DEF StateAt

\* The log stays, or gets a write that was under way.
LogGrows ==
    \/ log' = log
    \/ \E w \in Write : WriteInv(w) /\ Accepts(w) /\ log' = Append(log, w)

(* So do all steps.                                                         *)
LEMMA LogStep == ASSUME Inv, [Next]_vars PROVE LogGrows
<1> USE DEF Inv, LogGrows
<1>1. ASSUME NEW c \in Call, ServeWrite(c) PROVE LogGrows
  BY <1>1, CallTypes DEF ServeWrite, CallInv
<1>2. ASSUME NEW w \in late, ServeLate(w) PROVE LogGrows
  BY <1>2 DEF ServeLate, LateInv, TypeOK, ActorTypeOK
<1>3. \/ log' = log
      \/ \E c \in Call : ServeWrite(c)
      \/ \E w \in late : ServeLate(w)
  BY StepCases DEF GetActor, GetHandle, LoadSequence, WriteBare, WriteByHandle, WriteEvent, ServeRead,
       Dropped, NotFound, GetFails, Written, WriteFails, Found, Loaded, LoadFails, HandleTaken,
       CompleteWrites, TakeHandle, actorVars
<1> QED
  BY <1>1, <1>2, <1>3

(* What the log's growth means to whoever has read it.                      *)
LEMMA Growth ==
    ASSUME Inv, [Next]_vars
    PROVE  /\ Len(log) \in Nat /\ Len(log') \in Nat /\ Len(log) <= Len(log')
           /\ \A n \in 0..Len(log) : StateAt(n)' = StateAt(n)
           /\ \A w \in Write : WriteInv(w) => WriteInv(w)'
<1>1. TypeOK /\ log \in Seq(Write) /\ Len(log) \in Nat
  BY LenProperties DEF Inv, TypeOK, ActorTypeOK
<1>2. /\ Len(log') \in Nat /\ Len(log) <= Len(log')
      /\ \A n \in 0..Len(log) : StateAt(n)' = StateAt(n)
  <2>1. CASE log' = log
    BY <1>1, <2>1 DEF StateAt
  <2>2. ASSUME NEW w \in Write, log' = Append(log, w)
        PROVE  /\ Len(log') \in Nat /\ Len(log) <= Len(log')
               /\ \A n \in 0..Len(log) : StateAt(n)' = StateAt(n)
    BY <1>1, <2>2, PrefixStays, AppendProperties
  <2> QED
    BY <2>1, <2>2, LogStep DEF LogGrows
<1>3. ASSUME NEW w \in Write, WriteInv(w) PROVE WriteInv(w)'
  <2>1. w.basis.seen \in Nat
    BY WriteTypes
  <2>2. SUFFICES ASSUME w.basis.handle PROVE WriteInv(w)'
    BY DEF WriteInv
  <2>3. w.basis.seen \in 0..Len(log) /\ WriteInv(w)
    BY <1>1, <1>3, <2>1, <2>2 DEF WriteInv
  <2>4. StateAt(w.basis.seen)' = StateAt(w.basis.seen)
    BY <1>2, <2>3
  <2> QED
    BY <1>1, <1>2, <2>1, <2>2, <2>3, <2>4 DEF WriteInv
<1> QED
  BY <1>1, <1>2, <1>3

(* A write is stored at its number, after what it has seen.                 *)
LEMMA LogInvStep == ASSUME Inv, [Next]_vars PROVE LogInv'
<1>1. log \in Seq(Write) /\ Len(log) \in Nat /\ \A i \in 1..Len(log) : log[i] \in Write
  BY LenProperties, ElementOfSeq DEF Inv, TypeOK, ActorTypeOK
<1>2. CASE log' = log
  BY <1>1, <1>2, Growth DEF Inv, LogInv
<1>3. ASSUME NEW w \in Write, WriteInv(w), Accepts(w), log' = Append(log, w) PROVE LogInv'
  <2>1. /\ Len(log') = Len(log) + 1
        /\ \A i \in 1..Len(log) : log'[i] = log[i]
        /\ log'[Len(log) + 1] = w
    BY <1>1, <1>3, AppendProperties
  <2>2. WriteInv(w)' /\ w.number = Len(log) + 1 /\ w.basis.seen \in Nat
        /\ (w.basis.handle => w.basis.seen < Len(log) + 1)
    BY <1>1, <1>3, Growth, WriteTypes DEF Accepts, WriteInv
  <2>3. SUFFICES ASSUME NEW i \in 1..(Len(log) + 1)
                 PROVE  /\ log'[i].number = i
                        /\ log'[i].basis.handle => log'[i].basis.seen < i
                        /\ WriteInv(log[i])'
    BY <2>1 DEF LogInv
  <2>4. CASE i = Len(log) + 1
    BY <2>1, <2>2, <2>4 DEF WriteInv
  <2>5. CASE i \in 1..Len(log)
    <3>1. log[i] \in Write /\ WriteInv(log[i]) /\ log'[i] = log[i]
      BY <1>1, <2>1, <2>5 DEF Inv, LogInv
    <3>2. \A v \in Write : WriteInv(v) => WriteInv(v)'
      BY Growth
    <3>3. WriteInv(log[i])'
      BY <3>1, <3>2 DEF WriteInv
    <3> QED
      BY <2>1, <2>5, <3>3 DEF Inv, LogInv
  <2> QED
    BY <1>1, <2>4, <2>5
<1> QED
  BY <1>2, <1>3, LogStep DEF LogGrows

-----------------------------------------------------------------------------
(* Holders and calls                                                        *)

(* Only a holder's own steps concern what it holds.                         *)
LEMMA HolderStep == ASSUME Inv, [Next]_vars PROVE HolderInv'
<1>0. TypeOK /\ HolderInv /\ CallInv /\ log' \in Seq(Write)
  BY TypeStep DEF Inv, TypeOK, ActorTypeOK
<1> USE DEF TypeOK, ActorTypeOK
<1>a. \A h \in Holder : basis[h].seen \in Nat /\ basis[h].uses \in Nat /\ basis[h].handle \in BOOLEAN
  BY <1>0 DEF Basis
<1> DEFINE Good(h) == /\ holds[h] = "actor" => h \in Bare
                      /\ holds[h] = "handle" => basis[h].handle
                      /\ basis[h].handle =>
                            /\ h \notin Bare
                            /\ basis[h].seen <= Len(log)
                            /\ basis[h].uses = 0 => sequence[h] = basis[h].loaded
<1>b. ASSUME NEW h \in Holder, holds'[h] = holds[h], basis'[h] = basis[h], sequence'[h] = sequence[h]
         PROVE  Good(h)'
  BY <1>0, <1>a, <1>b, Growth DEF HolderInv
<1>c. ASSUME NEW h \in Bare, holds'[h] \in {"nothing", "actor"}, basis'[h] = basis[h] PROVE Good(h)'
  BY <1>0, <1>c, ActorClientAssumption DEF HolderInv
<1>1. ASSUME NEW h \in Holder, GetActor(h) PROVE HolderInv'
  <2>1. Good(h)'
    BY <1>0, <1>1, <1>c DEF GetActor
  <2>2. \A g \in Holder \ {h} : Good(g)'
    BY <1>0, <1>1, <1>b DEF GetActor
  <2> QED
    BY <2>1, <2>2 DEF HolderInv
<1>2. ASSUME NEW c \in Call, NEW h \in Holder, GetHandle(c, h) PROVE HolderInv'
  <2>1. Good(h)'
    BY <1>0, <1>2 DEF GetHandle, NoBasis
  <2>2. \A g \in Holder \ {h} : Good(g)'
    BY <1>0, <1>2, <1>b DEF GetHandle
  <2> QED
    BY <2>1, <2>2 DEF HolderInv
<1>3. ASSUME NEW c \in Call, NEW h \in Holder, NEW t \in EventType,
             WriteBare(c, h, t) \/ WriteByHandle(c, h, t)
      PROVE  HolderInv'
  <2>1. WriteEvent(c, h, t)
    BY <1>3 DEF WriteBare, WriteByHandle
  <2>2. /\ holds' = holds /\ log' = log /\ basis'[h] = Used(basis[h])
        /\ \A g \in Holder \ {h} : basis'[g] = basis[g] /\ sequence'[g] = sequence[g]
    BY <1>0, <2>1 DEF WriteEvent
  <2>3. basis[h] \in Basis
    BY <1>0
  <2>4. /\ Used(basis[h]).handle = basis[h].handle /\ Used(basis[h]).seen = basis[h].seen
        /\ basis[h].handle => Used(basis[h]).uses # 0
    BY <1>a, <2>3, UsedTypes
  <2>5. Good(h)'
    BY <1>0, <2>2, <2>4 DEF HolderInv
  <2>6. \A g \in Holder \ {h} : Good(g)'
    BY <2>2, <1>b
  <2> QED
    BY <2>5, <2>6 DEF HolderInv
<1>4. ASSUME NEW c \in Call, Loaded(c) \/ LoadFails(c) PROVE HolderInv'
  <2>1. /\ call[c].of \in Bare /\ UNCHANGED <<holds, basis>>
        /\ \A g \in Holder \ {call[c].of} : sequence'[g] = sequence[g]
    BY <1>0, <1>4 DEF Loaded, LoadFails, CallInv
  <2>2. ASSUME NEW g \in Bare PROVE Good(g)'
    BY <1>0, <2>1, ActorClientAssumption DEF HolderInv
  <2>3. \A g \in Holder \ {call[c].of} : Good(g)'
    BY <2>1, <1>b
  <2> QED
    BY <2>1, <2>2, <2>3 DEF HolderInv
<1>5. ASSUME NEW c \in Call, NEW n \in 0..Len(log), HandleTaken(c, n) \/ CompleteWrites(c, n)
      PROVE  HolderInv'
  <2>0. PICK h \in Holder : h = call[c].of
    BY <1>0, <1>5, CallTypes DEF HandleTaken, CompleteWrites, TakeHandle
  <2> DEFINE b == Read(call[c].seen, n)
  <2>1. h \notin Bare /\ call[c].seen \in Nat /\ call[c].seen <= Len(log) /\ n \in Nat
    BY <1>0, <1>5, <2>0, CallTypes, LenProperties DEF HandleTaken, CompleteWrites, TakeHandle, CallInv
  <2>2. /\ b \in Basis /\ b.handle /\ b.seen = call[c].seen /\ b.loaded = n /\ b.uses = 0
    BY <2>1 DEF Read, Basis
  <2>3. /\ holds' = [holds EXCEPT ![h] = "handle"] /\ log' = log
        /\ \/ basis' = [basis EXCEPT ![h] = b] /\ sequence' = [sequence EXCEPT ![h] = n]
           \/ basis' = [basis EXCEPT ![h] = Used(b)] /\ sequence' = [sequence EXCEPT ![h] = n + 1]
    BY <1>5, <2>0 DEF HandleTaken, CompleteWrites, TakeHandle
  <2> HIDE DEF b
  <2>4. Used(b).handle /\ Used(b).seen = b.seen /\ Used(b).uses # 0
    BY <2>2, UsedTypes
  <2>5. Good(h)'
    BY <1>0, <2>1, <2>2, <2>3, <2>4
  <2>6. \A g \in Holder \ {h} : Good(g)'
    BY <1>0, <2>1, <2>3, <1>b
  <2> QED
    BY <2>5, <2>6 DEF HolderInv
<1>6. ASSUME UNCHANGED <<holds, basis, sequence>> PROVE HolderInv'
  BY <1>6, <1>b DEF HolderInv
<1>7. \/ \E h \in Holder : GetActor(h)
      \/ \E c \in Call, h \in Holder : GetHandle(c, h)
      \/ \E c \in Call, h \in Holder, t \in EventType : WriteBare(c, h, t) \/ WriteByHandle(c, h, t)
      \/ \E c \in Call : Loaded(c) \/ LoadFails(c)
      \/ \E c \in Call, n \in 0..Len(log) : HandleTaken(c, n) \/ CompleteWrites(c, n)
      \/ UNCHANGED <<holds, basis, sequence>>
  BY <1>0, StepCases DEF LoadSequence, ServeRead, ServeWrite, ServeLate, Dropped, NotFound, GetFails, Written,
       WriteFails, Found, actorVars, clientVars
<1> QED
  BY <1>1, <1>2, <1>3, <1>4, <1>5, <1>6, <1>7

(* A call goes by what its holder had, or by what the server answered.      *)
LEMMA CallStep == ASSUME Inv, [Next]_vars PROVE CallInv'
<1>0. TypeOK /\ TypeOK' /\ HolderInv /\ CallInv
  BY TypeStep DEF Inv
<1> USE DEF TypeOK, ActorTypeOK
<1> DEFINE Good(c) ==
              /\ call[c].at = "load" => call[c].of \in Bare
              /\ call[c].at \in {"get", "reload"} => call[c].of \notin Bare /\ call[c].seen <= Len(log)
              /\ call[c].at = "write" => WriteInv(call[c].write)
              /\ answer[c].kind = "events" => answer[c].length <= Len(log)
<1>a. Len(log) \in Nat /\ Len(log') \in Nat /\ Len(log) <= Len(log')
  BY Growth
<1>b. ASSUME NEW c \in Call, call'[c] = call[c], answer'[c] = answer[c] PROVE Good(c)'
  <2>1. Good(c)
    BY <1>0 DEF CallInv
  <2>2. call[c].at = "write" => WriteInv(call[c].write)'
    <3>1. SUFFICES ASSUME call[c].at = "write" PROVE WriteInv(call[c].write)'
      OBVIOUS
    <3>2. PICK w \in Write : w = call[c].write
      BY <1>0, <3>1, CallTypes
    <3>3. WriteInv(w)'
      BY <2>1, <3>1, <3>2, Growth
    <3> QED
      BY <1>b, <3>2, <3>3 DEF WriteInv
  <2>3. call[c].at \in {"get", "reload"} => call[c].seen \in Nat
    BY <1>0, CallTypes
  <2>4. answer[c].kind = "events" => answer[c].length \in Nat
    BY <1>0, CallTypes
  <2> QED
    BY <1>b, <1>a, <2>1, <2>2, <2>3, <2>4
<1>c. ASSUME NEW c \in Call, Good(c)', UNCHANGED [d \in Call \ {c} |-> <<call[d], answer[d]>>]
         PROVE  CallInv'
  <2>1. ASSUME NEW d \in Call \ {c} PROVE Good(d)'
    <3>1. <<call'[d], answer'[d]>> = <<call[d], answer[d]>>
      BY <1>c
    <3> QED
      BY <3>1, <1>b
  <2> QED
    BY <1>c, <2>1 DEF CallInv
<1>1. ASSUME NEW c \in Call, NEW h \in Holder, GetHandle(c, h) \/ LoadSequence(c, h) PROVE CallInv'
  <2>1. call' = [call EXCEPT ![c] = call'[c]] /\ answer' = [answer EXCEPT ![c] = NoAnswer] /\ log' = log
    BY <1>0, <1>1 DEF GetHandle, LoadSequence, Reads
  <2>2. Good(c)'
    BY <1>0, <1>1, <1>a, <2>1 DEF GetHandle, LoadSequence, Reads, NoAnswer, HolderInv
  <2> QED
    BY <1>0, <1>c, <2>1, <2>2
<1>2. ASSUME NEW c \in Call, NEW h \in Holder, NEW t \in EventType,
             WriteBare(c, h, t) \/ WriteByHandle(c, h, t)
      PROVE  CallInv'
  <2> DEFINE w == [type |-> t, number |-> sequence[h] + 1, by |-> h, basis |-> basis[h]]
  <2>1. /\ call' = [call EXCEPT ![c] = [at |-> "write", write |-> w]]
        /\ answer' = [answer EXCEPT ![c] = NoAnswer] /\ log' = log
    BY <1>2 DEF WriteBare, WriteByHandle, WriteEvent
  <2>2. WriteInv(w)
    BY <1>0, <1>2, ActorClientAssumption DEF WriteBare, WriteByHandle, WriteInv, HolderInv
  <2>3. Good(c)'
    <3>1. call'[c].at = "write" /\ call'[c].write = w /\ answer'[c].kind # "events"
      BY <1>0, <2>1 DEF NoAnswer
    <3>2. WriteInv(call[c].write)'
      BY <2>1, <2>2, <3>1 DEF WriteInv, StateAt
    <3> QED
      BY <3>1, <3>2
  <2> QED
    BY <1>0, <1>c, <2>1, <2>3
<1>3. ASSUME NEW c \in Call, ServeRead(c) \/ ServeWrite(c) PROVE CallInv'
  <2>1. call' = call /\ answer' = [answer EXCEPT ![c] = answer'[c]]
        /\ (answer'[c].kind = "events" => answer'[c].length = Len(log'))
    BY <1>0, <1>3 DEF ServeRead, ServeWrite, clientVars
  <2>2. Good(c)'
    <3>1. Good(c) /\ call'[c] = call[c]
      BY <1>0, <2>1 DEF CallInv
    <3>2. call[c].at = "write" => WriteInv(call[c].write)'
      <4>1. SUFFICES ASSUME call[c].at = "write" PROVE WriteInv(call[c].write)'
        OBVIOUS
      <4>2. PICK w \in Write : w = call[c].write
        BY <1>0, <4>1, CallTypes
      <4>3. WriteInv(w)'
        BY <3>1, <4>1, <4>2, Growth
      <4> QED
        BY <3>1, <4>2, <4>3 DEF WriteInv
    <3>3. call[c].at \in {"get", "reload"} => call[c].seen \in Nat
      BY <1>0, CallTypes
    <3> QED
      BY <1>a, <2>1, <3>1, <3>2, <3>3
  <2> QED
    BY <1>0, <1>c, <2>1, <2>2
<1>4. ASSUME NEW c \in Call, Returns(c) PROVE CallInv'
  <2>1. call' = [call EXCEPT ![c] = Idle] /\ answer' = [answer EXCEPT ![c] = NoAnswer]
    BY <1>4 DEF Returns
  <2>2. Good(c)'
    BY <1>0, <2>1 DEF Idle, NoAnswer
  <2> QED
    BY <1>0, <1>c, <2>1, <2>2
<1>5. ASSUME NEW c \in Call, Found(c) PROVE CallInv'
  <2>1. /\ call' = [call EXCEPT ![c] = [at |-> "reload", of |-> call[c].of, seen |-> answer[c].length]]
        /\ answer' = [answer EXCEPT ![c] = NoAnswer] /\ log' = log
    BY <1>5 DEF Found, Reads
  <2>2. call[c].of \notin Bare /\ answer[c].length <= Len(log)
    BY <1>0, <1>5 DEF Found, CallInv
  <2>3. Good(c)'
    BY <1>0, <2>1, <2>2 DEF NoAnswer
  <2> QED
    BY <1>0, <1>c, <2>1, <2>3
<1>6. ASSUME NEW c \in Call, NEW n \in 0..Len(log), CompleteWrites(c, n) PROVE CallInv'
  <2> DEFINE b == Read(call[c].seen, n)
             w == [type |-> "todo_item_completed", number |-> n + 1, by |-> call[c].of, basis |-> b]
  <2>1. /\ call' = [call EXCEPT ![c] = [at |-> "write", write |-> w]]
        /\ answer' = [answer EXCEPT ![c] = NoAnswer] /\ log' = log
    BY <1>6 DEF CompleteWrites, TakeHandle
  <2>2. WriteInv(w)
    BY <1>0, <1>6 DEF CompleteWrites, TakeHandle, CallInv, WriteInv, Read
  <2>3. Good(c)'
    <3>1. call'[c].at = "write" /\ call'[c].write = w /\ answer'[c].kind # "events"
      BY <1>0, <2>1 DEF NoAnswer
    <3>2. WriteInv(call[c].write)'
      BY <2>1, <2>2, <3>1 DEF WriteInv, StateAt
    <3> QED
      BY <3>1, <3>2
  <2> QED
    BY <1>0, <1>c, <2>1, <2>3
<1>7. ASSUME UNCHANGED <<call, answer>> PROVE CallInv'
  BY <1>7, <1>b DEF CallInv
<1>8. \/ \E c \in Call, h \in Holder : GetHandle(c, h) \/ LoadSequence(c, h)
      \/ \E c \in Call, h \in Holder, t \in EventType : WriteBare(c, h, t) \/ WriteByHandle(c, h, t)
      \/ \E c \in Call : ServeRead(c) \/ ServeWrite(c) \/ Returns(c) \/ Found(c)
      \/ \E c \in Call, n \in 0..Len(log) : CompleteWrites(c, n)
      \/ UNCHANGED <<call, answer>>
  BY <1>0, StepCases DEF GetActor, wireVars, ServeLate, clientVars, Dropped, NotFound, GetFails, Written,
       WriteFails, Loaded, LoadFails, HandleTaken, actorVars
<1> QED
  BY <1>1, <1>2, <1>3, <1>4, <1>5, <1>6, <1>7, <1>8

(* What is given up was a call's write.                                     *)
LEMMA LateStep == ASSUME Inv, [Next]_vars PROVE LateInv'
<1>0. TypeOK /\ CallInv /\ LateInv
  BY DEF Inv
<1>1. late' \subseteq late \cup {call[c].write : c \in {d \in Call : call[d].at = "write"}}
  BY <1>0, StepCases DEF GetActor, GetHandle, LoadSequence, WriteBare, WriteByHandle, WriteEvent, ServeRead,
       ServeWrite, ServeLate, Dropped, NotFound, GetFails, Written, WriteFails, Found, Loaded, LoadFails,
       HandleTaken, CompleteWrites, TakeHandle, actorVars, wireVars
<1>2. \A w \in late' : w \in Write /\ WriteInv(w)
  BY <1>0, <1>1, CallTypes DEF CallInv, LateInv, TypeOK, ActorTypeOK
<1> QED
  BY <1>2, Growth DEF LateInv

-----------------------------------------------------------------------------
(* Commands                                                                 *)

(* A command's write takes the next number of a log that it has read; the   *)
(* server answers when that number is taken, by the write or before it.     *)
LEMMA CommandStep == ASSUME Inv, [Next]_vars PROVE CommandInv'
<1>0. TypeOK /\ CommandInv
  BY DEF Inv
<1> USE DEF TypeOK, ActorTypeOK
<1> DEFINE Good(c) ==
              /\ call[c].at \in {"get", "reload", "write"}
              /\ call[c].at = "write" =>
                    /\ call[c].write.number \in 1..(Len(log) + 1)
                    /\ answer[c] # NoAnswer => call[c].write.number <= Len(log)
<1>a. Len(log) \in Nat /\ Len(log') \in Nat /\ Len(log) <= Len(log')
  BY Growth
<1>b. ASSUME NEW c \in command, call'[c] = call[c], answer'[c] = answer[c] PROVE Good(c)'
  BY <1>0, <1>a, <1>b DEF CommandInv
<1>c. \A c \in command : c \in Call /\ ~Free(c)
  <2>1. Idle.at = "idle"
    BY DEF Idle
  <2>2. \A c \in command : call[c].at # "idle"
    BY <1>0 DEF CommandInv
  <2> QED
    BY <1>0, <2>1, <2>2 DEF Free
<1>d. ASSUME NEW c \in Call, command' \subseteq command \ {c},
             UNCHANGED [d \in Call \ {c} |-> <<call[d], answer[d]>>]
      PROVE  CommandInv'
  <2>1. ASSUME NEW d \in Call \ {c} PROVE call'[d] = call[d] /\ answer'[d] = answer[d]
    <3>1. <<call'[d], answer'[d]>> = <<call[d], answer[d]>>
      BY <1>d
    <3> QED
      BY <3>1
  <2> QED
    BY <1>c, <1>d, <2>1, <1>b DEF CommandInv
<1>e. ASSUME NEW c \in Call, command' \subseteq command \cup {c}, Good(c)',
             UNCHANGED [d \in Call \ {c} |-> <<call[d], answer[d]>>]
      PROVE  CommandInv'
  <2>1. ASSUME NEW d \in Call \ {c} PROVE call'[d] = call[d] /\ answer'[d] = answer[d]
    <3>1. <<call'[d], answer'[d]>> = <<call[d], answer[d]>>
      BY <1>e
    <3> QED
      BY <3>1
  <2> QED
    BY <1>c, <1>e, <2>1, <1>b DEF CommandInv
<1>f. \A c \in Call : call' = [call EXCEPT ![c] = call'[c]] /\ answer' = [answer EXCEPT ![c] = answer'[c]]
                      => UNCHANGED [d \in Call \ {c} |-> <<call[d], answer[d]>>]
  BY <1>0
<1>1. CASE Begin
  <2>1. CASE \E h \in Holder : GetActor(h)
    BY <1>1, <1>c, <2>1, <1>b DEF Begin, GetActor, wireVars, CommandInv
  <2>2. ASSUME NEW c \in Call, NEW h \in Holder, command' = command,
               GetHandle(c, h) \/ LoadSequence(c, h)
                  \/ \E t \in EventType : WriteBare(c, h, t) \/ WriteByHandle(c, h, t)
        PROVE  CommandInv'
    <3>1. /\ call' = [call EXCEPT ![c] = call'[c]] /\ answer' = [answer EXCEPT ![c] = answer'[c]]
          /\ Free(c)
      BY <1>0, <2>2 DEF GetHandle, LoadSequence, Reads, WriteBare, WriteByHandle, WriteEvent
    <3> QED
      BY <1>c, <1>d, <1>f, <2>2, <3>1
  <2> QED
    BY <1>1, <2>1, <2>2, TodoClientAssumption DEF Begin
<1>2. ASSUME NEW c \in Call, NEW h \in Holder, Complete(c, h) PROVE CommandInv'
  <2>1. /\ call' = [call EXCEPT ![c] = [at |-> "get", of |-> h, seen |-> 0]]
        /\ answer' = [answer EXCEPT ![c] = NoAnswer] /\ command' = command \cup {c}
    BY <1>2 DEF Complete, GetHandle, Reads
  <2>2. Good(c)'
    BY <1>0, <2>1
  <2> QED
    BY <1>0, <1>e, <1>f, <2>1, <2>2
<1>3. CASE Serve
  <2>1. ASSUME NEW c \in Call, ServeRead(c) \/ ServeWrite(c), command' = command PROVE CommandInv'
    <3>1. call' = call /\ answer' = [answer EXCEPT ![c] = answer'[c]]
      BY <1>0, <2>1 DEF ServeRead, ServeWrite, clientVars
    <3>2. CASE c \notin command
      BY <1>0, <1>d, <1>f, <2>1, <3>1, <3>2
    <3>3. CASE c \in command /\ ServeRead(c)
      <4>1. Good(c)'
        BY <1>0, <3>1, <3>3 DEF ServeRead, Waiting, CommandInv
      <4> QED
        BY <1>0, <1>e, <1>f, <2>1, <3>1, <4>1
    <3>4. CASE c \in command /\ ServeWrite(c)
      <4>1. Good(c)'
        <5>1. call[c].at = "write" /\ call[c].write \in Write /\ call[c].write.number \in 1..(Len(log) + 1)
          BY <1>0, <3>4, CallTypes DEF ServeWrite, CommandInv
        <5>2. CASE Accepts(call[c].write)
          <6>1. log' = Append(log, call[c].write)
            BY <3>4, <5>2 DEF ServeWrite
          <6>2. Len(log') = Len(log) + 1
            BY <1>0, <5>1, <6>1, AppendProperties
          <6> QED
            BY <1>a, <3>1, <5>1, <6>2
        <5>3. CASE ~Accepts(call[c].write)
          <6>1. log' = log
            BY <3>4, <5>3 DEF ServeWrite
          <6> QED
            BY <1>a, <3>1, <5>1, <5>3, <6>1 DEF Accepts
        <5> QED
          BY <5>2, <5>3
      <4> QED
        BY <1>0, <1>e, <1>f, <2>1, <3>1, <4>1
    <3> QED
      BY <2>1, <3>2, <3>3, <3>4
  <2>2. ASSUME NEW w \in late, ServeLate(w), command' = command PROVE CommandInv'
    BY <1>c, <2>2, <1>b DEF ServeLate, clientVars, CommandInv
  <2> QED
    BY <1>3, <2>1, <2>2 DEF Serve
<1>4. ASSUME NEW c \in Call, Continue(c) PROVE CommandInv'
  <2>1. call' = [call EXCEPT ![c] = call'[c]] /\ answer' = [answer EXCEPT ![c] = answer'[c]]
    BY <1>0, <1>4
       DEF Continue, Plain, CompleteFinds, CompleteFindsNothing, CompleteDeclines, CompleteReturns,
           CompleteRejects, CompleteWrites, NotFound, Found, CannotConstruct, GetFails, HandleTaken, Loaded, LoadFails,
           Written, WriteFails, Returns, Reads
  <2>2. CASE Plain(c)
    BY <1>0, <1>d, <1>f, <2>1, <2>2 DEF Plain
  <2>3. CASE CompleteFinds(c)
    <3>1. call' = [call EXCEPT ![c] = [at |-> "reload", of |-> call[c].of, seen |-> answer[c].length]]
          /\ command' = command
      BY <2>3 DEF CompleteFinds, Found, Reads
    <3>2. Good(c)'
      BY <1>0, <3>1
    <3> QED
      BY <1>0, <1>e, <1>f, <2>1, <3>1, <3>2
  <2>4. ASSUME NEW n \in 0..Len(log), CompleteWrites(c, n) PROVE CommandInv'
    <3>1. /\ call'[c].at = "write" /\ call'[c].write.number = n + 1 /\ answer'[c] = NoAnswer
          /\ command' = command /\ log' = log
      BY <1>0, <2>4 DEF CompleteWrites, TakeHandle
    <3>2. Good(c)'
      BY <1>a, <3>1
    <3> QED
      BY <1>0, <1>e, <1>f, <2>1, <3>1, <3>2
  <2>5. ASSUME NEW h \in Holder, NEW n \in Nat, Ends(c, h, n) PROVE CommandInv'
    BY <1>0, <1>d, <1>f, <2>1, <2>5 DEF Ends
  <2>6. CASE \/ CompleteFindsNothing(c) \/ CompleteReturns(c) \/ CompleteRejects(c)
             \/ \E n \in 0..Len(log) : CompleteDeclines(c, n)
    <3>1. command' = command \ {c}
      BY <2>6 DEF CompleteFindsNothing, CompleteReturns, CompleteRejects, CompleteDeclines, Ends
    <3> QED
      BY <1>0, <1>d, <1>f, <2>1, <3>1
  <2> QED
    BY <1>4, <2>2, <2>3, <2>4, <2>6 DEF Continue
<1>5. CASE UNCHANGED vars
  BY <1>5, <1>c, <1>b DEF vars, actorVars, clientVars, wireVars, CommandInv
<1> QED
  BY <1>1, <1>2, <1>3, <1>4, <1>5 DEF Next

(* What a command resolves by is a number of the log it has read or that    *)
(* has answered it.                                                         *)
LEMMA DoneStep == ASSUME Inv, [Next]_vars PROVE DoneIsDecided'
<1>0. TypeOK /\ CommandInv /\ CallInv /\ DoneIsDecided /\ log \in Seq(Write) /\ log' \in Seq(Write)
  BY TypeStep DEF Inv, TypeOK, ActorTypeOK
<1>a. /\ Len(log) \in Nat /\ Len(log') \in Nat /\ Len(log) <= Len(log')
      /\ DOMAIN log = 1..Len(log) /\ DOMAIN log' = 1..Len(log')
  BY <1>0, Growth, LenProperties
<1>1. CASE done' = done
  BY <1>0, <1>a, <1>1 DEF DoneIsDecided
<1>2. ASSUME NEW c, NEW h \in Holder, NEW n \in 0..Len(log), Ends(c, h, n) PROVE DoneIsDecided'
  BY <1>0, <1>a, <1>2 DEF Ends, DoneIsDecided, TypeOK
<1>3. ASSUME NEW c \in Call, NEW h \in Holder, Complete(c, h) PROVE DoneIsDecided'
  BY <1>0, <1>a, <1>3 DEF Complete, DoneIsDecided, TypeOK
<1>4. ASSUME NEW c \in Call, Continue(c)
      PROVE  done' = done \/ \E h \in Holder, n \in 0..Len(log) : Ends(c, h, n)
  <2>1. CASE Plain(c) \/ CompleteFinds(c) \/ \E n \in 0..Len(log) : CompleteWrites(c, n)
    BY <2>1 DEF Plain, CompleteFinds, CompleteWrites
  <2>2. CASE CompleteFindsNothing(c)
    BY <1>0, <1>a, <2>2, CallTypes DEF CompleteFindsNothing, NotFound, CannotConstruct, GetFails
  <2>3. ASSUME NEW n \in 0..Len(log), CompleteDeclines(c, n)
        PROVE  \E h \in Holder, m \in 0..Len(log) : Ends(c, h, m)
    <3>1. call[c].of \in Holder /\ call[c].seen \in 0..Len(log)
      BY <1>0, <1>a, <2>3, CallTypes DEF CompleteDeclines, HandleTaken, TakeHandle, CallInv
    <3> QED
      BY <1>a, <2>3, <3>1 DEF CompleteDeclines
  <2>4. CASE CompleteReturns(c) \/ CompleteRejects(c)
    <3>1. HolderOf(c) \in Holder
      BY <1>0, <2>4, CallTypes, WriteTypes
         DEF CompleteReturns, CompleteRejects, Written, WriteFails, HolderOf
    <3>2. CompleteReturns(c) => call[c].write.number \in 0..Len(log)
      BY <1>0, <1>a DEF CompleteReturns, Written, CommandInv
    <3> QED
      BY <1>a, <2>4, <3>1, <3>2 DEF CompleteReturns, CompleteRejects
  <2> QED
    BY <1>4, <2>1, <2>2, <2>3, <2>4 DEF Continue
<1>5. CASE Begin \/ Serve \/ UNCHANGED vars
  BY <1>1, <1>5 DEF Begin, Serve, vars
<1> QED
  BY <1>1, <1>2, <1>3, <1>4, <1>5 DEF Next

-----------------------------------------------------------------------------

(* The invariant holds in every reachable state.                            *)
LEMMA SpecInv == Spec => []Inv
<1>1. Inv /\ [Next]_vars => Inv'
  BY TypeStep, LogInvStep, HolderStep, CallStep, LateStep, CommandStep, DoneStep DEF Inv
<1> QED
  BY InitInv, <1>1, PTL DEF Spec

(* The variables of the client and the server keep their types.             *)
THEOREM TypeCorrect == Spec => []TypeOK
<1>1. Inv => TypeOK
  BY DEF Inv
<1> QED
  BY SpecInv, <1>1, PTL

(* A handle's first write is stored where its state offers it, unless       *)
(* events came between the two reads of getHandle: for any reducer, however *)
(* many holders write, and whichever writes are lost, late or refused.      *)
THEOREM StaleThroughGaps == Spec => []StaleOnlyThroughGaps
<1>1. Inv => StaleOnlyThroughGaps
  <2> SUFFICES ASSUME Inv, NEW i \in DOMAIN log, log[i].basis.handle,
                      log[i].type \notin Offers(StateAt(i - 1)),
                      ~(log[i].basis.loaded > log[i].basis.seen), ~(log[i].basis.uses > 0)
               PROVE  FALSE
    BY DEF StaleOnlyThroughGaps
  <2>1. i \in 1..Len(log) /\ Len(log) \in Nat /\ log[i] \in Write
    BY LenProperties, ElementOfSeq DEF Inv, TypeOK, ActorTypeOK
  <2>2. log[i].basis.seen \in Nat /\ log[i].basis.loaded \in Nat /\ log[i].basis.uses \in Nat
    BY <2>1, WriteTypes
  <2>3. /\ log[i].number = i /\ log[i].basis.seen < i
        /\ log[i].type \in Offers(StateAt(log[i].basis.seen))
        /\ log[i].number = log[i].basis.loaded + 1
    BY <2>1, <2>2 DEF Inv, LogInv, WriteInv
  <2>4. PICK seen, loaded \in Nat : seen = log[i].basis.seen /\ loaded = log[i].basis.loaded
    BY <2>2
  <2>5. seen < i /\ ~(loaded > seen) /\ i = loaded + 1
    BY <2>3, <2>4
  <2>6. seen = i - 1
    BY <2>1, <2>5
  <2> QED
    BY <2>3, <2>4, <2>6
<1> QED
  BY SpecInv, <1>1, PTL

(* A command that resolves has an event to show for it, although it does    *)
(* not look at the result of its write.                                     *)
THEOREM DoneDecided == Spec => []DoneIsDecided
<1>1. Inv => DoneIsDecided
  BY DEF Inv
<1> QED
  BY SpecInv, <1>1, PTL

-----------------------------------------------------------------------------
(* The pages: the invariant                                                 *)
(*                                                                          *)
(* An item is followed from the click that creates it, through the one call *)
(* and the one action of that click, to its log; what the pages have read   *)
(* of it is there, and what they have completed they are about to read.     *)

\* An item's projection after events of these types.
Projected(s) == FoldLeft(Project, "absent", s)

ItemChange == {"createTodoItem", "completeTodoItem", "deleteTodoItem"}

\* A change names what it changes.
CallsInv ==
    \A p \in Page : \A k \in 1..Len(queue[p]) :
        /\ queue[p][k].name = "createTodoList" => queue[p][k].id \in List
        /\ queue[p][k].name \in ItemChange => queue[p][k].id \in Item

\* A page's action is its first call, at one of its stages.
ActionInv ==
    \A p \in Page : action[p] # NoAction =>
        /\ queue[p] # <<>>
        /\ action[p].name = queue[p][1].name
        /\ action[p].id = queue[p][1].id
        /\ action[p].name \in Question => action[p].at \in {"query", "success", "failure"}
        /\ action[p].name \in Change =>
              action[p].at \in {"state", "write", "process", "success", "failure"}

\* A page has stored an event of item i and not processed it yet.
Owes(p, i) == At(p, "process") /\ action[p].id = i

\* The types of an item's events, in the order in which they were processed.
ProcessedTypes(i) == [k \in 1..Len(processed[i]) |-> events[i][processed[i][k]]]

\* An item is what the events that were processed have made of it.
HistoryInv ==
    \A i \in Item :
        /\ events[i] \in Seq(TodoEvent)
        /\ \A k \in 1..Len(processed[i]) : processed[i][k] \in 1..Len(events[i])
        /\ items[i] = Projected(ProcessedTypes(i))

\* What a page is going to process is stored.
OwedInv ==
    \A p \in Page : \A i \in Item : Owes(p, i) =>
        /\ action[p].name \in ItemChange
        /\ action[p].number \in 1..Len(events[i])
        /\ events[i][action[p].number] = EventOf(action[p].name)

\* An event is processed at most once, and by one page.
OnceInv ==
    \A i \in Item :
        /\ \A j, k \in 1..Len(processed[i]) : processed[i][j] = processed[i][k] => j = k
        /\ \A p \in Page : Owes(p, i) =>
              /\ \A k \in 1..Len(processed[i]) : processed[i][k] # action[p].number
              /\ \A q \in Page : Owes(q, i) /\ action[q].number = action[p].number => q = p

\* Unless something has thrown, an event is processed or owed.
NoneLost ==
    faults = 0 => \A i \in Item : \A n \in 1..Len(events[i]) :
        \/ \E k \in 1..Len(processed[i]) : processed[i][k] = n
        \/ \E p \in Page : Owes(p, i) /\ action[p].number = n

-----------------------------------------------------------------------------

Done(status) == status \notin {"absent", "pending"}

Creates(p, k, i) == queue[p][k].name = "createTodoItem" /\ queue[p][k].id = i

\* An item is created by one call, which is over once the item is there.
CreationInv ==
    \A i \in Item :
        /\ \A p, q \in Page : \A k \in 1..Len(queue[p]), m \in 1..Len(queue[q]) :
              Creates(p, k, i) /\ Creates(q, m, i) => p = q /\ k = m
        /\ items[i] # "absent" =>
              /\ Len(events[i]) > 0
              /\ \A p \in Page : \A k \in 1..Len(queue[p]) :
                    Creates(p, k, i) => k = 1 /\ At(p, "success")

\* What a page shows or changes is there.
ThereInv ==
    \A p \in Page :
        /\ \A i \in Item : items[i] = "absent" =>
              /\ gathered[p].items[i] = "absent"
              /\ shown[p].items[i] = "absent"
              /\ \A k \in 1..Len(queue[p]) :
                    queue[p][k].name \in {"completeTodoItem", "deleteTodoItem"} => queue[p][k].id # i
        /\ action[p].name = "completeTodoItem" /\ At(p, "success") => Done(items[action[p].id])

\* The first call of a page has not been answered.
Unanswered(p) == action[p] = NoAction \/ At(p, "query")

\* The page has shown that item i is done, has read it and is going to show
\* it, or is going to read and to show it.
WillShow(p, i) ==
    \/ Done(gathered[p].items[i]) /\ Done(shown[p].items[i])
    \/ /\ Done(gathered[p].items[i])
       /\ \E m \in 1..Len(queue[p]) : queue[p][m].name = "getTodoStatistics"
    \/ \E m \in 1..Len(queue[p]) : \E k \in 1..(m - 1) :
          /\ queue[p][m].name = "getTodoStatistics"
          /\ queue[p][k].name = "getTodoItems"
          /\ k = 1 => Unanswered(p)

FinishedInv ==
    \A p \in Page : \A i \in finished[p] :
        /\ i \in Item
        /\ Done(items[i])
        /\ faults = 0 => WillShow(p, i)

-----------------------------------------------------------------------------
(* Sequences and folds                                                      *)

(* Induction, for a set of numbers. *)
LEMMA Induction ==
    ASSUME NEW A, 0 \in A, \A n \in Nat : n \in A => n + 1 \in A
    PROVE  \A n \in Nat : n \in A
<1> DEFINE T == Nat \ A
           R == {ss \in Nat \X Nat : ss[1] < ss[2]}
<1>1. SUFFICES ASSUME T # {} PROVE FALSE
  OBVIOUS
<1>2. IsWellFoundedOn(R, Nat)
  BY NatLessThanWellFounded DEF OpToRel
<1>3. PICK n \in T : \A m \in T : <<m, n>> \notin R
  <2>1. T \subseteq Nat
    OBVIOUS
  <2> HIDE DEF T, R
  <2> QED
    BY <1>1, <1>2, <2>1, WFMin
<1>4. n \in Nat /\ n \notin A /\ n # 0
  OBVIOUS
<1>5. n - 1 \in Nat /\ n - 1 < n
  BY <1>4
<1>6. n - 1 \in A
  BY <1>3, <1>4, <1>5
<1> QED
  BY <1>4, <1>5, <1>6

(* The largest number of a set that has a bound in it. *)
LEMMA MaxIsBound ==
    ASSUME NEW n \in Nat, NEW X \in SUBSET (1..n), n \in X
    PROVE  Max(X) = n
<1> DEFINE Top(x) == \A y \in X : x >= y
<1>1. \A y \in X : y \in Nat /\ n >= y
  OBVIOUS
<1>2. PICK m : m = Max(X)
  OBVIOUS
<1>3. m \in X /\ m >= n
  BY <1>1, <1>2 DEF Max
<1> QED
  BY <1>1, <1>2, <1>3

\* The function by which FoldLeft is defined.
IsProjectedIter(it, s, n) ==
    it = [X \in SUBSET (1..n) |-> IF X = {} THEN "absent" ELSE Project(it[X \ {Max(X)}], s[Max(X)])]

LEMMA ProjectedIterExists == ASSUME NEW s, NEW n \in Nat PROVE \E it : IsProjectedIter(it, s, n)
<1> DEFINE A == {k \in Nat : \E it : IsProjectedIter(it, s, k)}
<1>1. 0 \in A
  <2>1. IsProjectedIter([X \in SUBSET (1..0) |-> "absent"], s, 0)
    <3>1. \A X \in SUBSET (1..0) : X = {}
      OBVIOUS
    <3> QED
      BY <3>1 DEF IsProjectedIter
  <2> QED
    BY <2>1
<1>2. ASSUME NEW k \in Nat, k \in A PROVE k + 1 \in A
  <2>1. PICK it : IsProjectedIter(it, s, k)
    BY <1>2
  <2> DEFINE next == [X \in SUBSET (1..(k + 1)) |->
                         IF k + 1 \in X THEN Project(it[X \ {k + 1}], s[k + 1]) ELSE it[X]]
             Value(X) == IF X = {} THEN "absent" ELSE Project(next[X \ {Max(X)}], s[Max(X)])
  <2>2. ASSUME NEW X \in SUBSET (1..(k + 1)) PROVE next[X] = Value(X)
    <3>1. CASE k + 1 \in X
      <4>1. Max(X) = k + 1
        BY <3>1, MaxIsBound
      <4>2. next[X \ {k + 1}] = it[X \ {k + 1}]
        OBVIOUS
      <4> QED
        BY <3>1, <4>1, <4>2
    <3>2. CASE k + 1 \notin X
      <4>1. X \in SUBSET (1..k)
        BY <3>2
      <4>2. next[X] = it[X] /\ next[X \ {Max(X)}] = it[X \ {Max(X)}]
        BY <3>2
      <4>3. it[X] = IF X = {} THEN "absent" ELSE Project(it[X \ {Max(X)}], s[Max(X)])
        BY <4>1, <2>1 DEF IsProjectedIter
      <4> QED
        BY <4>2, <4>3
    <3> QED
      BY <3>1, <3>2
  <2>3. next = [X \in SUBSET (1..(k + 1)) |-> Value(X)]
    <3>1. next = [X \in SUBSET (1..(k + 1)) |-> next[X]]
      OBVIOUS
    <3> HIDE DEF next, Value
    <3> QED
      BY <2>2, <3>1
  <2>4. IsProjectedIter(next, s, k + 1)
    BY <2>3 DEF IsProjectedIter
  <2> HIDE DEF next
  <2> QED
    BY <2>4
<1>3. \A k \in Nat : k \in A
  <2> HIDE DEF A
  <2> QED
    BY <1>1, <1>2, Induction
<1> QED
  BY <1>3

(* Projected goes through the sequence from its first element to its last. *)
LEMMA ProjectedSteps ==
    ASSUME NEW s, NEW n \in Nat, DOMAIN s = 1..n
    PROVE  \E g : /\ g[0] = "absent" /\ g[n] = Projected(s)
                  /\ \A i \in 1..n : g[i] = Project(g[i - 1], s[i])
<1> DEFINE it == CHOOSE f : IsProjectedIter(f, s, n)
           g == [i \in 0..n |-> it[1..i]]
<1>1. IsProjectedIter(it, s, n)
  BY ProjectedIterExists
<1>2. Projected(s) = it[1..n]
  BY DEF Projected, FoldLeft, MapThenFoldSet, IsProjectedIter
<1> HIDE DEF it
<1>3. \A X \in SUBSET (1..n) : it[X] = IF X = {} THEN "absent" ELSE Project(it[X \ {Max(X)}], s[Max(X)])
  BY <1>1 DEF IsProjectedIter
<1>4. it[1..0] = "absent"
  <2> DEFINE e == 1..0
  <2>1. e = {}
    OBVIOUS
  <2> HIDE DEF e
  <2>2. it[e] = "absent"
    BY <1>3, <2>1
  <2> QED
    BY <2>2 DEF e
<1>5. ASSUME NEW i \in 1..n PROVE it[1..i] = Project(it[1..(i - 1)], s[i])
  <2> DEFINE e == 1..i
             d == 1..(i - 1)
  <2>1. e \in SUBSET (1..n) /\ i \in e
    OBVIOUS
  <2>2. Max(e) = i
    BY MaxIsBound
  <2>3. e \ {i} = d
    <3>1. \A x : x \in e \ {i} <=> x \in d
      OBVIOUS
    <3> HIDE DEF e, d
    <3> QED
      BY <3>1
  <2> HIDE DEF e, d
  <2>4. it[e] = Project(it[d], s[i])
    BY <1>3, <2>1, <2>2, <2>3
  <2> QED
    BY <2>4 DEF e, d
<1>6. /\ g[0] = "absent" /\ g[n] = Projected(s)
      /\ \A i \in 1..n : g[i] = Project(g[i - 1], s[i])
  BY <1>2, <1>4, <1>5
<1> QED
  BY <1>6

(* And nothing else does what it does. *)
LEMMA ProjectedUnique ==
    ASSUME NEW s, NEW n \in Nat, DOMAIN s = 1..n,
           NEW h, h[0] = "absent", \A i \in 1..n : h[i] = Project(h[i - 1], s[i])
    PROVE  h[n] = Projected(s)
<1>1. PICK g : /\ g[0] = "absent" /\ g[n] = Projected(s)
               /\ \A i \in 1..n : g[i] = Project(g[i - 1], s[i])
  BY ProjectedSteps
<1> DEFINE A == {k \in Nat : k <= n => g[k] = h[k]}
<1>2. 0 \in A
  BY <1>1
<1>3. ASSUME NEW k \in Nat, k \in A PROVE k + 1 \in A
  <2>1. SUFFICES ASSUME k + 1 <= n PROVE g[k + 1] = h[k + 1]
    OBVIOUS
  <2>2. k + 1 \in 1..n /\ k + 1 - 1 = k /\ g[k] = h[k]
    BY <1>3, <2>1
  <2> QED
    BY <1>1, <2>2
<1>4. \A k \in Nat : k \in A
  <2> HIDE DEF A
  <2> QED
    BY <1>2, <1>3, Induction
<1> QED
  BY <1>1, <1>4

LEMMA ProjectedEmpty == Projected(<<>>) = "absent"
<1>1. DOMAIN <<>> = 1..0
  OBVIOUS
<1>2. PICK g : g[0] = "absent" /\ g[0] = Projected(<<>>)
  BY <1>1, ProjectedSteps
<1> QED
  BY <1>2

LEMMA ProjectedAppend ==
    ASSUME NEW T, NEW s \in Seq(T), NEW x \in T
    PROVE  Projected(Append(s, x)) = Project(Projected(s), x)
<1> DEFINE n == Len(s)
           t == Append(s, x)
<1>1. n \in Nat /\ n + 1 \in Nat /\ DOMAIN s = 1..n /\ DOMAIN t = 1..(n + 1)
  BY LenProperties, AppendProperties
<1>2. t[n + 1] = x /\ \A i \in 1..n : t[i] = s[i]
  BY AppendProperties
<1> HIDE DEF n, t
<1>3. PICK g : /\ g[0] = "absent" /\ g[n + 1] = Projected(t)
               /\ \A i \in 1..(n + 1) : g[i] = Project(g[i - 1], t[i])
  BY <1>1, ProjectedSteps
<1>4. \A i \in 1..n : g[i] = Project(g[i - 1], s[i])
  BY <1>1, <1>2, <1>3
<1>5. g[n] = Projected(s)
  BY <1>1, <1>3, <1>4, ProjectedUnique
<1>6. n + 1 \in 1..(n + 1) /\ n + 1 - 1 = n
  BY <1>1
<1>7. g[n + 1] = Project(g[n], t[n + 1])
  <2>1. \A i \in 1..(n + 1) : i - 1 = n => g[i] = Project(g[n], t[i])
    BY <1>3
  <2> QED
    BY <1>1, <1>6, <2>1
<1> QED
  BY <1>2, <1>3, <1>5, <1>6, <1>7 DEF t

-----------------------------------------------------------------------------
(* What the pages' actions and calls are                                    *)

LEMMA PageStepCases ==
    ASSUME [PageNext]_allVars
    PROVE  \/ UNCHANGED allVars
           \/ \E p \in Page :
                 \/ \E l \in List : SubmitList(p, l) \/ Select(p, l)
                 \/ \E i \in Item : SubmitItem(p, i) \/ ClickComplete(p, i) \/ ClickDelete(p, i)
                 \/ Dispatch(p)
                 \/ (StateRead(p) \/ EventWritten(p) \/ EventProcessed(p) \/ Throws(p)) /\ UNCHANGED pageVars
                 \/ Answered(p) \/ Gathered(p) \/ LoadEnds(p) \/ Changed(p)
BY DEF PageNext, ServerStep

Stage == Awaited \cup {"success", "failure"}

(* A page that is at a stage has an action. *)
LEMMA HasAction ==
    ASSUME PageTypeOK, NEW p \in Page
    PROVE  /\ action[p] \in Action \cup {NoAction}
           /\ action[p].at \in Stage => action[p] \in Action
           /\ action[p] \in Action => action[p] # NoAction
BY DEF PageTypeOK, ServerTypeOK, Action, NoAction, Stage, Awaited, Change, Question

(* Going to another stage changes nothing else. *)
LEMMA GoesMoves ==
    ASSUME PageTypeOK, NEW p \in Page, action[p] \in Action, NEW to \in Stage, Goes(p, to)
    PROVE  /\ action' \in [Page -> Action \cup {NoAction}]
           /\ action'[p] \in Action
           /\ action'[p].at = to
           /\ action'[p].name = action[p].name
           /\ action'[p].id = action[p].id
           /\ action'[p].number = action[p].number
           /\ \A q \in Page : q # p => action'[q] = action[q]
<1>1. action' = [action EXCEPT ![p] = [action[p] EXCEPT !.at = to]]
  BY DEF Goes
<1>2. action \in [Page -> Action \cup {NoAction}]
  BY DEF PageTypeOK, ServerTypeOK
<1>3. PICK a \in Action : a = [action[p] EXCEPT !.at = to] /\ a.at = to
                          /\ a.name = action[p].name /\ a.id = action[p].id /\ a.number = action[p].number
  <2>1. [action[p] EXCEPT !.at = to] \in Action
    BY DEF Action, Stage
  <2>2. /\ [action[p] EXCEPT !.at = to].at = to
        /\ [action[p] EXCEPT !.at = to].name = action[p].name
        /\ [action[p] EXCEPT !.at = to].id = action[p].id
        /\ [action[p] EXCEPT !.at = to].number = action[p].number
    BY DEF Action
  <2> QED
    BY <2>1, <2>2
<1> QED
  BY <1>1, <1>2, <1>3

(* What an action is about is what its call is about. *)
LEMMA ActionIds ==
    ASSUME PageTypeOK, CallsInv, ActionInv, NEW p \in Page, action[p] \in Action
    PROVE  /\ queue[p] \in Seq(PageCall) /\ queue[p] # <<>>
           /\ Len(queue[p]) \in Nat \ {0}
           /\ Head(queue[p]) = queue[p][1]
           /\ action[p].name = queue[p][1].name
           /\ action[p].id = queue[p][1].id
           /\ action[p].name \in Change \cup Question
           /\ action[p].name = "createTodoList" => action[p].id \in List
           /\ action[p].name \in ItemChange => action[p].id \in Item
           /\ action[p].name \in Question => action[p].at \in {"query", "success", "failure"}
           /\ action[p].at \in {"state", "write", "process"} => action[p].name \in Change
<1>1. queue[p] \in Seq(PageCall) /\ action[p] # NoAction
  BY HasAction DEF PageTypeOK
<1>2. queue[p] # <<>> /\ action[p].name = queue[p][1].name /\ action[p].id = queue[p][1].id
  BY <1>1 DEF ActionInv
<1>3. Len(queue[p]) \in Nat \ {0}
  BY <1>1, <1>2, LenProperties, EmptySeq
<1>4. 1 \in 1..Len(queue[p])
  BY <1>3
<1>5. action[p].name \in Change \cup Question
  BY DEF Action
<1>6. action[p].name \in Question => action[p].at \in {"query", "success", "failure"}
  BY <1>1 DEF ActionInv
<1>7. Head(queue[p]) = queue[p][1]
  BY <1>1, <1>2, HeadTailProperties
<1> QED
  BY <1>1, <1>2, <1>3, <1>4, <1>5, <1>6, <1>7 DEF CallsInv

-----------------------------------------------------------------------------
(* The queues of calls                                                      *)

\* The queue of p gets call c.
Grows(p, c) ==
    /\ queue' \in [Page -> Seq(PageCall)]
    /\ Len(queue'[p]) = Len(queue[p]) + 1
    /\ \A k \in 1..Len(queue[p]) : queue'[p][k] = queue[p][k]
    /\ queue'[p][Len(queue[p]) + 1] = c
    /\ \A q \in Page : q # p => queue'[q] = queue[q]

\* The queue of p loses its first call and gets cs.
Shifted(p, cs) ==
    /\ queue' \in [Page -> Seq(PageCall)]
    /\ Len(queue'[p]) = Len(queue[p]) - 1 + Len(cs)
    /\ \A k \in 1..(Len(queue[p]) - 1) : queue'[p][k] = queue[p][k + 1]
    /\ \A k \in 1..Len(cs) : queue'[p][Len(queue[p]) - 1 + k] = cs[k]
    /\ \A q \in Page : q # p => queue'[q] = queue[q]

(* A click adds one call at the end. *)
LEMMA OneMoreCall ==
    ASSUME PageTypeOK, NEW p \in Page, NEW c \in PageCall, Grows(p, c),
           NEW q \in Page, NEW k \in 1..Len(queue'[q])
    PROVE  \/ k \in 1..Len(queue[q]) /\ queue'[q][k] = queue[q][k]
           \/ q = p /\ k = Len(queue[p]) + 1 /\ queue'[q][k] = c
<1>1. CASE q # p
  BY <1>1 DEF Grows
<1>2. CASE q = p
  <2>1. PICK n \in Nat : n = Len(queue[p])
    BY LenProperties DEF PageTypeOK
  <2>2. k \in 1..n \/ k = n + 1
    BY <1>2, <2>1 DEF Grows
  <2> QED
    BY <1>2, <2>1, <2>2 DEF Grows
<1> QED
  BY <1>1, <1>2

LEMMA ShiftIs ==
    ASSUME queue \in [Page -> Seq(PageCall)], NEW p \in Page,
           NEW rest \in Seq(PageCall), NEW cs \in Seq(PageCall),
           Len(rest) = Len(queue[p]) - 1,
           \A k \in 1..(Len(queue[p]) - 1) : rest[k] = queue[p][k + 1],
           queue' = [queue EXCEPT ![p] = rest \o cs]
    PROVE  Shifted(p, cs)
<1>1. PICK n \in Nat : n = Len(rest)
  BY LenProperties
<1>2. PICK m \in Nat : m = Len(cs)
  BY LenProperties
<1>3. PICK new \in Seq(PageCall) : new = rest \o cs
  BY ConcatProperties
<1>4. Len(new) = n + m /\ \A k \in 1..(n + m) : new[k] = IF k <= n THEN rest[k] ELSE cs[k - n]
  BY <1>1, <1>2, <1>3, ConcatProperties
<1>5. \A k \in 1..n : new[k] = rest[k]
  BY <1>4
<1>6. \A k \in 1..m : new[n + k] = cs[k]
  <2>1. SUFFICES ASSUME NEW k \in 1..m PROVE new[n + k] = cs[k]
    OBVIOUS
  <2>2. PICK j : j = n + k
    OBVIOUS
  <2>3. j \in 1..(n + m) /\ ~(j <= n) /\ j - n = k
    BY <2>2
  <2>4. new[j] = cs[j - n]
    BY <1>4, <2>3
  <2> QED
    BY <2>2, <2>3, <2>4
<1>7. queue' \in [Page -> Seq(PageCall)] /\ queue'[p] = new /\ \A q \in Page : q # p => queue'[q] = queue[q]
  BY <1>3
<1> QED
  BY <1>1, <1>2, <1>4, <1>5, <1>6, <1>7 DEF Shifted

LEMMA EnqueueGrows ==
    ASSUME PageTypeOK, NEW p \in Page, NEW name \in Change, NEW id \in List \cup Item,
           Enqueue(p, name, id)
    PROVE  \E c \in PageCall : c.name = name /\ c.id = id /\ Grows(p, c)
<1>1. PICK c \in PageCall : c = Calls(name, id, selected[p] = "none") /\ c.name = name /\ c.id = id
  <2>1. (selected[p] = "none") \in BOOLEAN
    OBVIOUS
  <2>2. ASSUME NEW u \in BOOLEAN
        PROVE  /\ Calls(name, id, u) \in PageCall
               /\ Calls(name, id, u).name = name /\ Calls(name, id, u).id = id
    BY DEF PageCall, Calls
  <2> QED
    BY <2>1, <2>2, Zenon
<1>2. PICK q \in Seq(PageCall) : q = queue[p]
  BY DEF PageTypeOK
<1>3. /\ Append(q, c) \in Seq(PageCall)
      /\ Len(Append(q, c)) = Len(q) + 1
      /\ \A k \in 1..Len(q) : Append(q, c)[k] = q[k]
      /\ Append(q, c)[Len(q) + 1] = c
  BY AppendProperties
<1>4. PICK new \in Seq(PageCall) : /\ new = Append(q, c)
                                  /\ Len(new) = Len(q) + 1
                                  /\ \A k \in 1..Len(q) : new[k] = q[k]
                                  /\ new[Len(q) + 1] = c
  BY <1>3
<1>5. queue' = [queue EXCEPT ![p] = new] /\ queue \in [Page -> Seq(PageCall)]
  BY <1>1, <1>2, <1>4 DEF Enqueue, PageTypeOK
<1>6. queue' \in [Page -> Seq(PageCall)] /\ queue'[p] = new /\ \A r \in Page : r # p => queue'[r] = queue[r]
  BY <1>5
<1>7. Grows(p, c)
  BY <1>2, <1>4, <1>6 DEF Grows
<1> QED
  BY <1>1, <1>7

LEMMA TailShifts ==
    ASSUME PageTypeOK, NEW p \in Page, queue[p] # <<>>, NEW cs \in Seq(PageCall),
           queue' = [queue EXCEPT ![p] = Tail(queue[p]) \o cs]
    PROVE  Shifted(p, cs)
<1>1. PICK q \in Seq(PageCall) : q = queue[p]
  BY DEF PageTypeOK
<1>2. PICK t \in Seq(PageCall) : t = Tail(q) /\ Len(t) = Len(q) - 1 /\ \A k \in 1..Len(t) : t[k] = q[k + 1]
  BY <1>1, HeadTailProperties
<1>3. queue \in [Page -> Seq(PageCall)]
  BY DEF PageTypeOK
<1>4. queue' = [queue EXCEPT ![p] = t \o cs]
  BY <1>1, <1>2
<1>5. Len(t) = Len(queue[p]) - 1 /\ \A k \in 1..(Len(queue[p]) - 1) : t[k] = queue[p][k + 1]
  BY <1>1, <1>2
<1> QED
  BY <1>3, <1>4, <1>5, ShiftIs, Zenon

LEMMA TailIsShift ==
    ASSUME PageTypeOK, NEW p \in Page, queue[p] # <<>>,
           queue' = [queue EXCEPT ![p] = Tail(@)]
    PROVE  Shifted(p, <<>>)
<1>1. <<>> \in Seq(PageCall) /\ Tail(queue[p]) \in Seq(PageCall)
  BY HeadTailProperties, EmptySeq DEF PageTypeOK
<1>2. Tail(queue[p]) \o <<>> = Tail(queue[p])
  BY <1>1, ConcatEmptySeq
<1> QED
  BY <1>1, <1>2, TailShifts

(* A load is three reads. *)
LEMMA LoadIs ==
    ASSUME NEW u \in BOOLEAN
    PROVE  /\ Load(u) \in Seq(PageCall)
           /\ Len(Load(u)) = 3
           /\ \A k \in 1..3 : Load(u)[k].name \in Question /\ Load(u)[k].id = "all"
           /\ Load(u)[2].name = "getTodoItems"
           /\ Load(u)[3].name = "getTodoStatistics"
<1>1. PICK a, b, c \in PageCall :
         /\ a = Calls("getTodoLists", "all", u) /\ a.name = "getTodoLists" /\ a.id = "all"
         /\ b = Calls("getTodoItems", "all", u) /\ b.name = "getTodoItems" /\ b.id = "all"
         /\ c = Calls("getTodoStatistics", "all", u) /\ c.name = "getTodoStatistics" /\ c.id = "all"
  <2>1. ASSUME NEW name \in Question
        PROVE  Calls(name, "all", u) \in PageCall /\ Calls(name, "all", u).name = name
                                               /\ Calls(name, "all", u).id = "all"
    BY DEF PageCall, Calls
  <2> QED
    BY <2>1 DEF Question
<1>2. Load(u) = <<a, b, c>>
  BY <1>1 DEF Load
<1>3. <<a, b, c>> \in Seq(PageCall) /\ Len(<<a, b, c>>) = 3
      /\ <<a, b, c>>[1] = a /\ <<a, b, c>>[2] = b /\ <<a, b, c>>[3] = c
  OBVIOUS
<1>4. \A k \in 1..3 : k = 1 \/ k = 2 \/ k = 3
  OBVIOUS
<1> QED
  BY <1>1, <1>2, <1>3, <1>4 DEF Question

(* A change that is over gives way to a load, if it succeeded. *)
LEMMA ChangedShifts ==
    ASSUME PageTypeOK, CallsInv, ActionInv, NEW p \in Page, Changed(p)
    PROVE  /\ action[p] \in Action /\ action[p].at \in {"success", "failure"}
           /\ \E cs \in Seq(PageCall) :
                 /\ Shifted(p, cs)
                 /\ \A k \in 1..Len(cs) : cs[k].name \in Question /\ cs[k].id = "all"
                 /\ At(p, "success") => /\ Len(cs) = 3
                                        /\ cs[2].name = "getTodoItems"
                                        /\ cs[3].name = "getTodoStatistics"
<1>1. action[p] \in Action /\ action[p].at \in {"success", "failure"}
  BY HasAction DEF Changed, Over, At, Stage
<1>2. queue[p] \in Seq(PageCall) /\ queue[p] # <<>> /\ Head(queue[p]) \in PageCall
  BY <1>1, ActionIds, HeadTailProperties
<1>3. PICK u \in BOOLEAN : u = Head(queue[p]).unselected
  BY <1>2 DEF PageCall
<1>4. PICK cs \in Seq(PageCall) : cs = IF At(p, "success") THEN Load(u) ELSE <<>>
  BY LoadIs, EmptySeq
<1>5. queue' = [queue EXCEPT ![p] = Tail(queue[p]) \o cs]
  BY <1>3, <1>4 DEF Changed
<1>6. Shifted(p, cs)
  BY <1>2, <1>5, TailShifts
<1>7. CASE At(p, "success")
  BY <1>1, <1>4, <1>6, <1>7, LoadIs
<1>8. CASE ~At(p, "success")
  <2>1. Len(cs) = 0
    BY <1>4, <1>8
  <2> QED
    BY <1>1, <1>6, <1>8, <2>1, \A k \in 1..0 : FALSE
<1> QED
  BY <1>7, <1>8

-----------------------------------------------------------------------------
(* ProcessedTypes                                                                    *)

LEMMA EventOfType ==
    ASSUME NEW name \in Change
    PROVE  /\ EventOf(name) \in TodoEvent \cup {"todo_list_created"}
           /\ name \in ItemChange => EventOf(name) \in TodoEvent
           /\ name \in ItemChange <=> name # "createTodoList"
BY DEF Change, EventOf, TodoEvent, ItemChange

LEMMA ProjectType ==
    ASSUME NEW status \in Status \cup {"absent"}, NEW type \in TodoEvent
    PROVE  Project(status, type) \in Status \cup {"absent"}
<1>1. CASE type = "todo_item_created"
  BY <1>1 DEF Project, Reduce, Status
<1>2. CASE type = "todo_item_updated"
  BY <1>2 DEF Project, Reduce, Status
<1>3. CASE type = "todo_item_completed"
  BY <1>3 DEF Project, Reduce, Status
<1>4. CASE type = "todo_item_deleted"
  BY <1>4 DEF Project, Reduce, Status
<1> QED
  BY <1>1, <1>2, <1>3, <1>4 DEF TodoEvent

(* Storing an event appends its type to the log of its item or list. *)
LEMMA StoreAppends ==
    ASSUME PageTypeOK, CallsInv, ActionInv, NEW p \in Page, At(p, "write"), Store(action[p])
    PROVE  /\ events' = [events EXCEPT ![action[p].id] = Append(@, EventOf(action[p].name))]
           /\ events' \in [List \cup Item -> Seq(TodoEvent \cup {"todo_list_created"})]
<1>1. action[p] \in Action /\ action[p].name \in Change /\ action[p].id \in List \cup Item
  <2>1. action[p] \in Action
    BY HasAction DEF At, Stage, Awaited
  <2>2. action[p].name \in Change
    BY <2>1, ActionIds DEF At
  <2> QED
    BY <2>1, <2>2, ActionIds, EventOfType
<1>2. PICK id \in List \cup Item : id = action[p].id
  BY <1>1
<1>3. PICK type \in TodoEvent \cup {"todo_list_created"} : type = EventOf(action[p].name)
  BY <1>1, EventOfType
<1>4. events \in [List \cup Item -> Seq(TodoEvent \cup {"todo_list_created"})]
  BY DEF PageTypeOK, ServerTypeOK
<1>5. Append(events[id], type) \in Seq(TodoEvent \cup {"todo_list_created"})
  BY <1>4, AppendProperties
<1>6. events' = [events EXCEPT ![id] = Append(@, type)]
  BY <1>2, <1>3 DEF Store
<1> QED
  BY <1>2, <1>3, <1>4, <1>5, <1>6

(* Processing changes the projection of the event's item or list. *)
LEMMA ProcessTypes ==
    ASSUME PageTypeOK, CallsInv, ActionInv, NEW p \in Page, At(p, "process"), Process(action[p])
    PROVE  /\ lists' \subseteq List
           /\ items' \in [Item -> Status \cup {"absent"}]
           /\ processed' \in [Item -> Seq(Nat)]
<1>0. /\ lists \subseteq List
      /\ items \in [Item -> Status \cup {"absent"}]
      /\ processed \in [Item -> Seq(Nat)]
  BY DEF PageTypeOK, ServerTypeOK
<1>1. action[p] \in Action
  BY HasAction DEF At, Stage, Awaited
<1>2. action[p].name \in Change /\ action[p].number \in Nat
  BY <1>1, ActionIds DEF At, Action
<1>3. CASE action[p].name = "createTodoList"
  <2>1. action[p].id \in List
    BY <1>1, <1>3, ActionIds
  <2> QED
    BY <1>0, <1>3, <2>1 DEF Process
<1>4. CASE action[p].name # "createTodoList"
  <2>1. PICK i \in Item : i = action[p].id
    BY <1>1, <1>2, <1>4, ActionIds, EventOfType
  <2>2. PICK type \in TodoEvent : type = EventOf(action[p].name)
    BY <1>2, <1>4, EventOfType
  <2>3. PICK n \in Nat : n = action[p].number
    BY <1>2
  <2>4. /\ items' = [items EXCEPT ![i] = Project(@, type)]
        /\ processed' = [processed EXCEPT ![i] = Append(@, n)]
        /\ lists' = lists
    BY <1>4, <2>1, <2>2, <2>3 DEF Process
  <2>5. Project(items[i], type) \in Status \cup {"absent"}
    BY <1>0, ProjectType
  <2>6. Append(processed[i], n) \in Seq(Nat)
    BY <1>0, AppendProperties
  <2> QED
    BY <1>0, <2>4, <2>5, <2>6
<1> QED
  BY <1>3, <1>4

LEMMA ServerTypeStep ==
    ASSUME PageTypeOK, CallsInv, ActionInv, NEW p \in Page,
           StateRead(p) \/ EventWritten(p) \/ EventProcessed(p) \/ Throws(p)
    PROVE  ServerTypeOK'
<1>0. ServerTypeOK
  BY DEF PageTypeOK
<1>1. CASE StateRead(p)
  <2>1. action[p] \in Action /\ action[p].id \in List \cup Item
    <3>1. action[p] \in Action
      BY <1>1, HasAction DEF StateRead, At, Stage, Awaited
    <3>2. action[p].name \in Change
      BY <1>1, <3>1, ActionIds DEF StateRead, At
    <3> QED
      BY <3>1, <3>2, ActionIds, EventOfType
  <2>2. PICK n \in Nat : n = Len(events[action[p].id])
    BY <2>1, LenProperties DEF PageTypeOK, ServerTypeOK
  <2>3. CASE Goes(p, "failure")
    <3>1. action' \in [Page -> Action \cup {NoAction}]
      BY <2>1, <2>3, GoesMoves DEF Stage
    <3> QED
      BY <1>0, <1>1, <3>1 DEF StateRead, ServerTypeOK
  <2>4. CASE action' = [action EXCEPT ![p].number = n + 1, ![p].at = "write"]
    <3>1. PICK m \in Nat : m = n + 1
      OBVIOUS
    <3>2. PICK a \in Action : a = [action[p] EXCEPT !.number = m]
      <4>1. [action[p] EXCEPT !.number = m] \in Action
        BY <2>1 DEF Action
      <4> QED
        BY <4>1
    <3>3. [a EXCEPT !.at = "write"] \in Action
      BY DEF Action, Awaited
    <3>4. action' = [action EXCEPT ![p] = [a EXCEPT !.at = "write"]]
      BY <2>4, <3>1, <3>2
    <3>5. action' \in [Page -> Action \cup {NoAction}]
      BY <1>0, <3>3, <3>4 DEF ServerTypeOK
    <3> QED
      BY <1>0, <1>1, <3>5 DEF StateRead, ServerTypeOK
  <2> QED
    BY <1>1, <2>2, <2>3, <2>4 DEF StateRead
<1>2. CASE EventWritten(p)
  <2>1. action[p] \in Action /\ At(p, "write")
    BY <1>2, HasAction DEF EventWritten, At, Stage, Awaited
  <2>2. action' \in [Page -> Action \cup {NoAction}]
    BY <1>2, <2>1, GoesMoves DEF EventWritten, Stage, Awaited
  <2>3. events' \in [List \cup Item -> Seq(TodoEvent \cup {"todo_list_created"})]
    BY <1>0, <1>2, <2>1, StoreAppends DEF EventWritten, ServerTypeOK
  <2> QED
    BY <1>0, <1>2, <2>2, <2>3 DEF EventWritten, ServerTypeOK
<1>3. CASE EventProcessed(p)
  <2>1. action[p] \in Action /\ At(p, "process")
    BY <1>3, HasAction DEF EventProcessed, At, Stage, Awaited
  <2>2. action' \in [Page -> Action \cup {NoAction}]
    BY <1>3, <2>1, GoesMoves DEF EventProcessed, Stage, Awaited
  <2>3. lists' \subseteq List /\ items' \in [Item -> Status \cup {"absent"}] /\ processed' \in [Item -> Seq(Nat)]
    BY <1>3, <2>1, ProcessTypes DEF EventProcessed
  <2> QED
    BY <1>0, <1>3, <2>2, <2>3 DEF EventProcessed, ServerTypeOK
<1>4. CASE Throws(p)
  <2>1. action[p] \in Action
    BY <1>4, HasAction DEF Throws, Stage
  <2>2. action' \in [Page -> Action \cup {NoAction}]
    BY <1>4, <2>1, GoesMoves DEF Throws, Stage
  <2>3. events' \in [List \cup Item -> Seq(TodoEvent \cup {"todo_list_created"})]
    BY <1>0, <1>4, StoreAppends DEF Throws, ServerTypeOK, At
  <2> QED
    BY <1>0, <1>4, <2>2, <2>3 DEF Throws, ServerTypeOK
<1> QED
  BY <1>1, <1>2, <1>3, <1>4

LEMMA DispatchTypes ==
    ASSUME PageTypeOK, NEW p \in Page, Dispatch(p)
    PROVE  /\ Len(queue[p]) \in Nat \ {0}
           /\ queue[p][1] \in PageCall
           /\ action' = [action EXCEPT ![p] = ActionOf(queue[p][1].name, queue[p][1].id)]
           /\ ActionOf(queue[p][1].name, queue[p][1].id) \in Action
<1>1. queue[p] \in Seq(PageCall) /\ queue[p] # <<>>
  BY DEF PageTypeOK, Dispatch
<1>2. Len(queue[p]) \in Nat \ {0} /\ Head(queue[p]) = queue[p][1] /\ queue[p][1] \in PageCall
  BY <1>1, LenProperties, EmptySeq, HeadTailProperties
<1>3. action' = [action EXCEPT ![p] = ActionOf(queue[p][1].name, queue[p][1].id)]
  BY <1>2 DEF Dispatch
<1>4. ASSUME NEW name \in Change \cup Question, NEW id \in List \cup Item \cup {"all"}
      PROVE  ActionOf(name, id) \in Action
  <2>1. First(name) \in Awaited
    BY DEF First, Awaited, Change, Question
  <2> QED
    BY <2>1 DEF ActionOf, Action
<1>5. queue[p][1].name \in Change \cup Question /\ queue[p][1].id \in List \cup Item \cup {"all"}
  BY <1>2 DEF PageCall
<1> QED
  BY <1>2, <1>3, <1>4, <1>5

(* Views with another part. *)
LEMMA ViewChanges ==
    ASSUME NEW v \in View, NEW ls \in SUBSET List, NEW is \in [Item -> Status \cup {"absent"}],
           NEW s \in Statistics, NEW b \in BOOLEAN
    PROVE  /\ [v EXCEPT !.lists = ls] \in View /\ [v EXCEPT !.lists = ls].items = v.items
           /\ [v EXCEPT !.items = is] \in View /\ [v EXCEPT !.items = is].items = is
           /\ [v EXCEPT !.stats = s] \in View /\ [v EXCEPT !.stats = s].items = v.items
           /\ [v EXCEPT !.listed = b] \in View /\ [v EXCEPT !.listed = b].items = v.items
<1>1. [v EXCEPT !.lists = ls] \in View /\ [v EXCEPT !.lists = ls].items = v.items
  BY DEF View
<1>2. [v EXCEPT !.items = is] \in View /\ [v EXCEPT !.items = is].items = is
  BY DEF View
<1>3. [v EXCEPT !.stats = s] \in View /\ [v EXCEPT !.stats = s].items = v.items
  BY DEF View
<1>4. [v EXCEPT !.listed = b] \in View /\ [v EXCEPT !.listed = b].items = v.items
  BY DEF View
<1> QED
  BY <1>1, <1>2, <1>3, <1>4

(* An answer changes what a load has got. *)
LEMMA AnsweredTypes ==
    ASSUME PageTypeOK, CallsInv, ActionInv, NEW p \in Page, Answered(p)
    PROVE  /\ action[p] \in Action
           /\ action[p].name \in Question
           /\ gathered' \in [Page -> View]
           /\ gathered'[p].items = IF action[p].name = "getTodoItems" THEN items ELSE gathered[p].items
           /\ \A q \in Page : q # p => gathered'[q] = gathered[q]
<1>1. action[p] \in Action /\ At(p, "query")
  BY HasAction DEF Answered, At, Stage, Awaited
<1>2. action[p].name \in Question
  <2>1. action[p] # NoAction /\ action[p].name \in Change \cup Question
    BY <1>1, HasAction DEF Action
  <2> QED
    BY <1>1, <2>1 DEF ActionInv, At
<1>3. gathered \in [Page -> View] /\ lists \in SUBSET List /\ items \in [Item -> Status \cup {"absent"}]
  BY DEF PageTypeOK, ServerTypeOK
<1>4. Counts(items) \in Statistics
  <2>1. ASSUME NEW S, S \subseteq Item PROVE Cardinality(S) \in Nat
    <3>1. IsFiniteSet(S)
      BY <2>1, TodoPageAssumption, FS_Subset
    <3> QED
      BY <3>1, FS_CardinalityType
  <2>2. /\ Cardinality({i \in Item : items[i] # "absent"}) \in Nat
        /\ Cardinality({i \in Item : items[i] = "pending"}) \in Nat
        /\ Cardinality({i \in Item : items[i] = "completed"}) \in Nat
    BY <2>1
  <2> QED
    BY <2>2 DEF Counts, Statistics
<1>5. PICK s \in Statistics : s = Counts(items)
  BY <1>4
<1>6. CASE action[p].name = "getTodoLists"
  <2>0. PICK g \in View : g = [gathered[p] EXCEPT !.lists = lists] /\ g.items = gathered[p].items
    <3>1. gathered[p] \in View
      BY <1>3
    <3> QED
      BY <1>3, <1>4, <3>1, ViewChanges, Zenon
  <2>1. gathered' = [gathered EXCEPT ![p] = [g EXCEPT !.listed = TRUE]]
    BY <1>6, <2>0 DEF Answered
  <2>2. PICK v \in View : v = [g EXCEPT !.listed = TRUE] /\ v.items = g.items
    <3>1. TRUE \in BOOLEAN
      OBVIOUS
    <3> QED
      BY <1>3, <1>4, <3>1, ViewChanges, Zenon
  <2> QED
    BY <1>1, <1>2, <1>3, <1>6, <2>0, <2>1, <2>2
<1>7. CASE action[p].name = "getTodoItems"
  <2>1. gathered' = [gathered EXCEPT ![p] = [@ EXCEPT !.items = items]]
    BY <1>7 DEF Answered
  <2>2. PICK v \in View : v = [gathered[p] EXCEPT !.items = items] /\ v.items = items
    <3>1. gathered[p] \in View
      BY <1>3
    <3>2. /\ [gathered[p] EXCEPT !.items = items] \in View
          /\ [gathered[p] EXCEPT !.items = items].items = items
      BY <1>3, <3>1 DEF View
    <3> QED
      BY <3>2
  <2> QED
    BY <1>1, <1>2, <1>3, <1>7, <2>1, <2>2
<1>8. CASE action[p].name = "getTodoStatistics"
  <2>1. gathered' = [gathered EXCEPT ![p] = [@ EXCEPT !.stats = s]]
    BY <1>5, <1>8 DEF Answered
  <2>2. PICK v \in View : v = [gathered[p] EXCEPT !.stats = s] /\ v.items = gathered[p].items
    <3>1. gathered[p] \in View /\ TRUE \in BOOLEAN
      BY <1>3
    <3> QED
      BY <1>3, <3>1, ViewChanges, Zenon
  <2> QED
    BY <1>1, <1>2, <1>3, <1>8, <2>1, <2>2
<1> QED
  BY <1>2, <1>6, <1>7, <1>8 DEF Question

(* The end of a load shows what it has got. *)
LEMMA LoadEndsTypes ==
    ASSUME PageTypeOK, NEW p \in Page, LoadEnds(p)
    PROVE  /\ gathered' \in [Page -> View]
           /\ shown' \in [Page -> View]
           /\ gathered'[p].items = gathered[p].items
           /\ shown'[p].items = gathered[p].items
           /\ \A q \in Page : q # p => gathered'[q] = gathered[q] /\ shown'[q] = shown[q]
<1>1. gathered \in [Page -> View] /\ shown \in [Page -> View]
  BY DEF PageTypeOK
<1>2. PICK v \in View : v = [gathered[p] EXCEPT !.listed = FALSE] /\ v.items = gathered[p].items
  <2>1. gathered[p] \in View /\ FALSE \in BOOLEAN
    BY <1>1
  <2>2. [gathered[p] EXCEPT !.listed = FALSE] \in View /\ [gathered[p] EXCEPT !.listed = FALSE].items = gathered[p].items
    BY <2>1 DEF View
  <2> QED
    BY <2>2
<1>3. gathered' = [gathered EXCEPT ![p] = v]
  BY <1>2 DEF LoadEnds
<1>4. shown' = [shown EXCEPT ![p] = v]
  BY <1>1, <1>3 DEF LoadEnds
<1> QED
  BY <1>1, <1>2, <1>3, <1>4

\* A form or a button of p makes a call.
Clicked(p) ==
    \/ \E l \in List : SubmitList(p, l)
    \/ \E i \in Item : SubmitItem(p, i) \/ ClickComplete(p, i) \/ ClickDelete(p, i)

(* What forms and buttons have in common. *)
LEMMA ClickCalls ==
    ASSUME PageTypeOK, NEW p \in Page, Clicked(p)
    PROVE  /\ UNCHANGED <<serverVars, gathered, shown, selected, loading, finished>>
           /\ busy' \in [Page -> Disabled]
           /\ \E c \in PageCall :
                 /\ Grows(p, c)
                 /\ \/ c.name = "createTodoList" /\ c.id \in List
                    \/ c.name = "createTodoItem" /\ c.id \in Item /\ Fresh(c.id)
                    \/ c.name \in {"completeTodoItem", "deleteTodoItem"} /\ c.id \in Item
                          /\ shown[p].items[c.id] # "absent"
<1>0. busy \in [Page -> Disabled] /\ busy[p] \in Disabled
  BY DEF PageTypeOK
<1>1. ASSUME NEW l \in List, SubmitList(p, l)
      PROVE  /\ UNCHANGED <<serverVars, gathered, shown, selected, loading, finished>>
             /\ busy' \in [Page -> Disabled]
             /\ \E c \in PageCall : Grows(p, c) /\ c.name = "createTodoList" /\ c.id \in List
  <2>1. [busy[p] EXCEPT !.forms = @ \cup {"list"}] \in Disabled
    BY <1>0 DEF Disabled
  <2>2. busy' = [busy EXCEPT ![p] = [busy[p] EXCEPT !.forms = @ \cup {"list"}]]
    BY <1>1 DEF SubmitList
  <2>3. "createTodoList" \in Change /\ l \in List \cup Item
    BY DEF Change
  <2>4. \E c \in PageCall : c.name = "createTodoList" /\ c.id = l /\ Grows(p, c)
    <3>1. PICK name \in Change : name = "createTodoList"
      BY <2>3
    <3>2. PICK id \in List \cup Item : id = l
      BY <2>3
    <3>3. Enqueue(p, name, id)
      BY <1>1, <3>1, <3>2 DEF SubmitList
    <3>4. \E c \in PageCall : c.name = name /\ c.id = id /\ Grows(p, c)
      BY <3>1, <3>2, <3>3, EnqueueGrows
    <3> QED
      BY <3>1, <3>2, <3>4
  <2> QED
    BY <1>0, <1>1, <2>1, <2>2, <2>4 DEF SubmitList
<1>2. ASSUME NEW i \in Item, SubmitItem(p, i)
      PROVE  /\ UNCHANGED <<serverVars, gathered, shown, selected, loading, finished>>
             /\ busy' \in [Page -> Disabled]
             /\ \E c \in PageCall : /\ Grows(p, c) /\ c.name = "createTodoItem"
                                    /\ c.id \in Item /\ Fresh(c.id)
  <2>1. [busy[p] EXCEPT !.forms = @ \cup {"item"}] \in Disabled
    BY <1>0 DEF Disabled
  <2>2. busy' = [busy EXCEPT ![p] = [busy[p] EXCEPT !.forms = @ \cup {"item"}]]
    BY <1>2 DEF SubmitItem
  <2>3. "createTodoItem" \in Change /\ i \in List \cup Item
    BY DEF Change
  <2>4. \E c \in PageCall : c.name = "createTodoItem" /\ c.id = i /\ Grows(p, c)
    <3>1. PICK name \in Change : name = "createTodoItem"
      BY <2>3
    <3>2. PICK id \in List \cup Item : id = i
      BY <2>3
    <3>3. Enqueue(p, name, id)
      BY <1>2, <3>1, <3>2 DEF SubmitItem
    <3>4. \E c \in PageCall : c.name = name /\ c.id = id /\ Grows(p, c)
      BY <3>1, <3>2, <3>3, EnqueueGrows
    <3> QED
      BY <3>1, <3>2, <3>4
  <2> QED
    BY <1>0, <1>2, <2>1, <2>2, <2>4 DEF SubmitItem
<1>3. ASSUME NEW i \in Item, ClickComplete(p, i)
      PROVE  /\ UNCHANGED <<serverVars, gathered, shown, selected, loading, finished>>
             /\ busy' \in [Page -> Disabled]
             /\ \E c \in PageCall : /\ Grows(p, c) /\ c.name = "completeTodoItem"
                                    /\ c.id \in Item /\ shown[p].items[c.id] # "absent"
  <2>1. [busy[p] EXCEPT !.completing = i] \in Disabled
    BY <1>0 DEF Disabled
  <2>2. busy' = [busy EXCEPT ![p] = [busy[p] EXCEPT !.completing = i]]
    BY <1>3 DEF ClickComplete
  <2>3. "completeTodoItem" \in Change /\ i \in List \cup Item
    BY DEF Change
  <2>4. \E c \in PageCall : c.name = "completeTodoItem" /\ c.id = i /\ Grows(p, c)
    <3>1. PICK name \in Change : name = "completeTodoItem"
      BY <2>3
    <3>2. PICK id \in List \cup Item : id = i
      BY <2>3
    <3>3. Enqueue(p, name, id)
      BY <1>3, <3>1, <3>2 DEF ClickComplete
    <3>4. \E c \in PageCall : c.name = name /\ c.id = id /\ Grows(p, c)
      BY <3>1, <3>2, <3>3, EnqueueGrows
    <3> QED
      BY <3>1, <3>2, <3>4
  <2> QED
    BY <1>0, <1>3, <2>1, <2>2, <2>4 DEF ClickComplete, Active
<1>4. ASSUME NEW i \in Item, ClickDelete(p, i)
      PROVE  /\ UNCHANGED <<serverVars, gathered, shown, selected, loading, finished>>
             /\ busy' \in [Page -> Disabled]
             /\ \E c \in PageCall : /\ Grows(p, c) /\ c.name = "deleteTodoItem"
                                    /\ c.id \in Item /\ shown[p].items[c.id] # "absent"
  <2>1. [busy[p] EXCEPT !.deleting = i] \in Disabled
    BY <1>0 DEF Disabled
  <2>2. busy' = [busy EXCEPT ![p] = [busy[p] EXCEPT !.deleting = i]]
    BY <1>4 DEF ClickDelete
  <2>3. "deleteTodoItem" \in Change /\ i \in List \cup Item
    BY DEF Change
  <2>4. \E c \in PageCall : c.name = "deleteTodoItem" /\ c.id = i /\ Grows(p, c)
    <3>1. PICK name \in Change : name = "deleteTodoItem"
      BY <2>3
    <3>2. PICK id \in List \cup Item : id = i
      BY <2>3
    <3>3. Enqueue(p, name, id)
      BY <1>4, <3>1, <3>2 DEF ClickDelete
    <3>4. \E c \in PageCall : c.name = name /\ c.id = id /\ Grows(p, c)
      BY <3>1, <3>2, <3>3, EnqueueGrows
    <3> QED
      BY <3>1, <3>2, <3>4
  <2> QED
    BY <1>0, <1>4, <2>1, <2>2, <2>4 DEF ClickDelete, Active
<1>5. CASE \E l \in List : SubmitList(p, l)
  BY <1>1, <1>5
<1>6. CASE \E i \in Item : SubmitItem(p, i)
  BY <1>2, <1>6
<1>7. CASE \E i \in Item : ClickComplete(p, i)
  BY <1>3, <1>7
<1>8. CASE \E i \in Item : ClickDelete(p, i)
  BY <1>4, <1>8
<1> QED
  BY <1>5, <1>6, <1>7, <1>8 DEF Clicked

(* What the other ends of an action have in common. *)
LEMMA EndTypes ==
    ASSUME PageTypeOK, CallsInv, ActionInv, NEW p \in Page, Gathered(p) \/ LoadEnds(p)
    PROVE  /\ action[p] \in Action /\ action[p].at \in {"success", "failure"}
           /\ Shifted(p, <<>>)
<1>1. action[p] \in Action /\ action[p].at \in {"success", "failure"}
  BY HasAction DEF Gathered, LoadEnds, Over, At, Stage
<1>2. queue' = [queue EXCEPT ![p] = Tail(@)]
  BY DEF Gathered, LoadEnds
<1> QED
  BY <1>1, <1>2, ActionIds, TailIsShift

LEMMA PageTypeStep ==
    ASSUME PageTypeOK, CallsInv, ActionInv, [PageNext]_allVars
    PROVE  PageTypeOK'
<1> USE DEF PageTypeOK
<1>0. /\ action \in [Page -> Action \cup {NoAction}]
      /\ \A p \in Page : [action EXCEPT ![p] = NoAction] \in [Page -> Action \cup {NoAction}]
  BY DEF ServerTypeOK
<1>1. CASE UNCHANGED allVars
  BY <1>1 DEF allVars, pageVars, serverVars, ServerTypeOK
<1>2. ASSUME NEW p \in Page, Clicked(p) PROVE PageTypeOK'
  <2>1. /\ UNCHANGED <<serverVars, gathered, shown, selected, loading, finished>>
        /\ busy' \in [Page -> Disabled]
        /\ queue' \in [Page -> Seq(PageCall)]
    BY <1>2, ClickCalls DEF Grows
  <2>2. ServerTypeOK'
    BY <2>1 DEF serverVars, ServerTypeOK
  <2> QED
    BY <2>1, <2>2
<1>3. ASSUME NEW p \in Page, NEW l \in List, Select(p, l) PROVE PageTypeOK'
  BY <1>3 DEF Select, serverVars, ServerTypeOK
<1>4. ASSUME NEW p \in Page, Dispatch(p) PROVE PageTypeOK'
  <2>1. action' \in [Page -> Action \cup {NoAction}]
    BY <1>0, <1>4, DispatchTypes
  <2> QED
    BY <1>4, <2>1 DEF Dispatch, pageVars, ServerTypeOK
<1>5. ASSUME NEW p \in Page, StateRead(p) \/ EventWritten(p) \/ EventProcessed(p) \/ Throws(p), UNCHANGED pageVars
      PROVE  PageTypeOK'
  <2>1. ServerTypeOK'
    BY <1>5, ServerTypeStep
  <2> QED
    BY <1>5, <2>1 DEF pageVars
<1>6. ASSUME NEW p \in Page, Answered(p) PROVE PageTypeOK'
  <2>1. action[p] \in Action /\ gathered' \in [Page -> View]
    BY <1>6, AnsweredTypes
  <2>2. action' \in [Page -> Action \cup {NoAction}]
    BY <1>6, <2>1, GoesMoves DEF Answered, Stage
  <2>3. ServerTypeOK'
    BY <1>6, <2>2 DEF Answered, ServerTypeOK
  <2> QED
    BY <1>6, <2>1, <2>3 DEF Answered
<1>7. ASSUME NEW p \in Page, Gathered(p) PROVE PageTypeOK'
  <2>1. queue' \in [Page -> Seq(PageCall)]
    BY <1>7, EndTypes DEF Shifted
  <2>2. ServerTypeOK'
    BY <1>0, <1>7 DEF Gathered, ServerTypeOK
  <2> QED
    BY <1>7, <2>1, <2>2 DEF Gathered
<1>8. ASSUME NEW p \in Page, LoadEnds(p) PROVE PageTypeOK'
  <2>1. queue' \in [Page -> Seq(PageCall)]
    BY <1>8, EndTypes DEF Shifted
  <2>2. ServerTypeOK'
    BY <1>0, <1>8 DEF LoadEnds, ServerTypeOK
  <2>3. gathered' \in [Page -> View] /\ shown' \in [Page -> View]
    BY <1>8, LoadEndsTypes
  <2>4. selected' \in [Page -> List \cup {"none"}]
    <3>1. gathered[p].lists \subseteq List
      BY DEF View
    <3> QED
      BY <1>8, <3>1 DEF LoadEnds
  <2>5. loading' \in [Page -> BOOLEAN]
    BY <1>8 DEF LoadEnds
  <2> QED
    BY <1>8, <2>1, <2>2, <2>3, <2>4, <2>5 DEF LoadEnds
<1>9. ASSUME NEW p \in Page, Changed(p) PROVE PageTypeOK'
  <2>0. action[p] \in Action
    BY <1>9, ChangedShifts
  <2>1. queue' \in [Page -> Seq(PageCall)]
    BY <1>9, ChangedShifts DEF Shifted
  <2>2. ServerTypeOK'
    BY <1>0, <1>9 DEF Changed, ServerTypeOK
  <2>3. Released(p) \in Disabled
    <3>1. busy[p] \in Disabled /\ action[p].name \in Change
      BY <1>9 DEF Changed
    <3>2. [busy[p] EXCEPT !.forms = @ \ {"list"}] \in Disabled /\ [busy[p] EXCEPT !.forms = @ \ {"item"}] \in Disabled
      BY <3>1 DEF Disabled
    <3>3. [busy[p] EXCEPT !.completing = "none"] \in Disabled /\ [busy[p] EXCEPT !.deleting = "none"] \in Disabled
      BY <3>1 DEF Disabled
    <3> QED
      BY <3>1, <3>2, <3>3 DEF Released, Change
  <2>4. busy' \in [Page -> Disabled]
    BY <1>9, <2>3 DEF Changed
  <2>5. finished' \in [Page -> SUBSET Item]
    <3>1. action[p].name = "completeTodoItem" => action[p].id \in Item
      BY <2>0, ActionIds DEF ItemChange
    <3> QED
      BY <1>9, <3>1 DEF Changed
  <2> QED
    BY <1>9, <2>1, <2>2, <2>4, <2>5 DEF Changed
<1> QED
  BY <1>1, <1>2, <1>3, <1>4, <1>5, <1>6, <1>7, <1>8, <1>9, PageStepCases DEF Clicked

(* A call names what it changes. *)
LEMMA CallsStep ==
    ASSUME PageTypeOK, CallsInv, ActionInv, [PageNext]_allVars
    PROVE  CallsInv'
<1> DEFINE Named(c) == /\ c.name = "createTodoList" => c.id \in List
                       /\ c.name \in ItemChange => c.id \in Item
<1>0. \A p \in Page : \A k \in 1..Len(queue[p]) : Named(queue[p][k])
  BY DEF CallsInv
<1>1. ASSUME NEW p \in Page, NEW cs \in Seq(PageCall), Shifted(p, cs),
             \A k \in 1..Len(cs) : Named(cs[k])
      PROVE  CallsInv'
  <2>1. ASSUME NEW q \in Page, NEW k \in 1..Len(queue'[q]) PROVE Named(queue'[q][k])
    <3>1. CASE q # p
      BY <1>0, <1>1, <3>1 DEF Shifted
    <3>2. CASE q = p
      <4>1. PICK n \in Nat : n = Len(queue[p])
        BY LenProperties DEF PageTypeOK
      <4>2. PICK m \in Nat : m = Len(cs)
        BY LenProperties
      <4>3. k \in 1..(n - 1 + m)
        BY <1>1, <3>2, <4>1, <4>2 DEF Shifted
      <4>4. CASE k \in 1..(n - 1)
        <5>1. queue'[p][k] = queue[p][k + 1] /\ k + 1 \in 1..n
          BY <1>1, <4>1, <4>4 DEF Shifted
        <5> QED
          BY <1>0, <3>2, <4>1, <5>1
      <4>5. CASE k \notin 1..(n - 1)
        <5>1. PICK j \in 1..m : k = n - 1 + j
          <6>1. k - (n - 1) \in 1..m /\ k = n - 1 + (k - (n - 1))
            BY <4>3, <4>5
          <6> QED
            BY <6>1
        <5>2. queue'[p][n - 1 + j] = cs[j]
          BY <1>1, <4>1, <4>2 DEF Shifted
        <5> QED
          BY <1>1, <3>2, <4>2, <5>1, <5>2
      <4> QED
        BY <4>4, <4>5
    <3> QED
      BY <3>1, <3>2
  <2> QED
    BY <2>1 DEF CallsInv
<1>2. CASE queue' = queue
  BY <1>0, <1>2 DEF CallsInv
<1>3. ASSUME NEW p \in Page, Clicked(p) PROVE CallsInv'
  <2>1. PICK c \in PageCall : Grows(p, c) /\ Named(c)
    BY <1>3, ClickCalls DEF ItemChange
  <2>2. ASSUME NEW q \in Page, NEW k \in 1..Len(queue'[q]) PROVE Named(queue'[q][k])
    <3>1. \/ k \in 1..Len(queue[q]) /\ queue'[q][k] = queue[q][k]
          \/ q = p /\ k = Len(queue[p]) + 1 /\ queue'[q][k] = c
      BY <2>1, <2>2, OneMoreCall
    <3> HIDE DEF Named
    <3> QED
      BY <1>0, <2>1, <3>1
  <2> QED
    BY <2>2 DEF CallsInv
<1>4. ASSUME NEW p \in Page, Gathered(p) \/ LoadEnds(p) PROVE CallsInv'
  <2>1. Shifted(p, <<>>) /\ <<>> \in Seq(PageCall) /\ \A k \in 1..Len(<<>>) : Named(<<>>[k])
    BY <1>4, EndTypes, EmptySeq
  <2> HIDE DEF Named
  <2> QED
    BY <1>1, <2>1
<1>5. ASSUME NEW p \in Page, Changed(p) PROVE CallsInv'
  <2>1. PICK cs \in Seq(PageCall) : Shifted(p, cs) /\ \A k \in 1..Len(cs) : cs[k].name \in Question
    BY <1>5, ChangedShifts
  <2>2. \A k \in 1..Len(cs) : Named(cs[k])
    BY <2>1 DEF Question, ItemChange
  <2> HIDE DEF Named
  <2> QED
    BY <1>1, <2>1, <2>2
<1>6. ASSUME NEW p \in Page,
             \/ \E l \in List : Select(p, l)
             \/ Dispatch(p)
             \/ (StateRead(p) \/ EventWritten(p) \/ EventProcessed(p) \/ Throws(p)) /\ UNCHANGED pageVars
             \/ Answered(p)
      PROVE  queue' = queue
  BY <1>6 DEF Select, Dispatch, pageVars, Answered
<1>7. CASE UNCHANGED allVars
  BY <1>2, <1>7 DEF allVars, pageVars
<1> QED
  BY <1>2, <1>3, <1>4, <1>5, <1>6, <1>7, PageStepCases DEF Clicked

-----------------------------------------------------------------------------
(* The pages' actions                                                       *)

(* A server action goes on from one stage to another and stays what it is. *)
LEMMA ServerMoves ==
    ASSUME PageTypeOK, CallsInv, ActionInv, NEW p \in Page,
           StateRead(p) \/ EventWritten(p) \/ EventProcessed(p) \/ Throws(p)
    PROVE  /\ action[p] \in Action /\ action'[p] \in Action
           /\ action'[p].name = action[p].name
           /\ action'[p].id = action[p].id
           /\ \A q \in Page : q # p => action'[q] = action[q]
           /\ ~Throws(p) => action[p].name \in Change /\ faults' = faults
           /\ \/ StateRead(p) /\ action[p].at = "state" /\ action'[p].at \in {"write", "failure"}
              \/ /\ EventWritten(p) /\ action[p].at = "write" /\ action'[p].at \in {"process", "failure"}
                 /\ action'[p].number = action[p].number
              \/ /\ EventProcessed(p) /\ action[p].at = "process" /\ action'[p].at = "success"
                 /\ action'[p].number = action[p].number
              \/ /\ Throws(p) /\ action[p].at \in Awaited /\ action'[p].at = "failure"
                 /\ faults' = faults + 1
<1>0. action \in [Page -> Action \cup {NoAction}]
  BY DEF PageTypeOK, ServerTypeOK
<1>1. CASE StateRead(p)
  <2>1. action[p] \in Action /\ action[p].at = "state"
    BY <1>1, HasAction DEF StateRead, At, Stage, Awaited
  <2>2. action[p].name \in Change /\ faults' = faults
    BY <1>1, <2>1, ActionIds DEF StateRead
  <2>3. CASE Goes(p, "failure")
    <3>1. "failure" \in Stage
      BY DEF Stage
    <3> QED
      BY <1>1, <2>1, <2>2, <2>3, <3>1, GoesMoves
  <2>4. CASE \E n \in Nat : action' = [action EXCEPT ![p].number = n + 1, ![p].at = "write"]
    <3>1. PICK n \in Nat : action' = [action EXCEPT ![p].number = n + 1, ![p].at = "write"]
      BY <2>4
    <3>2. PICK m \in Nat : m = n + 1
      OBVIOUS
    <3>3. PICK a \in Action : a = [action[p] EXCEPT !.number = m] /\ a.name = action[p].name /\ a.id = action[p].id
      <4>1. [action[p] EXCEPT !.number = m] \in Action
        BY <2>1 DEF Action
      <4>2. /\ [action[p] EXCEPT !.number = m].name = action[p].name
            /\ [action[p] EXCEPT !.number = m].id = action[p].id
        BY <2>1 DEF Action
      <4> QED
        BY <4>1, <4>2
    <3>4. PICK b \in Action : b = [a EXCEPT !.at = "write"] /\ b.name = a.name /\ b.id = a.id /\ b.at = "write"
      <4>1. [a EXCEPT !.at = "write"] \in Action
        BY DEF Action, Awaited
      <4>2. /\ [a EXCEPT !.at = "write"].name = a.name
            /\ [a EXCEPT !.at = "write"].id = a.id
            /\ [a EXCEPT !.at = "write"].at = "write"
        BY DEF Action
      <4> QED
        BY <4>1, <4>2
    <3>5. action' = [action EXCEPT ![p] = b]
      BY <1>0, <3>1, <3>2, <3>3, <3>4
    <3>6. action'[p] = b /\ \A q \in Page : q # p => action'[q] = action[q]
      BY <1>0, <3>5
    <3> QED
      BY <1>1, <2>1, <2>2, <3>3, <3>4, <3>6
  <2>5. Goes(p, "failure") \/ \E n \in Nat : action' = [action EXCEPT ![p].number = n + 1, ![p].at = "write"]
    <3>1. action[p].id \in List \cup Item
      BY <2>1, <2>2, ActionIds, EventOfType
    <3>2. Len(events[action[p].id]) \in Nat
      BY <3>1, LenProperties DEF PageTypeOK, ServerTypeOK
    <3> QED
      BY <1>1, <3>2 DEF StateRead
  <2> QED
    BY <2>3, <2>4, <2>5
<1>2. CASE EventWritten(p)
  <2>1. action[p] \in Action /\ action[p].at = "write"
    BY <1>2, HasAction DEF EventWritten, At, Stage, Awaited
  <2>2. action[p].name \in Change /\ faults' = faults
    BY <1>2, <2>1, ActionIds DEF EventWritten
  <2>3. PICK to \in Stage : Goes(p, to) /\ to \in {"process", "failure"}
    BY <1>2 DEF EventWritten, Stage, Awaited
  <2> QED
    BY <1>2, <2>1, <2>2, <2>3, GoesMoves
<1>3. CASE EventProcessed(p)
  <2>1. action[p] \in Action /\ action[p].at = "process"
    BY <1>3, HasAction DEF EventProcessed, At, Stage, Awaited
  <2>2. action[p].name \in Change /\ faults' = faults
    BY <1>3, <2>1, ActionIds DEF EventProcessed
  <2>3. PICK to \in Stage : Goes(p, to) /\ to = "success"
    BY <1>3 DEF EventProcessed, Stage
  <2> QED
    BY <1>3, <2>1, <2>2, <2>3, GoesMoves
<1>4. CASE Throws(p)
  <2>1. action[p] \in Action /\ action[p].at \in Awaited
    BY <1>4, HasAction DEF Throws, Stage
  <2>2. PICK to \in Stage : Goes(p, to) /\ to = "failure"
    BY <1>4 DEF Throws, Stage
  <2>3. faults' = faults + 1
    BY <1>4 DEF Throws
  <2> QED
    BY <1>4, <2>1, <2>2, <2>3, GoesMoves
<1> QED
  BY <1>1, <1>2, <1>3, <1>4

(* A query's answer is its end. *)
LEMMA AnsweredMoves ==
    ASSUME PageTypeOK, CallsInv, ActionInv, NEW p \in Page, Answered(p)
    PROVE  /\ action[p] \in Action /\ action'[p] \in Action
           /\ action[p].at = "query" /\ action'[p].at = "success"
           /\ action'[p].name = action[p].name
           /\ action'[p].id = action[p].id
           /\ \A q \in Page : q # p => action'[q] = action[q]
<1>1. action[p] \in Action /\ action[p].at = "query"
  BY AnsweredTypes DEF Answered, At
<1>2. PICK to \in Stage : Goes(p, to) /\ to = "success"
  BY DEF Answered, Stage
<1> QED
  BY <1>1, <1>2, GoesMoves

(* An action that is over leaves its page without one. *)
LEMMA EndMoves ==
    ASSUME PageTypeOK, NEW p \in Page, Gathered(p) \/ LoadEnds(p) \/ Changed(p)
    PROVE  action'[p] = NoAction /\ \A q \in Page : q # p => action'[q] = action[q]
<1>1. action' = [action EXCEPT ![p] = NoAction]
  BY DEF Gathered, LoadEnds, Changed
<1> QED
  BY <1>1 DEF PageTypeOK, ServerTypeOK

(* The next call becomes the page's action. *)
LEMMA DispatchMoves ==
    ASSUME PageTypeOK, NEW p \in Page, Dispatch(p)
    PROVE  /\ action[p] = NoAction /\ action'[p] # NoAction
           /\ action'[p].name = queue[p][1].name
           /\ action'[p].id = queue[p][1].id
           /\ action'[p].name \in Question => action'[p].at = "query"
           /\ action'[p].name \in Change => action'[p].at \in {"state", "write"}
           /\ action'[p].name \in Question \cup Change
           /\ \A q \in Page : q # p => action'[q] = action[q]
<1>0. action \in [Page -> Action \cup {NoAction}] /\ action[p] = NoAction
  BY DEF PageTypeOK, ServerTypeOK, Dispatch
<1>1. PICK a \in Action : a = ActionOf(queue[p][1].name, queue[p][1].id) /\ action' = [action EXCEPT ![p] = a]
  BY DispatchTypes
<1>2. a # NoAction
  BY DEF Action, NoAction, Change, Question
<1>3. a.name = queue[p][1].name /\ a.id = queue[p][1].id /\ a.at = First(a.name)
  BY <1>1 DEF ActionOf
<1>4. a.name \in Question \cup Change
  BY DEF Action
<1>5. a.name \in Question => First(a.name) = "query"
  BY DEF First, Question
<1>6. a.name \in Change => First(a.name) \in {"state", "write"}
  BY DEF First, Change, Question
<1> QED
  BY <1>0, <1>1, <1>2, <1>3, <1>4, <1>5, <1>6

(* The first call of a queue that grows at its end. *)
LEMMA HeadStays ==
    ASSUME PageTypeOK, NEW p \in Page, NEW c, Grows(p, c), NEW q \in Page, queue[q] # <<>>
    PROVE  queue'[q] # <<>> /\ queue'[q][1] = queue[q][1]
<1>1. CASE q # p
  BY <1>1 DEF Grows
<1>2. CASE q = p
  <2>1. PICK n \in Nat : n = Len(queue[p]) /\ n # 0
    BY <1>2, LenProperties, EmptySeq DEF PageTypeOK
  <2>2. queue'[p][1] = queue[p][1] /\ Len(queue'[p]) = n + 1
    BY <2>1 DEF Grows
  <2>3. queue'[p] # <<>>
    BY <2>1, <2>2, EmptySeq
  <2> QED
    BY <1>2, <2>2, <2>3
<1> QED
  BY <1>1, <1>2

LEMMA ActionStep ==
    ASSUME PageTypeOK, CallsInv, ActionInv, [PageNext]_allVars
    PROVE  ActionInv'
<1> DEFINE Follows(q, a) ==
               /\ queue[q] # <<>>
               /\ a.name = queue[q][1].name
               /\ a.id = queue[q][1].id
               /\ a.name \in Question => a.at \in {"query", "success", "failure"}
               /\ a.name \in Change => a.at \in {"state", "write", "process", "success", "failure"}
<1>0. \A q \in Page : action[q] # NoAction => Follows(q, action[q])
  BY DEF ActionInv
<1>1. ASSUME NEW p \in Page, Clicked(p) PROVE ActionInv'
  <2>1. PICK c \in PageCall : Grows(p, c) /\ action' = action
    BY <1>1, ClickCalls DEF serverVars
  <2>2. ASSUME NEW q \in Page, action[q] # NoAction PROVE queue'[q] # <<>> /\ queue'[q][1] = queue[q][1]
    BY <1>0, <2>1, <2>2, HeadStays
  <2> QED
    BY <1>0, <2>1, <2>2 DEF ActionInv
<1>2. CASE UNCHANGED <<action, queue>>
  BY <1>2 DEF ActionInv
<1>3. ASSUME NEW p \in Page, Dispatch(p) PROVE ActionInv'
  <2>1. queue[p] # <<>> /\ queue' = queue
    BY <1>3 DEF Dispatch, pageVars
  <2>2. action'[p].name \in Question => action'[p].name \notin Change
    BY DEF Question, Change
  <2> QED
    BY <1>0, <1>3, <2>1, <2>2, DispatchMoves DEF ActionInv
<1>4. ASSUME NEW p \in Page, StateRead(p) \/ EventWritten(p) \/ EventProcessed(p) \/ Throws(p), queue' = queue
      PROVE  ActionInv'
  <2>1. /\ Follows(p, action[p])
        /\ action'[p].name = action[p].name /\ action'[p].id = action[p].id
        /\ \A q \in Page : q # p => action'[q] = action[q]
    BY <1>0, <1>4, ServerMoves, HasAction
  <2>2. /\ action'[p].name \in Question => action'[p].at = "failure"
        /\ action'[p].at \in {"write", "process", "success", "failure"}
    <3>1. action[p].name \in Change => action[p].name \notin Question
      BY DEF Question, Change
    <3> QED
      BY <1>4, <2>1, <3>1, ServerMoves
  <2> QED
    BY <1>0, <1>4, <2>1, <2>2 DEF ActionInv
<1>5. ASSUME NEW p \in Page, Answered(p) PROVE ActionInv'
  <2>1. Follows(p, action[p]) /\ queue' = queue
    BY <1>0, <1>5, AnsweredMoves, HasAction DEF Answered
  <2> QED
    BY <1>0, <1>5, <2>1, AnsweredMoves DEF ActionInv
<1>6. ASSUME NEW p \in Page, NEW cs, Shifted(p, cs), Gathered(p) \/ LoadEnds(p) \/ Changed(p) PROVE ActionInv'
  <2>1. \A q \in Page : q # p => queue'[q] = queue[q]
    BY <1>6 DEF Shifted
  <2> QED
    BY <1>0, <1>6, <2>1, EndMoves DEF ActionInv
<1>7. ASSUME NEW p \in Page, Gathered(p) \/ LoadEnds(p) \/ Changed(p) PROVE \E cs : Shifted(p, cs)
  BY <1>7, EndTypes, ChangedShifts
<1> QED
  BY <1>1, <1>2, <1>3, <1>4, <1>5, <1>6, <1>7, PageStepCases DEF Clicked, Select, serverVars, pageVars, allVars

-----------------------------------------------------------------------------
(* The log, and what was processed of it                                    *)

\* No event is stored or processed.
Quiet ==
    /\ UNCHANGED <<events, items, processed, faults>>
    /\ \A q \in Page : /\ action'[q].at = "process" <=> action[q].at = "process"
                       /\ action[q].at = "process" => action'[q] = action[q]

\* Page p's action fails, and what it has stored is not processed.
Drops(p) ==
    /\ UNCHANGED <<events, items, processed>>
    /\ faults' # 0
    /\ action'[p].at = "failure"
    /\ \A q \in Page : q # p => action'[q] = action[q]

\* Page p's action stores its event, and goes on to process it or has failed.
Stores(p) ==
    /\ action[p].at = "write"
    /\ IsNext(action[p])
    /\ Store(action[p])
    /\ UNCHANGED <<items, processed>>
    /\ action'[p].name = action[p].name
    /\ action'[p].id = action[p].id
    /\ \/ action'[p].at = "process" /\ action'[p].number = action[p].number /\ faults' = faults
       \/ action'[p].at = "failure" /\ faults' # 0
    /\ \A q \in Page : q # p => action'[q] = action[q]

LEMMA LogCases ==
    ASSUME PageTypeOK, CallsInv, ActionInv, [PageNext]_allVars
    PROVE  Quiet \/ \E p \in Page : Drops(p) \/ Stores(p) \/ EventProcessed(p)
<1>0. faults \in Nat
  BY DEF PageTypeOK, ServerTypeOK
<1>1. CASE UNCHANGED <<events, items, processed, faults, action>>
  BY <1>1 DEF Quiet
<1>2. ASSUME NEW p \in Page, Dispatch(p) PROVE Quiet
  <2>1. action[p].at # "process" /\ action'[p].at # "process"
    <3>1. action'[p].at \in {"query", "state", "write"} /\ action[p] = NoAction
      BY <1>2, DispatchMoves
    <3> QED
      BY <3>1 DEF NoAction
  <2>2. UNCHANGED <<events, items, processed, faults>>
    BY <1>2 DEF Dispatch
  <2> QED
    BY <1>2, <2>1, <2>2, DispatchMoves DEF Quiet
<1>3. ASSUME NEW p \in Page, Answered(p) PROVE Quiet
  <2>1. UNCHANGED <<events, items, processed, faults>>
    BY <1>3 DEF Answered
  <2> QED
    BY <1>3, <2>1, AnsweredMoves DEF Quiet
<1>4. ASSUME NEW p \in Page, Gathered(p) \/ LoadEnds(p) \/ Changed(p) PROVE Quiet
  <2>1. action[p].at \in {"success", "failure"} /\ UNCHANGED <<events, items, processed, faults>>
    BY <1>4 DEF Gathered, LoadEnds, Changed, Over, At
  <2>2. action'[p].at = "none"
    BY <1>4, EndMoves DEF NoAction
  <2> QED
    BY <1>4, <2>1, <2>2, EndMoves DEF Quiet
<1>5. ASSUME NEW p \in Page, StateRead(p) \/ EventWritten(p) \/ EventProcessed(p) \/ Throws(p)
      PROVE  Quiet \/ Drops(p) \/ Stores(p) \/ EventProcessed(p)
  <2>1. CASE StateRead(p) /\ action[p].at = "state" /\ action'[p].at \in {"write", "failure"}
    <3>1. UNCHANGED <<events, items, processed, faults>>
      BY <2>1 DEF StateRead
    <3> QED
      BY <1>5, <2>1, <3>1, ServerMoves DEF Quiet
  <2>2. CASE /\ EventWritten(p) /\ action[p].at = "write" /\ action'[p].at \in {"process", "failure"}
             /\ action'[p].number = action[p].number
    <3>1. UNCHANGED <<items, processed, faults>>
      BY <2>2 DEF EventWritten
    <3>2. CASE IsNext(action[p])
      <4>1. Store(action[p]) /\ Goes(p, "process")
        BY <2>2, <3>2 DEF EventWritten
      <4>2. action[p] \in Action /\ "process" \in Stage
        BY <1>5, ServerMoves DEF Stage, Awaited
      <4>3. action'[p].at = "process"
        BY <4>1, <4>2, GoesMoves
      <4> QED
        BY <1>5, <2>2, <3>1, <3>2, <4>1, <4>3, ServerMoves DEF Stores
    <3>3. CASE ~IsNext(action[p])
      <4>1. UNCHANGED events /\ Goes(p, "failure")
        BY <2>2, <3>3 DEF EventWritten
      <4>2. action[p] \in Action /\ "failure" \in Stage
        BY <1>5, ServerMoves DEF Stage
      <4>3. action'[p].at = "failure"
        BY <4>1, <4>2, GoesMoves
      <4> QED
        BY <1>5, <2>2, <3>1, <4>1, <4>3, ServerMoves DEF Quiet
    <3> QED
      BY <3>2, <3>3
  <2>3. CASE /\ Throws(p) /\ action[p].at \in Awaited /\ action'[p].at = "failure"
             /\ faults' = faults + 1
    <3>1. faults' # 0 /\ UNCHANGED <<items, processed>>
      BY <1>0, <2>3 DEF Throws
    <3>2. UNCHANGED events \/ (action[p].at = "write" /\ IsNext(action[p]) /\ Store(action[p]))
      BY <2>3 DEF Throws
    <3> QED
      BY <1>5, <2>3, <3>1, <3>2, ServerMoves DEF Drops, Stores
  <2> QED
    BY <1>5, <2>1, <2>2, <2>3, ServerMoves
<1> QED
  BY <1>1, <1>2, <1>3, <1>4, <1>5, PageStepCases DEF Clicked, allVars, serverVars, Select, SubmitList,
     SubmitItem, ClickComplete, ClickDelete

(* A stored event is the next one of its item, and no other log changes. *)
LEMMA StoresAppends ==
    ASSUME PageTypeOK, CallsInv, ActionInv, HistoryInv, NEW p \in Page, Stores(p), NEW i \in Item
    PROVE  /\ action[p].id # i => events'[i] = events[i]
           /\ action[p].id = i =>
                 /\ action[p].name \in ItemChange
                 /\ action[p].number = Len(events[i]) + 1
                 /\ Len(events[i]) \in Nat
                 /\ events'[i] \in Seq(TodoEvent)
                 /\ Len(events'[i]) = Len(events[i]) + 1
                 /\ \A n \in 1..Len(events[i]) : events'[i][n] = events[i][n]
                 /\ events'[i][Len(events[i]) + 1] = EventOf(action[p].name)
<1>0. events \in [List \cup Item -> Seq(TodoEvent \cup {"todo_list_created"})]
  BY DEF PageTypeOK, ServerTypeOK
<1>1. action[p] \in Action /\ action[p].name \in Change
  <2>1. action[p] \in Action
    BY HasAction DEF Stores, Stage, Awaited
  <2> QED
    BY <2>1, ActionIds DEF Stores
<1>2. events' = [events EXCEPT ![action[p].id] = Append(@, EventOf(action[p].name))]
  BY DEF Stores, Store
<1>3. CASE action[p].id # i
  BY <1>0, <1>2, <1>3
<1>4. CASE action[p].id = i
  <2>1. action[p].name \in ItemChange
    <3>1. i \notin List
      BY TodoActionsAssumption
    <3> QED
      BY <1>1, <1>4, <3>1, ActionIds, EventOfType
  <2>2. PICK type \in TodoEvent : type = EventOf(action[p].name)
    BY <1>1, <2>1, EventOfType
  <2>3. PICK s \in Seq(TodoEvent) : s = events[i]
    BY DEF HistoryInv
  <2>4. events'[i] = Append(s, type)
    BY <1>0, <1>2, <1>4, <2>2, <2>3
  <2>5. action[p].number = Len(s) + 1
    BY <1>4, <2>3 DEF Stores, IsNext
  <2>6. Len(s) \in Nat
    BY LenProperties
  <2> QED
    BY <1>4, <2>1, <2>2, <2>3, <2>4, <2>5, <2>6, AppendProperties
<1> QED
  BY <1>3, <1>4

(* A processed event is one its page owed, and no other item changes. *)
LEMMA ProcessedAppends ==
    ASSUME PageTypeOK, CallsInv, ActionInv, OwedInv, NEW p \in Page, EventProcessed(p), NEW i \in Item
    PROVE  /\ events' = events /\ faults' = faults
           /\ action'[p].at = "success"
           /\ action'[p].name = action[p].name /\ action'[p].id = action[p].id
           /\ \A q \in Page : q # p => action'[q] = action[q]
           /\ action[p].id # i => items'[i] = items[i] /\ processed'[i] = processed[i]
           /\ action[p].id = i =>
                 /\ Owes(p, i)
                 /\ items'[i] = Project(items[i], EventOf(action[p].name))
                 /\ processed'[i] \in Seq(Nat)
                 /\ Len(processed[i]) \in Nat
                 /\ Len(processed'[i]) = Len(processed[i]) + 1
                 /\ \A k \in 1..Len(processed[i]) : processed'[i][k] = processed[i][k]
                 /\ processed'[i][Len(processed[i]) + 1] = action[p].number
<1>0. items \in [Item -> Status \cup {"absent"}] /\ processed \in [Item -> Seq(Nat)]
  BY DEF PageTypeOK, ServerTypeOK
<1>1. action[p] \in Action /\ action[p].at = "process"
  BY HasAction DEF EventProcessed, At, Stage, Awaited
<1>2. action[p].name \in Change /\ action[p].number \in Nat
  BY <1>1, ActionIds DEF Action
<1>3. /\ events' = events /\ faults' = faults /\ action'[p].at = "success"
      /\ action'[p].name = action[p].name /\ action'[p].id = action[p].id
      /\ \A q \in Page : q # p => action'[q] = action[q]
  <2>1. events' = events /\ faults' = faults
    BY DEF EventProcessed
  <2>2. "success" \in Stage /\ Goes(p, "success")
    BY DEF EventProcessed, Stage
  <2> QED
    BY <1>1, <2>1, <2>2, GoesMoves
<1>4. CASE action[p].name = "createTodoList"
  <2>1. action[p].id \in List /\ i \notin List
    BY <1>1, <1>4, ActionIds, TodoActionsAssumption
  <2>2. items' = items /\ processed' = processed
    BY <1>4 DEF EventProcessed, Process
  <2> QED
    BY <1>3, <2>1, <2>2
<1>5. CASE action[p].name # "createTodoList"
  <2>1. PICK a \in Item : a = action[p].id
    BY <1>1, <1>2, <1>5, ActionIds, EventOfType
  <2>2. PICK n \in Nat : n = action[p].number
    BY <1>2
  <2>3. /\ items' = [items EXCEPT ![a] = Project(@, EventOf(action[p].name))]
        /\ processed' = [processed EXCEPT ![a] = Append(@, n)]
    BY <1>5, <2>1, <2>2 DEF EventProcessed, Process
  <2>4. CASE a # i
    BY <1>0, <1>3, <2>1, <2>3, <2>4
  <2>5. CASE a = i
    <3>1. PICK s \in Seq(Nat) : s = processed[i]
      BY <1>0
    <3>2. processed'[i] = Append(s, n) /\ Len(s) \in Nat
      BY <1>0, <2>3, <2>5, <3>1, LenProperties
    <3>3. items'[i] = Project(items[i], EventOf(action[p].name))
      BY <1>0, <2>3, <2>5
    <3>4. Owes(p, i)
      BY <1>1, <2>1, <2>5 DEF Owes, At
    <3> QED
      BY <1>3, <2>1, <2>2, <2>5, <3>1, <3>2, <3>3, <3>4, AppendProperties
  <2> QED
    BY <2>4, <2>5
<1> QED
  BY <1>4, <1>5

(* The types of what was processed, while the log only grows. *)
LEMMA TypesAre ==
    ASSUME PageTypeOK, HistoryInv, NEW i \in Item
    PROVE  /\ ProcessedTypes(i) \in Seq(TodoEvent)
           /\ Len(ProcessedTypes(i)) = Len(processed[i])
           /\ Len(processed[i]) \in Nat
           /\ \A k \in 1..Len(processed[i]) : ProcessedTypes(i)[k] = events[i][processed[i][k]]
<1>1. PICK m \in Nat : m = Len(processed[i])
  BY LenProperties DEF PageTypeOK, ServerTypeOK
<1>2. ASSUME NEW k \in 1..m PROVE events[i][processed[i][k]] \in TodoEvent
  <2>1. events[i] \in Seq(TodoEvent) /\ processed[i][k] \in 1..Len(events[i])
    BY <1>1 DEF HistoryInv
  <2> QED
    BY <2>1, ElementOfSeq
<1>3. PICK t : t = [k \in 1..m |-> events[i][processed[i][k]]]
  OBVIOUS
<1>4. t \in Seq(TodoEvent) /\ Len(t) = m
  BY <1>2, <1>3
<1> QED
  BY <1>1, <1>3, <1>4 DEF ProcessedTypes

LEMMA TypesStay ==
    ASSUME PageTypeOK, HistoryInv, NEW i \in Item, processed'[i] = processed[i],
           \A n \in 1..Len(events[i]) : events'[i][n] = events[i][n]
    PROVE  ProcessedTypes(i)' = ProcessedTypes(i)
<1>1. \A k \in 1..Len(processed[i]) : events'[i][processed[i][k]] = events[i][processed[i][k]]
  BY DEF HistoryInv
<1> QED
  BY <1>1 DEF ProcessedTypes

LEMMA HistoryStep ==
    ASSUME PageTypeOK, CallsInv, ActionInv, HistoryInv, OwedInv, [PageNext]_allVars
    PROVE  HistoryInv'
<1> DEFINE Kept(i) == /\ events[i] \in Seq(TodoEvent)
                      /\ \A k \in 1..Len(processed[i]) : processed[i][k] \in 1..Len(events[i])
                      /\ items[i] = Projected(ProcessedTypes(i))
<1>0. \A i \in Item : Kept(i)
  BY DEF HistoryInv
<1>1. ASSUME UNCHANGED <<events, items, processed>> PROVE HistoryInv'
  BY <1>0, <1>1 DEF HistoryInv, ProcessedTypes
<1>2. ASSUME NEW p \in Page, Stores(p), NEW i \in Item PROVE Kept(i)'
  <2>1. items'[i] = items[i] /\ processed'[i] = processed[i]
    BY <1>2 DEF Stores
  <2>2. CASE action[p].id # i
    <3>1. events'[i] = events[i]
      BY <1>2, <2>2, StoresAppends
    <3> QED
      BY <1>0, <2>1, <3>1 DEF ProcessedTypes
  <2>3. CASE action[p].id = i
    <3>1. /\ events'[i] \in Seq(TodoEvent)
          /\ Len(events[i]) \in Nat
          /\ Len(events'[i]) = Len(events[i]) + 1
          /\ \A n \in 1..Len(events[i]) : events'[i][n] = events[i][n]
      BY <1>2, <2>3, StoresAppends
    <3>2. ProcessedTypes(i)' = ProcessedTypes(i)
      BY <2>1, <3>1, TypesStay
    <3>3. \A k \in 1..Len(processed'[i]) : processed'[i][k] \in 1..Len(events'[i])
      BY <1>0, <2>1, <3>1
    <3> QED
      BY <1>0, <2>1, <3>1, <3>2, <3>3
  <2> QED
    BY <2>2, <2>3
<1>3. ASSUME NEW p \in Page, EventProcessed(p), NEW i \in Item PROVE Kept(i)'
  <2>1. CASE action[p].id # i
    <3>1. items'[i] = items[i] /\ processed'[i] = processed[i] /\ events' = events
      BY <1>3, <2>1, ProcessedAppends
    <3> QED
      BY <1>0, <3>1 DEF ProcessedTypes
  <2>2. CASE action[p].id = i
    <3>1. PICK m \in Nat : m = Len(processed[i])
      BY TypesAre
    <3>2. PICK n \in 1..Len(events[i]) : n = action[p].number /\ events[i][n] = EventOf(action[p].name)
      BY <1>3, <2>2, ProcessedAppends DEF OwedInv
    <3>3. PICK e \in TodoEvent : e = events[i][n]
      BY <1>0, ElementOfSeq
    <3>4. /\ events' = events
          /\ items'[i] = Project(items[i], e)
          /\ Len(processed'[i]) = m + 1
          /\ \A k \in 1..m : processed'[i][k] = processed[i][k]
          /\ processed'[i][m + 1] = n
      BY <1>3, <2>2, <3>1, <3>2, <3>3, ProcessedAppends
    <3>5. \A k \in 1..(m + 1) : processed'[i][k] \in 1..Len(events[i])
      <4>1. \A k \in 1..(m + 1) : k \in 1..m \/ k = m + 1
        OBVIOUS
      <4> QED
        BY <1>0, <3>1, <3>2, <3>4, <4>1
    <3>6. PICK s \in Seq(TodoEvent) : s = ProcessedTypes(i) /\ Len(s) = m /\ \A k \in 1..m : s[k] = events[i][processed[i][k]]
      BY <3>1, TypesAre
    <3>7. PICK t : t = [k \in 1..(m + 1) |-> events[i][processed'[i][k]]]
      OBVIOUS
    <3>8. t \in Seq(TodoEvent) /\ Len(t) = m + 1
      <4>1. \A k \in 1..(m + 1) : events[i][processed'[i][k]] \in TodoEvent
        BY <1>0, <3>5, ElementOfSeq
      <4> QED
        BY <3>7, <4>1
    <3>9. t = Append(s, e)
      <4>0. /\ Append(s, e) \in Seq(TodoEvent)
            /\ Len(Append(s, e)) = m + 1
            /\ \A k \in 1..m : Append(s, e)[k] = s[k]
            /\ Append(s, e)[m + 1] = e
        <5>1. Append(s, e) \in Seq(TodoEvent) /\ Len(Append(s, e)) = Len(s) + 1
          BY AppendProperties
        <5>2. \A k \in 1..Len(s) : Append(s, e)[k] = s[k]
          BY AppendProperties
        <5>3. Append(s, e)[Len(s) + 1] = e
          BY AppendProperties
        <5> QED
          BY <3>6, <5>1, <5>2, <5>3
      <4>1. PICK a \in Seq(TodoEvent) : /\ a = Append(s, e) /\ Len(a) = m + 1
                                        /\ \A k \in 1..m : a[k] = s[k]
                                        /\ a[m + 1] = e
        BY <4>0
      <4>2. ASSUME NEW k \in 1..(m + 1) PROVE a[k] = t[k]
        <5>1. CASE k \in 1..m
          BY <3>4, <3>6, <3>7, <4>1, <5>1
        <5>2. CASE k = m + 1
          BY <3>3, <3>4, <3>7, <4>1, <5>2
        <5> QED
          BY <5>1, <5>2
      <4> QED
        BY <3>8, <4>1, <4>2, SeqEqual
    <3>10. ProcessedTypes(i)' = t
      BY <3>4, <3>7 DEF ProcessedTypes
    <3>11. items'[i] = Projected(t)
      BY <1>0, <3>4, <3>6, <3>9, ProjectedAppend
    <3> QED
      BY <1>0, <3>4, <3>5, <3>10, <3>11
  <2> QED
    BY <2>1, <2>2
<1>4. CASE Quiet
  BY <1>1, <1>4 DEF Quiet
<1>5. CASE \E p \in Page : Drops(p)
  BY <1>1, <1>5 DEF Drops
<1>6. CASE \E p \in Page : Stores(p)
  <2>1. PICK p \in Page : Stores(p)
    BY <1>6
  <2>2. \A i \in Item : Kept(i)'
    BY <1>2, <2>1
  <2> QED
    BY <2>2 DEF HistoryInv
<1>7. CASE \E p \in Page : EventProcessed(p)
  <2>1. PICK p \in Page : EventProcessed(p)
    BY <1>7
  <2>2. \A i \in Item : Kept(i)'
    BY <1>3, <2>1
  <2> QED
    BY <2>2 DEF HistoryInv
<1> QED
  BY <1>4, <1>5, <1>6, <1>7, LogCases

LEMMA OwedStep ==
    ASSUME PageTypeOK, CallsInv, ActionInv, HistoryInv, OwedInv, [PageNext]_allVars
    PROVE  OwedInv'
<1> DEFINE Known(i, a) == /\ a.name \in ItemChange
                          /\ a.number \in 1..Len(events[i])
                          /\ events[i][a.number] = EventOf(a.name)
<1>0. \A q \in Page : \A i \in Item : Owes(q, i) => Known(i, action[q])
  BY DEF OwedInv
<1>1. CASE Quiet
  BY <1>0, <1>1 DEF OwedInv, Owes, At, Quiet
<1>2. CASE \E p \in Page : Drops(p)
  BY <1>0, <1>2 DEF OwedInv, Owes, At, Drops
<1>3. CASE \E p \in Page : EventProcessed(p)
  <2>1. PICK p \in Page : EventProcessed(p)
    BY <1>3
  <2>2. ASSUME NEW q \in Page, NEW i \in Item, Owes(q, i)' PROVE Known(i, action[q])'
    BY <1>0, <2>1, <2>2, ProcessedAppends DEF Owes, At
  <2> QED
    BY <2>2 DEF OwedInv
<1>4. CASE \E p \in Page : Stores(p)
  <2>1. PICK p \in Page : Stores(p)
    BY <1>4
  <2>2. ASSUME NEW q \in Page, NEW i \in Item, Owes(q, i)' PROVE Known(i, action[q])'
    <3>1. CASE q = p
      <4>1. /\ action[p].id = i
            /\ action'[p].name = action[p].name
            /\ action'[p].number = action[p].number
        BY <2>1, <2>2, <3>1 DEF Owes, At, Stores
      <4>2. /\ action[p].name \in ItemChange
            /\ action[p].number = Len(events[i]) + 1
            /\ Len(events[i]) \in Nat
            /\ Len(events'[i]) = Len(events[i]) + 1
            /\ events'[i][Len(events[i]) + 1] = EventOf(action[p].name)
        BY <2>1, <4>1, StoresAppends
      <4> QED
        BY <3>1, <4>1, <4>2
    <3>2. CASE q # p
      <4>1. action'[q] = action[q] /\ Known(i, action[q])
        BY <1>0, <2>1, <2>2, <3>2 DEF Owes, At, Stores
      <4>2. CASE action[p].id # i
        BY <2>1, <4>1, <4>2, StoresAppends
      <4>3. CASE action[p].id = i
        BY <2>1, <4>1, <4>3, StoresAppends
      <4> QED
        BY <4>2, <4>3
    <3> QED
      BY <3>1, <3>2
  <2> QED
    BY <2>2 DEF OwedInv
<1> QED
  BY <1>1, <1>2, <1>3, <1>4, LogCases

LEMMA OnceStep ==
    ASSUME PageTypeOK, CallsInv, ActionInv, HistoryInv, OwedInv, OnceInv, [PageNext]_allVars
    PROVE  OnceInv'
<1> DEFINE Once(i) == \A j, k \in 1..Len(processed[i]) : processed[i][j] = processed[i][k] => j = k
           New(q, i) == \A k \in 1..Len(processed[i]) : processed[i][k] # action[q].number
           Sole(q, i) == \A r \in Page : Owes(r, i) /\ action[r].number = action[q].number => r = q
<1>0. \A i \in Item : Once(i) /\ \A q \in Page : Owes(q, i) => New(q, i) /\ Sole(q, i)
  BY DEF OnceInv
<1>1. CASE Quiet
  BY <1>0, <1>1 DEF OnceInv, Owes, At, Quiet
<1>2. CASE \E p \in Page : Drops(p)
  <2>1. PICK p \in Page : Drops(p)
    BY <1>2
  <2>2. \A q \in Page : \A i \in Item : Owes(q, i)' => q # p /\ Owes(q, i) /\ action'[q] = action[q]
    BY <2>1 DEF Owes, At, Drops
  <2>3. processed' = processed
    BY <2>1 DEF Drops
  <2> QED
    BY <1>0, <2>2, <2>3 DEF OnceInv
<1>3. ASSUME NEW p \in Page, Stores(p), NEW i \in Item
      PROVE  Once(i)' /\ \A q \in Page : Owes(q, i)' => New(q, i)' /\ Sole(q, i)'
  <2>1. processed' = processed /\ \A q \in Page : q # p => action'[q] = action[q]
    BY <1>3 DEF Stores
  <2>2. Once(i)'
    BY <1>0, <2>1
  <2>3. \A q \in Page : Owes(q, i)' /\ q # p => Owes(q, i) /\ action'[q].number = action[q].number
    BY <2>1 DEF Owes, At
  <2>4. CASE ~Owes(p, i)'
    <3>1. ASSUME NEW q \in Page, Owes(q, i)' PROVE New(q, i)' /\ Sole(q, i)'
      <4>1. q # p /\ Owes(q, i) /\ action'[q].number = action[q].number /\ New(q, i) /\ Sole(q, i)
        BY <1>0, <2>3, <2>4, <3>1
      <4> QED
        BY <2>1, <2>3, <2>4, <4>1
    <3> QED
      BY <2>2, <3>1
  <2>5. CASE Owes(p, i)'
    <3>1. action[p].id = i /\ action'[p].number = action[p].number
      BY <1>3, <2>5 DEF Owes, At, Stores
    <3>2. action'[p].number = Len(events[i]) + 1 /\ Len(events[i]) \in Nat
      BY <1>3, <3>1, StoresAppends
    <3>3. \A k \in 1..Len(processed[i]) : processed[i][k] \in 1..Len(events[i])
      BY DEF HistoryInv
    <3>4. \A q \in Page : Owes(q, i) => action[q].number \in 1..Len(events[i])
      BY DEF OwedInv
    <3>5. New(p, i)'
      BY <2>1, <3>2, <3>3
    <3>6. \A q \in Page : Owes(q, i)' /\ q # p => action'[q].number # action'[p].number
      BY <2>3, <3>2, <3>4
    <3>7. ASSUME NEW q \in Page, Owes(q, i)' PROVE New(q, i)' /\ Sole(q, i)'
      <4>1. CASE q = p
        BY <3>5, <3>6, <4>1
      <4>2. CASE q # p
        <5>1. Owes(q, i) /\ action'[q].number = action[q].number /\ New(q, i) /\ Sole(q, i)
          BY <1>0, <2>3, <3>7, <4>2
        <5>2. New(q, i)'
          BY <2>1, <5>1
        <5>3. Sole(q, i)'
          BY <2>3, <3>6, <3>7, <4>2, <5>1
        <5> QED
          BY <5>2, <5>3
      <4> QED
        BY <4>1, <4>2
    <3> QED
      BY <2>2, <3>7
  <2> QED
    BY <2>4, <2>5
<1>4. ASSUME NEW p \in Page, EventProcessed(p), NEW i \in Item
      PROVE  Once(i)' /\ \A q \in Page : Owes(q, i)' => New(q, i)' /\ Sole(q, i)'
  <2>1. action'[p].at = "success" /\ \A q \in Page : q # p => action'[q] = action[q]
    BY <1>4, ProcessedAppends
  <2>2. \A q \in Page : Owes(q, i)' => q # p /\ Owes(q, i) /\ action'[q].number = action[q].number
    BY <2>1 DEF Owes, At
  <2>3. CASE action[p].id # i
    <3>1. processed'[i] = processed[i]
      BY <1>4, <2>3, ProcessedAppends
    <3> QED
      BY <1>0, <2>2, <3>1
  <2>4. CASE action[p].id = i
    <3>1. PICK m \in Nat : m = Len(processed[i])
      BY TypesAre
    <3>2. /\ Owes(p, i)
          /\ Len(processed'[i]) = m + 1
          /\ \A k \in 1..m : processed'[i][k] = processed[i][k]
          /\ processed'[i][m + 1] = action[p].number
      BY <1>4, <2>4, <3>1, ProcessedAppends
    <3>3. New(p, i) /\ Sole(p, i) /\ Once(i)
      BY <1>0, <3>2
    <3>4. \A k \in 1..(m + 1) : k \in 1..m \/ k = m + 1
      OBVIOUS
    <3>5. Once(i)'
      BY <3>1, <3>2, <3>3, <3>4
    <3>6. ASSUME NEW q \in Page, Owes(q, i)' PROVE New(q, i)' /\ Sole(q, i)'
      <4>1. q # p /\ Owes(q, i) /\ action'[q].number = action[q].number /\ New(q, i) /\ Sole(q, i)
        BY <1>0, <2>2, <3>6
      <4>2. action[q].number # action[p].number
        BY <3>2, <4>1
      <4>3. New(q, i)'
        BY <3>1, <3>2, <3>4, <4>1, <4>2
      <4>4. Sole(q, i)'
        BY <2>2, <4>1
      <4> QED
        BY <4>3, <4>4
    <3> QED
      BY <3>5, <3>6
  <2> QED
    BY <2>3, <2>4
<1>5. CASE \E p \in Page : Stores(p)
  <2>1. PICK p \in Page : Stores(p)
    BY <1>5
  <2>2. \A i \in Item : Once(i)' /\ \A q \in Page : Owes(q, i)' => New(q, i)' /\ Sole(q, i)'
    BY <1>3, <2>1
  <2> QED
    BY <2>2 DEF OnceInv
<1>6. CASE \E p \in Page : EventProcessed(p)
  <2>1. PICK p \in Page : EventProcessed(p)
    BY <1>6
  <2>2. \A i \in Item : Once(i)' /\ \A q \in Page : Owes(q, i)' => New(q, i)' /\ Sole(q, i)'
    BY <1>4, <2>1
  <2> QED
    BY <2>2 DEF OnceInv
<1> QED
  BY <1>1, <1>2, <1>5, <1>6, LogCases

LEMMA NoneLostStep ==
    ASSUME PageTypeOK, CallsInv, ActionInv, HistoryInv, OwedInv, NoneLost, [PageNext]_allVars
    PROVE  NoneLost'
<1> DEFINE Processed(i, n) == \E k \in 1..Len(processed[i]) : processed[i][k] = n
           Owed(i, n) == \E q \in Page : Owes(q, i) /\ action[q].number = n
<1>0. faults = 0 => \A i \in Item : \A n \in 1..Len(events[i]) : Processed(i, n) \/ Owed(i, n)
  BY DEF NoneLost
<1>1. CASE Quiet
  BY <1>0, <1>1 DEF NoneLost, Owes, At, Quiet
<1>2. CASE \E p \in Page : Drops(p)
  BY <1>2 DEF NoneLost, Drops
<1>3. ASSUME NEW p \in Page, Stores(p), faults' = 0, NEW i \in Item, NEW n \in 1..Len(events'[i])
      PROVE  Processed(i, n)' \/ Owed(i, n)'
  <2>1. /\ faults = 0 /\ processed' = processed
        /\ action[p].at = "write" /\ action'[p].at = "process"
        /\ action'[p].id = action[p].id /\ action'[p].number = action[p].number
        /\ \A q \in Page : q # p => action'[q] = action[q]
    BY <1>3 DEF Stores
  <2>2. ASSUME n \in 1..Len(events[i]) PROVE Processed(i, n)' \/ Owed(i, n)'
    <3>1. Owed(i, n) => Owed(i, n)'
      BY <2>1 DEF Owes, At
    <3>2. Processed(i, n) => Processed(i, n)'
      BY <2>1
    <3> QED
      BY <1>0, <2>1, <2>2, <3>1, <3>2
  <2>3. CASE action[p].id # i
    BY <1>3, <2>2, <2>3, StoresAppends
  <2>4. CASE action[p].id = i
    <3>1. /\ action[p].number = Len(events[i]) + 1
          /\ Len(events[i]) \in Nat
          /\ Len(events'[i]) = Len(events[i]) + 1
      BY <1>3, <2>4, StoresAppends
    <3>2. CASE n = Len(events[i]) + 1
      BY <2>1, <2>4, <3>1, <3>2 DEF Owes, At
    <3>3. CASE n # Len(events[i]) + 1
      BY <2>2, <3>1, <3>3
    <3> QED
      BY <3>2, <3>3
  <2> QED
    BY <2>3, <2>4
<1>4. ASSUME NEW p \in Page, EventProcessed(p), faults' = 0, NEW i \in Item, NEW n \in 1..Len(events'[i])
      PROVE  Processed(i, n)' \/ Owed(i, n)'
  <2>1. /\ faults = 0 /\ events' = events
        /\ \A q \in Page : q # p => action'[q] = action[q]
    BY <1>4, ProcessedAppends
  <2>2. Processed(i, n) \/ Owed(i, n)
    BY <1>0, <1>4, <2>1
  <2>3. \A q \in Page : q # p /\ Owes(q, i) => Owes(q, i)' /\ action'[q].number = action[q].number
    BY <2>1 DEF Owes, At
  <2>4. CASE action[p].id # i
    <3>1. processed'[i] = processed[i] /\ ~Owes(p, i)
      BY <1>4, <2>4, ProcessedAppends DEF Owes
    <3> QED
      BY <2>2, <2>3, <3>1
  <2>5. CASE action[p].id = i
    <3>1. PICK m \in Nat : m = Len(processed[i])
      BY TypesAre
    <3>2. /\ Len(processed'[i]) = m + 1
          /\ \A k \in 1..m : processed'[i][k] = processed[i][k]
          /\ processed'[i][m + 1] = action[p].number
      BY <1>4, <2>5, <3>1, ProcessedAppends
    <3>3. \A k \in 1..m : k \in 1..(m + 1)
      OBVIOUS
    <3>4. CASE Processed(i, n)
      BY <3>1, <3>2, <3>3, <3>4
    <3>5. CASE Owed(i, n)
      <4>1. PICK q \in Page : Owes(q, i) /\ action[q].number = n
        BY <3>5
      <4>2. CASE q = p
        <5>1. m + 1 \in 1..(m + 1)
          OBVIOUS
        <5> QED
          BY <3>2, <4>1, <4>2, <5>1
      <4>3. CASE q # p
        BY <2>3, <4>1, <4>3
      <4> QED
        BY <4>2, <4>3
    <3> QED
      BY <2>2, <3>4, <3>5
  <2> QED
    BY <2>4, <2>5
<1>5. CASE \E p \in Page : Stores(p)
  <2>1. PICK p \in Page : Stores(p)
    BY <1>5
  <2>2. faults' = 0 => \A i \in Item : \A n \in 1..Len(events'[i]) : Processed(i, n)' \/ Owed(i, n)'
    BY <1>3, <2>1
  <2> QED
    BY <2>2 DEF NoneLost
<1>6. CASE \E p \in Page : EventProcessed(p)
  <2>1. PICK p \in Page : EventProcessed(p)
    BY <1>6
  <2>2. faults' = 0 => \A i \in Item : \A n \in 1..Len(events'[i]) : Processed(i, n)' \/ Owed(i, n)'
    BY <1>4, <2>1
  <2> QED
    BY <2>2 DEF NoneLost
<1> QED
  BY <1>1, <1>2, <1>5, <1>6, LogCases

(* Each event is processed once and none is lost: without an inversion they *)
(* were processed in the order of the log.                                  *)
LEMMA InOrder ==
    ASSUME PageTypeOK, HistoryInv, OnceInv, NoneLost, NEW i \in Item,
           faults = 0, Unprocessed(i) = {},
           ~\E j, k \in DOMAIN processed[i] : j < k /\ processed[i][j] > processed[i][k]
    PROVE  ProcessedTypes(i) = events[i]
<1>1. PICK s : s = processed[i]
  OBVIOUS
<1>2. PICK m \in Nat : m = Len(s)
  BY <1>1, TypesAre
<1>3. PICK e \in Seq(TodoEvent) : e = events[i]
  BY DEF HistoryInv
<1>4. PICK n \in Nat : n = Len(e)
  BY <1>3, LenProperties
<1>5. \A k \in 1..m : s[k] \in 1..n
  BY <1>1, <1>2, <1>3, <1>4 DEF HistoryInv
<1>6. \A j, k \in 1..m : s[j] = s[k] => j = k
  BY <1>1, <1>2 DEF OnceInv
<1>7. \A x \in 1..n : \E k \in 1..m : s[k] = x
  BY <1>1, <1>2, <1>3, <1>4 DEF NoneLost, Owes, Unprocessed
<1>8. \A j, k \in 1..m : j < k => s[j] < s[k]
  <2>1. s \in Seq(Nat)
    BY <1>1 DEF PageTypeOK, ServerTypeOK
  <2>2. DOMAIN s = 1..m
    BY <1>2, <2>1
  <2>3. ASSUME NEW j \in 1..m, NEW k \in 1..m, j < k PROVE s[j] < s[k]
    <3>1. ~(s[j] > s[k])
      BY <1>1, <2>2, <2>3
    <3>2. s[j] # s[k]
      BY <1>6, <2>3
    <3>3. s[j] \in Nat /\ s[k] \in Nat
      BY <1>5
    <3> QED
      BY <3>1, <3>2, <3>3
  <2> QED
    BY <2>3
<1> HIDE DEF ProcessedTypes
<1>9. \A x \in Nat : x \in 1..n => x <= m /\ s[x] = x
  <2> DEFINE Here(x) == x \in 1..n => x \in 1..m /\ s[x] = x
             Those == {x \in Nat : \A y \in 1..x : Here(y)}
  <2>1. 0 \in Those
    OBVIOUS
  <2>2. ASSUME NEW x \in Nat, x \in Those PROVE x + 1 \in Those
    <3>1. \A y \in 1..x : Here(y)
      BY <2>2
    <3>2. Here(x + 1)
      <4>1. SUFFICES ASSUME x + 1 \in 1..n PROVE x + 1 \in 1..m /\ s[x + 1] = x + 1
        OBVIOUS
      <4>2. \A y \in 1..x : y \in 1..m /\ s[y] = y
        BY <3>1, <4>1
      <4>3. PICK k \in 1..m : s[k] = x + 1
        BY <1>7, <4>1
      <4>4. k \notin 1..x
        BY <4>2, <4>3
      <4>5. x + 1 \in 1..m
        BY <4>4
      <4>6. CASE k = x + 1
        BY <4>3, <4>5, <4>6
      <4>7. CASE k # x + 1
        <5>1. x + 1 < k
          BY <4>4, <4>7
        <5>2. s[x + 1] < x + 1
          BY <1>8, <4>3, <4>5, <5>1
        <5>3. s[x + 1] \in 1..x
          BY <1>5, <4>5, <5>2
        <5>4. PICK y \in 1..x : y = s[x + 1]
          BY <5>3
        <5>5. s[y] = y /\ y \in 1..m
          BY <4>2
        <5>6. y = x + 1
          BY <1>6, <4>5, <5>4, <5>5
        <5> QED
          BY <5>6
      <4> QED
        BY <4>6, <4>7
    <3>3. \A y \in 1..(x + 1) : y \in 1..x \/ y = x + 1
      OBVIOUS
    <3> HIDE DEF Here
    <3> QED
      BY <3>1, <3>2, <3>3
  <2>3. Nat \subseteq Those
    <3> HIDE DEF Those
    <3> QED
      BY <2>1, <2>2, Induction
  <2>4. ASSUME NEW x \in 1..n PROVE x \in 1..m /\ s[x] = x
    <3>1. x \in Those /\ x \in 1..x
      BY <2>3
    <3> QED
      BY <3>1
  <2> QED
    BY <2>4
<1>10. m = n
  <2>1. n <= m
    BY <1>9
  <2>2. CASE n < m
    <3>1. n + 1 \in 1..m /\ s[n + 1] \in 1..n
      BY <1>5, <2>2
    <3>2. PICK y \in 1..n : y = s[n + 1]
      BY <3>1
    <3>3. s[y] = y /\ y \in 1..m
      BY <1>9, <2>2
    <3>4. y = n + 1
      BY <1>6, <3>1, <3>2, <3>3
    <3> QED
      BY <3>4
  <2> QED
    BY <2>1, <2>2
<1>11. PICK t \in Seq(TodoEvent) : t = ProcessedTypes(i) /\ Len(t) = m /\ \A k \in 1..m : t[k] = e[s[k]]
  BY <1>1, <1>2, <1>3, TypesAre
<1>12. \A k \in 1..m : t[k] = e[k]
  BY <1>9, <1>10, <1>11
<1>13. t = e
  BY <1>4, <1>10, <1>11, <1>12, SeqEqual
<1> QED
  BY <1>3, <1>11, <1>13

LEMMA Diverges ==
    ASSUME PageTypeOK, HistoryInv, OnceInv, NoneLost
    PROVE  DivergesOnlyByOvertaking
<1>1. SUFFICES ASSUME NEW i \in Item, Unprocessed(i) = {}, faults = 0,
                      ~\E j, k \in DOMAIN processed[i] : j < k /\ processed[i][j] > processed[i][k]
               PROVE  items[i] = Expected(i)
  <2>1. faults \in Nat
    BY DEF PageTypeOK, ServerTypeOK
  <2> QED
    BY <2>1 DEF DivergesOnlyByOvertaking
<1>2. ProcessedTypes(i) = events[i]
  BY <1>1, InOrder
<1> QED
  BY <1>2 DEF HistoryInv, Projected, Expected

-----------------------------------------------------------------------------
(* What pages have read of what they have changed                           *)

(* A call that is not the first of a queue stays in it. *)
LEMMA CallsGo ==
    ASSUME PageTypeOK, NEW p \in Page, NEW cs \in Seq(PageCall), Shifted(p, cs),
           NEW k \in 1..Len(queue[p]), k > 1
    PROVE  k - 1 \in 1..Len(queue'[p]) /\ queue'[p][k - 1] = queue[p][k]
<1>1. PICK n \in Nat : n = Len(queue[p])
  BY LenProperties DEF PageTypeOK
<1>2. PICK m \in Nat : m = Len(cs)
  BY LenProperties
<1>3. PICK j \in 1..(n - 1) : k = j + 1
  <2>1. k - 1 \in 1..(n - 1) /\ k = (k - 1) + 1
    BY <1>1
  <2> QED
    BY <2>1
<1>4. queue'[p][j] = queue[p][j + 1] /\ Len(queue'[p]) = n - 1 + m
  BY <1>1, <1>2 DEF Shifted
<1>5. j \in 1..Len(queue'[p]) /\ j = k - 1
  BY <1>2, <1>3, <1>4
<1> QED
  BY <1>3, <1>4, <1>5

(* After a call is over, a change that is in a queue was there before. *)
LEMMA EarlierCall ==
    ASSUME PageTypeOK, NEW p \in Page, NEW cs \in Seq(PageCall), Shifted(p, cs),
           \A j \in 1..Len(cs) : cs[j].name \in Question,
           NEW q \in Page, NEW k \in 1..Len(queue'[q]), queue'[q][k].name \notin Question
    PROVE  \/ q # p /\ k \in 1..Len(queue[q]) /\ queue'[q][k] = queue[q][k]
           \/ q = p /\ k + 1 \in 1..Len(queue[p]) /\ queue'[q][k] = queue[p][k + 1]
<1>1. CASE q # p
  BY <1>1 DEF Shifted
<1>2. CASE q = p
  <2>1. PICK n \in Nat : n = Len(queue[p])
    BY LenProperties DEF PageTypeOK
  <2>2. PICK m \in Nat : m = Len(cs)
    BY LenProperties
  <2>3. k \in 1..(n - 1 + m)
    BY <1>2, <2>1, <2>2 DEF Shifted
  <2>4. CASE k \in 1..(n - 1)
    <3>1. queue'[p][k] = queue[p][k + 1] /\ k + 1 \in 1..n
      BY <2>1, <2>4 DEF Shifted
    <3> QED
      BY <1>2, <2>1, <3>1
  <2>5. CASE k \notin 1..(n - 1)
    <3>1. PICK j \in 1..m : k = n - 1 + j
      <4>1. k - (n - 1) \in 1..m /\ k = n - 1 + (k - (n - 1))
        BY <2>3, <2>5
      <4> QED
        BY <4>1
    <3>2. queue'[p][n - 1 + j] = cs[j]
      BY <2>1, <2>2 DEF Shifted
    <3> QED
      BY <1>2, <2>1, <2>2, <3>1, <3>2
  <2> QED
    BY <2>4, <2>5
<1> QED
  BY <1>1, <1>2

(* A call that is over takes itself out of the queue. *)
LEMMA EndShifts ==
    ASSUME PageTypeOK, CallsInv, ActionInv, NEW p \in Page, Gathered(p) \/ LoadEnds(p) \/ Changed(p)
    PROVE  \E cs \in Seq(PageCall) :
              /\ Shifted(p, cs)
              /\ \A k \in 1..Len(cs) : cs[k].name \in Question
              /\ Changed(p) /\ At(p, "success") => /\ Len(cs) = 3
                                                   /\ cs[2].name = "getTodoItems"
                                                   /\ cs[3].name = "getTodoStatistics"
<1>1. CASE Changed(p)
  BY <1>1, ChangedShifts
<1>2. CASE ~Changed(p)
  <2>1. Shifted(p, <<>>) /\ <<>> \in Seq(PageCall) /\ Len(<<>>) = 0
    BY <1>2, EndTypes, EmptySeq
  <2>2. \A k \in 1..0 : FALSE
    OBVIOUS
  <2> QED
    BY <1>2, <2>1, <2>2
<1> QED
  BY <1>1, <1>2

(* An action that has succeeded waits for the page. *)
LEMMA SuccessStays ==
    ASSUME PageTypeOK, CallsInv, ActionInv, [PageNext]_allVars, NEW q \in Page, At(q, "success")
    PROVE  action'[q] = action[q] \/ Gathered(q) \/ LoadEnds(q) \/ Changed(q)
<1>1. ASSUME NEW p \in Page, Dispatch(p) PROVE action'[q] = action[q]
  BY <1>1, DispatchMoves DEF At, NoAction
<1>2. ASSUME NEW p \in Page, StateRead(p) \/ EventWritten(p) \/ EventProcessed(p) \/ Throws(p)
      PROVE  action'[q] = action[q]
  BY <1>2, ServerMoves DEF At, Awaited
<1>3. ASSUME NEW p \in Page, Answered(p) PROVE action'[q] = action[q]
  BY <1>3, AnsweredMoves DEF At
<1>4. ASSUME NEW p \in Page, p # q, Gathered(p) \/ LoadEnds(p) \/ Changed(p) PROVE action'[q] = action[q]
  BY <1>4, EndMoves
<1>5. ASSUME NEW p \in Page, Clicked(p) PROVE action'[q] = action[q]
  BY <1>5, ClickCalls DEF serverVars
<1> QED
  BY <1>1, <1>2, <1>3, <1>4, <1>5, PageStepCases DEF Clicked, Select, allVars, serverVars

(* A change succeeds when its event is processed. *)
LEMMA SuccessComes ==
    ASSUME PageTypeOK, CallsInv, ActionInv, [PageNext]_allVars, NEW q \in Page,
           At(q, "success")', action'[q] # action[q], action'[q].name \in Change
    PROVE  EventProcessed(q)
<1>1. ASSUME NEW p \in Page, Dispatch(p) PROVE EventProcessed(q)
  <2>1. action'[p].at # "success"
    BY <1>1, DispatchMoves
  <2> QED
    BY <1>1, <2>1, DispatchMoves DEF At
<1>2. ASSUME NEW p \in Page, StateRead(p) \/ EventWritten(p) \/ EventProcessed(p) \/ Throws(p)
      PROVE  EventProcessed(q)
  BY <1>2, ServerMoves DEF At
<1>3. ASSUME NEW p \in Page, Answered(p) PROVE EventProcessed(q)
  <2>1. action'[p].name \notin Change
    BY <1>3, AnsweredTypes, AnsweredMoves DEF Question, Change
  <2> QED
    BY <1>3, <2>1, AnsweredMoves
<1>4. ASSUME NEW p \in Page, Gathered(p) \/ LoadEnds(p) \/ Changed(p) PROVE EventProcessed(q)
  BY <1>4, EndMoves DEF At, NoAction
<1>5. ASSUME NEW p \in Page, Clicked(p) PROVE EventProcessed(q)
  BY <1>5, ClickCalls DEF serverVars
<1> QED
  BY <1>1, <1>2, <1>3, <1>4, <1>5, PageStepCases DEF Clicked, Select, allVars, serverVars

(* While an event is processed the pages stay as they are. *)
LEMMA ProcessedKeepsPages ==
    ASSUME PageTypeOK, CallsInv, ActionInv, OwedInv, [PageNext]_allVars, NEW p \in Page, EventProcessed(p)
    PROVE  UNCHANGED pageVars
<1>0. action[p] \in Action /\ action[p].at = "process" /\ action'[p].at = "success"
  <2>1. action[p].at = "process"
    BY DEF EventProcessed, At
  <2>2. action[p] \in Action
    BY <2>1, HasAction DEF Stage, Awaited
  <2>3. PICK to \in Stage : Goes(p, to) /\ to = "success"
    BY DEF EventProcessed, Stage
  <2> QED
    BY <2>1, <2>2, <2>3, GoesMoves
<1>1. action'[p] # action[p] /\ action[p] # NoAction /\ action'[p] # NoAction
  <2>1. action'[p] # NoAction
    BY <1>0 DEF NoAction
  <2> QED
    BY <1>0, <2>1, HasAction
<1>2. ASSUME NEW q \in Page, Dispatch(q) PROVE FALSE
  BY <1>1, <1>2, DispatchMoves
<1>3. ASSUME NEW q \in Page, Answered(q) PROVE FALSE
  BY <1>0, <1>1, <1>3, AnsweredMoves
<1>4. ASSUME NEW q \in Page, Gathered(q) \/ LoadEnds(q) \/ Changed(q) PROVE FALSE
  BY <1>1, <1>4, EndMoves
<1>5. ASSUME NEW q \in Page, Clicked(q) PROVE FALSE
  BY <1>1, <1>5, ClickCalls DEF serverVars
<1>6. ASSUME NEW q \in Page, NEW l \in List, Select(q, l) PROVE FALSE
  BY <1>1, <1>6 DEF Select, serverVars
<1> QED
  BY <1>1, <1>2, <1>3, <1>4, <1>5, <1>6, PageStepCases DEF Clicked, allVars

(* An item changes by an event of its own. *)
LEMMA ItemsChange ==
    ASSUME PageTypeOK, CallsInv, ActionInv, HistoryInv, OwedInv, [PageNext]_allVars, NEW i \in Item
    PROVE  /\ Len(events[i]) \in Nat /\ Len(events'[i]) \in Nat /\ Len(events'[i]) >= Len(events[i])
           /\ \/ items'[i] = items[i]
              \/ \E p \in Page : /\ EventProcessed(p) /\ UNCHANGED pageVars
                                 /\ Owes(p, i)
                                 /\ Len(events[i]) > 0
                                 /\ action[p].name \in ItemChange
                                 /\ action[p].name = queue[p][1].name
                                 /\ action[p].id = queue[p][1].id
                                 /\ Len(queue[p]) \in Nat \ {0}
                                 /\ items'[i] = Project(items[i], EventOf(action[p].name))
<1>0. Len(events[i]) \in Nat
  BY LenProperties DEF HistoryInv
<1>1. CASE Quiet
  BY <1>0, <1>1 DEF Quiet
<1>2. CASE \E p \in Page : Drops(p)
  BY <1>0, <1>2 DEF Drops
<1>3. CASE \E p \in Page : Stores(p)
  <2>1. PICK p \in Page : Stores(p)
    BY <1>3
  <2>2. items'[i] = items[i]
    BY <2>1 DEF Stores
  <2>3. CASE action[p].id = i
    BY <1>0, <2>1, <2>2, <2>3, StoresAppends
  <2>4. CASE action[p].id # i
    BY <1>0, <2>1, <2>2, <2>4, StoresAppends
  <2> QED
    BY <2>3, <2>4
<1>4. CASE \E p \in Page : EventProcessed(p)
  <2>1. PICK p \in Page : EventProcessed(p)
    BY <1>4
  <2>2. events' = events
    BY <2>1, ProcessedAppends
  <2>3. CASE action[p].id # i
    BY <1>0, <2>1, <2>2, <2>3, ProcessedAppends
  <2>4. CASE action[p].id = i
    <3>1. /\ Owes(p, i)
          /\ items'[i] = Project(items[i], EventOf(action[p].name))
          /\ action[p].name \in ItemChange
          /\ Len(events[i]) > 0
      BY <1>0, <2>1, <2>4, ProcessedAppends DEF OwedInv
    <3>2. action[p] \in Action
      BY <3>1, HasAction DEF Owes, At, Stage, Awaited
    <3>3. /\ action[p].name = queue[p][1].name
          /\ action[p].id = queue[p][1].id
          /\ Len(queue[p]) \in Nat \ {0}
      BY <3>2, ActionIds
    <3>4. UNCHANGED pageVars
      BY <2>1, ProcessedKeepsPages
    <3> QED
      BY <1>0, <2>1, <2>2, <3>1, <3>3, <3>4
  <2> QED
    BY <2>3, <2>4
<1> QED
  BY <1>1, <1>2, <1>3, <1>4, LogCases

(* What the reducer makes of an item, event by event. *)
LEMMA ProjectOf ==
    ASSUME NEW status \in Status \cup {"absent"}, NEW name \in ItemChange
    PROVE  /\ status # "absent" => Project(status, EventOf(name)) # "absent"
           /\ Project("absent", EventOf(name)) # "absent" => name = "createTodoItem"
           /\ Done(status) /\ name # "createTodoItem" => Done(Project(status, EventOf(name)))
           /\ status # "absent" /\ name = "completeTodoItem" => Done(Project(status, EventOf(name)))
<1>1. CASE name = "createTodoItem"
  <2>1. EventOf(name) = "todo_item_created"
    BY <1>1 DEF EventOf
  <2> QED
    BY <1>1, <2>1 DEF Project, Reduce
<1>2. CASE name = "completeTodoItem"
  <2>1. EventOf(name) = "todo_item_completed"
    BY <1>2 DEF EventOf
  <2> QED
    BY <1>2, <2>1 DEF Project, Reduce, Done
<1>3. CASE name = "deleteTodoItem"
  <2>1. EventOf(name) = "todo_item_deleted"
    BY <1>3 DEF EventOf
  <2> QED
    BY <1>3, <2>1 DEF Project, Reduce, Done
<1> QED
  BY <1>1, <1>2, <1>3 DEF ItemChange

(* An item that is there stays, and one that is done remains done. *)
LEMMA ItemStays ==
    ASSUME PageTypeOK, CallsInv, ActionInv, HistoryInv, OwedInv, CreationInv, [PageNext]_allVars, NEW i \in Item
    PROVE  /\ items[i] # "absent" => items'[i] # "absent"
           /\ Done(items[i]) => Done(items'[i])
<1>1. CASE items'[i] = items[i]
  BY <1>1
<1>2. CASE items'[i] # items[i]
  <2>1. PICK p \in Page : /\ EventProcessed(p) /\ Owes(p, i)
                          /\ action[p].name \in ItemChange
                          /\ action[p].name = queue[p][1].name
                          /\ action[p].id = queue[p][1].id
                          /\ Len(queue[p]) \in Nat \ {0}
                          /\ items'[i] = Project(items[i], EventOf(action[p].name))
    BY <1>2, ItemsChange
  <2>2. items[i] \in Status \cup {"absent"}
    BY DEF PageTypeOK, ServerTypeOK
  <2>3. PICK name \in ItemChange : name = action[p].name
    BY <2>1
  <2>4. items[i] # "absent" => name # "createTodoItem"
    <3>1. SUFFICES ASSUME items[i] # "absent", name = "createTodoItem" PROVE FALSE
      OBVIOUS
    <3>2. 1 \in 1..Len(queue[p]) /\ Creates(p, 1, i)
      BY <2>1, <2>3, <3>1 DEF Creates, Owes
    <3>3. At(p, "success")
      BY <3>1, <3>2 DEF CreationInv
    <3> QED
      BY <2>1, <3>3 DEF Owes, At
  <2>5. Done(items[i]) => items[i] # "absent"
    BY DEF Done
  <2> QED
    BY <2>1, <2>2, <2>3, <2>4, <2>5, ProjectOf
<1> QED
  BY <1>1, <1>2

LEMMA CreationStep ==
    ASSUME PageTypeOK, CallsInv, ActionInv, HistoryInv, OwedInv, CreationInv, [PageNext]_allVars
    PROVE  CreationInv'
<1> DEFINE Sole(i) == \A p, q \in Page : \A k \in 1..Len(queue[p]), m \in 1..Len(queue[q]) :
                         Creates(p, k, i) /\ Creates(q, m, i) => p = q /\ k = m
           Late(i) == \A q \in Page : \A k \in 1..Len(queue[q]) : Creates(q, k, i) => k = 1 /\ At(q, "success")
<1>0. \A i \in Item : Sole(i) /\ (items[i] # "absent" => Len(events[i]) > 0 /\ Late(i))
  BY DEF CreationInv
<1> SUFFICES ASSUME NEW i \in Item
             PROVE  Sole(i)' /\ (items'[i] # "absent" => Len(events'[i]) > 0 /\ Late(i)')
  BY DEF CreationInv
<1>1. /\ Len(events[i]) \in Nat /\ Len(events'[i]) \in Nat /\ Len(events'[i]) >= Len(events[i])
      /\ items'[i] = items[i] \/ Len(events[i]) > 0
  BY ItemsChange
<1>2. items'[i] # "absent" => Len(events'[i]) > 0
  BY <1>0, <1>1
<1>3. CASE queue' = queue
  <2>1. Sole(i)'
    BY <1>0, <1>3 DEF Creates
  <2>2. CASE items[i] # "absent"
    <3>1. ASSUME NEW q \in Page, NEW k \in 1..Len(queue'[q]), Creates(q, k, i)'
          PROVE  k = 1 /\ At(q, "success")'
      <4>1. Creates(q, k, i) /\ k \in 1..Len(queue[q])
        BY <1>3, <3>1 DEF Creates
      <4>2. k = 1 /\ At(q, "success")
        BY <1>0, <2>2, <4>1
      <4>3. ~(Gathered(q) \/ LoadEnds(q) \/ Changed(q))
        <5>1. SUFFICES ASSUME Gathered(q) \/ LoadEnds(q) \/ Changed(q) PROVE FALSE
          OBVIOUS
        <5>2. action[q] \in Action
          BY <4>2, HasAction DEF At, Stage
        <5>3. action[q].name = "createTodoItem"
          BY <4>1, <4>2, <5>2, ActionIds DEF Creates
        <5>4. Changed(q)
          BY <5>1, <5>3 DEF Gathered, LoadEnds
        <5>5. PICK cs \in Seq(PageCall) : Shifted(q, cs) /\ Len(cs) = 3
          BY <4>2, <5>4, EndShifts
        <5>6. Len(queue'[q]) = Len(queue[q]) + 2 /\ Len(queue[q]) \in Nat
          BY <5>2, <5>5, ActionIds DEF Shifted
        <5> QED
          BY <1>3, <5>6
      <4> QED
        BY <4>2, <4>3, SuccessStays DEF At
    <3> QED
      BY <1>2, <2>1, <3>1
  <2>3. CASE items[i] = "absent"
    <3>1. SUFFICES ASSUME items'[i] # "absent" PROVE Late(i)'
      BY <1>2, <2>1
    <3>2. PICK p \in Page : /\ EventProcessed(p) /\ Owes(p, i)
                            /\ action[p].name \in ItemChange
                            /\ action[p].name = queue[p][1].name
                            /\ action[p].id = queue[p][1].id
                            /\ Len(queue[p]) \in Nat \ {0}
                            /\ items'[i] = Project(items[i], EventOf(action[p].name))
      BY <2>3, <3>1, ItemsChange
    <3>3. PICK name \in ItemChange : name = action[p].name
      BY <3>2
    <3>4. name = "createTodoItem"
      BY <2>3, <3>1, <3>2, <3>3, ProjectOf
    <3>5. 1 \in 1..Len(queue[p]) /\ Creates(p, 1, i)
      BY <3>2, <3>3, <3>4 DEF Creates, Owes
    <3>6. At(p, "success")'
      BY <3>2, ProcessedAppends DEF At
    <3>7. ASSUME NEW q \in Page, NEW k \in 1..Len(queue'[q]), Creates(q, k, i)'
          PROVE  k = 1 /\ At(q, "success")'
      <4>1. Creates(q, k, i) /\ k \in 1..Len(queue[q])
        BY <1>3, <3>7 DEF Creates
      <4>2. q = p /\ k = 1
        BY <1>0, <3>5, <4>1
      <4> QED
        BY <3>6, <4>2
    <3> QED
      BY <3>7
  <2> QED
    BY <2>2, <2>3
<1>4. ASSUME NEW p \in Page, Clicked(p)
      PROVE  Sole(i)' /\ (items'[i] # "absent" => Late(i)')
  <2>1. PICK c \in PageCall : Grows(p, c) /\ (c.name = "createTodoItem" => Fresh(c.id))
    BY <1>4, ClickCalls
  <2>2. UNCHANGED serverVars
    BY <1>4, ClickCalls
  <2>3. ASSUME NEW q \in Page, NEW k \in 1..Len(queue'[q]), Creates(q, k, i)'
        PROVE  \/ k \in 1..Len(queue[q]) /\ Creates(q, k, i)
               \/ q = p /\ k = Len(queue[p]) + 1 /\ Fresh(i)
    <3>1. \/ k \in 1..Len(queue[q]) /\ queue'[q][k] = queue[q][k]
          \/ q = p /\ k = Len(queue[p]) + 1 /\ queue'[q][k] = c
      BY <2>1, <2>3, OneMoreCall
    <3>2. CASE k \in 1..Len(queue[q]) /\ queue'[q][k] = queue[q][k]
      BY <2>3, <3>2 DEF Creates
    <3>3. CASE q = p /\ k = Len(queue[p]) + 1 /\ queue'[q][k] = c
      BY <2>1, <2>3, <3>3 DEF Creates
    <3> QED
      BY <3>1, <3>2, <3>3
  <2>4. Fresh(i) => Len(events[i]) = 0 /\ \A q \in Page : \A k \in 1..Len(queue[q]) : ~Creates(q, k, i)
    <3>1. Fresh(i) => \A q \in Page : \A k \in DOMAIN queue[q] : queue[q][k].id # i
      BY DEF Fresh
    <3>2. \A q \in Page : DOMAIN queue[q] = 1..Len(queue[q])
      BY LenProperties DEF PageTypeOK
    <3>3. Fresh(i) => Len(events[i]) = 0
      BY EmptySeq DEF Fresh
    <3> QED
      BY <3>1, <3>2, <3>3 DEF Creates
  <2>5. CASE Fresh(i)
    <3>1. \A q \in Page : \A k \in 1..Len(queue'[q]) : Creates(q, k, i)' => q = p /\ k = Len(queue[p]) + 1
      BY <2>3, <2>4, <2>5
    <3>2. Sole(i)'
      BY <3>1
    <3>3. items'[i] = "absent"
      BY <1>0, <1>1, <2>2, <2>4, <2>5 DEF serverVars
    <3> QED
      BY <3>2, <3>3
  <2>6. CASE ~Fresh(i)
    <3>1. \A q \in Page : \A k \in 1..Len(queue'[q]) :
             Creates(q, k, i)' => k \in 1..Len(queue[q]) /\ Creates(q, k, i)
      BY <2>3, <2>6
    <3>2. Sole(i)'
      BY <1>0, <3>1
    <3>3. items'[i] = items[i] /\ \A q \in Page : At(q, "success")' <=> At(q, "success")
      BY <2>2 DEF serverVars, At
    <3> QED
      BY <1>0, <3>1, <3>2, <3>3
  <2> QED
    BY <2>5, <2>6
<1>5. ASSUME NEW p \in Page, Gathered(p) \/ LoadEnds(p) \/ Changed(p)
      PROVE  Sole(i)' /\ (items'[i] # "absent" => Late(i)')
  <2>1. PICK cs \in Seq(PageCall) : /\ Shifted(p, cs)
                                    /\ \A k \in 1..Len(cs) : cs[k].name \in Question
    BY <1>5, EndShifts
  <2>2. items' = items
    BY <1>5 DEF Gathered, LoadEnds, Changed
  <2>3. ASSUME NEW q \in Page, NEW k \in 1..Len(queue'[q]), Creates(q, k, i)'
        PROVE  \/ q # p /\ k \in 1..Len(queue[q]) /\ Creates(q, k, i)
               \/ q = p /\ k + 1 \in 1..Len(queue[p]) /\ Creates(p, k + 1, i)
    <3>1. queue'[q][k].name \notin Question
      BY <2>3 DEF Creates, Question
    <3>2. \/ q # p /\ k \in 1..Len(queue[q]) /\ queue'[q][k] = queue[q][k]
          \/ q = p /\ k + 1 \in 1..Len(queue[p]) /\ queue'[q][k] = queue[p][k + 1]
      BY <2>1, <3>1, EarlierCall
    <3> QED
      BY <2>3, <3>2 DEF Creates
  <2>4. Sole(i)'
    <3>1. ASSUME NEW q \in Page, NEW r \in Page, NEW k \in 1..Len(queue'[q]), NEW m \in 1..Len(queue'[r]),
                 Creates(q, k, i)', Creates(r, m, i)'
          PROVE  q = r /\ k = m
      <4>1. Len(queue'[q]) \in Nat /\ Len(queue'[r]) \in Nat
        BY <2>1, LenProperties DEF Shifted
      <4>2. k \in Nat /\ m \in Nat
        BY <4>1
      <4>3. CASE q # p /\ r # p
        BY <1>0, <2>3, <3>1, <4>3
      <4>4. CASE q = p /\ r # p
        BY <1>0, <2>3, <3>1, <4>4
      <4>5. CASE q # p /\ r = p
        BY <1>0, <2>3, <3>1, <4>5
      <4>6. CASE q = p /\ r = p
        <5>1. k + 1 = m + 1
          BY <1>0, <2>3, <3>1, <4>6
        <5> QED
          BY <4>2, <4>6, <5>1
      <4> QED
        BY <4>3, <4>4, <4>5, <4>6
    <3> QED
      BY <3>1
  <2>5. ASSUME items'[i] # "absent", NEW q \in Page, NEW k \in 1..Len(queue'[q]), Creates(q, k, i)'
        PROVE  k = 1 /\ At(q, "success")'
    <3>1. Late(i)
      BY <1>0, <2>2, <2>5
    <3>2. CASE q # p
      <4>1. action'[q] = action[q]
        BY <1>5, <3>2, EndMoves
      <4> QED
        BY <2>3, <2>5, <3>1, <3>2, <4>1 DEF At
    <3>3. CASE q = p
      <4>1. k + 1 = 1
        BY <2>3, <2>5, <3>1, <3>3
      <4>2. Len(queue'[q]) \in Nat
        BY <2>1, LenProperties DEF Shifted
      <4> QED
        BY <4>1, <4>2
    <3> QED
      BY <3>2, <3>3
  <2> QED
    BY <2>4, <2>5
<1>6. ASSUME NEW p \in Page,
             \/ \E l \in List : Select(p, l)
             \/ Dispatch(p)
             \/ (StateRead(p) \/ EventWritten(p) \/ EventProcessed(p) \/ Throws(p)) /\ UNCHANGED pageVars
             \/ Answered(p)
      PROVE  queue' = queue
  BY <1>6 DEF Select, Dispatch, pageVars, Answered
<1>7. CASE UNCHANGED allVars
  BY <1>3, <1>7 DEF allVars, pageVars
<1> HIDE DEF Sole, Late
<1> QED
  BY <1>2, <1>3, <1>4, <1>5, <1>6, <1>7, PageStepCases DEF Clicked

LEMMA ThereStep ==
    ASSUME PageTypeOK, CallsInv, ActionInv, HistoryInv, OwedInv, CreationInv, ThereInv, [PageNext]_allVars
    PROVE  ThereInv'
<1> DEFINE Unseen(p, i) == /\ gathered[p].items[i] = "absent"
                           /\ shown[p].items[i] = "absent"
                           /\ \A k \in 1..Len(queue[p]) :
                                 queue[p][k].name \in {"completeTodoItem", "deleteTodoItem"} => queue[p][k].id # i
           Completed(p) == action[p].name = "completeTodoItem" /\ At(p, "success") => Done(items[action[p].id])
<1>0. \A p \in Page : Completed(p) /\ \A i \in Item : items[i] = "absent" => Unseen(p, i)
  BY DEF ThereInv
<1>1. \A i \in Item : /\ items'[i] = "absent" => items[i] = "absent"
                      /\ Done(items[i]) => Done(items'[i])
  BY ItemStays
<1>2. ASSUME UNCHANGED <<queue, gathered, shown>>, NEW p \in Page, NEW i \in Item, items'[i] = "absent"
      PROVE  Unseen(p, i)'
  BY <1>0, <1>1, <1>2
<1>3. ASSUME NEW p \in Page, Clicked(p), NEW q \in Page, NEW i \in Item, items'[i] = "absent"
      PROVE  Unseen(q, i)'
  <2>1. PICK c \in PageCall :
           /\ Grows(p, c)
           /\ c.name \in {"completeTodoItem", "deleteTodoItem"} => shown[p].items[c.id] # "absent"
    BY <1>3, ClickCalls
  <2>2. UNCHANGED <<gathered, shown>>
    BY <1>3, ClickCalls
  <2>3. Unseen(q, i) /\ shown[p].items[i] = "absent"
    BY <1>0, <1>1, <1>3
  <2>4. ASSUME NEW k \in 1..Len(queue'[q]), queue'[q][k].name \in {"completeTodoItem", "deleteTodoItem"}
        PROVE  queue'[q][k].id # i
    <3>1. \/ k \in 1..Len(queue[q]) /\ queue'[q][k] = queue[q][k]
          \/ q = p /\ k = Len(queue[p]) + 1 /\ queue'[q][k] = c
      BY <2>1, <2>4, OneMoreCall
    <3>2. CASE k \in 1..Len(queue[q]) /\ queue'[q][k] = queue[q][k]
      BY <2>3, <2>4, <3>2
    <3>3. CASE queue'[q][k] = c
      BY <2>1, <2>3, <2>4, <3>3
    <3> QED
      BY <3>1, <3>2, <3>3
  <2> QED
    BY <2>2, <2>3, <2>4
<1>4. ASSUME NEW p \in Page, Gathered(p) \/ LoadEnds(p) \/ Changed(p),
             NEW q \in Page, NEW i \in Item, items'[i] = "absent"
      PROVE  Unseen(q, i)'
  <2>1. PICK cs \in Seq(PageCall) : /\ Shifted(p, cs)
                                    /\ \A k \in 1..Len(cs) : cs[k].name \in Question
    BY <1>4, EndShifts
  <2>2. Unseen(q, i) /\ Unseen(p, i)
    BY <1>0, <1>1, <1>4
  <2>3. gathered'[q].items[i] = "absent" /\ shown'[q].items[i] = "absent"
    <3>1. CASE LoadEnds(p)
      <4>1. CASE q = p
        BY <2>2, <3>1, <4>1, LoadEndsTypes
      <4>2. CASE q # p
        BY <2>2, <3>1, <4>2, LoadEndsTypes
      <4> QED
        BY <4>1, <4>2
    <3>2. CASE Gathered(p) \/ Changed(p)
      <4>1. UNCHANGED <<gathered, shown>>
        BY <3>2 DEF Gathered, Changed
      <4> QED
        BY <2>2, <4>1
    <3> QED
      BY <1>4, <3>1, <3>2
  <2>4. ASSUME NEW k \in 1..Len(queue'[q]), queue'[q][k].name \in {"completeTodoItem", "deleteTodoItem"}
        PROVE  queue'[q][k].id # i
    <3>1. queue'[q][k].name \notin Question
      BY <2>4 DEF Question
    <3>2. \/ q # p /\ k \in 1..Len(queue[q]) /\ queue'[q][k] = queue[q][k]
          \/ q = p /\ k + 1 \in 1..Len(queue[p]) /\ queue'[q][k] = queue[p][k + 1]
      BY <2>1, <2>4, <3>1, EarlierCall
    <3> QED
      BY <2>2, <2>4, <3>2
  <2> QED
    BY <2>3, <2>4
<1>5. ASSUME NEW p \in Page, Answered(p), NEW q \in Page, NEW i \in Item, items'[i] = "absent"
      PROVE  Unseen(q, i)'
  <2>1. items' = items /\ UNCHANGED <<queue, shown>>
    BY <1>5 DEF Answered
  <2>2. Unseen(q, i) /\ items[i] = "absent"
    BY <1>0, <1>5, <2>1
  <2>3. CASE q = p
    <3>1. gathered'[p].items = items \/ gathered'[p].items = gathered[p].items
      BY <1>5, AnsweredTypes
    <3> QED
      BY <2>1, <2>2, <2>3, <3>1
  <2>4. CASE q # p
    <3>1. gathered'[q] = gathered[q]
      BY <1>5, <2>4, AnsweredTypes
    <3> QED
      BY <2>1, <2>2, <3>1
  <2> QED
    BY <2>3, <2>4
<1>6. ASSUME NEW p \in Page,
             \/ \E l \in List : Select(p, l)
             \/ Dispatch(p)
             \/ (StateRead(p) \/ EventWritten(p) \/ EventProcessed(p) \/ Throws(p)) /\ UNCHANGED pageVars
      PROVE  UNCHANGED <<queue, gathered, shown>>
  BY <1>6 DEF Select, Dispatch, pageVars
<1>7. ASSUME UNCHANGED allVars PROVE UNCHANGED <<queue, gathered, shown>>
  BY <1>7 DEF allVars, pageVars
<1>8. ASSUME NEW q \in Page, NEW i \in Item, items'[i] = "absent"
      PROVE  Unseen(q, i)'
  <2> HIDE DEF Unseen
  <2> QED
    BY <1>2, <1>3, <1>4, <1>5, <1>6, <1>7, <1>8, PageStepCases DEF Clicked
<1>9. ASSUME NEW q \in Page, action'[q].name = "completeTodoItem", At(q, "success")'
      PROVE  Done(items'[action'[q].id])
  <2>1. CASE action'[q] = action[q]
    <3>1. At(q, "success") /\ action[q].name = "completeTodoItem"
      BY <1>9, <2>1 DEF At
    <3>2. Done(items[action[q].id])
      BY <1>0, <3>1
    <3>3. action[q] \in Action
      BY <3>1, HasAction DEF At, Stage
    <3>4. action[q].id \in Item
      BY <3>1, <3>3, ActionIds DEF ItemChange
    <3> QED
      BY <1>1, <2>1, <3>2, <3>4
  <2>2. CASE action'[q] # action[q]
    <3>1. EventProcessed(q)
      BY <1>9, <2>2, SuccessComes DEF Change
    <3>2. /\ action[q].at = "process"
          /\ action[q].name = "completeTodoItem"
          /\ action'[q].id = action[q].id
      <4>1. action[q].at = "process"
        BY <3>1 DEF EventProcessed, At
      <4> QED
        BY <1>9, <3>1, <4>1, ServerMoves
    <3>3. action[q] \in Action
      BY <3>2, HasAction DEF Stage, Awaited
    <3>4. PICK i \in Item : i = action[q].id
      BY <3>2, <3>3, ActionIds DEF ItemChange
    <3>5. 1 \in 1..Len(queue[q]) /\ queue[q][1].name = "completeTodoItem" /\ queue[q][1].id = i
      BY <3>2, <3>3, <3>4, ActionIds
    <3>6. items[i] # "absent"
      BY <1>0, <3>5
    <3>7. items'[i] = Project(items[i], EventOf("completeTodoItem"))
      BY <3>1, <3>2, <3>4, ProcessedAppends
    <3>8. items[i] \in Status \cup {"absent"}
      BY DEF PageTypeOK, ServerTypeOK
    <3>9. PICK name \in ItemChange : name = "completeTodoItem"
      BY DEF ItemChange
    <3> QED
      BY <3>2, <3>4, <3>6, <3>7, <3>8, <3>9, ProjectOf
  <2> QED
    BY <2>1, <2>2
<1> QED
  BY <1>8, <1>9 DEF ThereInv

(* What a page is going to show stays so while its calls are handled. *)
LEMMA WillShowStep ==
    ASSUME PageTypeOK, CallsInv, ActionInv, [PageNext]_allVars, faults = 0, faults' = 0,
           NEW p \in Page, NEW i \in Item, Done(items[i]), WillShow(p, i)
    PROVE  WillShow(p, i)'
<1> DEFINE Has == Done(gathered[p].items[i])
           Shows == Has /\ Done(shown[p].items[i])
           Shown(m) == queue[p][m].name = "getTodoStatistics"
           AboutItems(k) == queue[p][k].name = "getTodoItems" /\ (k = 1 => Unanswered(p))
<1>0. \/ Shows
      \/ Has /\ \E m \in 1..Len(queue[p]) : Shown(m)
      \/ \E m \in 1..Len(queue[p]) : \E k \in 1..(m - 1) : Shown(m) /\ AboutItems(k)
  BY DEF WillShow
<1>1. \A m \in 1..Len(queue[p]) : \A k \in 1..(m - 1) : k \in 1..Len(queue[p]) /\ k \in Nat /\ m \in Nat
  <2>1. Len(queue[p]) \in Nat
    BY LenProperties DEF PageTypeOK
  <2> QED
    BY <2>1
<1>2. ASSUME gathered'[p] = gathered[p], shown'[p] = shown[p],
             \A k \in 1..Len(queue[p]) : k \in 1..Len(queue'[p]) /\ queue'[p][k] = queue[p][k],
             1 \in 1..Len(queue[p]) /\ queue[p][1].name = "getTodoItems" /\ Unanswered(p) => Unanswered(p)'
      PROVE  WillShow(p, i)'
  <2>1. CASE Shows
    BY <1>2, <2>1 DEF WillShow
  <2>2. CASE Has /\ \E m \in 1..Len(queue[p]) : Shown(m)
    BY <1>2, <2>2 DEF WillShow
  <2>3. CASE \E m \in 1..Len(queue[p]) : \E k \in 1..(m - 1) : Shown(m) /\ AboutItems(k)
    <3>1. PICK m \in 1..Len(queue[p]) : \E k \in 1..(m - 1) : Shown(m) /\ AboutItems(k)
      BY <2>3
    <3>2. PICK k \in 1..(m - 1) : Shown(m) /\ AboutItems(k)
      BY <3>1
    <3>3. m \in 1..Len(queue'[p]) /\ Shown(m)' /\ queue'[p][k].name = "getTodoItems"
      BY <1>1, <1>2, <3>2
    <3>4. k = 1 => Unanswered(p)'
      BY <1>1, <1>2, <3>2
    <3> QED
      BY <3>3, <3>4 DEF WillShow
  <2> QED
    BY <1>0, <2>1, <2>2, <2>3
<1>3. CASE UNCHANGED allVars
  BY <1>2, <1>3 DEF allVars, serverVars, pageVars, Unanswered, At
<1>4. ASSUME NEW q \in Page, NEW l \in List, Select(q, l) PROVE WillShow(p, i)'
  BY <1>2, <1>4 DEF Select, serverVars, Unanswered, At
<1>5. ASSUME NEW q \in Page, Dispatch(q) PROVE WillShow(p, i)'
  <2>1. UNCHANGED <<queue, gathered, shown>>
    BY <1>5 DEF Dispatch, pageVars
  <2>2. queue[p][1].name = "getTodoItems" /\ Unanswered(p) => Unanswered(p)'
    <3>1. CASE q = p
      BY <1>5, <3>1, DispatchMoves DEF Unanswered, At, Question
    <3>2. CASE q # p
      <4>1. action'[p] = action[p]
        BY <1>5, <3>2, DispatchMoves
      <4> QED
        BY <4>1 DEF Unanswered, At
    <3> QED
      BY <3>1, <3>2
  <2> QED
    BY <1>2, <2>1, <2>2
<1>6. ASSUME NEW q \in Page, StateRead(q) \/ EventWritten(q) \/ EventProcessed(q) \/ Throws(q), UNCHANGED pageVars
      PROVE  WillShow(p, i)'
  <2>1. UNCHANGED <<queue, gathered, shown>>
    BY <1>6 DEF pageVars
  <2>2. queue[p][1].name = "getTodoItems" /\ Unanswered(p) => Unanswered(p)'
    <3>1. CASE q = p
      <4>1. ~Throws(p)
        BY DEF Throws
      <4>2. action[p] \in Action /\ action[p].name \in Change
        BY <1>6, <3>1, <4>1, ServerMoves
      <4>3. queue[p][1].name # "getTodoItems"
        BY <4>2, ActionIds DEF Change
      <4> QED
        BY <4>3
    <3>2. CASE q # p
      <4>1. action'[p] = action[p]
        BY <1>6, <3>2, ServerMoves
      <4> QED
        BY <4>1 DEF Unanswered, At
    <3> QED
      BY <3>1, <3>2
  <2> QED
    BY <1>2, <2>1, <2>2
<1>7. ASSUME NEW q \in Page, Clicked(q) PROVE WillShow(p, i)'
  <2>1. UNCHANGED <<action, gathered, shown>> /\ \E c \in PageCall : Grows(q, c)
    BY <1>7, ClickCalls DEF serverVars
  <2>2. PICK c \in PageCall : Grows(q, c)
    BY <2>1
  <2>3. \A k \in 1..Len(queue[p]) : k \in 1..Len(queue'[p]) /\ queue'[p][k] = queue[p][k]
    <3>1. Len(queue[p]) \in Nat
      BY LenProperties DEF PageTypeOK
    <3>2. CASE q # p
      BY <2>2, <3>2 DEF Grows
    <3>3. CASE q = p
      BY <2>2, <3>1, <3>3 DEF Grows
    <3> QED
      BY <3>2, <3>3
  <2>4. Unanswered(p) => Unanswered(p)'
    BY <2>1 DEF Unanswered, At
  <2> QED
    BY <1>2, <2>1, <2>3, <2>4
<1>8. ASSUME NEW q \in Page, Answered(q) PROVE WillShow(p, i)'
  <2>1. UNCHANGED <<queue, shown, items>>
    BY <1>8 DEF Answered
  <2>2. CASE q # p
    <3>1. gathered'[p] = gathered[p] /\ action'[p] = action[p]
      BY <1>8, <2>2, AnsweredTypes, AnsweredMoves
    <3>2. Unanswered(p) => Unanswered(p)'
      BY <3>1 DEF Unanswered, At
    <3> QED
      BY <1>2, <2>1, <3>1, <3>2
  <2>3. CASE q = p
    <3>1. /\ gathered'[p].items = IF action[p].name = "getTodoItems" THEN items ELSE gathered[p].items
          /\ action[p] \in Action
      BY <1>8, <2>3, AnsweredTypes
    <3>2. action[p].name = queue[p][1].name
      BY <3>1, ActionIds
    <3>3. CASE Shows
      BY <2>1, <3>1, <3>3 DEF WillShow
    <3>4. CASE Has /\ \E m \in 1..Len(queue[p]) : Shown(m)
      BY <2>1, <3>1, <3>4 DEF WillShow
    <3>5. CASE \E m \in 1..Len(queue[p]) : \E k \in 1..(m - 1) : Shown(m) /\ AboutItems(k)
      <4>1. PICK m \in 1..Len(queue[p]) : \E k \in 1..(m - 1) : Shown(m) /\ AboutItems(k)
        BY <3>5
      <4>2. PICK k \in 1..(m - 1) : Shown(m) /\ AboutItems(k)
        BY <4>1
      <4>3. CASE action[p].name = "getTodoItems"
        <5>1. Has'
          BY <3>1, <4>3
        <5> QED
          BY <2>1, <4>2, <5>1 DEF WillShow
      <4>4. CASE action[p].name # "getTodoItems"
        <5>1. k # 1
          BY <3>2, <4>2, <4>4
        <5> QED
          BY <2>1, <4>2, <5>1 DEF WillShow
      <4> QED
        BY <4>3, <4>4
    <3> QED
      BY <1>0, <3>3, <3>4, <3>5
  <2> QED
    BY <2>2, <2>3
<1>9. ASSUME NEW q \in Page, Gathered(q) \/ LoadEnds(q) \/ Changed(q) PROVE WillShow(p, i)'
  <2>1. PICK cs \in Seq(PageCall) : Shifted(q, cs)
    BY <1>9, EndShifts
  <2>2. action'[q] = NoAction /\ \A r \in Page : r # q => action'[r] = action[r]
    BY <1>9, EndMoves
  <2>3. /\ \A r \in Page : r # q => gathered'[r] = gathered[r] /\ shown'[r] = shown[r]
        /\ gathered'[q].items = gathered[q].items
        /\ IF LoadEnds(q) THEN shown'[q].items = gathered[q].items ELSE shown'[q].items = shown[q].items
    <3>1. CASE LoadEnds(q)
      BY <3>1, LoadEndsTypes
    <3>2. CASE ~LoadEnds(q)
      <4>1. UNCHANGED <<gathered, shown>>
        BY <1>9, <3>2 DEF Gathered, Changed
      <4> QED
        BY <3>2, <4>1
    <3> QED
      BY <3>1, <3>2
  <2>4. CASE q # p
    <3>1. queue'[p] = queue[p]
      BY <2>1, <2>4 DEF Shifted
    <3>2. Unanswered(p) => Unanswered(p)'
      BY <2>2, <2>4 DEF Unanswered, At
    <3> QED
      BY <1>2, <2>3, <2>4, <3>1, <3>2
  <2>5. CASE q = p
    <3>1. action[p].at \in {"success", "failure"}
      BY <1>9, <2>5 DEF Gathered, LoadEnds, Changed, Over, At
    <3>2. action[p] \in Action
      BY <3>1, HasAction DEF Stage
    <3>3. ~Unanswered(p) /\ action[p].name = queue[p][1].name
      BY <3>1, <3>2, HasAction, ActionIds DEF Unanswered, At
    <3>4. queue[p][1].name = "getTodoStatistics" => LoadEnds(p)
      BY <1>9, <2>5, <3>3 DEF Gathered, Changed, Change
    <3>5. Unanswered(p)'
      BY <2>2, <2>5 DEF Unanswered
    <3>6. \A k \in 1..Len(queue[p]) : k > 1 => k - 1 \in 1..Len(queue'[p]) /\ queue'[p][k - 1] = queue[p][k]
      BY <2>1, <2>5, CallsGo
    <3>7. CASE Shows
      BY <2>3, <2>5, <3>7 DEF WillShow
    <3>8. CASE Has /\ \E m \in 1..Len(queue[p]) : Shown(m)
      <4>1. PICK m \in 1..Len(queue[p]) : Shown(m)
        BY <3>8
      <4>2. Len(queue[p]) \in Nat
        BY LenProperties DEF PageTypeOK
      <4>3. CASE m = 1
        BY <2>3, <2>5, <3>4, <3>8, <4>1, <4>3 DEF WillShow
      <4>4. CASE m # 1
        <5>1. m > 1
          BY <4>2, <4>4
        <5>2. m - 1 \in 1..Len(queue'[p]) /\ queue'[p][m - 1] = queue[p][m]
          BY <3>6, <5>1
        <5> QED
          BY <2>3, <2>5, <3>8, <4>1, <5>2 DEF WillShow
      <4> QED
        BY <4>3, <4>4
    <3>9. CASE \E m \in 1..Len(queue[p]) : \E k \in 1..(m - 1) : Shown(m) /\ AboutItems(k)
      <4>1. PICK m \in 1..Len(queue[p]) : \E k \in 1..(m - 1) : Shown(m) /\ AboutItems(k)
        BY <3>9
      <4>2. PICK k \in 1..(m - 1) : Shown(m) /\ AboutItems(k)
        BY <4>1
      <4>3. k # 1
        BY <3>3, <4>2
      <4>4. k \in Nat /\ m \in Nat /\ k > 1 /\ m > 1 /\ k \in 1..Len(queue[p])
        BY <1>1, <4>3
      <4>5. PICK mm \in 1..Len(queue'[p]) : mm = m - 1 /\ queue'[p][mm] = queue[p][m]
        BY <3>6, <4>4
      <4>6. PICK kk \in 1..Len(queue'[p]) : kk = k - 1 /\ queue'[p][kk] = queue[p][k]
        BY <3>6, <4>4
      <4>7. kk \in 1..(mm - 1)
        BY <4>4, <4>5, <4>6
      <4>8. queue'[p][mm].name = "getTodoStatistics" /\ queue'[p][kk].name = "getTodoItems"
        BY <4>2, <4>5, <4>6
      <4> QED
        BY <3>5, <4>5, <4>7, <4>8 DEF WillShow
    <3> QED
      BY <1>0, <3>7, <3>8, <3>9
  <2> QED
    BY <2>4, <2>5
<1> QED
  BY <1>3, <1>4, <1>5, <1>6, <1>7, <1>8, <1>9, PageStepCases DEF Clicked

LEMMA FinishedStep ==
    ASSUME PageTypeOK, CallsInv, ActionInv, HistoryInv, OwedInv, CreationInv, ThereInv, FinishedInv,
           [PageNext]_allVars
    PROVE  FinishedInv'
<1>1. \A i \in Item : Done(items[i]) => Done(items'[i])
  BY ItemStays
<1>2. faults' = 0 => faults = 0
  <2>1. faults \in Nat
    BY DEF PageTypeOK, ServerTypeOK
  <2>2. faults' = faults \/ \E p \in Page : Throws(p)
    BY PageStepCases, ClickCalls DEF Clicked, allVars, serverVars, Select, Dispatch, Answered, Gathered,
       LoadEnds, Changed, StateRead, EventWritten, EventProcessed
  <2>3. ASSUME NEW p \in Page, Throws(p) PROVE faults' # 0
    BY <2>1, <2>3 DEF Throws
  <2> QED
    BY <2>2, <2>3
<1>3. ASSUME NEW p \in Page, NEW i \in finished[p]
      PROVE  i \in Item /\ Done(items'[i]) /\ (faults' = 0 => WillShow(p, i)')
  <2>1. i \in Item /\ Done(items[i]) /\ (faults = 0 => WillShow(p, i))
    BY <1>3 DEF FinishedInv
  <2> QED
    BY <1>1, <1>2, <2>1, WillShowStep
<1>4. ASSUME NEW p \in Page, Changed(p), At(p, "success"), action[p].name = "completeTodoItem",
             NEW i, i = action[p].id
      PROVE  i \in Item /\ Done(items'[i]) /\ WillShow(p, i)'
  <2>1. action[p] \in Action
    BY <1>4, HasAction DEF At, Stage
  <2>2. i \in Item /\ Len(queue[p]) \in Nat \ {0}
    BY <1>4, <2>1, ActionIds DEF ItemChange
  <2>3. Done(items[i])
    BY <1>4 DEF ThereInv
  <2>4. PICK cs \in Seq(PageCall) : /\ Shifted(p, cs)
                                    /\ Len(cs) = 3
                                    /\ cs[2].name = "getTodoItems"
                                    /\ cs[3].name = "getTodoStatistics"
    BY <1>4, EndShifts
  <2>5. PICK n \in Nat \ {0} : n = Len(queue[p])
    BY <2>2
  <2>6. Len(queue'[p]) = n + 2
    BY <2>4, <2>5 DEF Shifted
  <2>7. \A j \in 1..3 : queue'[p][n - 1 + j] = cs[j]
    BY <2>4, <2>5 DEF Shifted
  <2>8. queue'[p][n + 1].name = "getTodoItems" /\ queue'[p][n + 2].name = "getTodoStatistics"
    <3>1. n - 1 + 2 = n + 1 /\ n - 1 + 3 = n + 2 /\ 2 \in 1..3 /\ 3 \in 1..3
      OBVIOUS
    <3>2. queue'[p][n - 1 + 2] = cs[2] /\ queue'[p][n - 1 + 3] = cs[3]
      BY <2>7, <3>1
    <3> QED
      BY <2>4, <3>1, <3>2
  <2>9. n + 2 \in 1..Len(queue'[p]) /\ n + 1 \in 1..((n + 2) - 1) /\ n + 1 # 1
    BY <2>6
  <2> QED
    BY <1>1, <2>2, <2>3, <2>8, <2>9 DEF WillShow
<1>5. ASSUME NEW p \in Page, NEW i \in finished'[p], i \notin finished[p]
      PROVE  Changed(p) /\ At(p, "success") /\ action[p].name = "completeTodoItem" /\ i = action[p].id
  <2>1. finished \in [Page -> SUBSET Item]
    BY DEF PageTypeOK
  <2>2. finished' # finished
    BY <1>5
  <2>3. PICK q \in Page : Changed(q)
    BY <2>2, PageStepCases, ClickCalls DEF Clicked, allVars, pageVars, Select, Dispatch, Answered, Gathered,
       LoadEnds
  <2>4. /\ At(q, "success") /\ action[q].name = "completeTodoItem"
        /\ finished' = [finished EXCEPT ![q] = @ \cup {action[q].id}]
    BY <2>2, <2>3 DEF Changed
  <2>5. q = p
    BY <1>5, <2>1, <2>4
  <2> QED
    BY <1>5, <2>1, <2>3, <2>4, <2>5
<1>6. ASSUME NEW p \in Page, NEW i \in finished'[p]
      PROVE  i \in Item /\ Done(items'[i]) /\ (faults' = 0 => WillShow(p, i)')
  BY <1>3, <1>4, <1>5, <1>6
<1> QED
  BY <1>6 DEF FinishedInv

-----------------------------------------------------------------------------
(* The pages' theorems                                                      *)

PagesInv ==
    /\ PageTypeOK
    /\ CallsInv
    /\ ActionInv
    /\ HistoryInv
    /\ OwedInv
    /\ OnceInv
    /\ NoneLost
    /\ CreationInv
    /\ ThereInv
    /\ FinishedInv

LEMMA PageInitInv == PageInit => PagesInv
<1> SUFFICES ASSUME PageInit PROVE PagesInv
  OBVIOUS
<1>0. PICK load \in Seq(PageCall) : /\ load = Load(TRUE)
                                    /\ \A k \in 1..Len(load) : load[k].name \in Question
  <2>1. \A k \in 1..3 : Load(TRUE)[k].name \in Question
    BY LoadIs
  <2> QED
    BY <2>1, LoadIs
<1>1. /\ queue = [p \in Page |-> load]
      /\ action = [p \in Page |-> NoAction]
      /\ finished = [p \in Page |-> {}]
      /\ faults = 0
      /\ items = [i \in Item |-> "absent"]
      /\ processed = [i \in Item |-> <<>>]
      /\ events = [a \in List \cup Item |-> <<>>]
  BY <1>0 DEF PageInit, ServerInit
<1>2. PageTypeOK
  <2>1. ServerTypeOK
    <3>1. <<>> \in Seq(TodoEvent \cup {"todo_list_created"}) /\ <<>> \in Seq(Nat)
      BY EmptySeq
    <3> QED
      BY <1>1, <3>1 DEF PageInit, ServerInit, ServerTypeOK
  <2>2. Empty \in View
    BY DEF Empty, View, Statistics
  <2>3. [forms |-> {}, completing |-> "none", deleting |-> "none"] \in Disabled
    BY DEF Disabled
  <2> QED
    BY <1>0, <1>1, <2>1, <2>2, <2>3 DEF PageInit, PageTypeOK
<1>3. \A p \in Page : ~At(p, "process")
  BY <1>1 DEF At, NoAction
<1>4. \A k \in 1..Len(load) : load[k].name \notin Change
  BY <1>0 DEF Question, Change
<1>5. CallsInv
  BY <1>1, <1>4 DEF CallsInv, ItemChange, Change
<1>6. ActionInv
  BY <1>1 DEF ActionInv
<1>7. \A i \in Item : events[i] = <<>> /\ processed[i] = <<>> /\ Len(events[i]) = 0 /\ Len(processed[i]) = 0
  BY <1>1, EmptySeq
<1>8. HistoryInv
  <2>1. SUFFICES ASSUME NEW i \in Item PROVE ProcessedTypes(i) = <<>>
    BY <1>1, <1>7, <2>1, ProjectedEmpty, EmptySeq DEF HistoryInv
  <2>2. ProcessedTypes(i) = [k \in 1..0 |-> events[i][processed[i][k]]]
    BY <1>7 DEF ProcessedTypes
  <2> QED
    BY <2>2
<1>9. OwedInv /\ OnceInv /\ NoneLost
  BY <1>3, <1>7 DEF OwedInv, OnceInv, NoneLost, Owes
<1>10. CreationInv
  <2>1. \A p \in Page : \A k \in 1..Len(queue[p]), i \in Item : ~Creates(p, k, i)
    BY <1>1, <1>4 DEF Creates, Change
  <2> QED
    BY <1>1, <2>1 DEF CreationInv
<1>11. ThereInv
  <2>1. \A p \in Page : \A i \in Item : gathered[p].items[i] = "absent" /\ shown[p].items[i] = "absent"
    BY DEF PageInit, Empty
  <2>2. \A p \in Page : ~At(p, "success")
    BY <1>1 DEF At, NoAction
  <2>3. \A p \in Page : \A k \in 1..Len(queue[p]) : queue[p][k].name \notin {"completeTodoItem", "deleteTodoItem"}
    BY <1>1, <1>4 DEF Change
  <2> QED
    BY <2>1, <2>2, <2>3 DEF ThereInv
<1>12. FinishedInv
  BY <1>1 DEF FinishedInv
<1> QED
  BY <1>2, <1>5, <1>6, <1>8, <1>9, <1>10, <1>11, <1>12 DEF PagesInv

LEMMA PagesStep ==
    ASSUME PagesInv, [PageNext]_allVars
    PROVE  PagesInv'
<1> USE DEF PagesInv
<1>1. PageTypeOK'
  BY PageTypeStep
<1>2. CallsInv' /\ ActionInv'
  BY CallsStep, ActionStep
<1>3. HistoryInv' /\ OwedInv'
  BY HistoryStep, OwedStep
<1>4. OnceInv' /\ NoneLost'
  BY OnceStep, NoneLostStep
<1>5. CreationInv' /\ ThereInv'
  BY CreationStep, ThereStep
<1>6. FinishedInv'
  BY FinishedStep
<1> QED
  BY <1>1, <1>2, <1>3, <1>4, <1>5, <1>6

LEMMA PagesAreRight == PageSpec => []PagesInv
<1>1. PagesInv /\ [PageNext]_allVars => PagesInv'
  BY PagesStep
<1> QED
  BY PageInitInv, <1>1, PTL DEF PageSpec

(* The type invariant of the pages, their queues and the actions they call: *)
(* in particular a page that has an action has the call it was made for.    *)
THEOREM PagesTyped == PageSpec => []PageTypeOK
<1>1. PagesInv => PageTypeOK
  BY DEF PagesInv
<1> QED
  BY PagesAreRight, <1>1, PTL

(* A page that has completed an item and has nothing left to load does not  *)
(* show it as pending, whatever the other pages do to it meanwhile.         *)
THEOREM WritesAreRead == PageSpec => []ReadsItsWrites
<1>1. ASSUME PagesInv PROVE ReadsItsWrites
  <2>1. ASSUME NEW p \in Page, NEW i \in finished[p], queue[p] = <<>>, faults = 0
        PROVE  shown[p].items[i] \notin {"absent", "pending"}
    <3>1. WillShow(p, i)
      BY <1>1, <2>1 DEF PagesInv, FinishedInv
    <3>2. Len(queue[p]) = 0
      BY <2>1, EmptySeq
    <3>3. Done(shown[p].items[i])
      BY <3>1, <3>2 DEF WillShow
    <3> QED
      BY <3>3 DEF Done
  <2> QED
    BY <2>1 DEF ReadsItsWrites
<1>2. PagesInv => ReadsItsWrites
  BY <1>1
<1> QED
  BY PagesAreRight, <1>2, PTL

(* The projection of an item differs in the end from what its log says only *)
(* if an event was lost to a failure or processed before an earlier one.    *)
THEOREM DivergenceExplained == PageSpec => []DivergesOnlyByOvertaking
<1>1. PagesInv => DivergesOnlyByOvertaking
  BY Diverges DEF PagesInv
<1> QED
  BY PagesAreRight, <1>1, PTL

=============================================================================
