--------------------------- MODULE KVStorageProofs ---------------------------
(***************************************************************************)
(* Theorems about KVStorage, for any number of goroutines and aggregates,  *)
(* any numbers and any batches.                                            *)
(*                                                                         *)
(* Between its unlocked steps a call carries numbers that it has checked   *)
(* against a memory that others change.  CallsInv says what a call is made *)
(* of at each step, ReadableInv that what it wrote stays readable, GapInv  *)
(* that the stored numbers, and those a batch has claimed in memory, leave *)
(* no gap, and MemoryInv how memory and database differ for an aggregate   *)
(* of one writer.                                                          *)
(***************************************************************************)
EXTENDS KVStorage, FiniteSetTheorems, TLAPS

\* The steps of WriteEvent, and of WriteEventsBatch.
Single == {"check", "put", "remember"}
Grouped == {"group", "advance", "putBatch"}

\* The call of t is one event.
Calls(t, a, n) == call[t] = {[AggregateID |-> a, Sequence |-> n, Data |-> t]}

\* The numbers of the call for a are m + 1, ..., h.
Run(t, a, m, h) == m < h /\ Numbers(call[t], a) = (m + 1)..h

\* What a call is made of.
CallInv(t) ==
    /\ \A e \in call[t] : /\ e.Sequence \in 0..MaxSequence
                          /\ e.Data = t
                          /\ <<t, e.AggregateID>> \in MayWrite
    /\ pc[t] \in Single => \E a \in Aggregate, n \in 0..MaxSequence : Calls(t, a, n)
    /\ pc[t] \in Grouped => todo[t] \subseteq Aggregates(call[t])
    /\ pc[t] = "advance" => target[t] \in todo[t]
    /\ pc[t] = "putBatch" => todo[t] = {}
    /\ \A a \in Advanced(t) : \E m, h \in Nat : Run(t, a, m, h)
    /\ pc[t] = "advance" => \E m, h \in Nat : Run(t, target[t], m, h)

CallsInv == \A t \in Thread : CallInv(t)

Readable(t) == \A e \in call[t] : e.Sequence \in Numbers(stored, e.AggregateID)

\* What has been written can be read.
ReadableInv ==
    /\ AcknowledgedReadable
    /\ \A t \in Thread : pc[t] = "remember" => Readable(t)

\* The numbers that batches have claimed in memory and not written yet.
Claims(a) == UNION {Numbers(call[t], a) : t \in {t \in Thread : a \in Advanced(t)}}

\* What the calls in progress may still bring to numbers 1, ..., k.
Pending(t, a, k) ==
    /\ \A n \in 0..MaxSequence : Calls(t, a, n) =>
          /\ pc[t] = "put" => n \in 1..(k + 1)
          /\ pc[t] = "remember" => n <= k
    /\ pc[t] = "advance" /\ target[t] = a =>
          \A m, h \in Nat : Run(t, a, m, h) => m <= k

Filled(a, k) ==
    /\ Numbers(stored, a) \cup Claims(a) = 1..k
    /\ sequences[a] <= k
    /\ lastKey[a] <= k
    /\ \A t \in Thread : Pending(t, a, k)

\* Stored and claimed numbers have no gap, and no call in progress makes one.
GapInv == \A a \in Aggregate \ spoiled : \E k \in Nat : Filled(a, k)

\* An aggregate of one writer t: where t is decides how far memory and
\* database are apart.
Follows(t, a) ==
    /\ Numbers(stored, a) = 1..lastKey[a]
    /\ \A n \in 0..MaxSequence : Calls(t, a, n) =>
          /\ pc[t] = "put" => open /\ n = lastKey[a] + 1
          /\ pc[t] = "remember" => n = lastKey[a]
    /\ pc[t] = "advance" /\ target[t] = a =>
          \A m, h \in Nat : Run(t, a, m, h) => m = lastKey[a]
    /\ a \in Advanced(t) =>
          Run(t, a, lastKey[a], sequences[a])
    /\ open /\ a \notin Advanced(t) /\ ~(pc[t] = "remember" /\ \E n \in 0..MaxSequence : Calls(t, a, n))
          => sequences[a] = lastKey[a]

MemoryInv ==
    \A a \in Aggregate \ spoiled, t \in Thread :
        (\A u \in Thread : <<u, a>> \in MayWrite => u = t) => Follows(t, a)

\* A closed storage has no call in progress.
ClosedInv == ~open => \A t \in Thread : pc[t] = "idle"

\* The inductive invariant of what is stored, and that of the numbers.
StoreInv == TypeOK /\ CallsInv /\ ClosedInv /\ SequenceKeyHasEvent /\ ReadableInv

Inv == StoreInv /\ GapInv /\ MemoryInv

-----------------------------------------------------------------------------
(* The operators                                                            *)

(* The number of an event is among its aggregate's. *)
LEMMA NumbersDef ==
    ASSUME NEW E, NEW a, NEW n
    PROVE  n \in Numbers(E, a) <=> \E e \in E : e.AggregateID = a /\ e.Sequence = n
BY DEF Numbers

(* What a write of E does to the numbers of an aggregate: it adds those of E. *)
LEMMA PutNumbers ==
    ASSUME NEW E, NEW a, Put(E)
    PROVE  Numbers(stored, a)' = Numbers(stored, a) \cup Numbers(E, a)
<1>1. ASSUME NEW n \in Numbers(stored, a)' PROVE n \in Numbers(stored, a) \cup Numbers(E, a)
  BY <1>1 DEF Put, Numbers
<1>2. ASSUME NEW n \in Numbers(E, a) PROVE n \in Numbers(stored, a)'
  BY <1>2 DEF Put, Numbers
<1>3. ASSUME NEW n \in Numbers(stored, a), n \notin Numbers(E, a) PROVE n \in Numbers(stored, a)'
  <2>1. PICK e \in stored : e.AggregateID = a /\ e.Sequence = n
    BY <1>3, NumbersDef
  <2>2. \A d \in E : d.AggregateID # e.AggregateID \/ d.Sequence # e.Sequence
    BY <1>3, <2>1, NumbersDef
  <2> QED
    BY <2>1, <2>2 DEF Put, Numbers
<1> QED
  BY <1>1, <1>2, <1>3

(* The numbers of an aggregate that has events are not empty. *)
LEMMA AggregatesDef ==
    ASSUME NEW E, NEW a
    PROVE  /\ a \in Aggregates(E) <=> Numbers(E, a) # {}
           /\ a \in Aggregates(E) <=> \E e \in E : e.AggregateID = a
BY DEF Aggregates, Numbers

(* The highest of the numbers m + 1, ..., h is h. *)
LEMMA HighestOfRun ==
    ASSUME NEW E, NEW a, NEW m \in Nat, NEW h \in Nat, m < h, Numbers(E, a) = (m + 1)..h
    PROVE  Highest(E, a) = h
<1>1. h \in Numbers(E, a) /\ \A k \in Numbers(E, a) : k <= h
  OBVIOUS
<1>2. \A n \in Numbers(E, a) : (\A k \in Numbers(E, a) : k <= n) => n = h
  BY <1>1
<1> QED
  BY <1>1, <1>2 DEF Highest

(* Numbers without a gap have none after one more. *)
LEMMA NextNumber == ASSUME NEW k \in Nat PROVE (1..k) \cup {k + 1} = 1..(k + 1)
OBVIOUS

(* A call of one event. *)
LEMMA SingleCall ==
    ASSUME NEW t, NEW a \in Aggregate, NEW n \in Nat, Calls(t, a, n)
    PROVE  /\ Aggregates(call[t]) = {a}
           /\ OwnAggregate(t) = a
           /\ Numbers(call[t], a) = {n}
           /\ Highest(call[t], a) = n
<1>1. \A e : e \in call[t] <=> e = [AggregateID |-> a, Sequence |-> n, Data |-> t]
  BY DEF Calls
<1> DEFINE e1 == [AggregateID |-> a, Sequence |-> n, Data |-> t]
<1>2. Aggregates(call[t]) = {a} /\ Numbers(call[t], a) = {n}
  <2>1. e1 \in call[t] /\ e1.AggregateID = a /\ e1.Sequence = n /\ \A e \in call[t] : e = e1
    BY <1>1
  <2> HIDE DEF e1
  <2>2. \A b : b \in Aggregates(call[t]) <=> b = a
    BY <2>1 DEF Aggregates
  <2>3. \A k : k \in Numbers(call[t], a) <=> k = n
    BY <2>1, NumbersDef
  <2> QED
    BY <2>2, <2>3
<1>3. OwnAggregate(t) = a
  BY <1>2 DEF OwnAggregate
<1>4. Highest(call[t], a) = n
  BY <1>2 DEF Highest
<1> QED
  BY <1>2, <1>3, <1>4

(* A group that passes the check carries the numbers after the one in memory. *)
LEMMA CheckedIsRun ==
    ASSUME TypeOK, NEW E \in SUBSET Event, NEW a \in Aggregate, a \in Aggregates(E),
           \A e \in E : e.Sequence \in 0..MaxSequence, IsNext(E, a)
    PROVE  \E h \in Nat : sequences[a] < h /\ Numbers(E, a) = (sequences[a] + 1)..h
<1> USE KVStorageAssumption
<1> DEFINE N == Numbers(E, a)
<1>1. N \subseteq 0..MaxSequence /\ N # {}
  BY AggregatesDef DEF Numbers
<1>2. IsFiniteSet(N)
  <2>1. IsFiniteSet(0..MaxSequence)
    BY FS_Interval
  <2> QED
    BY <1>1, <2>1, FS_Subset
<1>3. Cardinality(N) \in Nat /\ Cardinality(N) # 0
  BY <1>1, <1>2, FS_CardinalityType, FS_EmptySet
<1>4. sequences[a] \in Nat
  BY DEF TypeOK
<1>5. N = (sequences[a] + 1)..(sequences[a] + Cardinality(N))
  BY DEF IsNext
<1> HIDE DEF N
<1>6. sequences[a] + Cardinality(N) \in Nat /\ sequences[a] < sequences[a] + Cardinality(N)
  BY <1>3, <1>4
<1> QED
  BY <1>5, <1>6 DEF N

-----------------------------------------------------------------------------
(* Types                                                                    *)

(* The initial states satisfy the invariant of what is stored. *)
LEMMA InitStore == Init => StoreInv
<1> SUFFICES ASSUME Init PROVE StoreInv
  OBVIOUS
<1> USE KVStorageAssumption DEF Init
<1>1. TypeOK
  BY DEF TypeOK
<1>2. CallsInv /\ ClosedInv
  BY DEF CallsInv, CallInv, ClosedInv, Single, Grouped, Advanced
<1>3. SequenceKeyHasEvent /\ ReadableInv
  BY DEF SequenceKeyHasEvent, ReadableInv, AcknowledgedReadable
<1> QED
  BY <1>1, <1>2, <1>3 DEF StoreInv

(* The steps of a goroutine, and its target. *)
Label == {"idle", "check", "put", "remember", "group", "advance", "putBatch"}

(* A write keeps the database well formed. *)
LEMMA PutTypes ==
    ASSUME TypeOK, NEW t \in Thread, NEW E \in SUBSET Event, \A e \in E : e.Data = t, Put(E),
           \A a \in Aggregates(E) : Highest(E, a) \in Nat
    PROVE  /\ stored' \subseteq Event
           /\ \A d, e \in stored' :
                 d.AggregateID = e.AggregateID /\ d.Sequence = e.Sequence => d = e
           /\ lastKey' \in [Aggregate -> Nat]
<1>1. \A d, e \in E : d.AggregateID = e.AggregateID /\ d.Sequence = e.Sequence => d = e
  BY DEF Event
<1> QED
  BY <1>1 DEF TypeOK, Put

(* What a call writes, or claims, has a highest number of its own. *)
LEMMA HighestWritten ==
    ASSUME TypeOK, CallsInv, NEW t \in Thread, NEW a \in Aggregate,
           \/ pc[t] \in {"put", "remember", "putBatch"} /\ a \in Aggregates(call[t])
           \/ pc[t] = "advance" /\ a = target[t]
    PROVE  Highest(call[t], a) \in Nat /\ Highest(call[t], a) \in Numbers(call[t], a)
<1>1. CallInv(t)
  BY DEF CallsInv
<1>2. CASE pc[t] \in {"put", "remember"}
  <2>1. PICK b \in Aggregate, n \in 0..MaxSequence : Calls(t, b, n)
    BY <1>1, <1>2 DEF CallInv, Single
  <2>2. n \in Nat
    BY KVStorageAssumption
  <2>3. a \in Aggregates(call[t])
    BY <1>2
  <2>4. Aggregates(call[t]) = {b} /\ Numbers(call[t], b) = {n} /\ Highest(call[t], b) = n
    BY <2>1, <2>2, SingleCall
  <2>5. a = b
    BY <2>3, <2>4
  <2> QED
    BY <2>2, <2>4, <2>5
<1>3. CASE pc[t] \in {"putBatch", "advance"}
  <2>1. PICK m \in Nat, h \in Nat : Run(t, a, m, h)
    BY <1>1, <1>3 DEF CallInv, Advanced
  <2> QED
    BY <2>1, HighestOfRun DEF Run
<1> QED
  BY <1>2, <1>3

(* What Next comes to. *)
LEMMA StepCases ==
    ASSUME [Next]_vars
    PROVE  \/ Open \/ Crash
           \/ \E t \in Thread, a \in Aggregate, n \in 0..MaxSequence :
                 <<t, a>> \in MayWrite /\ WriteEvent(t, a, n)
           \/ \E t \in Thread : CheckPasses(t) \/ CheckFails(t) \/ PutEvent(t) \/ PutFails(t) \/ Remember(t)
           \/ \E t \in Thread, E \in SUBSET Event : E \in Batches(t) /\ WriteEventsBatch(t, E)
           \/ \E t \in Thread, a \in Aggregate : CheckGroup(t, a) \/ GroupFails(t, a)
           \/ \E t \in Thread : AdvanceGroup(t) \/ PutBatch(t) \/ PutBatchFails(t)
           \/ UNCHANGED vars
<1>1. \A t \in MayBatch : t \in Thread
  BY KVStorageAssumption
<1>2. ASSUME NEW t \in Thread, NEW E, E \in Batches(t) PROVE E \in SUBSET Event
  <2>1. [AggregateID : {a \in Aggregate : <<t, a>> \in MayWrite},
         Sequence : 1..MaxSequence, Data : {t}] \subseteq Event
    BY KVStorageAssumption DEF Event
  <2> QED
    BY <1>2, <2>1 DEF Batches
<1> QED
  BY <1>1, <1>2 DEF Next

(* The types are kept. *)
LEMMA TypeStep == ASSUME TypeOK, CallsInv, [Next]_vars PROVE TypeOK'
<1> USE KVStorageAssumption DEF TypeOK
<1>1. ASSUME Open \/ Crash PROVE TypeOK'
  <2>1. UNCHANGED <<stored, lastKey, call>> /\ open' \in BOOLEAN
    BY <1>1 DEF Open, Crash, diskVars
  <2>2. CASE Open
    BY <2>1, <2>2 DEF Open, batchVars
  <2>3. CASE Crash
    <3>1. UNION {Advanced(t) : t \in Thread} \subseteq Aggregate
      BY DEF Advanced, Aggregates, Event
    <3> QED
      BY <2>1, <2>3, <3>1 DEF Crash
  <2> QED
    BY <1>1, <2>2, <2>3
<1>2. ASSUME NEW t \in Thread, NEW a \in Aggregate, NEW n \in 0..MaxSequence, WriteEvent(t, a, n)
      PROVE  TypeOK'
  <2>1. {[AggregateID |-> a, Sequence |-> n, Data |-> t]} \in SUBSET Event
    BY DEF Event
  <2>2. call' \in [Thread -> SUBSET Event]
    BY <1>2, <2>1 DEF WriteEvent
  <2> QED
    BY <1>2, <2>2 DEF WriteEvent, Goto, diskVars, batchVars
<1>3. ASSUME NEW t \in Thread, CheckPasses(t) \/ CheckFails(t) \/ PutFails(t) PROVE TypeOK'
  BY <1>3 DEF CheckPasses, CheckFails, PutFails, Goto, Return, diskVars, batchVars
<1>4. ASSUME NEW t \in Thread, PutEvent(t) \/ PutBatch(t) PROVE TypeOK'
  <2>1. Put(call[t]) /\ pc[t] \in {"put", "putBatch"}
    BY <1>4 DEF PutEvent, PutBatch
  <2>2. \A e \in call[t] : e.Data = t /\ e.AggregateID \in Aggregate
    <3>1. CallInv(t) /\ call[t] \in SUBSET Event
      BY DEF CallsInv
    <3> QED
      BY <3>1 DEF CallInv, Event
  <2>3. \A a \in Aggregates(call[t]) : Highest(call[t], a) \in Nat
    BY <2>1, <2>2, HighestWritten DEF Aggregates
  <2>4. /\ stored' \subseteq Event
        /\ \A d, e \in stored' :
              d.AggregateID = e.AggregateID /\ d.Sequence = e.Sequence => d = e
        /\ lastKey' \in [Aggregate -> Nat]
    BY <2>1, <2>2, <2>3, PutTypes
  <2>5. /\ pc' \in [Thread -> {"idle", "check", "put", "remember", "group", "advance", "putBatch"}]
        /\ outcome' \in [Thread -> {"none", "pending", "ok", "failed", "unheard"}]
        /\ UNCHANGED <<open, sequences, call, todo, target, spoiled>>
    BY <1>4 DEF PutEvent, PutBatch, Goto, Return, batchVars
  <2> QED
    BY <2>4, <2>5
<1>5. ASSUME NEW t \in Thread, Remember(t) PROVE TypeOK'
  <2>1. CallInv(t) /\ pc[t] = "remember"
    BY <1>5 DEF CallsInv, Remember
  <2>2. PICK a \in Aggregate, n \in 0..MaxSequence : Calls(t, a, n)
    BY <2>1 DEF CallInv, Single
  <2>3. OwnAggregate(t) = a /\ Highest(call[t], a) = n /\ n \in Nat
    BY <2>2, SingleCall
  <2>4. sequences' \in [Aggregate -> Nat]
    BY <1>5, <2>3 DEF Remember
  <2> QED
    BY <1>5, <2>4 DEF Remember, Return, Goto, diskVars, batchVars
<1>6. ASSUME NEW t \in Thread, NEW E \in SUBSET Event, WriteEventsBatch(t, E) PROVE TypeOK'
  <2>1. Aggregates(E) \in SUBSET Aggregate
    BY DEF Aggregates, Event
  <2>2. call' \in [Thread -> SUBSET Event] /\ todo' \in [Thread -> SUBSET Aggregate]
    BY <1>6, <2>1 DEF WriteEventsBatch
  <2> QED
    BY <1>6, <2>2 DEF WriteEventsBatch, Goto, diskVars
<1>7. ASSUME NEW t \in Thread, NEW a \in Aggregate, CheckGroup(t, a) PROVE TypeOK'
  BY <1>7 DEF CheckGroup, Goto, diskVars
<1>8. ASSUME NEW t \in Thread, Advanced(t) \subseteq Aggregate,
             (\E a \in Aggregate : GroupFails(t, a)) \/ PutBatchFails(t)
      PROVE  TypeOK'
  <2>1. spoiled' \subseteq Aggregate
    BY <1>8 DEF GroupFails, PutBatchFails
  <2>2. /\ todo' \in [Thread -> SUBSET Aggregate]
        /\ target' \in [Thread -> Aggregate \cup {NoAggregate}]
    BY <1>8 DEF GroupFails, PutBatchFails, batchVars
  <2> QED
    BY <1>8, <2>1, <2>2 DEF GroupFails, PutBatchFails, Return, Goto, diskVars
<1>9. ASSUME NEW t \in Thread, AdvanceGroup(t) PROVE TypeOK'
  <2>1. pc[t] = "advance" /\ target[t] \in todo[t]
    BY <1>9 DEF AdvanceGroup, CallsInv, CallInv
  <2>2. target[t] \in Aggregate
    BY <2>1
  <2>3. Highest(call[t], target[t]) \in Nat
    BY <2>1, <2>2, HighestWritten
  <2>4. sequences' \in [Aggregate -> Nat]
    BY <1>9, <2>2, <2>3 DEF AdvanceGroup
  <2>5. todo' \in [Thread -> SUBSET Aggregate]
    BY <1>9 DEF AdvanceGroup
  <2>6. pc' \in [Thread -> {"idle", "check", "put", "remember", "group", "advance", "putBatch"}]
    BY <1>9 DEF AdvanceGroup, Goto
  <2> QED
    BY <1>9, <2>4, <2>5, <2>6 DEF AdvanceGroup, diskVars
<1>10. \A t \in Thread : Advanced(t) \subseteq Aggregate
  BY DEF Advanced, Aggregates, Event
<1>11. CASE UNCHANGED vars
  BY <1>11 DEF vars, diskVars, batchVars
<1> QED
  BY <1>1, <1>2, <1>3, <1>4, <1>5, <1>6, <1>7, <1>8, <1>9, <1>10, <1>11, StepCases

-----------------------------------------------------------------------------
(* What a call is made of                                                   *)

(* A call that a step leaves alone keeps what it is made of. *)
LEMMA CallStays ==
    ASSUME NEW t \in Thread, CallInv(t), UNCHANGED <<pc[t], call[t], todo[t], target[t]>>
    PROVE  CallInv(t)'
<1>1. Advanced(t)' = Advanced(t) /\ Aggregates(call[t])' = Aggregates(call[t])
  BY DEF Advanced, Aggregates
<1>2. \A b : \A m, h \in Nat : Run(t, b, m, h)' <=> Run(t, b, m, h)
  BY DEF Run, Numbers
<1>3. \A b : \A n \in 0..MaxSequence : Calls(t, b, n)' <=> Calls(t, b, n)
  BY DEF Calls
<1> QED
  BY <1>1, <1>2, <1>3 DEF CallInv

(* An idle goroutine's call is made of what it was. *)
LEMMA CallEnds ==
    ASSUME NEW t \in Thread, CallInv(t), pc'[t] = "idle", call'[t] = call[t]
    PROVE  CallInv(t)'
BY DEF CallInv, Single, Grouped, Advanced

(* Steps of single calls keep what calls are made of. *)
LEMMA SingleStep ==
    ASSUME TypeOK, CallsInv, NEW t \in Thread,
           \/ \E a \in Aggregate, n \in 0..MaxSequence : <<t, a>> \in MayWrite /\ WriteEvent(t, a, n)
           \/ CheckPasses(t) \/ CheckFails(t) \/ PutEvent(t) \/ PutFails(t) \/ Remember(t)
    PROVE  CallsInv'
<1>1. CallInv(t) /\ \A u \in Thread \ {t} : CallInv(u)
  BY DEF CallsInv
<1>2. \A u \in Thread \ {t} : UNCHANGED <<pc[u], call[u], todo[u], target[u]>>
  BY DEF TypeOK, WriteEvent, CheckPasses, CheckFails, PutEvent, PutFails, Remember, Goto, Return, batchVars
<1>3. \A u \in Thread \ {t} : CallInv(u)'
  BY <1>1, <1>2, CallStays
<1>4. CASE \E a \in Aggregate, n \in 0..MaxSequence : <<t, a>> \in MayWrite /\ WriteEvent(t, a, n)
  <2>1. PICK a \in Aggregate, n \in 0..MaxSequence : <<t, a>> \in MayWrite /\ WriteEvent(t, a, n)
    BY <1>4
  <2>2. pc'[t] = "check" /\ call'[t] = {[AggregateID |-> a, Sequence |-> n, Data |-> t]}
    BY <2>1 DEF WriteEvent, Goto, TypeOK
  <2>3. CallInv(t)'
    BY <2>1, <2>2 DEF CallInv, Calls, Single, Grouped, Advanced
  <2> QED
    BY <1>3, <2>3 DEF CallsInv
<1>5. CASE CheckPasses(t) \/ PutEvent(t)
  <2>1. pc[t] \in Single /\ pc'[t] \in {"put", "remember"} /\ call'[t] = call[t]
    BY <1>5 DEF CheckPasses, PutEvent, Goto, TypeOK, Single
  <2>2. CallInv(t)'
    BY <1>1, <2>1 DEF CallInv, Calls, Single, Grouped, Advanced
  <2> QED
    BY <1>3, <2>2 DEF CallsInv
<1>6. CASE CheckFails(t) \/ PutFails(t) \/ Remember(t)
  <2>1. pc'[t] = "idle" /\ call'[t] = call[t]
    BY <1>6 DEF CheckFails, PutFails, Remember, Goto, Return, TypeOK
  <2> QED
    BY <1>1, <1>3, <2>1, CallEnds DEF CallsInv
<1> QED
  BY <1>4, <1>5, <1>6

(* Steps of batches keep what calls are made of. *)
LEMMA BatchStep ==
    ASSUME TypeOK, CallsInv, NEW t \in Thread,
           \/ \E E \in SUBSET Event : E \in Batches(t) /\ WriteEventsBatch(t, E)
           \/ \E a \in Aggregate : CheckGroup(t, a) \/ GroupFails(t, a)
           \/ AdvanceGroup(t) \/ PutBatch(t) \/ PutBatchFails(t)
    PROVE  CallsInv'
<1>1. CallInv(t) /\ \A u \in Thread \ {t} : CallInv(u)
  BY DEF CallsInv
<1>2. \A u \in Thread \ {t} : UNCHANGED <<pc[u], call[u], todo[u], target[u]>>
  BY DEF TypeOK, WriteEventsBatch, CheckGroup, GroupFails, AdvanceGroup, PutBatch, PutBatchFails, Goto, Return, batchVars
<1>3. \A u \in Thread \ {t} : CallInv(u)'
  BY <1>1, <1>2, CallStays
<1>4. CASE \E E \in SUBSET Event : E \in Batches(t) /\ WriteEventsBatch(t, E)
  <2>1. PICK E \in SUBSET Event : E \in Batches(t) /\ WriteEventsBatch(t, E)
    BY <1>4
  <2>2. pc'[t] = "group" /\ call'[t] = E /\ todo'[t] = Aggregates(E)
    BY <2>1 DEF WriteEventsBatch, Goto, TypeOK
  <2>3. \A e \in E : /\ e.Sequence \in 0..MaxSequence
                     /\ e.Data = t
                     /\ <<t, e.AggregateID>> \in MayWrite
    <3> DEFINE own == [AggregateID : {a \in Aggregate : <<t, a>> \in MayWrite},
                       Sequence : 1..MaxSequence, Data : {t}]
    <3>1. \A e \in own : /\ e.Sequence \in 0..MaxSequence
                         /\ e.Data = t
                         /\ <<t, e.AggregateID>> \in MayWrite
      BY KVStorageAssumption
    <3>2. E \subseteq own
      BY <2>1 DEF Batches
    <3> QED
      BY <3>1, <3>2
  <2>4. Advanced(t)' = {}
    BY <2>2 DEF Advanced
  <2>5. CallInv(t)'
    BY <2>2, <2>3, <2>4 DEF CallInv, Single, Grouped
  <2> QED
    BY <1>3, <2>5 DEF CallsInv
<1>5. CASE \E a \in Aggregate : CheckGroup(t, a)
  <2>1. PICK a \in Aggregate : CheckGroup(t, a)
    BY <1>5
  <2>2. /\ pc[t] = "group" /\ pc'[t] = "advance"
        /\ UNCHANGED <<call[t], todo[t], sequences>>
        /\ a \in todo[t] /\ IsNext(call[t], a) /\ target'[t] = a
    BY <2>1 DEF CheckGroup, Goto, TypeOK
  <2>3. a \in Aggregates(call[t]) /\ call[t] \in SUBSET Event
    BY <1>1, <2>2 DEF CallInv, Grouped, TypeOK
  <2>4. \E m, h \in Nat : Run(t, a, m, h)
    <3>1. \A e \in call[t] : e.Sequence \in 0..MaxSequence
      BY <1>1 DEF CallInv
    <3>2. PICK h \in Nat : sequences[a] < h /\ Numbers(call[t], a) = (sequences[a] + 1)..h
      BY <2>2, <2>3, <3>1, CheckedIsRun
    <3> QED
      BY <3>2 DEF Run, TypeOK
  <2>5. Advanced(t)' = Advanced(t)
    BY <2>2 DEF Advanced, Aggregates
  <2>6. \A b : \A m, h \in Nat : Run(t, b, m, h)' <=> Run(t, b, m, h)
    BY <2>2 DEF Run, Numbers
  <2>7. CallInv(t)'
    BY <1>1, <2>2, <2>4, <2>5, <2>6 DEF CallInv, Single, Grouped, Aggregates
  <2> QED
    BY <1>3, <2>7 DEF CallsInv
<1>6. CASE (\E a \in Aggregate : GroupFails(t, a)) \/ PutBatch(t) \/ PutBatchFails(t)
  <2>1. pc'[t] = "idle" /\ call'[t] = call[t]
    BY <1>6 DEF GroupFails, PutBatch, PutBatchFails, Goto, Return, TypeOK
  <2> QED
    BY <1>1, <1>3, <2>1, CallEnds DEF CallsInv
<1>7. CASE AdvanceGroup(t)
  <2>1. /\ pc[t] = "advance" /\ call'[t] = call[t]
        /\ todo'[t] = todo[t] \ {target[t]}
        /\ pc'[t] = IF todo'[t] = {} THEN "putBatch" ELSE "group"
    BY <1>7 DEF AdvanceGroup, Goto, TypeOK
  <2>2. Advanced(t)' \subseteq Advanced(t) \cup {target[t]}
    BY <2>1 DEF Advanced, Aggregates
  <2>3. \A b : \A m, h \in Nat : Run(t, b, m, h)' <=> Run(t, b, m, h)
    BY <2>1 DEF Run, Numbers
  <2>4. \A a \in Advanced(t)' : \E m, h \in Nat : Run(t, a, m, h)'
    BY <1>1, <2>1, <2>2, <2>3 DEF CallInv
  <2>5. CallInv(t)'
    BY <1>1, <2>1, <2>4 DEF CallInv, Single, Grouped, Aggregates
  <2> QED
    BY <1>3, <2>5 DEF CallsInv
<1> QED
  BY <1>4, <1>5, <1>6, <1>7

(* Every step keeps what calls are made of. *)
LEMMA CallsStep == ASSUME TypeOK, CallsInv, [Next]_vars PROVE CallsInv'
<1>1. CASE Open \/ UNCHANGED vars
  <2>1. UNCHANGED <<pc, call, todo, target>>
    BY <1>1 DEF Open, vars, batchVars
  <2> QED
    BY <2>1, CallStays DEF CallsInv
<1>2. CASE Crash
  <2>1. \A t \in Thread : pc'[t] = "idle" /\ call'[t] = call[t]
    BY <1>2 DEF Crash
  <2> QED
    BY <2>1, CallEnds DEF CallsInv
<1> QED
  BY <1>1, <1>2, SingleStep, BatchStep, StepCases

-----------------------------------------------------------------------------
(* What is stored                                                           *)

(* What a step that is not a write leaves alone, and when it may be taken. *)
LEMMA Otherwise ==
    ASSUME TypeOK, ClosedInv, [Next]_vars
    PROVE  \/ Open \/ Crash \/ UNCHANGED vars
           \/ \E t \in Thread :
                 /\ open' = open /\ open
                 /\ \A u \in Thread \ {t} : UNCHANGED <<pc[u], call[u], outcome[u], todo[u], target[u]>>
                 /\ \/ PutEvent(t) \/ PutBatch(t)
                    \/ UNCHANGED diskVars /\ outcome'[t] \in {"pending", "failed"} /\ pc'[t] # "remember"
                    \/ UNCHANGED diskVars /\ call' = call /\ outcome'[t] = outcome[t] /\ pc'[t] # "remember"
                    \/ Remember(t)
<1> DEFINE Rest(t) == \A u \in Thread \ {t} : UNCHANGED <<pc[u], call[u], outcome[u], todo[u], target[u]>>
<1> USE DEF TypeOK, ClosedInv, diskVars, batchVars, Goto, Return
<1>1. ASSUME NEW t \in Thread, NEW a, NEW n, WriteEvent(t, a, n)
      PROVE  /\ open' = open /\ open /\ Rest(t)
             /\ UNCHANGED diskVars /\ outcome'[t] = "pending" /\ pc'[t] # "remember"
  BY <1>1 DEF WriteEvent
<1>2. ASSUME NEW t \in Thread, NEW E, WriteEventsBatch(t, E)
      PROVE  /\ open' = open /\ open /\ Rest(t)
             /\ UNCHANGED diskVars /\ outcome'[t] = "pending" /\ pc'[t] # "remember"
  BY <1>2 DEF WriteEventsBatch
<1>3. ASSUME NEW t \in Thread, NEW a, CheckFails(t) \/ PutFails(t) \/ GroupFails(t, a) \/ PutBatchFails(t)
      PROVE  /\ open' = open /\ open /\ Rest(t)
             /\ UNCHANGED diskVars /\ outcome'[t] = "failed" /\ pc'[t] # "remember"
  BY <1>3 DEF CheckFails, PutFails, GroupFails, PutBatchFails
<1>4. ASSUME NEW t \in Thread, NEW a, CheckPasses(t) \/ CheckGroup(t, a) \/ AdvanceGroup(t)
      PROVE  /\ open' = open /\ open /\ Rest(t)
             /\ UNCHANGED diskVars /\ call' = call /\ outcome'[t] = outcome[t] /\ pc'[t] # "remember"
  BY <1>4 DEF CheckPasses, CheckGroup, AdvanceGroup
<1>5. ASSUME NEW t \in Thread, PutEvent(t) \/ PutBatch(t) \/ Remember(t)
      PROVE  open' = open /\ open /\ Rest(t)
  BY <1>5 DEF PutEvent, PutBatch, Remember
<1> HIDE DEF Rest
<1> QED
  BY <1>1, <1>2, <1>3, <1>4, <1>5, StepCases DEF Rest

(* No call is in progress while the storage is closed. *)
LEMMA ClosedStep == ASSUME TypeOK, ClosedInv, [Next]_vars PROVE ClosedInv'
<1>1. CASE Open \/ Crash
  BY <1>1 DEF Open, Crash, ClosedInv
<1>2. CASE UNCHANGED vars
  BY <1>2 DEF vars, ClosedInv
<1> QED
  BY <1>1, <1>2, Otherwise DEF ClosedInv

(* What a write of a call does to the numbers and the s: keys. *)
LEMMA PutStep ==
    ASSUME TypeOK, CallsInv, SequenceKeyHasEvent,
           NEW t \in Thread, pc[t] \in {"put", "putBatch"}, Put(call[t])
    PROVE  /\ SequenceKeyHasEvent'
           /\ \A e \in call[t] : e.Sequence \in Numbers(stored, e.AggregateID)'
           /\ \A a : Numbers(stored, a) \subseteq Numbers(stored, a)'
<1>1. \A a : Numbers(stored, a)' = Numbers(stored, a) \cup Numbers(call[t], a)
  BY PutNumbers
<1>2. ASSUME NEW a \in Aggregate, lastKey'[a] > 0 PROVE lastKey'[a] \in Numbers(stored, a)'
  <2>1. CASE a \in Aggregates(call[t])
    <3>1. lastKey'[a] = Highest(call[t], a)
      BY <2>1 DEF Put
    <3> QED
      BY <1>1, <2>1, <3>1, HighestWritten
  <2>2. CASE a \notin Aggregates(call[t])
    <3>1. lastKey'[a] = lastKey[a]
      BY <2>2 DEF Put
    <3> QED
      BY <1>1, <1>2, <3>1 DEF SequenceKeyHasEvent
  <2> QED
    BY <2>1, <2>2
<1>3. \A e \in call[t] : e.Sequence \in Numbers(call[t], e.AggregateID)
  BY DEF Numbers
<1> QED
  BY <1>1, <1>2, <1>3 DEF SequenceKeyHasEvent

(* Every step keeps the events that the s: keys name, and what is readable. *)
LEMMA StoredStep ==
    ASSUME StoreInv, [Next]_vars PROVE SequenceKeyHasEvent' /\ ReadableInv'
<1> USE DEF StoreInv
<1>1. CASE Open \/ Crash \/ UNCHANGED vars
  <2>1. UNCHANGED <<stored, lastKey, call>>
    BY <1>1 DEF Open, Crash, vars, diskVars
  <2>2. SequenceKeyHasEvent' /\ \A t \in Thread : Readable(t)' <=> Readable(t)
    BY <2>1 DEF SequenceKeyHasEvent, Readable, Numbers
  <2>3. \A t \in Thread : /\ outcome'[t] = "ok" => outcome[t] = "ok"
                          /\ pc'[t] = "remember" => pc[t] = "remember"
    BY <1>1 DEF Open, Crash, vars, TypeOK
  <2> QED
    BY <2>1, <2>2, <2>3 DEF ReadableInv, AcknowledgedReadable, Readable
<1>2. ASSUME NEW t \in Thread, PutEvent(t) \/ PutBatch(t),
             \A u \in Thread \ {t} : UNCHANGED <<pc[u], call[u], outcome[u], todo[u], target[u]>>
      PROVE  SequenceKeyHasEvent' /\ ReadableInv'
  <2>1. pc[t] \in {"put", "putBatch"} /\ Put(call[t]) /\ call' = call
    BY <1>2 DEF PutEvent, PutBatch
  <2>2. /\ SequenceKeyHasEvent' /\ Readable(t)'
        /\ \A a : Numbers(stored, a) \subseteq Numbers(stored, a)'
    BY <2>1, PutStep DEF Readable
  <2>3. \A u \in Thread : Readable(u) => Readable(u)'
    BY <2>1, <2>2 DEF Readable
  <2> QED
    BY <1>2, <2>2, <2>3 DEF ReadableInv, AcknowledgedReadable, Readable
<1>3. ASSUME NEW t \in Thread, UNCHANGED diskVars,
             \A u \in Thread \ {t} : UNCHANGED <<pc[u], call[u], outcome[u], todo[u], target[u]>>,
             \/ outcome'[t] \in {"pending", "failed"} /\ pc'[t] # "remember"
             \/ call' = call /\ outcome'[t] = outcome[t] /\ pc'[t] # "remember"
             \/ call' = call /\ pc[t] = "remember" /\ pc'[t] = "idle"
      PROVE  SequenceKeyHasEvent' /\ ReadableInv'
  <2>1. /\ SequenceKeyHasEvent'
        /\ \A u \in Thread : Readable(u) /\ call'[u] = call[u] => Readable(u)'
    BY <1>3 DEF SequenceKeyHasEvent, Readable, Numbers, diskVars
  <2>2. \A u \in Thread : outcome'[u] = "ok" \/ pc'[u] = "remember" => Readable(u)'
    BY <1>3, <2>1 DEF ReadableInv, AcknowledgedReadable, Readable
  <2> QED
    BY <2>1, <2>2 DEF ReadableInv, AcknowledgedReadable, Readable
<1>4. \A t \in Thread : Remember(t) =>
         UNCHANGED diskVars /\ call' = call /\ pc[t] = "remember" /\ pc'[t] = "idle"
  BY DEF Remember, Return, Goto, TypeOK
<1> QED
  BY <1>1, <1>2, <1>3, <1>4, Otherwise

-----------------------------------------------------------------------------

(* The invariant of what is stored holds in every behaviour. *)
LEMMA StoreInvariant == Spec => []StoreInv
<1>1. StoreInv /\ [Next]_vars => StoreInv'
  BY TypeStep, CallsStep, ClosedStep, StoredStep DEF StoreInv
<1> QED
  BY InitStore, <1>1, PTL DEF Spec

(* Every variable has its type: in particular the database never holds two *)
(* events under one e: key.                                                *)
THEOREM TypeCorrect == Spec => []TypeOK
<1>1. StoreInv => TypeOK
  BY DEF StoreInv
<1> QED
  BY StoreInvariant, <1>1, PTL

(* An aggregate's s: key, from which a restart takes the number to go on   *)
(* from, always names an event in the database, whatever the races, failed *)
(* writes and crashes (leveldb.go and rocksdb.go, WriteEvent and           *)
(* WriteEventsBatch).                                                      *)
THEOREM KeysNameEvents == Spec => []SequenceKeyHasEvent
<1>1. StoreInv => SequenceKeyHasEvent
  BY DEF StoreInv
<1> QED
  BY StoreInvariant, <1>1, PTL

(* A number that a call was told is stored can be read from then on.       *)
THEOREM AcknowledgedStays == Spec => []AcknowledgedReadable
<1>1. StoreInv => AcknowledgedReadable
  BY DEF StoreInv, ReadableInv
<1> QED
  BY StoreInvariant, <1>1, PTL

-----------------------------------------------------------------------------
(* What a step does to the numbers of one aggregate                         *)

\* All goroutines but t are where they were.
Others(t) == \A u \in Thread \ {t} : UNCHANGED <<pc[u], call[u], todo[u], target[u]>>

\* Nothing of aggregate a is changed, in memory or in the database.
Same(a) == UNCHANGED <<Numbers(stored, a), lastKey[a], sequences[a]>>

(* A call has one run of numbers for an aggregate. *)
LEMMA OneRun ==
    ASSUME NEW t, NEW a, NEW m \in Nat, NEW h \in Nat, NEW m2 \in Nat, NEW h2 \in Nat,
           Run(t, a, m, h), Run(t, a, m2, h2)
    PROVE  m = m2 /\ h = h2
<1>1. m + 1 \in (m2 + 1)..h2 /\ h \in (m2 + 1)..h2 /\ m2 + 1 \in (m + 1)..h /\ h2 \in (m + 1)..h
  BY DEF Run
<1> QED
  BY <1>1

(* A call of one event is of one aggregate and number. *)
LEMMA OneCall ==
    ASSUME NEW t, NEW a, NEW n, NEW b, NEW n2, Calls(t, a, n), Calls(t, b, n2)
    PROVE  a = b /\ n = n2
<1>1. [AggregateID |-> a, Sequence |-> n, Data |-> t] = [AggregateID |-> b, Sequence |-> n2, Data |-> t]
  BY DEF Calls
<1> QED
  BY <1>1

(* A call that begins, or that fails without having claimed a. *)
LEMMA QuietEffect ==
    ASSUME TypeOK, NEW t \in Thread, NEW a \in Aggregate, a \notin spoiled',
           \/ \E b \in Aggregate, n \in 0..MaxSequence : WriteEvent(t, b, n)
           \/ \E E \in SUBSET Event : WriteEventsBatch(t, E)
           \/ CheckFails(t) \/ PutFails(t) \/ PutBatchFails(t)
           \/ \E b \in Aggregate : GroupFails(t, b)
    PROVE  /\ Others(t) /\ open' = open /\ a \notin spoiled /\ Same(a)
           /\ a \notin Advanced(t) /\ a \notin Advanced(t)'
           /\ pc[t] # "remember" /\ pc'[t] \in {"idle", "check", "group"}
<1> USE DEF TypeOK, diskVars, batchVars, Goto, Return, Others
<1>1. CASE \E b \in Aggregate, n \in 0..MaxSequence : WriteEvent(t, b, n)
  <2>1. pc[t] = "idle" /\ pc'[t] = "check" /\ Others(t) /\ UNCHANGED <<open, stored, lastKey, sequences, spoiled>>
    BY <1>1 DEF WriteEvent
  <2> QED
    BY <2>1 DEF Advanced, Same, Numbers
<1>2. CASE \E E \in SUBSET Event : WriteEventsBatch(t, E)
  <2>1. /\ pc[t] = "idle" /\ pc'[t] = "group" /\ Others(t) /\ UNCHANGED <<open, stored, lastKey, sequences, spoiled>>
        /\ todo'[t] = Aggregates(call'[t])
    BY <1>2 DEF WriteEventsBatch
  <2>2. Advanced(t)' = {}
    BY <2>1 DEF Advanced, Aggregates
  <2> QED
    BY <2>1, <2>2 DEF Advanced, Same, Numbers
<1>3. CASE CheckFails(t) \/ PutFails(t)
  <2>1. pc[t] \in {"check", "put"} /\ pc'[t] = "idle" /\ Others(t) /\ UNCHANGED <<open, stored, lastKey, sequences, spoiled>>
    BY <1>3 DEF CheckFails, PutFails
  <2> QED
    BY <2>1 DEF Advanced, Same, Numbers
<1>4. CASE PutBatchFails(t) \/ \E b \in Aggregate : GroupFails(t, b)
  <2>1. /\ pc[t] \in {"group", "putBatch"} /\ pc'[t] = "idle" /\ Others(t) /\ UNCHANGED <<open, stored, lastKey, sequences>>
        /\ spoiled' = spoiled \cup Advanced(t)
    BY <1>4 DEF PutBatchFails, GroupFails
  <2> QED
    BY <2>1 DEF Advanced, Same, Numbers
<1> QED
  BY <1>1, <1>2, <1>3, <1>4

(* The check of a single call. *)
LEMMA CheckEffect ==
    ASSUME TypeOK, CallsInv, NEW t \in Thread, CheckPasses(t)
    PROVE  /\ Others(t) /\ UNCHANGED <<open, spoiled, stored, lastKey, sequences, call>>
           /\ pc[t] = "check" /\ pc'[t] = "put"
           /\ \E b \in Aggregate, n \in Nat : Calls(t, b, n) /\ n = sequences[b] + 1
<1> USE DEF TypeOK
<1>1. /\ Others(t) /\ UNCHANGED <<open, spoiled, stored, lastKey, sequences, call>>
      /\ pc[t] = "check" /\ pc'[t] = "put"
  BY DEF CheckPasses, Others, Goto, diskVars, batchVars
<1>2. PICK b \in Aggregate, n \in 0..MaxSequence : Calls(t, b, n)
  BY <1>1 DEF CallsInv, CallInv, Single
<1>3. n \in Nat /\ OwnAggregate(t) = b /\ Numbers(call[t], b) = {n}
  BY <1>2, SingleCall
<1>4. Cardinality({n}) = 1
  BY FS_Singleton
<1>5. {n} = (sequences[b] + 1)..(sequences[b] + 1)
  BY <1>3, <1>4 DEF CheckPasses, IsNext
<1>6. n = sequences[b] + 1
  BY <1>3, <1>5
<1> QED
  BY <1>1, <1>2, <1>3, <1>6

(* The write of a single call, and its memory. *)
LEMMA PutEffect ==
    ASSUME TypeOK, CallsInv, NEW t \in Thread, PutEvent(t) \/ Remember(t)
    PROVE  /\ Others(t) /\ UNCHANGED <<open, spoiled, call>>
           /\ PutEvent(t) => pc[t] = "put" /\ pc'[t] = "remember" /\ sequences' = sequences
           /\ Remember(t) => pc[t] = "remember" /\ pc'[t] = "idle" /\ UNCHANGED diskVars
           /\ \E b \in Aggregate, n \in 0..MaxSequence :
                 /\ n \in Nat /\ Calls(t, b, n)
                 /\ \A a \in Aggregate \ {b} : Same(a)
                 /\ PutEvent(t) => /\ Numbers(stored, b)' = Numbers(stored, b) \cup {n}
                                   /\ lastKey'[b] = n
                 /\ Remember(t) => sequences'[b] = n
<1> USE DEF TypeOK
<1>1. /\ Others(t) /\ UNCHANGED <<open, spoiled, call>>
      /\ PutEvent(t) => pc[t] = "put" /\ pc'[t] = "remember" /\ sequences' = sequences /\ Put(call[t])
      /\ Remember(t) => pc[t] = "remember" /\ pc'[t] = "idle" /\ UNCHANGED diskVars
  BY DEF PutEvent, Remember, Others, Goto, Return, batchVars
<1>2. PICK b \in Aggregate, n \in 0..MaxSequence : Calls(t, b, n)
  BY <1>1 DEF CallsInv, CallInv, Single
<1>3. /\ n \in Nat /\ OwnAggregate(t) = b /\ Numbers(call[t], b) = {n}
      /\ Aggregates(call[t]) = {b} /\ Highest(call[t], b) = n
  <2>1. n \in Nat
    BY KVStorageAssumption
  <2> QED
    BY <1>2, <2>1, SingleCall
<1>4. \A a \in Aggregate \ {b} : Numbers(call[t], a) = {}
  BY <1>3, AggregatesDef
<1>5. CASE PutEvent(t)
  <2>1. Put(call[t]) /\ sequences' = sequences /\ ~Remember(t)
    BY <1>1, <1>5
  <2>2. \A a : Numbers(stored, a)' = Numbers(stored, a) \cup Numbers(call[t], a)
    BY <2>1, PutNumbers
  <2>3. lastKey' = [a \in Aggregate |-> IF a \in Aggregates(call[t]) THEN Highest(call[t], a) ELSE lastKey[a]]
    BY <2>1 DEF Put
  <2>4. lastKey'[b] = n /\ \A a \in Aggregate \ {b} : lastKey'[a] = lastKey[a]
    BY <1>3, <2>3
  <2>5. \A a \in Aggregate \ {b} : Same(a)
    BY <1>4, <2>1, <2>2, <2>4 DEF Same
  <2> QED
    BY <1>1, <1>2, <1>3, <2>1, <2>2, <2>4, <2>5
<1>6. CASE Remember(t)
  <2>1. ~PutEvent(t) /\ UNCHANGED <<stored, lastKey>>
    BY <1>1, <1>6 DEF diskVars
  <2>2. sequences'[b] = n /\ \A a \in Aggregate \ {b} : sequences'[a] = sequences[a]
    BY <1>3, <1>6 DEF Remember
  <2>3. \A a \in Aggregate \ {b} : Same(a)
    BY <2>1, <2>2 DEF Same, Numbers
  <2> QED
    BY <1>1, <1>2, <1>3, <2>1, <2>2, <2>3
<1> QED
  BY <1>5, <1>6

(* The check of a group. *)
LEMMA GroupEffect ==
    ASSUME TypeOK, CallsInv, NEW t \in Thread, NEW b \in Aggregate, CheckGroup(t, b)
    PROVE  /\ Others(t) /\ UNCHANGED <<open, spoiled, stored, lastKey, sequences, call>>
           /\ pc[t] = "group" /\ pc'[t] = "advance" /\ target'[t] = b
           /\ b \notin Advanced(t) /\ Advanced(t)' = Advanced(t)
           /\ \E h \in Nat : Run(t, b, sequences[b], h)
<1> USE DEF TypeOK
<1>1. /\ Others(t) /\ UNCHANGED <<open, spoiled, stored, lastKey, sequences, call, todo>>
      /\ pc[t] = "group" /\ pc'[t] = "advance" /\ target'[t] = b
      /\ b \in todo[t] /\ IsNext(call[t], b)
  BY DEF CheckGroup, Others, Goto, diskVars
<1>2. b \notin Advanced(t) /\ Advanced(t)' = Advanced(t)
  BY <1>1 DEF Advanced, Aggregates
<1>3. b \in Aggregates(call[t]) /\ \A e \in call[t] : e.Sequence \in 0..MaxSequence
  BY <1>1 DEF CallsInv, CallInv, Grouped
<1>4. PICK h \in Nat : sequences[b] < h /\ Numbers(call[t], b) = (sequences[b] + 1)..h
  BY <1>1, <1>3, CheckedIsRun
<1> QED
  BY <1>1, <1>2, <1>4 DEF Run

(* A group claims its numbers in memory. *)
LEMMA AdvanceEffect ==
    ASSUME TypeOK, CallsInv, NEW t \in Thread, AdvanceGroup(t)
    PROVE  /\ Others(t) /\ UNCHANGED <<open, spoiled, stored, lastKey, call>>
           /\ pc[t] = "advance" /\ pc'[t] \in {"group", "putBatch"}
           /\ \E b \in Aggregate, m \in Nat, h \in Nat :
                 /\ target[t] = b /\ Run(t, b, m, h)
                 /\ b \notin Advanced(t) /\ Advanced(t)' = Advanced(t) \cup {b}
                 /\ sequences'[b] = h
                 /\ \A a \in Aggregate \ {b} : Same(a)
<1> USE DEF TypeOK
<1>1. /\ Others(t) /\ UNCHANGED <<open, spoiled, stored, lastKey, call>>
      /\ pc[t] = "advance" /\ pc'[t] \in {"group", "putBatch"}
      /\ todo'[t] = todo[t] \ {target[t]}
      /\ sequences' = [sequences EXCEPT ![target[t]] = Highest(call[t], target[t])]
  BY DEF AdvanceGroup, Others, Goto, diskVars
<1>2. /\ target[t] \in todo[t] /\ todo[t] \subseteq Aggregates(call[t])
      /\ \E m, h \in Nat : Run(t, target[t], m, h)
  BY <1>1 DEF CallsInv, CallInv, Grouped
<1>3. PICK b \in Aggregate : b = target[t]
  BY <1>2
<1>4. PICK m \in Nat, h \in Nat : Run(t, b, m, h)
  BY <1>2, <1>3
<1>5. Highest(call[t], b) = h
  BY <1>4, HighestOfRun DEF Run
<1>6. sequences'[b] = h /\ \A a \in Aggregate \ {b} : Same(a)
  BY <1>1, <1>3, <1>5 DEF Same, Numbers
<1>7. b \notin Advanced(t)
  BY <1>2, <1>3 DEF Advanced
<1>8. Advanced(t)' = Advanced(t) \cup {b}
  BY <1>1, <1>2, <1>3 DEF Advanced, Aggregates
<1> QED
  BY <1>1, <1>3, <1>4, <1>6, <1>7, <1>8

(* A batch writes what it has claimed. *)
LEMMA BatchEffect ==
    ASSUME TypeOK, CallsInv, NEW t \in Thread, PutBatch(t), NEW a \in Aggregate
    PROVE  /\ Others(t) /\ UNCHANGED <<open, spoiled, sequences, call>>
           /\ pc[t] = "putBatch" /\ pc'[t] = "idle" /\ a \notin Advanced(t)'
           /\ a \notin Advanced(t) => Same(a)
           /\ a \in Advanced(t) =>
                 \E m \in Nat, h \in Nat :
                    /\ Run(t, a, m, h)
                    /\ Numbers(stored, a)' = Numbers(stored, a) \cup (m + 1)..h
                    /\ lastKey'[a] = h
<1> USE DEF TypeOK
<1>1. /\ Others(t) /\ UNCHANGED <<open, spoiled, sequences, call>>
      /\ pc[t] = "putBatch" /\ pc'[t] = "idle" /\ Put(call[t])
  BY DEF PutBatch, Others, Return, Goto, batchVars
<1>2. a \notin Advanced(t)'
  BY <1>1 DEF Advanced
<1>3. Advanced(t) = Aggregates(call[t])
  BY <1>1 DEF Advanced, CallsInv, CallInv
<1>4. Numbers(stored, a)' = Numbers(stored, a) \cup Numbers(call[t], a)
  BY <1>1, PutNumbers
<1>5. lastKey'[a] = IF a \in Aggregates(call[t]) THEN Highest(call[t], a) ELSE lastKey[a]
  BY <1>1 DEF Put
<1>6. CASE a \notin Advanced(t)
  <2>1. Numbers(call[t], a) = {}
    BY <1>3, <1>6, AggregatesDef
  <2> QED
    BY <1>1, <1>2, <1>3, <1>4, <1>5, <1>6, <2>1 DEF Same
<1>7. CASE a \in Advanced(t)
  <2>1. PICK m \in Nat, h \in Nat : Run(t, a, m, h)
    BY <1>7 DEF CallsInv, CallInv
  <2>2. Highest(call[t], a) = h
    BY <2>1, HighestOfRun DEF Run
  <2>3. Numbers(stored, a)' = Numbers(stored, a) \cup (m + 1)..h /\ lastKey'[a] = h
    BY <1>3, <1>4, <1>5, <1>7, <2>1, <2>2 DEF Run
  <2> QED
    BY <1>1, <1>2, <1>7, <2>1, <2>3
<1> QED
  BY <1>6, <1>7

-----------------------------------------------------------------------------
(* Memory and database                                                      *)

(* Only its writers have an aggregate in their calls. *)
LEMMA OthersWriteElsewhere ==
    ASSUME TypeOK, CallsInv, NEW t \in Thread, NEW a \in Aggregate, <<t, a>> \notin MayWrite
    PROVE  /\ a \notin Aggregates(call[t])
           /\ a \notin Advanced(t)
           /\ \A n \in Nat : ~Calls(t, a, n)
           /\ \A m, h \in Nat : ~Run(t, a, m, h)
<1>1. \A e \in call[t] : e.AggregateID # a
  BY DEF CallsInv, CallInv
<1>2. a \notin Aggregates(call[t])
  BY <1>1, AggregatesDef
<1>3. Numbers(call[t], a) = {}
  BY <1>2, AggregatesDef
<1>4. ASSUME NEW n \in Nat, Calls(t, a, n) PROVE FALSE
  <2>1. [AggregateID |-> a, Sequence |-> n, Data |-> t] \in call[t]
    BY <1>4 DEF Calls
  <2> QED
    BY <1>1, <2>1
<1>5. ASSUME NEW m \in Nat, NEW h \in Nat, Run(t, a, m, h) PROVE FALSE
  <2>1. h \in (m + 1)..h
    BY <1>5 DEF Run
  <2> QED
    BY <1>3, <1>5, <2>1 DEF Run
<1> QED
  BY <1>2, <1>4, <1>5 DEF Advanced

(* A goroutine that does not write a changes nothing of it. *)
LEMMA ElsewhereStep ==
    ASSUME TypeOK, CallsInv, CallsInv', TypeOK',
           NEW t \in Thread, NEW u \in Thread \ {t}, NEW a \in Aggregate, <<u, a>> \notin MayWrite,
           a \notin spoiled', Follows(t, a),
           \/ \E b \in Aggregate, n \in 0..MaxSequence : WriteEvent(u, b, n)
           \/ CheckPasses(u) \/ CheckFails(u) \/ PutEvent(u) \/ PutFails(u) \/ Remember(u)
           \/ \E E \in SUBSET Event : WriteEventsBatch(u, E)
           \/ \E b \in Aggregate : CheckGroup(u, b) \/ GroupFails(u, b)
           \/ AdvanceGroup(u) \/ PutBatch(u) \/ PutBatchFails(u)
    PROVE  Follows(t, a)'
<1>1. Others(u) /\ open' = open /\ Same(a)
  <2>1. CASE \/ \E b \in Aggregate, n \in 0..MaxSequence : WriteEvent(u, b, n)
             \/ \E E \in SUBSET Event : WriteEventsBatch(u, E)
             \/ CheckFails(u) \/ PutFails(u) \/ PutBatchFails(u)
             \/ \E b \in Aggregate : GroupFails(u, b)
    BY <2>1, QuietEffect
  <2>2. CASE CheckPasses(u) \/ \E b \in Aggregate : CheckGroup(u, b)
    BY <2>2, CheckEffect, GroupEffect DEF Same, Numbers
  <2>3. CASE PutEvent(u) \/ Remember(u)
    <3>1. \A n \in Nat : ~Calls(u, a, n)
      BY OthersWriteElsewhere
    <3> QED
      BY <2>3, <3>1, PutEffect
  <2>4. CASE AdvanceGroup(u)
    <3>1. \A m, h \in Nat : ~Run(u, a, m, h)
      BY OthersWriteElsewhere
    <3> QED
      BY <2>4, <3>1, AdvanceEffect
  <2>5. CASE PutBatch(u)
    BY <2>5, BatchEffect, OthersWriteElsewhere
  <2> QED
    BY <2>1, <2>2, <2>3, <2>4, <2>5
<1>2. UNCHANGED <<pc[t], call[t], todo[t], target[t]>>
  BY <1>1 DEF Others
<1>3. Advanced(t)' = Advanced(t)
  BY <1>2 DEF Advanced, Aggregates
<1>4. \A m, h : Run(t, a, m, h)' <=> Run(t, a, m, h)
  BY <1>2 DEF Run, Numbers
<1>5. \A n : Calls(t, a, n)' <=> Calls(t, a, n)
  BY <1>2 DEF Calls
<1> QED
  BY <1>1, <1>2, <1>3, <1>4, <1>5 DEF Follows, Same

(* The one writer of a keeps its memory and the database as far apart as its *)
(* step says.                                                                *)
LEMMA OwnStep ==
    ASSUME TypeOK, CallsInv, ClosedInv, TypeOK', CallsInv',
           NEW t \in Thread, NEW a \in Aggregate, a \notin spoiled', Follows(t, a),
           \/ \E b \in Aggregate, n \in 0..MaxSequence : WriteEvent(t, b, n)
           \/ CheckPasses(t) \/ CheckFails(t) \/ PutEvent(t) \/ PutFails(t) \/ Remember(t)
           \/ \E E \in SUBSET Event : WriteEventsBatch(t, E)
           \/ \E b \in Aggregate : CheckGroup(t, b) \/ GroupFails(t, b)
           \/ AdvanceGroup(t) \/ PutBatch(t) \/ PutBatchFails(t)
    PROVE  Follows(t, a)'
<1> DEFINE Written == pc[t] = "remember" /\ \E n \in 0..MaxSequence : Calls(t, a, n)
<1> USE DEF TypeOK
<1>1. /\ lastKey[a] \in Nat /\ sequences[a] \in Nat /\ Numbers(stored, a) = 1..lastKey[a]
      /\ open /\ a \notin Advanced(t) /\ ~Written => sequences[a] = lastKey[a]
  BY DEF Follows
<1>2. CASE \/ \E b \in Aggregate, n \in 0..MaxSequence : WriteEvent(t, b, n)
           \/ \E E \in SUBSET Event : WriteEventsBatch(t, E)
           \/ CheckFails(t) \/ PutFails(t) \/ PutBatchFails(t)
           \/ \E b \in Aggregate : GroupFails(t, b)
  <2>1. /\ open' = open /\ Same(a) /\ a \notin Advanced(t) /\ a \notin Advanced(t)'
        /\ pc[t] # "remember" /\ pc'[t] \in {"idle", "check", "group"}
    BY <1>2, QuietEffect
  <2> QED
    BY <1>1, <2>1 DEF Follows, Same
<1>3. CASE CheckPasses(t)
  <2>1. /\ UNCHANGED <<open, stored, lastKey, sequences, call>> /\ pc[t] = "check" /\ pc'[t] = "put"
        /\ open
    BY <1>3, CheckEffect DEF ClosedInv
  <2>2. PICK b \in Aggregate, n \in Nat : Calls(t, b, n) /\ n = sequences[b] + 1
    BY <1>3, CheckEffect
  <2>3. a \notin Advanced(t) /\ a \notin Advanced(t)' /\ sequences[a] = lastKey[a]
    BY <1>1, <2>1 DEF Advanced
  <2>4. \A k \in 0..MaxSequence : Calls(t, a, k)' => k = lastKey[a] + 1
    <3>1. \A k \in 0..MaxSequence : Calls(t, a, k)' => Calls(t, a, k)
      BY <2>1 DEF Calls
    <3> QED
      BY <2>2, <2>3, <3>1, OneCall
  <2>5. Numbers(stored, a)' = Numbers(stored, a)
    BY <2>1 DEF Numbers
  <2> QED
    BY <1>1, <2>1, <2>3, <2>4, <2>5 DEF Follows
<1>4. CASE PutEvent(t) \/ Remember(t)
  <2>1. /\ UNCHANGED <<open, call>>
        /\ PutEvent(t) => pc[t] = "put" /\ pc'[t] = "remember" /\ sequences' = sequences
        /\ Remember(t) => pc[t] = "remember" /\ pc'[t] = "idle" /\ UNCHANGED diskVars
    BY <1>4, PutEffect
  <2>2. PICK b \in Aggregate, n \in 0..MaxSequence :
                 /\ n \in Nat /\ Calls(t, b, n)
                 /\ \A c \in Aggregate \ {b} : Same(c)
                 /\ PutEvent(t) => /\ Numbers(stored, b)' = Numbers(stored, b) \cup {n}
                                   /\ lastKey'[b] = n
                 /\ Remember(t) => sequences'[b] = n
    BY <1>4, PutEffect
  <2>3. a \notin Advanced(t) /\ a \notin Advanced(t)' /\ open
    BY <1>4, <2>1 DEF Advanced, ClosedInv
  <2>4. \A k : /\ Calls(t, a, k)' <=> Calls(t, a, k)
               /\ Calls(t, a, k) => b = a /\ k = n
    <3>1. \A k : Calls(t, a, k)' <=> Calls(t, a, k)
      BY <2>1 DEF Calls
    <3>2. \A k : Calls(t, a, k) => b = a /\ k = n
      BY <2>2, OneCall
    <3> QED
      BY <3>1, <3>2
  <2>5. CASE b # a
    <3>1. Same(a) /\ ~Written
      BY <2>2, <2>4, <2>5
    <3>2. pc'[t] \in {"remember", "idle"}
      BY <1>4, <2>1
    <3> QED
      BY <1>1, <2>1, <2>3, <2>4, <2>5, <3>1, <3>2 DEF Follows, Same
  <2>6. CASE b = a /\ PutEvent(t)
    <3>1. n = lastKey[a] + 1
      BY <2>1, <2>2, <2>6 DEF Follows
    <3>2. Numbers(stored, a)' = 1..n /\ lastKey'[a] = n
      <4>1. (1..lastKey[a]) \cup {lastKey[a] + 1} = 1..(lastKey[a] + 1)
        BY <1>1, NextNumber
      <4>2. Numbers(stored, a)' = Numbers(stored, a) \cup {n} /\ lastKey'[a] = n
        BY <2>2, <2>6
      <4> QED
        BY <1>1, <3>1, <4>1, <4>2
    <3>3. pc'[t] = "remember" /\ \E k \in 0..MaxSequence : Calls(t, a, k)'
      BY <2>1, <2>2, <2>4, <2>6
    <3> QED
      BY <2>3, <2>4, <3>2, <3>3 DEF Follows
  <2>7. CASE b = a /\ Remember(t)
    <3>1. n = lastKey[a] /\ sequences'[a] = n
      BY <2>1, <2>2, <2>7 DEF Follows
    <3>2. UNCHANGED <<Numbers(stored, a), lastKey>> /\ pc'[t] = "idle"
      BY <2>1, <2>7 DEF Numbers, diskVars
    <3> QED
      BY <1>1, <2>3, <3>1, <3>2 DEF Follows
  <2> QED
    BY <1>4, <2>5, <2>6, <2>7
<1>5. ASSUME NEW b \in Aggregate, CheckGroup(t, b) PROVE Follows(t, a)'
  <2>1. /\ UNCHANGED <<open, stored, lastKey, sequences, call>>
        /\ pc[t] = "group" /\ pc'[t] = "advance" /\ target'[t] = b
        /\ b \notin Advanced(t) /\ Advanced(t)' = Advanced(t)
    BY <1>5, GroupEffect
  <2>2. PICK h \in Nat : Run(t, b, sequences[b], h)
    BY <1>5, GroupEffect
  <2>3. open
    BY <2>1 DEF ClosedInv
  <2>4. /\ Numbers(stored, a)' = Numbers(stored, a)
        /\ \A m, k : Run(t, a, m, k)' <=> Run(t, a, m, k)
    BY <2>1 DEF Numbers, Run
  <2>5. target'[t] = a => \A m, k \in Nat : Run(t, a, m, k) => m = lastKey[a]
    <3> SUFFICES ASSUME b = a, NEW m \in Nat, NEW k \in Nat, Run(t, a, m, k) PROVE m = lastKey[a]
      BY <2>1
    <3>1. m = sequences[a]
      BY <1>1, <2>2, OneRun
    <3> QED
      BY <1>1, <2>1, <2>3, <3>1
  <2> QED
    BY <1>1, <2>1, <2>4, <2>5 DEF Follows
<1>6. CASE AdvanceGroup(t)
  <2>1. /\ UNCHANGED <<open, stored, lastKey, call>>
        /\ pc[t] = "advance" /\ pc'[t] \in {"group", "putBatch"}
    BY <1>6, AdvanceEffect
  <2>2. PICK b \in Aggregate, m \in Nat, h \in Nat :
                 /\ target[t] = b /\ Run(t, b, m, h)
                 /\ b \notin Advanced(t) /\ Advanced(t)' = Advanced(t) \cup {b}
                 /\ sequences'[b] = h
                 /\ \A c \in Aggregate \ {b} : Same(c)
    BY <1>6, AdvanceEffect
  <2>3. /\ Numbers(stored, a)' = Numbers(stored, a)
        /\ \A j, k : Run(t, a, j, k)' <=> Run(t, a, j, k)
    BY <2>1 DEF Numbers, Run
  <2>4. CASE b = a
    <3>1. m = lastKey[a]
      BY <2>1, <2>2, <2>4 DEF Follows
    <3> QED
      BY <1>1, <2>1, <2>2, <2>3, <2>4, <3>1 DEF Follows
  <2>5. CASE b # a
    <3>1. sequences'[a] = sequences[a] /\ (a \in Advanced(t)' <=> a \in Advanced(t))
      BY <2>2, <2>5 DEF Same
    <3>2. a \in Advanced(t) => Run(t, a, lastKey[a], sequences[a])
      BY DEF Follows
    <3> QED
      BY <1>1, <2>1, <2>3, <3>1, <3>2 DEF Follows
  <2> QED
    BY <2>4, <2>5
<1>7. CASE PutBatch(t)
  <2>1. /\ UNCHANGED <<open, sequences, call>> /\ pc[t] = "putBatch" /\ pc'[t] = "idle"
        /\ a \notin Advanced(t)' /\ (a \notin Advanced(t) => Same(a))
    BY <1>7, BatchEffect
  <2>2. CASE a \notin Advanced(t)
    BY <1>1, <2>1, <2>2 DEF Follows, Same
  <2>3. CASE a \in Advanced(t)
    <3>1. PICK m \in Nat, h \in Nat :
                    /\ Run(t, a, m, h)
                    /\ Numbers(stored, a)' = Numbers(stored, a) \cup (m + 1)..h
                    /\ lastKey'[a] = h
      BY <1>7, <2>3, BatchEffect
    <3>2. Run(t, a, lastKey[a], sequences[a])
      BY <2>3 DEF Follows
    <3>3. m = lastKey[a] /\ h = sequences[a] /\ m < h
      BY <1>1, <3>1, <3>2, OneRun DEF Run
    <3>4. Numbers(stored, a)' = 1..h
      BY <1>1, <3>1, <3>3
    <3> QED
      BY <2>1, <3>1, <3>3, <3>4 DEF Follows
  <2> QED
    BY <2>2, <2>3
<1> QED
  BY <1>2, <1>3, <1>4, <1>5, <1>6, <1>7

(* Every step keeps MemoryInv. *)
LEMMA MemoryStep == ASSUME StoreInv, MemoryInv, [Next]_vars PROVE MemoryInv'
<1> SUFFICES ASSUME NEW a \in Aggregate, a \notin spoiled', NEW t \in Thread,
                    \A u \in Thread : <<u, a>> \in MayWrite => u = t
             PROVE  Follows(t, a)'
  BY DEF MemoryInv
<1> USE DEF StoreInv
<1>1. TypeOK' /\ CallsInv'
  BY TypeStep, CallsStep
<1>2. CASE Open \/ UNCHANGED vars
  <2>1. a \notin spoiled /\ UNCHANGED <<stored, lastKey, pc, call, todo, target>>
    BY <1>2 DEF Open, vars, diskVars, batchVars
  <2>2. Follows(t, a)
    BY <2>1 DEF MemoryInv
  <2>3. /\ Numbers(stored, a)' = Numbers(stored, a) /\ Advanced(t)' = Advanced(t)
        /\ \A m, h : Run(t, a, m, h)' <=> Run(t, a, m, h)
        /\ \A n : Calls(t, a, n)' <=> Calls(t, a, n)
    BY <2>1 DEF Numbers, Advanced, Aggregates, Run, Calls
  <2>4. CASE Open
    <3>1. pc[t] = "idle" /\ sequences' = lastKey /\ open'
      BY <2>4 DEF Open, ClosedInv
    <3>2. a \notin Advanced(t)
      BY <3>1 DEF Advanced
    <3> QED
      BY <2>1, <2>2, <2>3, <3>1, <3>2 DEF Follows
  <2>5. CASE UNCHANGED vars
    <3>1. UNCHANGED <<open, sequences>>
      BY <2>5 DEF vars
    <3> QED
      BY <2>1, <2>2, <2>3, <3>1 DEF Follows
  <2> QED
    BY <1>2, <2>4, <2>5
<1>3. CASE Crash
  <2>1. /\ ~open' /\ UNCHANGED <<stored, lastKey, call>> /\ pc'[t] = "idle"
        /\ a \notin spoiled /\ a \notin Advanced(t)'
    BY <1>3 DEF Crash, diskVars, Advanced
  <2>2. Numbers(stored, a)' = Numbers(stored, a)
    BY <2>1 DEF Numbers
  <2> QED
    BY <2>1, <2>2 DEF Follows, MemoryInv
<1>4. ASSUME NEW u \in Thread,
             \/ \E b \in Aggregate, n \in 0..MaxSequence : WriteEvent(u, b, n)
             \/ CheckPasses(u) \/ CheckFails(u) \/ PutEvent(u) \/ PutFails(u) \/ Remember(u)
             \/ \E E \in SUBSET Event : WriteEventsBatch(u, E)
             \/ \E b \in Aggregate : CheckGroup(u, b) \/ GroupFails(u, b)
             \/ AdvanceGroup(u) \/ PutBatch(u) \/ PutBatchFails(u)
      PROVE  Follows(t, a)'
  <2>1. spoiled \subseteq spoiled'
    BY <1>4 DEF WriteEvent, CheckPasses, CheckFails, PutEvent, PutFails, Remember, WriteEventsBatch,
                CheckGroup, GroupFails, AdvanceGroup, PutBatch, PutBatchFails
  <2>2. Follows(t, a)
    BY <2>1 DEF MemoryInv
  <2>3. CASE u = t
    BY <1>1, <1>4, <2>2, <2>3, OwnStep
  <2>4. CASE u # t
    <3>1. <<u, a>> \notin MayWrite /\ u \in Thread \ {t}
      BY <2>4
    <3> QED
      BY <1>1, <1>4, <2>2, <3>1, ElsewhereStep
  <2> QED
    BY <2>3, <2>4
<1> QED
  BY <1>2, <1>3, <1>4, StepCases

-----------------------------------------------------------------------------
(* Gaps                                                                     *)

\* The numbers of a that t has claimed.
Claim(t, a) == IF a \in Advanced(t) THEN Numbers(call[t], a) ELSE {}

(* What is stored or claimed, seen from one goroutine. *)
LEMMA ClaimsSplit ==
    ASSUME NEW a, NEW n
    PROVE  n \in Claims(a) <=> \E t \in Thread : n \in Claim(t, a)
BY DEF Claims, Claim

(* What others may still write fits below a larger bound. *)
LEMMA PendingStays ==
    ASSUME NEW u \in Thread, NEW a \in Aggregate, NEW k \in Nat, NEW k2 \in Nat, k <= k2,
           Pending(u, a, k), UNCHANGED <<pc[u], call[u], todo[u], target[u]>>
    PROVE  Pending(u, a, k2)' /\ Claim(u, a)' = Claim(u, a)
<1>1. \A m, h \in Nat : Run(u, a, m, h)' <=> Run(u, a, m, h)
  BY DEF Run, Numbers
<1>2. \A n : Calls(u, a, n)' <=> Calls(u, a, n)
  BY DEF Calls
<1>3. Claim(u, a)' = Claim(u, a)
  BY DEF Claim, Advanced, Aggregates, Numbers
<1>4. \A n \in 0..MaxSequence : Calls(u, a, n) =>
          /\ pc[u] = "put" => n \in 1..(k2 + 1)
          /\ pc[u] = "remember" => n <= k2
  BY KVStorageAssumption DEF Pending
<1>5. pc[u] = "advance" /\ target[u] = a => \A m, h \in Nat : Run(u, a, m, h) => m <= k2
  BY DEF Pending
<1> QED
  BY <1>1, <1>2, <1>3, <1>4, <1>5 DEF Pending

(* A step of t that adds the numbers X to those it has stored or claimed. *)
LEMMA FilledStep ==
    ASSUME NEW t \in Thread, NEW a \in Aggregate, NEW k \in Nat, NEW k2 \in Nat, k <= k2, NEW X,
           Filled(a, k), Others(t),
           (1..k) \cup X = 1..k2,
           Numbers(stored, a)' \cup Claim(t, a)' = Numbers(stored, a) \cup Claim(t, a) \cup X,
           sequences'[a] <= k2, lastKey'[a] <= k2, Pending(t, a, k2)'
    PROVE  Filled(a, k2)'
<1>1. \A u \in Thread \ {t} : Pending(u, a, k2)' /\ Claim(u, a)' = Claim(u, a)
  BY PendingStays DEF Filled, Others
<1>2. \A n : n \in Claims(a) <=> \E u \in Thread : n \in Claim(u, a)
  BY ClaimsSplit
<1>3. \A n : n \in Claims(a)' <=> \E u \in Thread : n \in Claim(u, a)'
  BY DEF Claims, Claim
<1>4. ASSUME NEW n
      PROVE  n \in Numbers(stored, a)' \cup Claims(a)' <=> n \in Numbers(stored, a) \cup Claims(a) \cup X
  BY <1>1, <1>2, <1>3
<1>5. Numbers(stored, a)' \cup Claims(a)' = 1..k2
  BY <1>4 DEF Filled
<1> QED
  BY <1>1, <1>5 DEF Filled

(* A step of t that neither adds nor takes numbers. *)
LEMMA FilledStays ==
    ASSUME NEW t \in Thread, NEW a \in Aggregate, NEW k \in Nat, Filled(a, k), Others(t),
           Numbers(stored, a)' \cup Claim(t, a)' = Numbers(stored, a) \cup Claim(t, a),
           sequences'[a] <= k, lastKey'[a] <= k, Pending(t, a, k)'
    PROVE  Filled(a, k)'
<1>1. Numbers(stored, a)' \cup Claim(t, a)' = Numbers(stored, a) \cup Claim(t, a) \cup {}
  OBVIOUS
<1>2. (1..k) \cup {} = 1..k /\ k <= k
  OBVIOUS
<1> QED
  BY <1>1, <1>2, FilledStep

(* Every step keeps GapInv. *)
LEMMA GapStep == ASSUME StoreInv, GapInv, [Next]_vars PROVE GapInv'
<1> SUFFICES ASSUME NEW a \in Aggregate, a \notin spoiled' PROVE \E k \in Nat : Filled(a, k)'
  BY DEF GapInv
<1> USE DEF StoreInv
<1>1. a \notin spoiled
  BY StepCases DEF Open, Crash, WriteEvent, CheckPasses, CheckFails, PutEvent, PutFails, Remember,
                   WriteEventsBatch, CheckGroup, GroupFails, AdvanceGroup, PutBatch, PutBatchFails, vars
<1>2. PICK k \in Nat : Filled(a, k)
  BY <1>1 DEF GapInv
<1>3. /\ sequences[a] \in Nat /\ sequences[a] <= k /\ lastKey[a] \in Nat /\ lastKey[a] <= k
      /\ \A t \in Thread : Pending(t, a, k)
  BY <1>2 DEF Filled, TypeOK
<1>4. ASSUME Open \/ UNCHANGED vars PROVE \E k2 \in Nat : Filled(a, k2)'
  <2>1. UNCHANGED <<stored, lastKey, pc, call, todo, target>> /\ sequences'[a] <= k
    BY <1>3, <1>4 DEF Open, vars, diskVars, batchVars
  <2>2. /\ Numbers(stored, a)' = Numbers(stored, a)
        /\ \A t \in Thread : Pending(t, a, k)' /\ Claim(t, a)' = Claim(t, a)
    BY <1>3, <2>1, PendingStays DEF Numbers
  <2>3. Claims(a)' = Claims(a)
    BY <2>1 DEF Claims, Advanced, Aggregates, Numbers
  <2>4. Filled(a, k)'
    BY <1>2, <2>1, <2>2, <2>3 DEF Filled
  <2> QED
    BY <2>4
<1>5. ASSUME Crash PROVE \E k2 \in Nat : Filled(a, k2)'
  <2>1. /\ UNCHANGED <<stored, lastKey>> /\ sequences'[a] = 0 /\ \A t \in Thread : pc'[t] = "idle"
        /\ \A t \in Thread : a \notin Advanced(t) /\ a \notin Advanced(t)'
    BY <1>5 DEF Crash, diskVars, Advanced
  <2>2. Claims(a) = {} /\ Claims(a)' = {} /\ Numbers(stored, a)' = Numbers(stored, a)
    BY <2>1 DEF Claims, Numbers
  <2>3. \A t \in Thread : Pending(t, a, k)'
    BY <2>1 DEF Pending
  <2>4. Filled(a, k)'
    BY <1>2, <1>3, <2>1, <2>2, <2>3 DEF Filled
  <2> QED
    BY <2>4
<1>6. ASSUME NEW t \in Thread,
             \/ \E b \in Aggregate, n \in 0..MaxSequence : WriteEvent(t, b, n)
             \/ \E E \in SUBSET Event : WriteEventsBatch(t, E)
             \/ CheckFails(t) \/ PutFails(t) \/ PutBatchFails(t)
             \/ \E b \in Aggregate : GroupFails(t, b)
      PROVE  \E k2 \in Nat : Filled(a, k2)'
  <2>1. Others(t) /\ Same(a) /\ a \notin Advanced(t) /\ a \notin Advanced(t)' /\ pc'[t] \in {"idle", "check", "group"}
    BY <1>6, QuietEffect
  <2>2. Pending(t, a, k)'
    BY <2>1 DEF Pending
  <2>3. Numbers(stored, a)' \cup Claim(t, a)' = Numbers(stored, a) \cup Claim(t, a)
    BY <2>1 DEF Claim, Same
  <2>4. Filled(a, k)'
    BY <1>2, <1>3, <2>1, <2>2, <2>3, FilledStays DEF Same
  <2> QED
    BY <2>4
<1>7. ASSUME NEW t \in Thread, CheckPasses(t) PROVE \E k2 \in Nat : Filled(a, k2)'
  <2>1. /\ Others(t) /\ UNCHANGED <<stored, lastKey, sequences, call>>
        /\ pc[t] = "check" /\ pc'[t] = "put"
    BY <1>7, CheckEffect
  <2>2. PICK b \in Aggregate, n \in Nat : Calls(t, b, n) /\ n = sequences[b] + 1
    BY <1>7, CheckEffect
  <2>3. \A j \in 0..MaxSequence : Calls(t, a, j)' => j \in 1..(k + 1)
    <3>1. \A j : Calls(t, a, j)' => Calls(t, a, j)
      BY <2>1 DEF Calls
    <3>2. \A j : Calls(t, a, j) => a = b /\ j = n
      BY <2>2, OneCall
    <3> QED
      BY <1>3, <2>2, <3>1, <3>2
  <2>4. Pending(t, a, k)'
    BY <2>1, <2>3 DEF Pending
  <2>5. Numbers(stored, a)' \cup Claim(t, a)' = Numbers(stored, a) \cup Claim(t, a)
    BY <2>1 DEF Claim, Advanced, Numbers
  <2>6. Filled(a, k)'
    BY <1>2, <1>3, <2>1, <2>4, <2>5, FilledStays
  <2> QED
    BY <2>6
<1>8. ASSUME NEW t \in Thread, PutEvent(t) \/ Remember(t) PROVE \E k2 \in Nat : Filled(a, k2)'
  <2>1. /\ Others(t) /\ UNCHANGED call
        /\ PutEvent(t) => pc[t] = "put" /\ pc'[t] = "remember" /\ sequences' = sequences
        /\ Remember(t) => pc[t] = "remember" /\ pc'[t] = "idle" /\ UNCHANGED diskVars
    BY <1>8, PutEffect
  <2>2. PICK b \in Aggregate, n \in 0..MaxSequence :
                 /\ n \in Nat /\ Calls(t, b, n)
                 /\ \A c \in Aggregate \ {b} : Same(c)
                 /\ PutEvent(t) => /\ Numbers(stored, b)' = Numbers(stored, b) \cup {n}
                                   /\ lastKey'[b] = n
                 /\ Remember(t) => sequences'[b] = n
    BY <1>8, PutEffect
  <2>3. Claim(t, a) = {} /\ Claim(t, a)' = {}
    BY <1>8, <2>1 DEF Claim, Advanced
  <2>4. \A j : Calls(t, a, j)' => a = b /\ j = n
    <3>1. \A j : Calls(t, a, j)' => Calls(t, a, j)
      BY <2>1 DEF Calls
    <3> QED
      BY <2>2, <3>1, OneCall
  <2>5. CASE b = a /\ PutEvent(t)
    <3>1. n \in 1..(k + 1)
      BY <1>3, <2>1, <2>2, <2>5 DEF Pending
    <3> DEFINE k2 == IF n = k + 1 THEN n ELSE k
    <3>2. k2 \in Nat /\ k <= k2 /\ n <= k2 /\ (1..k) \cup {n} = 1..k2
      <4>1. CASE n = k + 1
        BY <4>1, NextNumber
      <4>2. CASE n # k + 1
        BY <3>1, <4>2
      <4> QED
        BY <4>1, <4>2
    <3> HIDE DEF k2
    <3>3. Pending(t, a, k2)'
      BY <2>1, <2>4, <2>5, <3>2 DEF Pending
    <3>4. Numbers(stored, a)' \cup Claim(t, a)' = Numbers(stored, a) \cup Claim(t, a) \cup {n}
      BY <2>2, <2>3, <2>5
    <3>5. sequences'[a] <= k2 /\ lastKey'[a] <= k2
      BY <1>3, <2>1, <2>2, <2>5, <3>2
    <3>6. Filled(a, k2)'
      BY <1>2, <2>1, <3>2, <3>3, <3>4, <3>5, FilledStep
    <3> QED
      BY <3>2, <3>6
  <2>6. CASE b = a /\ Remember(t)
    <3>1. n <= k
      BY <1>3, <2>1, <2>2, <2>6 DEF Pending
    <3>2. sequences'[a] <= k /\ lastKey'[a] <= k /\ Numbers(stored, a)' = Numbers(stored, a)
      BY <1>3, <2>1, <2>2, <2>6, <3>1 DEF diskVars, Numbers
    <3>3. Pending(t, a, k)'
      BY <2>1, <2>6 DEF Pending
    <3>4. Numbers(stored, a)' \cup Claim(t, a)' = Numbers(stored, a) \cup Claim(t, a)
      BY <2>3, <3>2
    <3>5. Filled(a, k)'
      BY <1>2, <2>1, <3>2, <3>3, <3>4, FilledStays
    <3> QED
      BY <3>5
  <2>7. CASE b # a
    <3>1. Same(a) /\ pc'[t] \in {"remember", "idle"}
      BY <1>8, <2>1, <2>2, <2>7
    <3>2. Pending(t, a, k)'
      BY <2>4, <2>7, <3>1 DEF Pending
    <3>3. Numbers(stored, a)' \cup Claim(t, a)' = Numbers(stored, a) \cup Claim(t, a)
      BY <2>3, <3>1 DEF Same
    <3>4. Filled(a, k)'
      BY <1>2, <1>3, <2>1, <3>1, <3>2, <3>3, FilledStays DEF Same
    <3> QED
      BY <3>4
  <2> QED
    BY <1>8, <2>5, <2>6, <2>7
<1>9. ASSUME NEW t \in Thread, NEW b \in Aggregate, CheckGroup(t, b) PROVE \E k2 \in Nat : Filled(a, k2)'
  <2>1. /\ Others(t) /\ UNCHANGED <<stored, lastKey, sequences, call>>
        /\ pc'[t] = "advance" /\ target'[t] = b /\ Advanced(t)' = Advanced(t)
    BY <1>9, GroupEffect
  <2>2. PICK h \in Nat : Run(t, b, sequences[b], h)
    BY <1>9, GroupEffect
  <2>3. b = a => \A m, j \in Nat : Run(t, a, m, j)' => m <= k
    <3> SUFFICES ASSUME b = a, NEW m \in Nat, NEW j \in Nat, Run(t, a, m, j)' PROVE m <= k
      OBVIOUS
    <3>1. Run(t, a, m, j)
      BY <2>1 DEF Run, Numbers
    <3>2. m = sequences[a]
      BY <1>3, <2>2, <3>1, OneRun
    <3> QED
      BY <1>3, <3>2
  <2>4. Pending(t, a, k)'
    BY <2>1, <2>3 DEF Pending
  <2>5. Numbers(stored, a)' \cup Claim(t, a)' = Numbers(stored, a) \cup Claim(t, a)
    BY <2>1 DEF Claim, Numbers
  <2>6. Filled(a, k)'
    BY <1>2, <1>3, <2>1, <2>4, <2>5, FilledStays
  <2> QED
    BY <2>6
<1>10. ASSUME NEW t \in Thread, AdvanceGroup(t) PROVE \E k2 \in Nat : Filled(a, k2)'
  <2>1. /\ Others(t) /\ UNCHANGED <<stored, lastKey, call>>
        /\ pc[t] = "advance" /\ pc'[t] \in {"group", "putBatch"}
    BY <1>10, AdvanceEffect
  <2>2. PICK b \in Aggregate, m \in Nat, h \in Nat :
                 /\ target[t] = b /\ Run(t, b, m, h)
                 /\ b \notin Advanced(t) /\ Advanced(t)' = Advanced(t) \cup {b}
                 /\ sequences'[b] = h
                 /\ \A c \in Aggregate \ {b} : Same(c)
    BY <1>10, AdvanceEffect
  <2>3. Numbers(stored, a)' = Numbers(stored, a) /\ Numbers(call[t], a)' = Numbers(call[t], a)
    BY <2>1 DEF Numbers
  <2>4. \A j \in Nat : Pending(t, a, j)'
    BY <2>1 DEF Pending
  <2>5. CASE b = a
    <3>1. m <= k /\ m < h
      BY <1>3, <2>1, <2>2, <2>5 DEF Pending, Run
    <3> DEFINE k2 == IF k < h THEN h ELSE k
    <3>2. k2 \in Nat /\ k <= k2 /\ h <= k2 /\ (1..k) \cup ((m + 1)..h) = 1..k2
      BY <3>1
    <3> HIDE DEF k2
    <3>3. Numbers(stored, a)' \cup Claim(t, a)' = Numbers(stored, a) \cup Claim(t, a) \cup ((m + 1)..h)
      BY <2>2, <2>3, <2>5 DEF Claim, Run
    <3>4. sequences'[a] <= k2 /\ lastKey'[a] <= k2
      BY <1>3, <2>1, <2>2, <2>5, <3>2
    <3>5. Filled(a, k2)'
      BY <1>2, <2>1, <2>4, <3>2, <3>3, <3>4, FilledStep
    <3> QED
      BY <3>2, <3>5
  <2>6. CASE b # a
    <3>1. Same(a)
      BY <2>2, <2>6
    <3>2. Numbers(stored, a)' \cup Claim(t, a)' = Numbers(stored, a) \cup Claim(t, a)
      BY <2>2, <2>3, <2>6 DEF Claim
    <3>3. Filled(a, k)'
      BY <1>2, <1>3, <2>1, <2>4, <3>1, <3>2, FilledStays DEF Same
    <3> QED
      BY <3>3
  <2> QED
    BY <2>5, <2>6
<1>11. ASSUME NEW t \in Thread, PutBatch(t) PROVE \E k2 \in Nat : Filled(a, k2)'
  <2>1. /\ Others(t) /\ UNCHANGED <<sequences, call>>
        /\ pc[t] = "putBatch" /\ pc'[t] = "idle" /\ a \notin Advanced(t)'
        /\ a \notin Advanced(t) => Same(a)
    BY <1>11, BatchEffect
  <2>2. Pending(t, a, k)' /\ Claim(t, a)' = {}
    BY <2>1 DEF Pending, Claim
  <2>3. CASE a \notin Advanced(t)
    <3>1. Numbers(stored, a)' \cup Claim(t, a)' = Numbers(stored, a) \cup Claim(t, a)
      BY <2>1, <2>2, <2>3 DEF Claim, Same
    <3>2. Filled(a, k)'
      BY <1>2, <1>3, <2>1, <2>2, <2>3, <3>1, FilledStays DEF Same
    <3> QED
      BY <3>2
  <2>4. CASE a \in Advanced(t)
    <3>1. PICK m \in Nat, h \in Nat :
                    /\ Run(t, a, m, h)
                    /\ Numbers(stored, a)' = Numbers(stored, a) \cup (m + 1)..h
                    /\ lastKey'[a] = h
      BY <1>11, <2>4, BatchEffect
    <3>2. Claim(t, a) = (m + 1)..h /\ m < h
      BY <2>4, <3>1 DEF Claim, Run
    <3>3. h \in Claims(a)
      <4>1. h \in Claim(t, a)
        BY <3>2
      <4> QED
        BY <4>1, ClaimsSplit
    <3>4. lastKey'[a] <= k
      BY <1>2, <3>1, <3>3 DEF Filled
    <3>5. Numbers(stored, a)' \cup Claim(t, a)' = Numbers(stored, a) \cup Claim(t, a)
      BY <2>2, <3>1, <3>2
    <3>6. Filled(a, k)'
      BY <1>2, <1>3, <2>1, <2>2, <3>4, <3>5, FilledStays
    <3> QED
      BY <3>6
  <2> QED
    BY <2>3, <2>4
<1> QED
  BY <1>4, <1>5, <1>6, <1>7, <1>8, <1>9, <1>10, <1>11, StepCases

-----------------------------------------------------------------------------

(* The invariant holds in every behaviour. *)
LEMMA Invariant == Spec => []Inv
<1>1. Init => Inv
  <2> SUFFICES ASSUME Init PROVE GapInv /\ MemoryInv
    BY InitStore DEF Inv
  <2>1. \A a \in Aggregate : /\ Numbers(stored, a) = {} /\ Claims(a) = {}
                             /\ sequences[a] = 0 /\ lastKey[a] = 0
    BY DEF Init, Numbers, Claims, Advanced
  <2>2. \A t \in Thread : pc[t] = "idle" /\ Advanced(t) = {} /\ ~open
    BY DEF Init, Advanced
  <2>3. 1..0 = {} /\ 0 \in Nat
    OBVIOUS
  <2>4. \A a \in Aggregate : Filled(a, 0)
    BY <2>1, <2>2, <2>3 DEF Filled, Pending
  <2>5. \A a \in Aggregate, t \in Thread : Follows(t, a)
    BY <2>1, <2>2, <2>3 DEF Follows
  <2> QED
    BY <2>3, <2>4, <2>5 DEF GapInv, MemoryInv
<1>2. Inv /\ [Next]_vars => Inv'
  BY TypeStep, CallsStep, ClosedStep, StoredStep, GapStep, MemoryStep DEF Inv, StoreInv
<1> QED
  BY <1>1, <1>2, PTL DEF Spec

(* While open, what the memory says of an aggregate of one writer is what   *)
(* the database says, whatever its writes, batches and restarts went        *)
(* through, unless one of its batches has failed too late (leveldb.go:93).  *)
THEOREM MemoryIsDisk == Spec => []MemoryFollowsDisk
<1>1. Inv => MemoryFollowsDisk
  <2> SUFFICES ASSUME Inv, NEW a \in Aggregate, open, SingleWriter(a), ~Unsettled(a), a \notin spoiled
               PROVE  sequences[a] = lastKey[a] /\ lastKey[a] = Cardinality(Numbers(stored, a))
    BY DEF MemoryFollowsDisk
  <2>1. PICK t \in Thread : \A u \in Thread : <<u, a>> \in MayWrite => u = t
    BY DEF SingleWriter
  <2>2. Follows(t, a) /\ lastKey[a] \in Nat
    BY <2>1 DEF Inv, StoreInv, MemoryInv, TypeOK
  <2>3. Numbers(stored, a) = 1..lastKey[a] /\ a \notin Advanced(t)
    BY <2>2 DEF Follows, Unsettled
  <2>4. ASSUME pc[t] = "remember", NEW n \in 0..MaxSequence, Calls(t, a, n) PROVE FALSE
    <3>1. n \in Nat
      BY KVStorageAssumption
    <3>2. OwnAggregate(t) = a
      BY <2>4, <3>1, SingleCall
    <3> QED
      BY <2>4, <3>2 DEF Unsettled
  <2>5. sequences[a] = lastKey[a]
    BY <2>2, <2>3, <2>4 DEF Follows
  <2>6. Cardinality(1..lastKey[a]) = IF 1 > lastKey[a] THEN 0 ELSE lastKey[a] - 1 + 1
    BY <2>2, FS_Interval
  <2> QED
    BY <2>2, <2>3, <2>5, <2>6
<1> QED
  BY <1>1, Invariant, PTL

(* Writers that race for numbers leave no gap: one there is comes from a    *)
(* batch, which claims its numbers in memory before it writes.              *)
THEOREM NoOtherGaps == Spec => []GapsComeFromBatches
<1>1. Inv => GapsComeFromBatches
  <2> SUFFICES ASSUME Inv, NEW a \in Aggregate, a \notin spoiled, \A t \in Thread : a \notin Advanced(t)
               PROVE  Contiguous(a)
    BY DEF GapsComeFromBatches
  <2>1. PICK k \in Nat : Filled(a, k)
    BY DEF Inv, GapInv
  <2>2. Claims(a) = {}
    BY DEF Claims
  <2>3. Numbers(stored, a) = 1..k
    BY <2>1, <2>2 DEF Filled
  <2>4. Cardinality(1..k) = IF 1 > k THEN 0 ELSE k - 1 + 1
    BY FS_Interval
  <2>5. Cardinality(1..k) = k
    BY <2>4
  <2> QED
    BY <2>3, <2>5 DEF Contiguous
<1> QED
  BY <1>1, Invariant, PTL

=============================================================================
