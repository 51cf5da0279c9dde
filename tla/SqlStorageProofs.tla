--------------------------- MODULE SqlStorageProofs ---------------------------
(***************************************************************************)
(* Theorems of SqlStorage: however many transactions overlap, the primary  *)
(* key of the events table serializes them per aggregate, and the committed*)
(* tables agree.                                                           *)
(***************************************************************************)
EXTENDS SqlStorage, FiniteSetTheorems, SequenceTheorems, TLAPS

-----------------------------------------------------------------------------
(* The inductive invariant                                                   *)

Open == {t \in Thread : InTransaction(t)}

\* The pool counts the open transactions.
PoolInv == IsFiniteSet(Open) /\ inUse = Cardinality(Open)

UniqueKeys(E) == \A d, e \in E : SameKey(d, e) => d = e

\* The events of E take up the numbers where the committed ones end.
Continues(E) ==
    \A a \in Aggregate : \E m \in Nat :
        m >= sequences[a] /\ Numbers(E, a) = (sequences[a] + 1)..m

\* An event about to be inserted passed the check: it is the next one, unless
\* another transaction has by now committed its number.
InTurn(t) ==
    LET a == Current(t).AggregateID
        n == Current(t).Sequence
    IN  /\ n >= 1
        /\ \/ n = Updated(Inserted(t))[a] + 1
           \/ Numbers(Inserted(t), a) = {} /\ n <= sequences[a]

TxInv(t) ==
    /\ UniqueKeys(Inserted(t))
    /\ Continues(Counted(t))
    /\ Continues(Inserted(t))
    /\ pc[t] = "insert" => InTurn(t)

IInv ==
    /\ TypeOK
    /\ PoolInv
    /\ SequenceTableExact
    /\ OneTransactionPerAggregate
    /\ \A t \in Thread : TxInv(t)

-----------------------------------------------------------------------------
(* Lemmas about the operators                                                *)

(* The numbers of a set of events. *)
LEMMA NumbersOf ==
    ASSUME NEW E, NEW a
    PROVE  /\ Numbers({}, a) = {}
           /\ \A n : n \in Numbers(E, a) <=>
                 \E e \in E : e.AggregateID = a /\ e.Sequence = n
BY DEF Numbers

(* An interval and the number after it. *)
LEMMA IntervalAdd ==
    ASSUME NEW i \in Nat, NEW m \in Nat, m >= i
    PROVE  ((i + 1)..m) \cup {m + 1} = (i + 1)..(m + 1)
OBVIOUS

(* A transaction's rows leave the sequences table at their last number. *)
LEMMA UpdatedTo ==
    ASSUME sequences \in [Aggregate -> Nat], NEW E, NEW a \in Aggregate,
           NEW m \in Nat, m >= sequences[a],
           Numbers(E, a) = (sequences[a] + 1)..m
    PROVE  Updated(E)[a] = m
<1>1. CASE m = sequences[a]
  <2>1. Numbers(E, a) = {}
    BY <1>1
  <2> QED
    BY <1>1, <2>1 DEF Updated
<1>2. CASE m > sequences[a]
  <2>1. m \in Numbers(E, a) /\ \A k \in Numbers(E, a) : k <= m
    BY <1>2
  <2>2. Highest(E, a) \in Numbers(E, a) /\ m <= Highest(E, a)
    BY <2>1 DEF Highest
  <2>3. Highest(E, a) = m
    BY <2>1, <2>2
  <2> QED
    BY <2>1, <2>3 DEF Updated
<1> QED
  BY <1>1, <1>2

(* What the transaction of a goroutine consists of. *)
LEMMA Transaction ==
    ASSUME TypeOK, NEW t \in Thread
    PROVE  /\ Inserted(t) \subseteq Event
           /\ Counted(t) \subseteq Inserted(t)
           /\ ~InTransaction(t) => Inserted(t) = {} /\ Counted(t) = {}
           /\ InTransaction(t) =>
                 /\ Current(t) \in Event
                 /\ Current(t).AggregateID \in Aggregate
                 /\ Current(t).Sequence \in Nat
                 /\ Written(t, at[t]) = Written(t, at[t] - 1) \cup {Current(t)}
<1>1. /\ pc[t] \in {"idle", "begin", "read", "insert", "update", "commit"}
      /\ batch[t] \in Seq(Event)
      /\ at[t] \in Nat
      /\ pc[t] # "idle" => at[t] \in 1..Len(batch[t])
      /\ pc[t] = "begin" => at[t] = 1
      /\ pc[t] = "idle" => at[t] = 0
  BY DEF TypeOK
<1>2. InTransaction(t) =>
         /\ at[t] \in 1..Len(batch[t])
         /\ Written(t, at[t]) \subseteq Event
         /\ Written(t, at[t] - 1) \subseteq Written(t, at[t])
         /\ Current(t) \in Event
         /\ Written(t, at[t]) = Written(t, at[t] - 1) \cup {Current(t)}
  BY <1>1 DEF InTransaction, Written, Current
<1>3. \A e \in Event : e.AggregateID \in Aggregate /\ e.Sequence \in Nat
  BY DEF Event
<1>4. CASE ~InTransaction(t)
  BY <1>1, <1>4 DEF InTransaction, Inserted, Counted, Written
<1>5. CASE InTransaction(t)
  BY <1>1, <1>2, <1>3, <1>5 DEF InTransaction, Inserted, Counted
<1> QED
  BY <1>4, <1>5

(* A transaction that has written nothing continues the committed numbers. *)
LEMMA NothingContinues ==
    ASSUME sequences \in [Aggregate -> Nat]
    PROVE  Continues({}) /\ UniqueKeys({})
<1> SUFFICES ASSUME NEW a \in Aggregate
             PROVE  \E m \in Nat : m >= sequences[a] /\ Numbers({}, a) = (sequences[a] + 1)..m
  BY DEF Continues, UniqueKeys
<1>1. sequences[a] \in Nat /\ Numbers({}, a) = (sequences[a] + 1)..sequences[a]
  BY NumbersOf
<1> QED
  BY <1>1

(* A transaction is as it was when its goroutine takes no step. *)
LEMMA Frame ==
    ASSUME NEW t \in Thread,
           pc'[t] = pc[t], batch'[t] = batch[t], at'[t] = at[t]
    PROVE  /\ Inserted(t)' = Inserted(t)
           /\ Counted(t)' = Counted(t)
           /\ Current(t)' = Current(t)
BY DEF Inserted, Counted, Current, Written

LEMMA TxFrame ==
    ASSUME NEW t \in Thread, TxInv(t), UNCHANGED tables,
           pc'[t] = pc[t], batch'[t] = batch[t], at'[t] = at[t]
    PROVE  TxInv(t)'
<1>1. /\ Inserted(t)' = Inserted(t)
      /\ Counted(t)' = Counted(t)
      /\ Current(t)' = Current(t)
  BY Frame
<1>2. UNCHANGED sequences
  BY DEF tables
<1>3. UniqueKeys(Inserted(t))' /\ Continues(Counted(t))' /\ Continues(Inserted(t))'
  BY <1>1, <1>2 DEF TxInv, UniqueKeys, Continues
<1>4. InTurn(t) => InTurn(t)'
  BY <1>1, <1>2 DEF InTurn, Updated
<1> QED
  BY <1>3, <1>4 DEF TxInv

-----------------------------------------------------------------------------
(* The kinds of steps                                                        *)

\* Goroutine t takes the step: the others stay where they are.
StepOf(t) == \A u \in Thread \ {t} : pc'[u] = pc[u] /\ batch'[u] = batch[u] /\ at'[u] = at[u]

\* A step of t after which its transaction has written no event that it had
\* not written before.
Quiet(t) ==
    /\ StepOf(t)
    /\ UNCHANGED tables
    /\ Inserted(t)' \subseteq Inserted(t)
    /\ TxInv(t)'

(* A call returns: nothing is left of its transaction. *)
LEMMA ReturnQuiet ==
    ASSUME IInv, NEW t \in Thread, NEW r, Return(t, r), UNCHANGED <<tables, batch>>
    PROVE  Quiet(t)
<1>1. /\ pc' = [pc EXCEPT ![t] = "idle"]
      /\ at' = [at EXCEPT ![t] = 0]
      /\ UNCHANGED <<events, sequences, batch>>
  BY DEF Return, Goto, tables
<1>2. /\ sequences \in [Aggregate -> Nat]
      /\ pc'[t] = "idle" /\ at'[t] = 0
      /\ StepOf(t)
  BY <1>1 DEF IInv, TypeOK, StepOf
<1>3. Inserted(t)' = {} /\ Counted(t)' = {}
  BY <1>2 DEF Inserted, Counted, Written
<1>4. Continues({})' /\ UniqueKeys({})'
  BY <1>1, <1>2, NothingContinues DEF Continues, UniqueKeys
<1>5. TxInv(t)'
  BY <1>2, <1>3, <1>4 DEF TxInv, Continues, UniqueKeys
<1> QED
  BY <1>1, <1>2, <1>3, <1>5 DEF Quiet, tables

LEMMA RollbackQuiet ==
    ASSUME IInv, NEW t \in Thread, Rollback(t)
    PROVE  Quiet(t)
BY ReturnQuiet DEF Rollback

LEMMA CallQuiet ==
    ASSUME IInv, NEW t \in Thread, NEW keys \in Request, WriteEventsBatch(t, keys)
    PROVE  Quiet(t)
<1>1. /\ pc' = [pc EXCEPT ![t] = "begin"]
      /\ at' = [at EXCEPT ![t] = 1]
      /\ batch' = [batch EXCEPT ![t] = EventsAt(t, keys)]
      /\ UNCHANGED <<events, sequences>>
  BY DEF WriteEventsBatch, Goto, tables
<1>2. /\ sequences \in [Aggregate -> Nat]
      /\ pc'[t] = "begin" /\ at'[t] = 1
      /\ StepOf(t)
  BY <1>1 DEF IInv, TypeOK, StepOf
<1>3. Inserted(t)' = {} /\ Counted(t)' = {}
  BY <1>2 DEF Inserted, Counted, Written
<1>4. Continues({})' /\ UniqueKeys({})'
  BY <1>1, <1>2, NothingContinues DEF Continues, UniqueKeys
<1>5. TxInv(t)'
  BY <1>2, <1>3, <1>4 DEF TxInv, Continues, UniqueKeys
<1> QED
  BY <1>1, <1>2, <1>3, <1>5 DEF Quiet, tables

LEMMA BeginQuiet ==
    ASSUME IInv, NEW t \in Thread, BeginTx(t)
    PROVE  Quiet(t)
<1>1. /\ pc[t] = "begin" /\ at[t] = 1
      /\ pc' = [pc EXCEPT ![t] = "read"]
      /\ UNCHANGED <<events, sequences, at, batch>>
  BY DEF BeginTx, Goto, tables, IInv, TypeOK
<1>2. /\ sequences \in [Aggregate -> Nat]
      /\ pc'[t] = "read" /\ at'[t] = 1
      /\ StepOf(t)
  BY <1>1 DEF IInv, TypeOK, StepOf
<1>3. Inserted(t)' = {} /\ Counted(t)' = {}
  BY <1>2 DEF Inserted, Counted, Written
<1>4. Continues({})' /\ UniqueKeys({})'
  BY <1>1, <1>2, NothingContinues DEF Continues, UniqueKeys
<1>5. TxInv(t)'
  BY <1>2, <1>3, <1>4 DEF TxInv, Continues, UniqueKeys
<1> QED
  BY <1>1, <1>2, <1>3, <1>5 DEF Quiet, tables

(* The check makes the event's number the next one that t sees. *)
LEMMA ReadQuiet ==
    ASSUME IInv, NEW t \in Thread, ReadSequence(t)
    PROVE  Quiet(t)
<1> DEFINE a == Current(t).AggregateID
<1>1. /\ pc[t] = "read"
      /\ Current(t).Sequence = Updated(Counted(t))[a] + 1
      /\ pc' = [pc EXCEPT ![t] = "insert"]
      /\ UNCHANGED <<events, sequences, at, batch>>
  BY DEF ReadSequence, ExpectedSequence, Goto, tables
<1>2. /\ sequences \in [Aggregate -> Nat]
      /\ pc'[t] = "insert"
      /\ StepOf(t)
      /\ TypeOK /\ TxInv(t)
  BY <1>1 DEF IInv, TypeOK, StepOf
<1>3. /\ Inserted(t)' = Inserted(t)
      /\ Counted(t)' = Counted(t)
      /\ Counted(t) = Inserted(t)
      /\ Current(t)' = Current(t)
  BY <1>1, <1>2 DEF Inserted, Counted, Current, Written
<1>4. a \in Aggregate
  BY <1>1, <1>2, Transaction DEF InTransaction
<1>5. Updated(Inserted(t))[a] \in Nat
  <2>1. PICK m \in Nat : m >= sequences[a] /\ Numbers(Inserted(t), a) = (sequences[a] + 1)..m
    BY <1>2, <1>4 DEF TxInv, Continues
  <2> QED
    BY <2>1, <1>2, <1>4, UpdatedTo
<1>6. InTurn(t)'
  BY <1>1, <1>3, <1>5 DEF InTurn, Updated
<1>7. TxInv(t)'
  BY <1>1, <1>2, <1>3, <1>6 DEF TxInv, Continues, UniqueKeys
<1> QED
  BY <1>1, <1>2, <1>3, <1>7 DEF Quiet, tables

LEMMA UpdateQuiet ==
    ASSUME IInv, NEW t \in Thread, UpdateSequence(t)
    PROVE  Quiet(t)
<1>1. /\ pc[t] = "update"
      /\ \/ pc' = [pc EXCEPT ![t] = "read"] /\ at' = [at EXCEPT ![t] = at[t] + 1]
         \/ pc' = [pc EXCEPT ![t] = "commit"] /\ at' = at
      /\ UNCHANGED <<events, sequences, batch>>
  BY DEF UpdateSequence, Goto, tables
<1>2. /\ TypeOK /\ TxInv(t)
      /\ StepOf(t)
      /\ at[t] \in Nat
      /\ \/ pc'[t] = "read" /\ at'[t] = at[t] + 1
         \/ pc'[t] = "commit" /\ at'[t] = at[t]
  BY <1>1 DEF IInv, TypeOK, StepOf
<1>3. Inserted(t)' = Inserted(t) /\ Counted(t)' = Inserted(t)
  BY <1>1, <1>2 DEF Inserted, Counted, Written
<1>4. TxInv(t)'
  BY <1>1, <1>2, <1>3 DEF TxInv, Continues, UniqueKeys
<1> QED
  BY <1>1, <1>2, <1>3, <1>4 DEF Quiet, tables

(* A quiet step keeps everything said of the tables and the transactions. *)
LEMMA QuietStep ==
    ASSUME IInv, NEW t \in Thread, Quiet(t)
    PROVE  SequenceTableExact' /\ OneTransactionPerAggregate' /\ \A u \in Thread : TxInv(u)'
<1>1. SequenceTableExact'
  BY DEF Quiet, tables, IInv, SequenceTableExact
<1>2. \A u \in Thread : Inserted(u)' \subseteq Inserted(u)
  BY Frame DEF Quiet, StepOf
<1>3. OneTransactionPerAggregate'
  BY <1>2 DEF IInv, OneTransactionPerAggregate
<1>4. \A u \in Thread : TxInv(u)'
  BY TxFrame DEF Quiet, StepOf, IInv
<1> QED
  BY <1>1, <1>3, <1>4

-----------------------------------------------------------------------------
(* Inserting and committing                                                  *)

(* An event that the primary key lets in has the next number of its aggregate*)
(* and no other transaction has written to that aggregate.                   *)
LEMMA InsertInTurn ==
    ASSUME IInv, NEW t \in Thread, InsertEvent(t)
    PROVE  LET a == Current(t).AggregateID IN
           /\ Current(t).Sequence = Updated(Inserted(t))[a] + 1
           /\ \A u \in Thread \ {t} : Numbers(Inserted(u), a) = {}
<1> DEFINE a == Current(t).AggregateID
           n == Current(t).Sequence
<1>1. /\ pc[t] = "insert"
      /\ TypeOK /\ SequenceTableExact /\ OneTransactionPerAggregate
      /\ \A u \in Thread : TxInv(u)
      /\ sequences \in [Aggregate -> Nat]
      /\ InTurn(t)
  BY DEF InsertEvent, IInv, TypeOK, TxInv
<1>2. a \in Aggregate /\ n \in Nat /\ n >= 1
  BY <1>1, Transaction DEF InTransaction, InTurn
<1>3. ~(n <= sequences[a])
  <2> SUFFICES ASSUME n <= sequences[a] PROVE FALSE
    OBVIOUS
  <2>1. n \in Numbers(events, a)
    BY <1>1, <1>2 DEF SequenceTableExact
  <2>2. PICK d \in events : d.AggregateID = a /\ d.Sequence = n
    BY <2>1, NumbersOf
  <2> QED
    BY <2>2 DEF InsertEvent, SameKey
<1>4. n = Updated(Inserted(t))[a] + 1
  BY <1>1, <1>3 DEF InTurn
<1>5. ASSUME NEW u \in Thread \ {t}, Numbers(Inserted(u), a) # {}
      PROVE  FALSE
  <2>1. PICK m \in Nat : m >= sequences[a] /\ Numbers(Inserted(u), a) = (sequences[a] + 1)..m
    BY <1>1, <1>2 DEF TxInv, Continues
  <2>2. sequences[a] + 1 \in Numbers(Inserted(u), a)
    BY <1>1, <1>2, <1>5, <2>1
  <2>3. PICK e \in Inserted(u) : e.AggregateID = a /\ e.Sequence = sequences[a] + 1
    BY <2>2, NumbersOf
  <2>4. Numbers(Inserted(t), a) = {}
    <3> SUFFICES ASSUME NEW d \in Inserted(t), d.AggregateID = a PROVE FALSE
      BY NumbersOf
    <3> QED
      BY <1>1, <1>5, <2>3 DEF OneTransactionPerAggregate
  <2>5. n = sequences[a] + 1
    BY <1>2, <1>4, <2>4 DEF Updated
  <2>6. WaitsFor(t, u)
    BY <1>1, <1>5, <2>3, <2>5 DEF WaitsFor, SameKey
  <2> QED
    BY <2>6 DEF InsertEvent, Waits
<1> QED
  BY <1>4, <1>5

LEMMA InsertStep ==
    ASSUME IInv, NEW t \in Thread, InsertEvent(t)
    PROVE  SequenceTableExact' /\ OneTransactionPerAggregate' /\ \A u \in Thread : TxInv(u)'
<1> DEFINE e == Current(t)
           a == e.AggregateID
<1>1. /\ pc[t] = "insert"
      /\ pc' = [pc EXCEPT ![t] = "update"]
      /\ UNCHANGED <<events, sequences, at, batch>>
  BY DEF InsertEvent, Goto, tables
<1>2. /\ TypeOK /\ SequenceTableExact /\ OneTransactionPerAggregate
      /\ \A u \in Thread : TxInv(u)
      /\ sequences \in [Aggregate -> Nat]
      /\ pc'[t] = "update"
      /\ StepOf(t)
  BY <1>1 DEF IInv, TypeOK, StepOf
<1>3. /\ a \in Aggregate
      /\ e.Sequence \in Nat
      /\ Written(t, at[t]) = Written(t, at[t] - 1) \cup {e}
  BY <1>1, <1>2, Transaction DEF InTransaction
<1>4. Inserted(t)' = Inserted(t) \cup {e} /\ Counted(t)' = Inserted(t)
  BY <1>1, <1>2, <1>3 DEF Inserted, Counted, Written
<1>5. \A u \in Thread \ {t} : Inserted(u)' = Inserted(u)
  BY <1>2, Frame DEF StepOf
<1>6. PICK m \in Nat : m >= sequences[a] /\ Numbers(Inserted(t), a) = (sequences[a] + 1)..m
  BY <1>2, <1>3 DEF TxInv, Continues
<1>7. e.Sequence = m + 1 /\ \A u \in Thread \ {t} : Numbers(Inserted(u), a) = {}
  <2>1. Updated(Inserted(t))[a] = m
    BY <1>2, <1>3, <1>6, UpdatedTo
  <2>2. /\ e.Sequence = Updated(Inserted(t))[a] + 1
        /\ \A u \in Thread \ {t} : Numbers(Inserted(u), a) = {}
    BY InsertInTurn
  <2> QED
    BY <2>1, <2>2
<1>8. SequenceTableExact'
  BY <1>1, <1>2 DEF SequenceTableExact
<1>9. OneTransactionPerAggregate'
  <2>1. \A u \in Thread \ {t} : \A d \in Inserted(u) : d.AggregateID # a
    BY <1>7, NumbersOf
  <2> QED
    BY <1>2, <1>4, <1>5, <2>1 DEF OneTransactionPerAggregate
<1>10. TxInv(t)'
  <2>1. UniqueKeys(Inserted(t) \cup {e})
    <3>1. \A d \in Inserted(t) : ~SameKey(d, e) /\ ~SameKey(e, d)
      <4>1. m + 1 \notin Numbers(Inserted(t), a)
        BY <1>6
      <4> QED
        BY <1>7, <4>1, NumbersOf DEF SameKey
    <3> QED
      BY <1>2, <3>1 DEF TxInv, UniqueKeys
  <2>2. Continues(Inserted(t)) /\ Continues(Inserted(t) \cup {e})
    <3>1. Continues(Inserted(t))
      BY <1>2 DEF TxInv
    <3> SUFFICES ASSUME NEW b \in Aggregate
                 PROVE  \E k \in Nat : /\ k >= sequences[b]
                                       /\ Numbers(Inserted(t) \cup {e}, b) = (sequences[b] + 1)..k
      BY <3>1 DEF Continues
    <3>2. CASE b = a
      <4>1. Numbers(Inserted(t) \cup {e}, a) = Numbers(Inserted(t), a) \cup {m + 1}
        BY <1>7 DEF Numbers
      <4>2. sequences[a] \in Nat
        BY <1>2, <1>3
      <4>3. Numbers(Inserted(t) \cup {e}, a) = (sequences[a] + 1)..(m + 1)
        BY <1>6, <4>1, <4>2, IntervalAdd
      <4> QED
        BY <1>6, <3>2, <4>2, <4>3
    <3>3. CASE b # a
      <4>1. Numbers(Inserted(t) \cup {e}, b) = Numbers(Inserted(t), b)
        BY <3>3 DEF Numbers
      <4> QED
        BY <3>1, <4>1 DEF Continues
    <3> QED
      BY <3>2, <3>3
  <2> QED
    BY <1>1, <1>2, <1>4, <2>1, <2>2 DEF TxInv, Continues, UniqueKeys
<1>11. \A u \in Thread \ {t} : TxInv(u)'
  BY <1>1, <1>2, TxFrame DEF StepOf, tables
<1> QED
  BY <1>8, <1>9, <1>10, <1>11

(* A commit moves each aggregate's last number to the transaction's; no other*)
(* transaction has written to an aggregate whose number moves.               *)
LEMMA CommitNumbers ==
    ASSUME IInv, NEW t \in Thread, NEW r, CommitAs(t, r), NEW a \in Aggregate
    PROVE  /\ sequences[a] \in Nat /\ sequences'[a] \in Nat
           /\ sequences'[a] >= sequences[a]
           /\ Numbers(Inserted(t), a) = (sequences[a] + 1)..sequences'[a]
           /\ \A u \in Thread \ {t} :
                 sequences'[a] # sequences[a] => Numbers(Inserted(u), a) = {}
<1>1. /\ pc[t] = "commit"
      /\ sequences' = Updated(Counted(t))
      /\ sequences \in [Aggregate -> Nat]
      /\ OneTransactionPerAggregate
      /\ TxInv(t)
  BY DEF CommitAs, IInv, TypeOK
<1>2. Counted(t) = Inserted(t)
  BY <1>1 DEF Counted, Inserted
<1>3. PICK m \in Nat : m >= sequences[a] /\ Numbers(Inserted(t), a) = (sequences[a] + 1)..m
  BY <1>1 DEF TxInv, Continues
<1>4. sequences'[a] = m
  <2>1. Updated(Inserted(t))[a] = m
    BY <1>1, <1>3, UpdatedTo
  <2> QED
    BY <1>1, <1>2, <2>1
<1>5. ASSUME NEW u \in Thread \ {t}, sequences'[a] # sequences[a]
      PROVE  Numbers(Inserted(u), a) = {}
  <2>0. sequences[a] \in Nat
    BY <1>1
  <2>1. m \in Numbers(Inserted(t), a)
    BY <2>0, <1>3, <1>4, <1>5
  <2>2. PICK e \in Inserted(t) : e.AggregateID = a
    BY <2>1, NumbersOf
  <2>3. \A d \in Inserted(u) : d.AggregateID # a
    BY <1>1, <2>2 DEF OneTransactionPerAggregate
  <2> QED
    BY <2>3, NumbersOf
<1> QED
  BY <1>1, <1>3, <1>4, <1>5

LEMMA CommitTables ==
    ASSUME IInv, NEW t \in Thread, NEW r, CommitAs(t, r)
    PROVE  SequenceTableExact'
<1>1. /\ events' = events \cup Inserted(t)
      /\ SequenceTableExact
      /\ TypeOK
      /\ UniqueKeys(Inserted(t))
  BY DEF CommitAs, IInv, TxInv
<1>2. Inserted(t) \subseteq Event /\ events \subseteq Event
  BY <1>1, Transaction DEF TypeOK
<1>3. ASSUME NEW d \in events, NEW e \in Inserted(t), SameKey(d, e)
      PROVE  FALSE
  <2> DEFINE a == e.AggregateID
  <2>1. a \in Aggregate
    BY <1>2 DEF Event
  <2>2. e.Sequence \in Numbers(events, a) /\ e.Sequence \in Numbers(Inserted(t), a)
    BY <1>3, NumbersOf DEF SameKey
  <2>3. e.Sequence \in 1..sequences[a] /\ e.Sequence \in (sequences[a] + 1)..sequences'[a]
    BY <1>1, <2>1, <2>2, CommitNumbers DEF SequenceTableExact
  <2>4. sequences[a] \in Nat /\ sequences'[a] \in Nat
    BY <2>1, CommitNumbers
  <2> QED
    BY <2>3, <2>4
<1>4. \A d, e \in events' : SameKey(d, e) => d = e
  <2>1. \A d, e : SameKey(d, e) => SameKey(e, d)
    BY DEF SameKey
  <2> QED
    BY <1>1, <1>3, <2>1 DEF SequenceTableExact, UniqueKeys
<1>5. ASSUME NEW a \in Aggregate
      PROVE  Numbers(events', a) = 1..sequences'[a]
  <2>1. Numbers(events', a) = Numbers(events, a) \cup Numbers(Inserted(t), a)
    BY <1>1 DEF Numbers
  <2>2. Numbers(events', a) = (1..sequences[a]) \cup ((sequences[a] + 1)..sequences'[a])
    BY <1>1, <2>1, CommitNumbers DEF SequenceTableExact
  <2>3. /\ sequences[a] \in Nat /\ sequences'[a] \in Nat
        /\ sequences'[a] >= sequences[a]
    BY CommitNumbers
  <2> QED
    BY <2>2, <2>3
<1> QED
  BY <1>4, <1>5 DEF SequenceTableExact

LEMMA CommitTransactions ==
    ASSUME IInv, NEW t \in Thread, NEW r, CommitAs(t, r)
    PROVE  OneTransactionPerAggregate' /\ \A u \in Thread : TxInv(u)'
<1>1. /\ pc' = [pc EXCEPT ![t] = "idle"]
      /\ at' = [at EXCEPT ![t] = 0]
      /\ UNCHANGED batch
  BY DEF CommitAs, Return, Goto
<1>2. /\ pc'[t] = "idle" /\ at'[t] = 0
      /\ StepOf(t)
      /\ TypeOK /\ OneTransactionPerAggregate
      /\ \A u \in Thread : TxInv(u)
  BY <1>1 DEF IInv, TypeOK, StepOf
<1>3. Inserted(t)' = {} /\ Counted(t)' = {}
  BY <1>2 DEF Inserted, Counted, Written
<1>4. \A u \in Thread \ {t} : /\ Inserted(u)' = Inserted(u)
                              /\ Counted(u)' = Counted(u)
                              /\ Current(u)' = Current(u)
                              /\ pc'[u] = pc[u]
  BY <1>2, Frame DEF StepOf
<1>5. OneTransactionPerAggregate'
  BY <1>2, <1>3, <1>4 DEF OneTransactionPerAggregate
<1>6. TxInv(t)'
  <2>1. \A a \in Aggregate : sequences'[a] \in Nat
    BY CommitNumbers
  <2>2. Continues({})'
    <3> SUFFICES ASSUME NEW a \in Aggregate
                 PROVE  \E m \in Nat : m >= sequences'[a] /\ Numbers({}, a) = (sequences'[a] + 1)..m
      BY DEF Continues
    <3>1. Numbers({}, a) = {}
      BY NumbersOf
    <3>2. sequences'[a] \in Nat /\ (sequences'[a] + 1)..sequences'[a] = {}
      BY <2>1
    <3>3. Numbers({}, a) = (sequences'[a] + 1)..sequences'[a]
      BY <3>1, <3>2
    <3> QED
      BY <3>2, <3>3
  <2> QED
    BY <1>2, <1>3, <2>2 DEF TxInv, UniqueKeys, Continues
<1>7. ASSUME NEW u \in Thread \ {t}
      PROVE  TxInv(u)'
  <2>1. /\ Counted(u) \subseteq Inserted(u)
        /\ InTransaction(u) => Current(u).AggregateID \in Aggregate /\ Current(u).Sequence \in Nat
    BY <1>2, Transaction
  <2>2. ASSUME NEW E, E \subseteq Inserted(u), Continues(E), NEW a \in Aggregate
        PROVE  \E m \in Nat : m >= sequences'[a] /\ Numbers(E, a) = (sequences'[a] + 1)..m
    <3>1. CASE sequences'[a] = sequences[a]
      BY <2>2, <3>1 DEF Continues
    <3>2. CASE sequences'[a] # sequences[a]
      <4>1. Numbers(Inserted(u), a) = {} /\ sequences'[a] \in Nat
        BY <3>2, CommitNumbers
      <4>2. Numbers(E, a) = {}
        BY <2>2, <4>1 DEF Numbers
      <4>3. Numbers(E, a) = (sequences'[a] + 1)..sequences'[a]
        BY <4>1, <4>2
      <4> QED
        BY <4>1, <4>3
    <3> QED
      BY <3>1, <3>2
  <2>3. Continues(Inserted(u))' /\ Continues(Counted(u))'
    <3>1. Continues(Inserted(u)) /\ Continues(Counted(u))
      BY <1>2 DEF TxInv
    <3> QED
      BY <1>4, <2>1, <2>2, <3>1 DEF Continues
  <2>4. UniqueKeys(Inserted(u))'
    BY <1>2, <1>4 DEF TxInv, UniqueKeys
  <2>5. ASSUME pc[u] = "insert"
        PROVE  InTurn(u)'
    <3> DEFINE a == Current(u).AggregateID
               n == Current(u).Sequence
    <3>1. a \in Aggregate /\ n \in Nat
      BY <2>1, <2>5 DEF InTransaction
    <3>2. /\ sequences[a] \in Nat /\ sequences'[a] \in Nat
          /\ sequences'[a] >= sequences[a]
          /\ sequences'[a] # sequences[a] => Numbers(Inserted(u), a) = {}
      BY <3>1, CommitNumbers
    <3>3. /\ n >= 1
          /\ \/ n = Updated(Inserted(u))[a] + 1
             \/ Numbers(Inserted(u), a) = {} /\ n <= sequences[a]
      BY <1>2, <2>5 DEF TxInv, InTurn
    <3>4. SUFFICES \/ n = Updated(Inserted(u))'[a] + 1
                   \/ Numbers(Inserted(u), a) = {} /\ n <= sequences'[a]
      BY <1>4, <3>3 DEF InTurn
    <3>5. CASE Numbers(Inserted(u), a) = {}
      <4>1. /\ Updated(Inserted(u))[a] = sequences[a]
            /\ Updated(Inserted(u))'[a] = sequences'[a]
        BY <1>4, <3>1, <3>5 DEF Updated
      <4> QED
        BY <3>1, <3>2, <3>3, <3>5, <4>1
    <3>6. CASE Numbers(Inserted(u), a) # {}
      <4>1. Updated(Inserted(u))[a] = Updated(Inserted(u))'[a]
        BY <1>4, <3>1, <3>6 DEF Updated
      <4> QED
        BY <3>3, <3>6, <4>1
    <3> QED
      BY <3>5, <3>6
  <2> QED
    BY <1>4, <2>3, <2>4, <2>5 DEF TxInv
<1> QED
  BY <1>5, <1>6, <1>7

-----------------------------------------------------------------------------
(* Types and the pool                                                        *)

(* The types after the end of a call. *)
LEMMA ReturnTypes ==
    ASSUME IInv, NEW t \in Thread, NEW r \in {"ok", "unheard", "failed"}, Return(t, r),
           UNCHANGED batch, events' \subseteq Event, sequences' \in [Aggregate -> Nat],
           inUse' \in 0..MaxOpenConns
    PROVE  TypeOK'
<1>1. /\ pc' = [pc EXCEPT ![t] = "idle"]
      /\ at' = [at EXCEPT ![t] = 0]
      /\ outcome' = [outcome EXCEPT ![t] = r]
      /\ TypeOK
  BY DEF Return, Goto, IInv
<1> QED
  BY <1>1 DEF TypeOK

(* The types after a step within a transaction. *)
LEMMA MoveTypes ==
    ASSUME IInv, NEW t \in Thread, NEW label \in {"read", "insert", "update", "commit"},
           pc' = [pc EXCEPT ![t] = label],
           UNCHANGED <<tables, batch, outcome>>,
           at' \in [Thread -> Nat], at'[t] \in 1..Len(batch[t]),
           \A u \in Thread \ {t} : at'[u] = at[u],
           inUse' \in 0..MaxOpenConns
    PROVE  TypeOK'
BY DEF IInv, TypeOK, tables

(* The types after a call. *)
LEMMA CallTypes ==
    ASSUME IInv, NEW t \in Thread, NEW keys \in Request, WriteEventsBatch(t, keys)
    PROVE  TypeOK'
<1>1. /\ pc' = [pc EXCEPT ![t] = "begin"]
      /\ at' = [at EXCEPT ![t] = 1]
      /\ batch' = [batch EXCEPT ![t] = EventsAt(t, keys)]
      /\ outcome' = [outcome EXCEPT ![t] = "pending"]
      /\ UNCHANGED <<events, sequences, inUse>>
      /\ TypeOK
  BY DEF WriteEventsBatch, Goto, tables, IInv
<1>2. keys \in Seq([AggregateID : Aggregate, Sequence : Nat]) /\ keys # <<>>
  BY SqlStorageAssumption
<1>3. Len(keys) \in Nat /\ Len(keys) >= 1
  BY <1>2
<1>4. ASSUME NEW i \in 1..Len(keys)
      PROVE  keys[i].AggregateID \in Aggregate /\ keys[i].Sequence \in Nat
  <2>1. keys[i] \in [AggregateID : Aggregate, Sequence : Nat]
    BY <1>2, ElementOfSeq
  <2> QED
    BY <2>1
<1>5. EventsAt(t, keys) \in [1..Len(keys) -> Event]
  BY <1>4 DEF EventsAt, Event
<1>6. EventsAt(t, keys) \in Seq(Event) /\ Len(EventsAt(t, keys)) = Len(keys)
  BY <1>3, <1>5
<1> QED
  BY <1>1, <1>3, <1>6 DEF TypeOK

(* What a call, a returning call and a commit do to the pool. *)
LEMMA PoolOpens ==
    ASSUME IInv, NEW t \in Thread, BeginTx(t)
    PROVE  PoolInv' /\ inUse' \in 0..MaxOpenConns
<1>1. /\ pc[t] = "begin" /\ pc' = [pc EXCEPT ![t] = "read"]
      /\ inUse' = inUse + 1 /\ inUse < MaxOpenConns
      /\ inUse \in 0..MaxOpenConns /\ MaxOpenConns \in Nat
      /\ PoolInv
      /\ pc'[t] = "read" /\ \A u \in Thread \ {t} : pc'[u] = pc[u]
  BY SqlStorageAssumption DEF BeginTx, Goto, IInv, TypeOK
<1>2. Open' = Open \cup {t} /\ t \notin Open
  BY <1>1 DEF Open, InTransaction
<1>3. IsFiniteSet(Open') /\ Cardinality(Open') = Cardinality(Open) + 1
  BY <1>1, <1>2, FS_AddElement DEF PoolInv
<1>4. PoolInv'
  BY <1>1, <1>3 DEF PoolInv
<1> QED
  BY <1>1, <1>4

LEMMA PoolCloses ==
    ASSUME IInv, NEW t \in Thread, InTransaction(t),
           pc' = [pc EXCEPT ![t] = "idle"], inUse' = inUse - 1
    PROVE  PoolInv' /\ inUse' \in 0..MaxOpenConns
<1>1. /\ inUse \in 0..MaxOpenConns /\ MaxOpenConns \in Nat
      /\ PoolInv
      /\ pc'[t] = "idle" /\ \A u \in Thread \ {t} : pc'[u] = pc[u]
  BY SqlStorageAssumption DEF IInv, TypeOK
<1>2. Open' = Open \ {t} /\ t \in Open
  BY <1>1 DEF Open, InTransaction
<1>3. IsFiniteSet(Open') /\ Cardinality(Open') = Cardinality(Open) - 1
  BY <1>1, <1>2, FS_RemoveElement DEF PoolInv
<1>4. Cardinality(Open') \in Nat
  BY <1>3, FS_CardinalityType
<1>5. PoolInv'
  BY <1>1, <1>3 DEF PoolInv
<1> QED
  BY <1>1, <1>3, <1>4, <1>5 DEF PoolInv

LEMMA PoolStays ==
    ASSUME IInv, NEW t \in Thread, NEW label, pc' = [pc EXCEPT ![t] = label],
           label \in {"read", "insert", "update", "commit"} <=> InTransaction(t),
           UNCHANGED inUse
    PROVE  PoolInv' /\ inUse' \in 0..MaxOpenConns
<1>1. pc'[t] = label /\ \A u \in Thread \ {t} : pc'[u] = pc[u]
  BY DEF IInv, TypeOK
<1>2. Open' = Open
  BY <1>1 DEF Open, InTransaction
<1> QED
  BY <1>2 DEF PoolInv, IInv, TypeOK

-----------------------------------------------------------------------------
(* The invariant                                                             *)

LEMMA InitInv == Init => IInv
<1> SUFFICES ASSUME Init PROVE IInv
  OBVIOUS
<1>1. TypeOK
  <2>1. <<>> \in Seq(Event)
    OBVIOUS
  <2> QED
    BY <2>1, SqlStorageAssumption DEF Init, TypeOK
<1>2. \A t \in Thread : Inserted(t) = {} /\ Counted(t) = {}
  BY DEF Init, Inserted, Counted, Written
<1>3. PoolInv
  <2>1. Open = {}
    BY DEF Init, Open, InTransaction
  <2> QED
    BY <2>1, FS_EmptySet DEF Init, PoolInv
<1>4. SequenceTableExact
  BY DEF Init, SequenceTableExact, Numbers
<1>5. OneTransactionPerAggregate
  BY <1>2 DEF OneTransactionPerAggregate
<1>6. \A t \in Thread : TxInv(t)
  <2>1. Continues({}) /\ UniqueKeys({})
    BY <1>1, NothingContinues DEF TypeOK
  <2> QED
    BY <1>2, <2>1 DEF Init, TxInv
<1> QED
  BY <1>1, <1>3, <1>4, <1>5, <1>6 DEF IInv

(* A rollback preserves the invariant, whatever caused it. *)
LEMMA RollbackInv ==
    ASSUME IInv, NEW t \in Thread, InTransaction(t), Rollback(t)
    PROVE  IInv'
<1>1. /\ Return(t, "failed")
      /\ pc' = [pc EXCEPT ![t] = "idle"] /\ inUse' = inUse - 1
      /\ UNCHANGED <<events, sequences, batch>>
  BY DEF Rollback, Return, Goto, tables
<1>2. PoolInv' /\ inUse' \in 0..MaxOpenConns
  BY <1>1, PoolCloses
<1>3. TypeOK'
  BY <1>1, <1>2, ReturnTypes DEF IInv, TypeOK
<1>4. SequenceTableExact' /\ OneTransactionPerAggregate' /\ \A u \in Thread : TxInv(u)'
  BY RollbackQuiet, QuietStep
<1> QED
  BY <1>2, <1>3, <1>4 DEF IInv

LEMMA CommitInv ==
    ASSUME IInv, NEW t \in Thread, NEW r \in {"ok", "unheard"}, CommitAs(t, r)
    PROVE  IInv'
<1>1. /\ Return(t, r)
      /\ InTransaction(t)
      /\ pc' = [pc EXCEPT ![t] = "idle"] /\ inUse' = inUse - 1
      /\ events' = events \cup Inserted(t)
      /\ sequences' = Updated(Counted(t))
      /\ UNCHANGED batch
      /\ TypeOK
  BY DEF CommitAs, Return, Goto, InTransaction, IInv
<1>2. PoolInv' /\ inUse' \in 0..MaxOpenConns
  BY <1>1, PoolCloses
<1>3. events' \subseteq Event
  BY <1>1, Transaction DEF TypeOK
<1>4. sequences' \in [Aggregate -> Nat]
  <2>1. \A a \in Aggregate : sequences'[a] \in Nat
    BY CommitNumbers
  <2> QED
    BY <1>1, <2>1 DEF Updated
<1>5. TypeOK'
  BY <1>1, <1>2, <1>3, <1>4, ReturnTypes
<1>6. SequenceTableExact' /\ OneTransactionPerAggregate' /\ \A u \in Thread : TxInv(u)'
  BY CommitTables, CommitTransactions
<1> QED
  BY <1>2, <1>5, <1>6 DEF IInv

LEMMA NextInv == IInv /\ [Next]_vars => IInv'
<1> SUFFICES ASSUME IInv, [Next]_vars PROVE IInv'
  OBVIOUS
<1>1. ASSUME NEW t \in Thread, NEW keys \in Request, WriteEventsBatch(t, keys)
      PROVE  IInv'
  <2>1. TypeOK /\ pc[t] = "idle" /\ pc' = [pc EXCEPT ![t] = "begin"] /\ UNCHANGED inUse
    BY <1>1 DEF WriteEventsBatch, Goto, IInv
  <2>2. PoolInv'
    BY <2>1, PoolStays DEF InTransaction
  <2> QED
    BY <1>1, <2>2, CallTypes, CallQuiet, QuietStep DEF IInv
<1>2. ASSUME NEW t \in Thread, BeginTx(t)
      PROVE  IInv'
  <2>1. PoolInv' /\ inUse' \in 0..MaxOpenConns
    BY <1>2, PoolOpens
  <2>2. TypeOK'
    BY <1>2, <2>1, MoveTypes DEF BeginTx, Goto, IInv, TypeOK
  <2> QED
    BY <1>2, <2>1, <2>2, BeginQuiet, QuietStep DEF IInv
<1>3. ASSUME NEW t \in Thread, BeginTxFails(t)
      PROVE  IInv'
  <2>1. /\ Return(t, "failed") /\ UNCHANGED <<events, sequences, batch, inUse>>
        /\ TypeOK /\ pc[t] = "begin" /\ pc' = [pc EXCEPT ![t] = "idle"]
    BY <1>3 DEF BeginTxFails, Return, Goto, tables, IInv
  <2>2. PoolInv' /\ inUse' \in 0..MaxOpenConns
    BY <2>1, PoolStays DEF InTransaction
  <2>3. TypeOK'
    BY <2>1, <2>2, ReturnTypes DEF TypeOK
  <2>4. Quiet(t)
    BY <1>3, ReturnQuiet DEF BeginTxFails
  <2> QED
    BY <2>2, <2>3, <2>4, QuietStep DEF IInv
<1>4. ASSUME NEW t \in Thread, ReadSequence(t)
      PROVE  IInv'
  <2>1. TypeOK /\ pc[t] = "read" /\ pc' = [pc EXCEPT ![t] = "insert"] /\ UNCHANGED inUse
    BY <1>4 DEF ReadSequence, Goto, IInv
  <2>2. PoolInv' /\ inUse' \in 0..MaxOpenConns
    BY <2>1, PoolStays DEF InTransaction
  <2>3. TypeOK'
    BY <1>4, <2>1, <2>2, MoveTypes DEF ReadSequence, TypeOK
  <2> QED
    BY <1>4, <2>2, <2>3, ReadQuiet, QuietStep DEF IInv
<1>5. ASSUME NEW t \in Thread, SequenceMismatch(t) \/ InsertConflicts(t)
      PROVE  IInv'
  BY <1>5, RollbackInv DEF SequenceMismatch, InsertConflicts, InTransaction
<1>6. ASSUME NEW t \in Thread, InsertEvent(t)
      PROVE  IInv'
  <2>1. TypeOK /\ pc[t] = "insert" /\ pc' = [pc EXCEPT ![t] = "update"] /\ UNCHANGED inUse
    BY <1>6 DEF InsertEvent, Goto, IInv
  <2>2. PoolInv' /\ inUse' \in 0..MaxOpenConns
    BY <2>1, PoolStays DEF InTransaction
  <2>3. TypeOK'
    BY <1>6, <2>1, <2>2, MoveTypes DEF InsertEvent, TypeOK
  <2> QED
    BY <1>6, <2>2, <2>3, InsertStep DEF IInv
<1>7. ASSUME NEW t \in Thread, UpdateSequence(t)
      PROVE  IInv'
  <2>1. /\ TypeOK /\ pc[t] = "update" /\ UNCHANGED inUse
        /\ UNCHANGED <<tables, batch, outcome>>
        /\ \/ /\ at[t] < Len(batch[t])
              /\ pc' = [pc EXCEPT ![t] = "read"] /\ at' = [at EXCEPT ![t] = at[t] + 1]
           \/ pc' = [pc EXCEPT ![t] = "commit"] /\ at' = at
    BY <1>7 DEF UpdateSequence, Goto, IInv
  <2>2. PoolInv' /\ inUse' \in 0..MaxOpenConns
    BY <2>1, PoolStays DEF InTransaction
  <2>3. /\ at \in [Thread -> Nat]
        /\ at[t] \in 1..Len(batch[t])
        /\ Len(batch[t]) \in Nat
    BY <2>1 DEF TypeOK
  <2>4. TypeOK'
    <3>1. CASE at' = at
      BY <2>1, <2>2, <2>3, <3>1, MoveTypes
    <3>2. CASE at[t] < Len(batch[t]) /\ at' = [at EXCEPT ![t] = at[t] + 1]
      <4>1. /\ at' \in [Thread -> Nat] /\ at'[t] \in 1..Len(batch[t])
            /\ \A u \in Thread \ {t} : at'[u] = at[u]
        BY <2>3, <3>2
      <4> QED
        BY <2>1, <2>2, <4>1, MoveTypes
    <3> QED
      BY <2>1, <3>1, <3>2
  <2> QED
    BY <1>7, <2>2, <2>4, UpdateQuiet, QuietStep DEF IInv
<1>8. ASSUME NEW t \in Thread, Commit(t) \/ CommitUnheard(t)
      PROVE  IInv'
  BY <1>8, CommitInv DEF Commit, CommitUnheard
<1>9. ASSUME NEW t \in Thread, StatementFails(t)
      PROVE  IInv'
  BY <1>9, RollbackInv DEF StatementFails
<1>10. ASSUME NEW t \in Thread, DeadlockDetected(t)
       PROVE  IInv'
  <2>1. InTransaction(t)
    BY <1>10 DEF DeadlockDetected, Deadlocked, WaitsFor, InTransaction
  <2> QED
    BY <1>10, <2>1, RollbackInv DEF DeadlockDetected
<1>11. CASE UNCHANGED vars
  <2>1. UNCHANGED <<events, sequences, pc, batch, at, inUse, outcome>>
    BY <1>11 DEF vars, tables
  <2>2. \A t \in Thread : TxInv(t)'
    BY <2>1, TxFrame DEF IInv, tables
  <2>3. \A t \in Thread : Inserted(t)' = Inserted(t)
    BY <2>1, Frame
  <2>4. Open' = Open
    BY <2>1 DEF Open, InTransaction
  <2> QED
    BY <2>1, <2>2, <2>3, <2>4
    DEF IInv, TypeOK, PoolInv, SequenceTableExact, OneTransactionPerAggregate
<1> QED
  BY <1>1, <1>2, <1>3, <1>4, <1>5, <1>6, <1>7, <1>8, <1>9, <1>10, <1>11 DEF Next

LEMMA Invariance == Spec => []IInv
BY InitInv, NextInv, PTL DEF Spec

-----------------------------------------------------------------------------
(* Calls and the order of a batch                                            *)

\* How much of its batch a transaction has inserted.
Progress(t) == IF pc[t] \in {"update", "commit"} THEN at[t] ELSE at[t] - 1

Ascending(E, n) ==
    \A i, j \in 1..n :
        i < j /\ E[i].AggregateID = E[j].AggregateID => E[i].Sequence < E[j].Sequence

\* A call is pending until it returns; what it has inserted comes in the order
\* of the numbers, and is the whole batch when it commits.
CallInv(t) ==
    /\ outcome[t] = "pending" <=> pc[t] # "idle"
    /\ pc[t] = "commit" => at[t] = Len(batch[t])
    /\ Ascending(batch[t], Progress(t))

CallsInv == \A t \in Thread : CallInv(t)

LEMMA ReturnCall ==
    ASSUME IInv, CallsInv, NEW t \in Thread, NEW r \in {"ok", "unheard", "failed"},
           Return(t, r), UNCHANGED batch
    PROVE  CallsInv'
<1>1. /\ pc'[t] = "idle" /\ at'[t] = 0 /\ outcome'[t] = r
      /\ \A u \in Thread \ {t} : /\ pc'[u] = pc[u] /\ at'[u] = at[u]
                                 /\ outcome'[u] = outcome[u]
      /\ UNCHANGED batch
  BY DEF Return, Goto, IInv, TypeOK
<1>2. CallInv(t)'
  BY <1>1 DEF CallInv, Ascending, Progress
<1>3. \A u \in Thread \ {t} : CallInv(u)'
  BY <1>1 DEF CallsInv, CallInv, Ascending, Progress
<1> QED
  BY <1>2, <1>3 DEF CallsInv

(* A step from one statement to the next, other than an insert. *)
LEMMA MoveCall ==
    ASSUME IInv, CallsInv, NEW t \in Thread, NEW label \in {"read", "insert", "commit"},
           pc[t] # "idle", pc' = [pc EXCEPT ![t] = label], UNCHANGED <<batch, outcome>>,
           \A u \in Thread \ {t} : at'[u] = at[u],
           Progress(t)' = Progress(t),
           label = "commit" => at'[t] = Len(batch[t])
    PROVE  CallsInv'
<1>1. pc'[t] = label /\ \A u \in Thread \ {t} : pc'[u] = pc[u]
  BY DEF IInv, TypeOK
<1>2. CallInv(t)'
  BY <1>1 DEF CallsInv, CallInv, Ascending
<1>3. \A u \in Thread \ {t} : CallInv(u)'
  BY <1>1 DEF CallsInv, CallInv, Ascending, Progress
<1> QED
  BY <1>2, <1>3 DEF CallsInv

(* The event inserted has a higher number than those of its aggregate that   *)
(* were inserted before.                                                     *)
LEMMA InsertCall ==
    ASSUME IInv, CallsInv, NEW t \in Thread, InsertEvent(t)
    PROVE  CallsInv'
<1> DEFINE a == Current(t).AggregateID
<1>1. /\ pc[t] = "insert" /\ pc'[t] = "update"
      /\ \A u \in Thread \ {t} : pc'[u] = pc[u]
      /\ UNCHANGED <<batch, at, outcome>>
      /\ TypeOK /\ TxInv(t)
      /\ sequences \in [Aggregate -> Nat] /\ at[t] \in Nat
  BY DEF InsertEvent, Goto, IInv, TypeOK
<1>2. a \in Aggregate
  BY <1>1, Transaction DEF InTransaction
<1>3. PICK m \in Nat : m >= sequences[a] /\ Numbers(Inserted(t), a) = (sequences[a] + 1)..m
  BY <1>1, <1>2 DEF TxInv, Continues
<1>4. Current(t).Sequence = m + 1
  <2>1. Updated(Inserted(t))[a] = m
    BY <1>1, <1>2, <1>3, UpdatedTo
  <2> QED
    BY <2>1, InsertInTurn
<1>5. \A i \in 1..(at[t] - 1) : batch[t][i].AggregateID = a => batch[t][i].Sequence < m + 1
  <2> SUFFICES ASSUME NEW i \in 1..(at[t] - 1), batch[t][i].AggregateID = a
               PROVE  batch[t][i].Sequence < m + 1
    OBVIOUS
  <2>1. batch[t][i] \in Inserted(t)
    BY <1>1 DEF Inserted, Written
  <2>2. batch[t][i].Sequence \in Numbers(Inserted(t), a)
    BY <2>1, NumbersOf
  <2>3. batch[t][i].Sequence \in (sequences[a] + 1)..m /\ sequences[a] \in Nat
    BY <1>1, <1>2, <1>3, <2>2
  <2> QED
    BY <2>3
<1>6. Ascending(batch[t], at[t])
  <2>1. Ascending(batch[t], at[t] - 1)
    BY <1>1 DEF CallsInv, CallInv, Progress
  <2> SUFFICES ASSUME NEW i \in 1..at[t], NEW j \in 1..at[t], i < j,
                      batch[t][i].AggregateID = batch[t][j].AggregateID
               PROVE  batch[t][i].Sequence < batch[t][j].Sequence
    BY DEF Ascending
  <2>2. i \in 1..(at[t] - 1)
    BY <1>1
  <2>3. CASE j = at[t]
    BY <1>4, <1>5, <2>2, <2>3 DEF Current
  <2>4. CASE j # at[t]
    <3>1. j \in 1..(at[t] - 1)
      BY <1>1, <2>4
    <3> QED
      BY <2>1, <2>2, <3>1 DEF Ascending
  <2> QED
    BY <2>3, <2>4
<1>7. CallInv(t)'
  BY <1>1, <1>6 DEF CallsInv, CallInv, Ascending, Progress
<1>8. \A u \in Thread \ {t} : CallInv(u)'
  BY <1>1 DEF CallsInv, CallInv, Ascending, Progress
<1> QED
  BY <1>7, <1>8 DEF CallsInv

LEMMA CallsStep == IInv /\ CallsInv /\ [Next]_vars => CallsInv'
<1> SUFFICES ASSUME IInv, CallsInv, [Next]_vars PROVE CallsInv'
  OBVIOUS
<1>1. ASSUME NEW t \in Thread, NEW keys \in Request, WriteEventsBatch(t, keys)
      PROVE  CallsInv'
  <2>1. /\ pc'[t] = "begin" /\ at'[t] = 1 /\ outcome'[t] = "pending"
        /\ \A u \in Thread \ {t} : /\ pc'[u] = pc[u] /\ at'[u] = at[u]
                                   /\ outcome'[u] = outcome[u] /\ batch'[u] = batch[u]
    BY <1>1 DEF WriteEventsBatch, Goto, IInv, TypeOK
  <2>2. CallInv(t)'
    BY <2>1 DEF CallInv, Ascending, Progress
  <2>3. \A u \in Thread \ {t} : CallInv(u)'
    BY <2>1 DEF CallsInv, CallInv, Ascending, Progress
  <2> QED
    BY <2>2, <2>3 DEF CallsInv
<1>2. ASSUME NEW t \in Thread, BeginTx(t) \/ ReadSequence(t)
      PROVE  CallsInv'
  <2>1. PICK label \in {"read", "insert"} :
           /\ pc[t] \in {"begin", "read"} /\ pc' = [pc EXCEPT ![t] = label]
           /\ pc'[t] = label
           /\ UNCHANGED <<batch, at, outcome>>
    BY <1>2 DEF BeginTx, ReadSequence, Goto, IInv, TypeOK
  <2>2. Progress(t)' = Progress(t)
    BY <2>1 DEF Progress
  <2> QED
    BY <2>1, <2>2, MoveCall
<1>3. ASSUME NEW t \in Thread, UpdateSequence(t)
      PROVE  CallsInv'
  <2>1. /\ pc[t] = "update" /\ UNCHANGED <<batch, outcome>>
        /\ at \in [Thread -> Nat]
        /\ at[t] \in 1..Len(batch[t]) /\ Len(batch[t]) \in Nat
        /\ \/ /\ pc' = [pc EXCEPT ![t] = "read"] /\ pc'[t] = "read"
              /\ at' = [at EXCEPT ![t] = at[t] + 1]
           \/ /\ pc' = [pc EXCEPT ![t] = "commit"] /\ pc'[t] = "commit"
              /\ at' = at /\ ~(at[t] < Len(batch[t]))
    BY <1>3 DEF UpdateSequence, Goto, IInv, TypeOK
  <2>2. CASE pc' = [pc EXCEPT ![t] = "read"] /\ pc'[t] = "read"
             /\ at' = [at EXCEPT ![t] = at[t] + 1]
    <3>1. /\ Progress(t)' = Progress(t)
          /\ \A u \in Thread \ {t} : at'[u] = at[u]
      BY <2>1, <2>2 DEF Progress
    <3> QED
      BY <2>1, <2>2, <3>1, MoveCall
  <2>3. CASE pc' = [pc EXCEPT ![t] = "commit"] /\ pc'[t] = "commit"
             /\ at' = at /\ ~(at[t] < Len(batch[t]))
    <3>1. Progress(t)' = Progress(t) /\ at'[t] = Len(batch[t])
      BY <2>1, <2>3 DEF Progress
    <3> QED
      BY <2>1, <2>3, <3>1, MoveCall
  <2> QED
    BY <2>1, <2>2, <2>3
<1>4. ASSUME NEW t \in Thread, InsertEvent(t)
      PROVE  CallsInv'
  BY <1>4, InsertCall
<1>5. ASSUME NEW t \in Thread, \/ BeginTxFails(t) \/ SequenceMismatch(t) \/ InsertConflicts(t)
                               \/ StatementFails(t) \/ DeadlockDetected(t)
      PROVE  CallsInv'
  BY <1>5, ReturnCall DEF BeginTxFails, SequenceMismatch, InsertConflicts, StatementFails,
                          DeadlockDetected, Rollback
<1>6. ASSUME NEW t \in Thread, Commit(t) \/ CommitUnheard(t)
      PROVE  CallsInv'
  BY <1>6, ReturnCall DEF Commit, CommitUnheard, CommitAs
<1>7. CASE UNCHANGED vars
  BY <1>7 DEF vars, tables, CallsInv, CallInv, Ascending, Progress
<1> QED
  BY <1>1, <1>2, <1>3, <1>4, <1>5, <1>6, <1>7 DEF Next

LEMMA CallsInvariance == Spec => []CallsInv
<1>1. Init => CallsInv
  BY DEF Init, CallsInv, CallInv, Ascending, Progress
<1> QED
  BY <1>1, CallsStep, Invariance, PTL DEF Spec

-----------------------------------------------------------------------------
(* The theorems                                                              *)

(* The variables keep their types; the pool never gives out more connections *)
(* than it has, nor takes one back twice.                                    *)
THEOREM TypeCorrect == Spec => []TypeOK
<1>1. IInv => TypeOK
  BY DEF IInv
<1> QED
  BY <1>1, Invariance, PTL

(* However many transactions overlap, the committed tables agree: an         *)
(* aggregate's row counts its events, which are numbered 1, 2, 3, ...        *)
THEOREM TablesAgree == Spec => []SequenceTableExact
<1>1. IInv => SequenceTableExact
  BY DEF IInv
<1> QED
  BY <1>1, Invariance, PTL

(* The primary key of the events table alone keeps transactions on one       *)
(* aggregate apart: the read of the sequences table takes no lock.           *)
THEOREM WritersSerialized == Spec => []OneTransactionPerAggregate
<1>1. IInv => OneTransactionPerAggregate
  BY DEF IInv
<1> QED
  BY <1>1, Invariance, PTL

-----------------------------------------------------------------------------
(* Refinement                                                                *)

(* A key of a set with unique keys names its event. *)
LEMMA KeyNames ==
    ASSUME NEW E, UniqueKeys(E), NEW e \in E
    PROVE  (CHOOSE d \in E : d.AggregateID = e.AggregateID /\ d.Sequence = e.Sequence) = e
BY DEF UniqueKeys, SameKey

\* The log that a table holds of an aggregate.
TableLog(E, a, top) ==
    [n \in 1..top |-> CHOOSE e \in E : e.AggregateID = a /\ e.Sequence = n]

(* In tables that agree, every number up to an aggregate's names an event.   *)
LEMMA Entries ==
    ASSUME NEW E, E \subseteq Event, UniqueKeys(E), NEW a, NEW top \in Nat,
           Numbers(E, a) = 1..top
    PROVE  LET L == TableLog(E, a, top) IN
           /\ L \in Seq(Event) /\ Len(L) = top
           /\ \A n \in 1..top : L[n] \in E /\ L[n].AggregateID = a /\ L[n].Sequence = n
           /\ \A e \in E : e.AggregateID = a => e.Sequence \in 1..top /\ L[e.Sequence] = e
<1> DEFINE L == TableLog(E, a, top)
<1>0. L = [n \in 1..top |-> CHOOSE e \in E : e.AggregateID = a /\ e.Sequence = n]
  BY DEF TableLog
<1> HIDE DEF L
<1>1. ASSUME NEW n \in 1..top
      PROVE  L[n] \in E /\ L[n].AggregateID = a /\ L[n].Sequence = n
  <2>1. n \in Numbers(E, a)
    OBVIOUS
  <2>2. \E e \in E : e.AggregateID = a /\ e.Sequence = n
    BY <2>1 DEF Numbers
  <2> QED
    BY <1>0, <2>2
<1>2. L \in Seq(Event) /\ Len(L) = top
  <2>1. L \in [1..top -> Event]
    BY <1>0, <1>1
  <2> QED
    BY <1>0, <2>1
<1>3. ASSUME NEW e \in E, e.AggregateID = a
      PROVE  e.Sequence \in 1..top /\ L[e.Sequence] = e
  <2>1. e.Sequence \in Numbers(E, a)
    BY <1>3, NumbersOf
  <2>2. (CHOOSE d \in E : d.AggregateID = a /\ d.Sequence = e.Sequence) = e
    BY <1>3, KeyNames
  <2> QED
    BY <1>0, <2>1, <2>2
<1> QED
  BY <1>1, <1>2, <1>3 DEF L

(* A commit adds the whole batch at the ends of the logs. *)
LEMMA CommitExtends ==
    ASSUME IInv, CallsInv, NEW t \in Thread, NEW r \in {"ok", "unheard"}, CommitAs(t, r)
    PROVE  /\ LogBar' \in [Aggregate -> Seq(Log!Event)]
           /\ Log!InOrder(batch[t])
           /\ Log!Extends(LogBar, LogBar', batch[t])
           /\ \A a \in Aggregate : \A n \in 1..Len(LogBar'[a]) : LogBar'[a][n].Sequence = n
<1>1. /\ events \subseteq Event /\ events' \subseteq Event
      /\ SequenceTableExact /\ SequenceTableExact'
      /\ sequences' \in [Aggregate -> Nat]
      /\ events' = events \cup Inserted(t)
      /\ pc[t] = "commit" /\ at[t] = Len(batch[t])
      /\ Ascending(batch[t], Len(batch[t]))
  BY CommitInv DEF IInv, TypeOK, CommitAs, CallsInv, CallInv, Progress
<1>2. Event = Log!Event
  BY DEF Event, Log!Event
<1>3. Inserted(t) = {batch[t][i] : i \in 1..Len(batch[t])}
  BY <1>1 DEF Inserted, Written
<1>4. UniqueKeys(events) /\ UniqueKeys(events')
  BY <1>1 DEF SequenceTableExact, UniqueKeys
<1>5. ASSUME NEW a \in Aggregate
      PROVE  /\ LogBar'[a] \in Seq(Event)
             /\ Len(LogBar[a]) = sequences[a] /\ Len(LogBar'[a]) = sequences'[a]
             /\ \A n \in 1..sequences[a] : LogBar[a][n] \in events
                                           /\ LogBar[a][n].AggregateID = a
                                           /\ LogBar[a][n].Sequence = n
             /\ \A n \in 1..sequences'[a] : LogBar'[a][n].Sequence = n
             /\ \A e \in events' : e.AggregateID = a => LogBar'[a][e.Sequence] = e
  <2>1. sequences[a] \in Nat /\ sequences'[a] \in Nat
    BY CommitNumbers
  <2>2. Numbers(events, a) = 1..sequences[a] /\ Numbers(events', a) = 1..sequences'[a]
    BY <1>1 DEF SequenceTableExact
  <2>3. /\ LogBar[a] = TableLog(events, a, sequences[a])
        /\ LogBar'[a] = TableLog(events', a, sequences'[a])
    BY DEF LogBar, EventAt, TableLog
  <2>4. /\ Len(LogBar[a]) = sequences[a]
        /\ \A n \in 1..sequences[a] : LogBar[a][n] \in events
                                      /\ LogBar[a][n].AggregateID = a
                                      /\ LogBar[a][n].Sequence = n
    BY <1>1, <1>4, <2>1, <2>2, <2>3, Entries
  <2>5. /\ LogBar'[a] \in Seq(Event) /\ Len(LogBar'[a]) = sequences'[a]
        /\ \A n \in 1..sequences'[a] : LogBar'[a][n].Sequence = n
        /\ \A e \in events' : e.AggregateID = a => LogBar'[a][e.Sequence] = e
    <3> DEFINE E == events'
               top == sequences'[a]
               L == TableLog(E, a, top)
    <3>1. E \subseteq Event /\ UniqueKeys(E) /\ top \in Nat /\ Numbers(E, a) = 1..top
      BY <1>1, <1>4, <2>1, <2>2 DEF UniqueKeys, Numbers
    <3>2. E = events' /\ top = sequences'[a] /\ L = LogBar'[a]
      BY <2>3
    <3>3. L = TableLog(E, a, top)
      OBVIOUS
    <3> HIDE DEF E, top, L
    <3>4. /\ L \in Seq(Event) /\ Len(L) = top
          /\ \A n \in 1..top : L[n] \in E /\ L[n].AggregateID = a /\ L[n].Sequence = n
          /\ \A e \in E : e.AggregateID = a => e.Sequence \in 1..top /\ L[e.Sequence] = e
      BY <3>1, <3>3, Entries
    <3> QED
      BY <3>2, <3>4
  <2> QED
    BY <2>4, <2>5
<1>6. LogBar' \in [Aggregate -> Seq(Log!Event)]
  <2>1. LogBar' = [a \in Aggregate |-> LogBar'[a]]
    BY DEF LogBar
  <2> QED
    BY <1>2, <1>5, <2>1
<1>7. Log!InOrder(batch[t])
  BY <1>1 DEF Log!InOrder, Ascending
<1>8. ASSUME NEW a \in Aggregate
      PROVE  /\ Len(LogBar[a]) <= Len(LogBar'[a])
             /\ \A n \in 1..Len(LogBar[a]) : LogBar'[a][n] = LogBar[a][n]
             /\ {LogBar'[a][n] : n \in (Len(LogBar[a]) + 1)..Len(LogBar'[a])}
                   = Log!EventsOf(batch[t], a)
  <2>1. /\ sequences[a] \in Nat /\ sequences'[a] \in Nat
        /\ sequences'[a] >= sequences[a]
        /\ Numbers(Inserted(t), a) = (sequences[a] + 1)..sequences'[a]
    BY CommitNumbers
  <2>2. \A n \in 1..sequences[a] : LogBar'[a][n] = LogBar[a][n]
    <3> SUFFICES ASSUME NEW n \in 1..sequences[a] PROVE LogBar'[a][n] = LogBar[a][n]
      OBVIOUS
    <3>1. /\ LogBar[a][n] \in events'
          /\ LogBar[a][n].AggregateID = a /\ LogBar[a][n].Sequence = n
      BY <1>1, <1>5
    <3> QED
      BY <1>5, <3>1
  <2>3. ASSUME NEW n \in (sequences[a] + 1)..sequences'[a]
        PROVE  LogBar'[a][n] \in Log!EventsOf(batch[t], a)
    <3>1. PICK e \in Inserted(t) : e.AggregateID = a /\ e.Sequence = n
      BY <2>1 DEF Numbers
    <3>2. LogBar'[a][n] = e
      BY <1>1, <1>5, <3>1
    <3> QED
      BY <1>3, <3>1, <3>2 DEF Log!EventsOf
  <2>4. ASSUME NEW e \in Log!EventsOf(batch[t], a)
        PROVE  \E n \in (sequences[a] + 1)..sequences'[a] : LogBar'[a][n] = e
    <3>1. e \in Inserted(t) /\ e.AggregateID = a
      BY <1>3 DEF Log!EventsOf
    <3>2. e.Sequence \in (sequences[a] + 1)..sequences'[a]
      BY <2>1, <3>1, NumbersOf
    <3> QED
      BY <1>1, <1>5, <3>1, <3>2
  <2>5. {LogBar'[a][n] : n \in (sequences[a] + 1)..sequences'[a]} = Log!EventsOf(batch[t], a)
    BY <2>3, <2>4
  <2> QED
    BY <1>5, <2>1, <2>2, <2>5
<1>9. Log!Extends(LogBar, LogBar', batch[t])
  BY <1>8 DEF Log!Extends
<1> QED
  BY <1>5, <1>6, <1>7, <1>9

(* The storage implements the atomic log: a commit is its Commit, any error  *)
(* its Reject, and a statement within a transaction does not show.           *)
THEOREM Refinement == Spec => ImplementsAtomicLog
<1>1. Init => Log!LogInit
  <2> SUFFICES ASSUME Init PROVE Log!LogInit
    OBVIOUS
  <2>1. LogBar = [a \in Aggregate |-> <<>>]
    BY DEF Init, LogBar
  <2> QED
    BY <2>1 DEF Init, Log!LogInit, OutcomeBar
<1>2. ASSUME IInv, CallsInv, [Next]_vars PROVE [Log!LogNext]_(Log!logVars)
  <2> USE <1>2
  <2>1. ASSUME NEW t \in Thread, NEW r \in {"ok", "unheard"}, CommitAs(t, r)
        PROVE  Log!Commit(t)
    <3>1. OutcomeBar[t] = "pending" /\ OutcomeBar' = [OutcomeBar EXCEPT ![t] = "ok"]
      BY <2>1 DEF CommitAs, Return, Goto, OutcomeBar, CallsInv, CallInv, IInv, TypeOK
    <3>2. UNCHANGED batch
      BY <2>1 DEF CommitAs
    <3> QED
      BY <2>1, <3>1, <3>2, CommitExtends DEF Log!Commit
  <2>2. ASSUME NEW t \in Thread, pc[t] # "idle", Return(t, "failed"), UNCHANGED <<tables, batch>>
        PROVE  Log!Reject(t)
    <3>1. OutcomeBar[t] = "pending" /\ OutcomeBar' = [OutcomeBar EXCEPT ![t] = "failed"]
      BY <2>2 DEF Return, Goto, OutcomeBar, CallsInv, CallInv, IInv, TypeOK
    <3>2. LogBar' = LogBar /\ UNCHANGED batch
      BY <2>2 DEF tables, LogBar, EventAt
    <3> QED
      BY <3>1, <3>2 DEF Log!Reject
  <2>3. ASSUME NEW t \in Thread, NEW keys \in Request, WriteEventsBatch(t, keys)
        PROVE  Log!Invoke(t)
    <3>1. OutcomeBar[t] # "pending" /\ OutcomeBar' = [OutcomeBar EXCEPT ![t] = "pending"]
      BY <2>3 DEF WriteEventsBatch, Goto, OutcomeBar, CallsInv, CallInv, IInv, TypeOK
    <3>2. LogBar' = LogBar
      BY <2>3 DEF WriteEventsBatch, tables, LogBar, EventAt
    <3>3. /\ batch'[t] = EventsAt(t, keys)
          /\ batch' = [batch EXCEPT ![t] = batch'[t]]
      BY <2>3 DEF WriteEventsBatch, IInv, TypeOK
    <3>4. batch'[t] \in Seq(Event)
      BY <2>3, CallTypes DEF TypeOK
    <3>5. \A i \in 1..Len(batch'[t]) : batch'[t][i] \in Log!Event
      BY <3>4, ElementOfSeq DEF Event, Log!Event
    <3>6. \A i \in 1..Len(batch'[t]) : batch'[t][i].Data = t
      BY <2>3, <3>3, SqlStorageAssumption DEF EventsAt
    <3> QED
      BY <3>1, <3>2, <3>3, <3>5, <3>6 DEF Log!Invoke
  <2>4. ASSUME UNCHANGED <<tables, batch, outcome>>
        PROVE  UNCHANGED Log!logVars
    BY <2>4 DEF tables, LogBar, EventAt, OutcomeBar, Log!logVars
  <2>5. CASE UNCHANGED vars
    BY <2>4, <2>5 DEF vars
  <2>6. ASSUME NEW t \in Thread, BeginTx(t) \/ ReadSequence(t) \/ InsertEvent(t) \/ UpdateSequence(t)
        PROVE  UNCHANGED <<tables, batch, outcome>>
    BY <2>6 DEF BeginTx, ReadSequence, InsertEvent, UpdateSequence
  <2>7. ASSUME NEW t \in Thread, \/ BeginTxFails(t) \/ SequenceMismatch(t) \/ InsertConflicts(t)
                                 \/ StatementFails(t) \/ DeadlockDetected(t)
        PROVE  pc[t] # "idle" /\ Return(t, "failed") /\ UNCHANGED <<tables, batch>>
    BY <2>7 DEF BeginTxFails, SequenceMismatch, InsertConflicts, StatementFails,
                DeadlockDetected, Deadlocked, WaitsFor, InTransaction, Rollback
  <2> QED
    BY <2>1, <2>2, <2>3, <2>4, <2>5, <2>6, <2>7 DEF Next, Commit, CommitUnheard, Log!LogNext
<1> QED
  BY <1>1, <1>2, Invariance, CallsInvariance, PTL DEF Spec, ImplementsAtomicLog, Log!LogSpec

=============================================================================
