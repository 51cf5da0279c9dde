-------------------------- MODULE NodeServerProofs --------------------------
(***************************************************************************)
(* Theorems about NodeServer, for any callers, aggregates and projections, *)
(* any snapshot interval and any number of workers.                        *)
(*                                                                         *)
(* What keeps the store right although its calls are interleaved is the    *)
(* order of the queue of jobs.  The invariant says which writes of an      *)
(* aggregate are still ahead of a job (Follows): exactly those with the    *)
(* numbers that come after the one that the job carries to the cache.      *)
(***************************************************************************)
EXTENDS NodeServer, SequenceTheorems, FiniteSetTheorems, WellFoundedInduction, TLAPS

\* The sequence s has the element x.
Has(s, x) == \E i \in 1..Len(s) : s[i] = x

\* What the call that job i continues was called with.
Arg(i) == arg[jobs[i].of]

\* Job i continues a write to aggregate a that the cache does not reflect yet.
StoredAt(i, a) == jobs[i].at = "stored" /\ Arg(i).aggregateId = a

\* Job i is to put a number that was loaded in the cache.
LoadedAt(i, a) == jobs[i].at = "loaded" /\ Arg(i).aggregateId = a

\* An event that has been cached and is to be broadcast after a snapshot.
Snapshotting == {"copy", "written", "broadcast"}

SnapshotAt(i, a) == jobs[i].at \in Snapshotting /\ Arg(i).aggregateId = a

\* What the job of who, at that label, finds when it runs.
Fits(label, who) ==
    /\ label = "worker" => who \in Worker
    /\ label # "worker" => who \in Caller
    /\ label \in Snapshotting \cup {"stored", "refused"} => arg[who] \in Event
    /\ label \in Snapshotting \cup {"stored"} =>
          arg[who].sequence <= Len(events[arg[who].aggregateId])
    /\ label \in Snapshotting => SnapshotDue(arg[who])
    /\ label = "loaded" => arg[who] \in Question

JobInv == \A i \in 1..Len(jobs) : Fits(jobs[i].at, jobs[i].of)

\* A call goes on in one place.
OneJobInv ==
    \A i, j \in 1..Len(jobs) :
        jobs[i].at # "worker" /\ jobs[j].at # "worker" /\ jobs[i].of = jobs[j].of => i = j

\* The writes to a after place i of the queue have the numbers n + 1, n + 2,
\* ... up to the last number of the log.
Follows(a, i, n) ==
    /\ n <= Len(events[a])
    /\ \A j \in 1..Len(jobs) : j > i /\ StoredAt(j, a) => n < Arg(j).sequence
    /\ \A m \in (n + 1)..Len(events[a]) :
          \E j \in 1..Len(jobs) : j > i /\ StoredAt(j, a) /\ Arg(j).sequence = m

\* Job i is to put n in the cache of a.
Brings(i, a, n) ==
    \/ StoredAt(i, a) /\ Arg(i).sequence = n
    \/ LoadedAt(i, a) /\ local[jobs[i].of] = n

OrderInv ==
    \A i \in 1..Len(jobs), a \in Aggregate, n \in Nat : Brings(i, a, n) => Follows(a, i, n)

\* The number of a in the cache is n.
Cached(a, n) == actors[a] # <<>> /\ Last(actors[a]) = n

CacheInv ==
    \A a \in Aggregate :
        /\ \A n \in Nat : Cached(a, n) => Follows(a, 0, n)
        /\ \A k \in 1..Len(actors[a]) : actors[a][k] <= Len(events[a])

\* The state object of a snapshot shows the event that caused it.
CopyInv ==
    \A i \in 1..Len(jobs) :
        jobs[i].at = "copy" =>
            LET k == local[jobs[i].of] IN
            /\ k \in 1..Len(actors[Arg(i).aggregateId])
            /\ Arg(i).sequence <= actors[Arg(i).aggregateId][k]

SnapshotInv ==
    \A a \in Aggregate :
        /\ snapshots[a].sequence <= snapshots[a].lastSequence
        /\ snapshots[a].lastSequence <= Len(events[a])

\* Events that have been cached are behind those that have not, and they are
\* broadcast once.
HeardInv ==
    /\ \A k \in 1..Len(broadcasts) :
          broadcasts[k].sequence <= Len(events[broadcasts[k].aggregateId])
    /\ \A i \in 1..Len(jobs), k \in 1..Len(broadcasts) :
          /\ StoredAt(i, broadcasts[k].aggregateId) => broadcasts[k].sequence < Arg(i).sequence
          /\ SnapshotAt(i, broadcasts[k].aggregateId) => broadcasts[k].sequence # Arg(i).sequence
    /\ \A i, j \in 1..Len(jobs), a \in Aggregate :
          /\ SnapshotAt(i, a) /\ StoredAt(j, a) => Arg(i).sequence < Arg(j).sequence
          /\ SnapshotAt(i, a) /\ SnapshotAt(j, a) /\ i # j => Arg(i).sequence # Arg(j).sequence

\* The job of a worker is in the queue.
Queued(w) == Has(jobs, Job("worker", w))

\* A worker that processes has a job, and one that is awake and has updates
\* processes.
WorkerInv ==
    \A w \in Worker :
        /\ processing[w] => Queued(w)
        /\ awake[w] /\ queue[w] # <<>> => processing[w]

\* A projection is defined once.
DefinitionsInv ==
    \A i, j \in 1..Len(definitions) : definitions[i] = definitions[j] => i = j

\* The inductive invariant of the store.
StoreInv ==
    /\ TypeOK /\ LogGapFree /\ JobInv /\ OneJobInv /\ OrderInv /\ CacheInv /\ CopyInv /\ SnapshotInv
    /\ HeardInv /\ OvertakenOnlyAtSnapshots

-----------------------------------------------------------------------------
(* Keep, one element after the other                                        *)

(* Induction, for a set of numbers. *)
LEMMA Induction ==
    ASSUME NEW A, 0 \in A, \A n \in Nat : n \in A => n + 1 \in A
    PROVE  \A n \in Nat : n \in A
<1> DEFINE T == Nat \ A
           R == {ss \in Nat \X Nat : ss[1] < ss[2]}
<1>1. SUFFICES ASSUME T # {} PROVE FALSE
  OBVIOUS
<1>2. IsWellFoundedOn(R, Nat)
  BY NatLessThanWellFounded DEF OpToRel
<1>3. PICK n \in T : \A m \in T : <<m, n>> \notin R
  <2>1. T \subseteq Nat
    OBVIOUS
  <2> HIDE DEF T, R
  <2> QED
    BY <1>1, <1>2, <2>1, WFMin
<1>4. n \in Nat /\ n \notin A /\ n # 0
  OBVIOUS
<1>5. n - 1 \in Nat /\ n - 1 < n
  BY <1>4
<1>6. n - 1 \in A
  BY <1>3, <1>4, <1>5
<1> QED
  BY <1>4, <1>5, <1>6

(* The largest number of a set that has a bound in it. *)
LEMMA MaxIsBound ==
    ASSUME NEW n \in Nat, NEW X \in SUBSET (1..n), n \in X
    PROVE  Max(X) = n
<1> DEFINE Top(x) == \A y \in X : x >= y
<1>1. \A y \in X : y \in Nat /\ n >= y
  OBVIOUS
<1>2. PICK m : m = Max(X)
  OBVIOUS
<1>3. m \in X /\ m >= n
  BY <1>1, <1>2 DEF Max
<1> QED
  BY <1>1, <1>2, <1>3

\* What Keep does with one element.
Kept(kept, x, S) == IF x \in S THEN Append(kept, x) ELSE kept

\* The function by which FoldLeft is defined.
IsIter(it, s, S, n) ==
    it = [X \in SUBSET (1..n) |-> IF X = {} THEN <<>> ELSE Kept(it[X \ {Max(X)}], s[Max(X)], S)]

LEMMA IterExists == ASSUME NEW s, NEW S, NEW n \in Nat PROVE \E it : IsIter(it, s, S, n)
<1> DEFINE A == {k \in Nat : \E it : IsIter(it, s, S, k)}
<1>1. 0 \in A
  <2>1. IsIter([X \in SUBSET (1..0) |-> <<>>], s, S, 0)
    <3>1. \A X \in SUBSET (1..0) : X = {}
      OBVIOUS
    <3> QED
      BY <3>1 DEF IsIter
  <2> QED
    BY <2>1
<1>2. ASSUME NEW k \in Nat, k \in A PROVE k + 1 \in A
  <2>1. PICK it : IsIter(it, s, S, k)
    BY <1>2
  <2> DEFINE next == [X \in SUBSET (1..(k + 1)) |->
                         IF k + 1 \in X THEN Kept(it[X \ {k + 1}], s[k + 1], S) ELSE it[X]]
             Value(X) == IF X = {} THEN <<>> ELSE Kept(next[X \ {Max(X)}], s[Max(X)], S)
  <2>2. ASSUME NEW X \in SUBSET (1..(k + 1)) PROVE next[X] = Value(X)
    <3>1. CASE k + 1 \in X
      <4>1. Max(X) = k + 1
        BY <3>1, MaxIsBound
      <4>2. next[X \ {k + 1}] = it[X \ {k + 1}]
        OBVIOUS
      <4> QED
        BY <3>1, <4>1, <4>2
    <3>2. CASE k + 1 \notin X
      <4>1. X \in SUBSET (1..k)
        BY <3>2
      <4>2. next[X] = it[X] /\ next[X \ {Max(X)}] = it[X \ {Max(X)}]
        BY <3>2
      <4>3. it[X] = IF X = {} THEN <<>> ELSE Kept(it[X \ {Max(X)}], s[Max(X)], S)
        BY <4>1, <2>1 DEF IsIter
      <4> QED
        BY <4>2, <4>3
    <3> QED
      BY <3>1, <3>2
  <2>3. next = [X \in SUBSET (1..(k + 1)) |-> Value(X)]
    <3>1. next = [X \in SUBSET (1..(k + 1)) |-> next[X]]
      OBVIOUS
    <3> HIDE DEF next, Value
    <3> QED
      BY <2>2, <3>1
  <2>4. IsIter(next, s, S, k + 1)
    BY <2>3 DEF IsIter
  <2> HIDE DEF next
  <2> QED
    BY <2>4
<1>3. \A k \in Nat : k \in A
  <2> HIDE DEF A
  <2> QED
   BY <1>1, <1>2, Induction
<1> QED
  BY <1>3

(* Keep goes through the sequence from its first element to its last. *)
LEMMA KeepSteps ==
    ASSUME NEW s, NEW S, NEW n \in Nat, DOMAIN s = 1..n
    PROVE  \E g : /\ g[0] = <<>> /\ g[n] = Keep(s, S)
                  /\ \A i \in 1..n : g[i] = Kept(g[i - 1], s[i], S)
<1> DEFINE it == CHOOSE f : IsIter(f, s, S, n)
           g == [i \in 0..n |-> it[1..i]]
<1>1. IsIter(it, s, S, n)
  BY IterExists
<1>2. Keep(s, S) = it[1..n]
  BY DEF Keep, FoldLeft, MapThenFoldSet, Kept, IsIter
<1> HIDE DEF it
<1>3. \A X \in SUBSET (1..n) : it[X] = IF X = {} THEN <<>> ELSE Kept(it[X \ {Max(X)}], s[Max(X)], S)
  BY <1>1 DEF IsIter
<1>4. it[1..0] = <<>>
  <2> DEFINE e == 1..0
  <2>1. e = {}
    OBVIOUS
  <2> HIDE DEF e
  <2>2. it[e] = <<>>
    BY <1>3, <2>1
  <2> QED
    BY <2>2 DEF e
<1>5. ASSUME NEW i \in 1..n PROVE it[1..i] = Kept(it[1..(i - 1)], s[i], S)
  <2> DEFINE e == 1..i
             d == 1..(i - 1)
  <2>1. e \in SUBSET (1..n) /\ i \in e
    OBVIOUS
  <2>4. e \ {i} = d
    <3>1. \A x : x \in e \ {i} <=> x \in d
      OBVIOUS
    <3> HIDE DEF e, d
    <3> QED
      BY <3>1
  <2>2. Max(e) = i
    BY MaxIsBound
  <2> HIDE DEF e, d
  <2>3. it[e] = Kept(it[d], s[i], S)
    BY <1>3, <2>1, <2>2, <2>4
  <2> QED
    BY <2>3 DEF e, d
<1>6. /\ g[0] = <<>> /\ g[n] = Keep(s, S)
      /\ \A i \in 1..n : g[i] = Kept(g[i - 1], s[i], S)
  BY <1>2, <1>4, <1>5
<1> QED
  BY <1>6

(* And nothing else does what it does. *)
LEMMA KeepUnique ==
    ASSUME NEW s, NEW S, NEW n \in Nat, DOMAIN s = 1..n,
           NEW h, h[0] = <<>>, \A i \in 1..n : h[i] = Kept(h[i - 1], s[i], S)
    PROVE  h[n] = Keep(s, S)
<1>1. PICK g : /\ g[0] = <<>> /\ g[n] = Keep(s, S)
               /\ \A i \in 1..n : g[i] = Kept(g[i - 1], s[i], S)
  BY KeepSteps
<1> DEFINE A == {k \in Nat : k <= n => g[k] = h[k]}
<1>2. 0 \in A
  BY <1>1
<1>3. ASSUME NEW k \in Nat, k \in A PROVE k + 1 \in A
  <2>1. SUFFICES ASSUME k + 1 <= n PROVE g[k + 1] = h[k + 1]
    OBVIOUS
  <2>2. k + 1 \in 1..n /\ k + 1 - 1 = k /\ g[k] = h[k]
    BY <1>3, <2>1
  <2> QED
    BY <1>1, <2>2
<1>4. \A k \in Nat : k \in A
  <2> HIDE DEF A
  <2> QED
    BY <1>2, <1>3, Induction
<1> QED
  BY <1>1, <1>4

LEMMA KeepEmpty == ASSUME NEW S PROVE Keep(<<>>, S) = <<>>
<1>1. DOMAIN <<>> = 1..0
  OBVIOUS
<1>2. PICK g : g[0] = <<>> /\ g[0] = Keep(<<>>, S)
  BY <1>1, KeepSteps
<1> QED
  BY <1>2

LEMMA KeepAppend ==
    ASSUME NEW T, NEW s \in Seq(T), NEW x \in T, NEW S
    PROVE  Keep(Append(s, x), S) = Kept(Keep(s, S), x, S)
<1> DEFINE n == Len(s)
           t == Append(s, x)
<1>1. n \in Nat /\ n + 1 \in Nat /\ DOMAIN s = 1..n /\ DOMAIN t = 1..(n + 1)
  BY LenProperties, AppendProperties
<1>2. t[n + 1] = x /\ \A i \in 1..n : t[i] = s[i]
  BY AppendProperties
<1> HIDE DEF n, t
<1>3. PICK g : /\ g[0] = <<>> /\ g[n + 1] = Keep(t, S)
               /\ \A i \in 1..(n + 1) : g[i] = Kept(g[i - 1], t[i], S)
  BY <1>1, KeepSteps
<1>4. \A i \in 1..n : g[i] = Kept(g[i - 1], s[i], S)
  BY <1>1, <1>2, <1>3
<1>5. g[n] = Keep(s, S)
  BY <1>1, <1>3, <1>4, KeepUnique
<1>6. n + 1 \in 1..(n + 1) /\ n + 1 - 1 = n
  BY <1>1
<1>7. g[n + 1] = Kept(g[n], t[n + 1], S)
  <2>1. \A i \in 1..(n + 1) : i - 1 = n => g[i] = Kept(g[n], t[i], S)
    BY <1>3
  <2> QED
    BY <1>1, <1>6, <2>1
<1> QED
  BY <1>2, <1>3, <1>5, <1>6, <1>7 DEF t

(* An induction over the elements of a sequence. *)
LEMMA ByAppending ==
    ASSUME NEW T, NEW A, <<>> \in A, \A s \in Seq(T), x \in T : s \in A => Append(s, x) \in A
    PROVE  \A s \in Seq(T) : s \in A
<1> DEFINE B == {n \in Nat : \A s \in Seq(T) : Len(s) = n => s \in A}
<1>1. 0 \in B
  BY EmptySeq
<1>2. ASSUME NEW n \in Nat, n \in B PROVE n + 1 \in B
  <2>1. SUFFICES ASSUME NEW s \in Seq(T), Len(s) = n + 1 PROVE s \in A
    OBVIOUS
  <2>2. s # <<>>
    BY <2>1, EmptySeq
  <2>3. PICK r \in Seq(T), x \in T : s = Append(r, x)
    BY <2>2, SequenceEmptyOrAppend
  <2>4. Len(r) = n
    BY <2>1, <2>3, AppendProperties, LenProperties
  <2> QED
    BY <1>2, <2>3, <2>4
<1>3. \A n \in Nat : n \in B
  <2> HIDE DEF B
  <2> QED
    BY <1>1, <1>2, Induction
<1> QED
  BY <1>3, LenProperties

LEMMA HasIs == ASSUME NEW T, NEW s \in Seq(T), NEW x PROVE Has(s, x) <=> x \in Range(s)
<1>1. Range(s) = {s[i] : i \in 1..Len(s)}
  BY RangeEquality
<1> QED
  BY <1>1 DEF Has

(* Two sequences, one after the other. *)
LEMMA Concatenated ==
    ASSUME NEW T, NEW s \in Seq(T), NEW t \in Seq(T)
    PROVE  /\ s \o t \in Seq(T)
           /\ Len(s) \in Nat /\ Len(t) \in Nat /\ Len(s \o t) = Len(s) + Len(t)
           /\ \A i \in 1..Len(s) : (s \o t)[i] = s[i]
           /\ \A i \in 1..Len(t) : (s \o t)[Len(s) + i] = t[i]
<1>1. PICK both : both = s \o t
  OBVIOUS
<1>2. /\ both \in Seq(T) /\ Len(both) = Len(s) + Len(t)
      /\ \A i \in 1..(Len(s) + Len(t)) : both[i] = IF i <= Len(s) THEN s[i] ELSE t[i - Len(s)]
  BY <1>1, ConcatProperties
<1>3. Len(s) \in Nat /\ Len(t) \in Nat
  BY LenProperties
<1>4. \A i \in 1..Len(s) : both[i] = s[i]
  BY <1>2, <1>3
<1>5. ASSUME NEW i \in 1..Len(t) PROVE both[Len(s) + i] = t[i]
  <2>1. PICK k : k = Len(s) + i
    OBVIOUS
  <2>2. k \in 1..(Len(s) + Len(t)) /\ ~(k <= Len(s)) /\ k - Len(s) = i
    BY <1>3, <2>1
  <2>3. both[k] = t[k - Len(s)]
    BY <1>2, <2>2
  <2> QED
    BY <2>1, <2>2, <2>3
<1> QED
  BY <1>1, <1>2, <1>3, <1>4, <1>5

(* Keep leaves a sequence of the elements of s that are in S. *)
LEMMA KeepIs ==
    ASSUME NEW T, NEW s \in Seq(T), NEW S
    PROVE  /\ Keep(s, S) \in Seq(T)
           /\ \A x : Has(Keep(s, S), x) <=> x \in S /\ Has(s, x)
<1> DEFINE A == {r \in Seq(T) : /\ Keep(r, S) \in Seq(T)
                                /\ \A x \in T : Has(Keep(r, S), x) <=> x \in S /\ Has(r, x)}
<1>1. <<>> \in A
  <2>1. \A x : ~Has(<<>>, x)
    BY EmptySeq DEF Has
  <2> QED
    BY <2>1, KeepEmpty, EmptySeq
<1>2. ASSUME NEW r \in Seq(T), NEW t \in Seq(T), NEW y \in T, NEW x \in T,
             t = Append(r, y)
      PROVE  Has(t, x) <=> Has(r, x) \/ x = y
  <2>1. Len(t) = Len(r) + 1 /\ t[Len(r) + 1] = y /\ \A i \in 1..Len(r) : t[i] = r[i]
    BY <1>2, AppendProperties
  <2>2. Len(r) \in Nat
    BY LenProperties
  <2> QED
    BY <2>1, <2>2 DEF Has
<1>3. ASSUME NEW r \in Seq(T), NEW y \in T, r \in A PROVE Append(r, y) \in A
  <2>1. Keep(Append(r, y), S) = IF y \in S THEN Append(Keep(r, S), y) ELSE Keep(r, S)
    BY KeepAppend DEF Kept
  <2>2. Append(r, y) \in Seq(T) /\ Append(Keep(r, S), y) \in Seq(T)
    BY <1>3, AppendProperties
  <2>3. ASSUME NEW x \in T
        PROVE  Has(Keep(Append(r, y), S), x) <=> x \in S /\ Has(Append(r, y), x)
    <3>1. Has(Append(r, y), x) <=> Has(r, x) \/ x = y
      BY <1>2, <2>2
    <3>2. Has(Append(Keep(r, S), y), x) <=> Has(Keep(r, S), x) \/ x = y
      BY <1>2, <1>3, <2>2
    <3>3. Has(Keep(r, S), x) <=> x \in S /\ Has(r, x)
      BY <1>3
    <3> QED
      BY <2>1, <3>1, <3>2, <3>3
  <2>4. Keep(Append(r, y), S) \in Seq(T)
    BY <1>3, <2>1, <2>2
  <2> QED
    BY <2>2, <2>3, <2>4
<1>4. s \in A
  <2> HIDE DEF A
  <2> QED
    BY <1>1, <1>3, ByAppending
<1>5. \A x : Has(s, x) \/ Has(Keep(s, S), x) => x \in T
  BY <1>4, ElementOfSeq DEF Has
<1> QED
  BY <1>4, <1>5

-----------------------------------------------------------------------------
(* The queue of jobs                                                        *)

JobRecord == [at : Label, of : Caller \cup Worker]

WorkerJob == [at : {"worker"}, of : Worker]

\* The queue loses its first d jobs and gets js.
Moved(d, js) ==
    /\ d \in 0..1 /\ d <= Len(jobs)
    /\ jobs' \in Seq(JobRecord)
    /\ Len(jobs') = Len(jobs) - d + Len(js)
    /\ \A i \in 1..(Len(jobs) - d) : jobs'[i] = jobs[i + d]
    /\ \A i \in 1..Len(js) : jobs'[Len(jobs) - d + i] = js[i]

LEMMA ScriptMoves ==
    ASSUME jobs \in Seq(JobRecord), NEW js \in Seq(JobRecord), Script(js)
    PROVE  Moved(0, js) /\ turn' = turn
<1>1. jobs' = jobs \o js
  BY DEF Script
<1> QED
  BY <1>1, Concatenated DEF Moved, Script

LEMMA RunJobMoves ==
    ASSUME jobs \in Seq(JobRecord), NEW js \in Seq(JobRecord), NEW job, RunJob(job, js)
    PROVE  Moved(1, js) /\ Len(jobs) >= 1 /\ jobs[1] = job /\ turn' \in {"script", "drain"}
<1>1. Len(jobs) \in Nat \ {0} /\ Len(js) \in Nat /\ jobs # <<>>
  BY LenProperties, EmptySeq DEF RunJob
<1>2. jobs' = Tail(jobs) \o js
  BY DEF RunJob
<1>3. /\ Tail(jobs) \in Seq(JobRecord)
      /\ Len(Tail(jobs)) = Len(jobs) - 1
      /\ \A i \in 1..(Len(jobs) - 1) : Tail(jobs)[i] = jobs[i + 1]
  BY <1>1, HeadTailProperties
<1>4. /\ jobs' \in Seq(JobRecord)
      /\ Len(jobs') = Len(jobs) - 1 + Len(js)
      /\ \A i \in 1..(Len(jobs) - 1) : jobs'[i] = Tail(jobs)[i]
      /\ \A i \in 1..Len(js) : jobs'[Len(jobs) - 1 + i] = js[i]
  BY <1>2, <1>3, Concatenated
<1>7. jobs[1] = job /\ turn' \in {"script", "drain"}
  BY <1>1 DEF RunJob
<1> QED
  BY <1>1, <1>3, <1>4, <1>7 DEF Moved

LEMMA JobTypes ==
    /\ WorkerJob \subseteq JobRecord
    /\ \A w \in Worker : Job("worker", w) \in WorkerJob
    /\ \A c \in Caller, l \in Label : Job(l, c) \in JobRecord
BY DEF WorkerJob, JobRecord, Label, Job

-----------------------------------------------------------------------------
(* The workers of an event                                                  *)

LEMMA WorkerOfType == ASSUME NEW p \in Projection PROVE WorkerOf(p) \in Worker
<1>1. NameLength[p] \in Nat /\ WorkerCount \in Nat /\ WorkerCount > 0
  BY NodeProjectorAssumption
<1> QED
  BY <1>1 DEF WorkerOf, Worker

LEMMA ReceiversType ==
    ASSUME definitions \in Seq(Projection), NEW e
    PROVE  Receivers(e) \in Seq(Projection)
BY KeepIs, EmptySeq DEF Receivers

\* What a worker is to be given of an event.
LEMMA ServedIs ==
    ASSUME definitions \in Seq(Projection), NEW e, NEW w \in Worker
    PROVE  /\ Served(e, w) \in Seq(Projection)
           /\ \A p : Has(Served(e, w), p) <=> p \in Range(Receivers(e)) /\ WorkerOf(p) = w
<1>1. Receivers(e) \in Seq(Projection) /\ Range(Receivers(e)) \subseteq Projection
  BY ReceiversType, RangeOfSeq
<1>2. \A p : Has(Receivers(e), p) <=> p \in Range(Receivers(e))
  BY <1>1, HasIs
<1>3. /\ Served(e, w) \in Seq(Projection)
      /\ \A p : Has(Served(e, w), p)
                <=> p \in {q \in Projection : WorkerOf(q) = w} /\ Has(Receivers(e), p)
  BY <1>1, KeepIs DEF Served
<1> QED
  BY <1>1, <1>2, <1>3

LEMMA LineType ==
    ASSUME definitions \in Seq(Projection), queue \in [Worker -> Seq(Update(Event))],
           NEW e \in Event, NEW w \in Worker
    PROVE  /\ Line(e, w) \in Seq(Update(Event))
           /\ Len(Line(e, w)) = Len(queue[w]) + Len(Served(e, w))
           /\ \A i \in 1..Len(queue[w]) : Line(e, w)[i] = queue[w][i]
           /\ \A i \in 1..Len(Served(e, w)) : Line(e, w)[Len(queue[w]) + i] =
                 [projectionName |-> Served(e, w)[i], event |-> e]
<1> DEFINE new == [i \in DOMAIN Served(e, w) |-> [projectionName |-> Served(e, w)[i], event |-> e]]
<1>1. Served(e, w) \in Seq(Projection) /\ queue[w] \in Seq(Update(Event))
  BY ServedIs
<1>2. Len(Served(e, w)) \in Nat /\ Len(queue[w]) \in Nat /\ DOMAIN Served(e, w) = 1..Len(Served(e, w))
  BY <1>1, LenProperties
<1>3. \A i \in 1..Len(Served(e, w)) : Served(e, w)[i] \in Projection
  BY <1>1, ElementOfSeq
<1>4. /\ new \in Seq(Update(Event)) /\ Len(new) = Len(Served(e, w))
      /\ \A i \in 1..Len(Served(e, w)) :
            new[i] = [projectionName |-> Served(e, w)[i], event |-> e]
  BY <1>2, <1>3 DEF Update
<1>5. Line(e, w) = queue[w] \o new
  BY DEF Line
<1> HIDE DEF new
<1>6. /\ Line(e, w) \in Seq(Update(Event))
      /\ Len(Line(e, w)) = Len(queue[w]) + Len(new)
      /\ \A i \in 1..Len(queue[w]) : Line(e, w)[i] = queue[w][i]
      /\ \A i \in 1..Len(new) : Line(e, w)[Len(queue[w]) + i] = new[i]
  <2>1. PICK s, u : s = queue[w] /\ u = Update(Event)
    OBVIOUS
  <2>2. s \in Seq(u) /\ new \in Seq(u) /\ Line(e, w) = s \o new
    BY <1>1, <1>4, <1>5, <2>1
  <2>3. /\ s \o new \in Seq(u) /\ Len(s \o new) = Len(s) + Len(new)
        /\ \A i \in 1..Len(s) : (s \o new)[i] = s[i]
        /\ \A i \in 1..Len(new) : (s \o new)[Len(s) + i] = new[i]
    BY <2>2, Concatenated
  <2> QED
    BY <2>1, <2>2, <2>3
<1> QED
  BY <1>4, <1>6

\* A loop that an event starts has something to take.
LEMMA StartedLine ==
    ASSUME definitions \in Seq(Projection), queue \in [Worker -> Seq(Update(Event))],
           NEW e \in Event, NEW w \in Started(e)
    PROVE  w \in Worker /\ Served(e, w) # <<>> /\ Line(e, w) # <<>>
<1>1. w \in Worker /\ \E p : p \in Range(Receivers(e)) /\ WorkerOf(p) = w
  BY DEF Started
<1>2. Served(e, w) \in Seq(Projection) /\ \E i \in 1..Len(Served(e, w)) : TRUE
  BY <1>1, ServedIs DEF Has
<1>3. Len(Served(e, w)) \in Nat \ {0}
  BY <1>2, LenProperties
<1>4. Line(e, w) \in Seq(Update(Event)) /\ Len(Line(e, w)) = Len(queue[w]) + Len(Served(e, w))
  BY <1>1, LineType
<1>5. Len(queue[w]) \in Nat
  BY <1>1, LenProperties
<1> QED
  BY <1>1, <1>3, <1>4, <1>5, EmptySeq

\* The jobs of the loops that an event starts: of all of them.
LEMMA WokenIs ==
    ASSUME definitions \in Seq(Projection), NEW e \in Event
    PROVE  /\ Woken(e) \in Seq(WorkerJob)
           /\ \A w \in Started(e) : Has(Woken(e), Job("worker", w))
<1> DEFINE firsts == Keep(Receivers(e), Starters(e))
<1>1. Receivers(e) \in Seq(Projection)
  BY ReceiversType
<1>2. /\ firsts \in Seq(Projection)
      /\ \A x : Has(firsts, x) <=> x \in Starters(e) /\ Has(Receivers(e), x)
  BY <1>1, KeepIs
<1>3. Woken(e) = [i \in DOMAIN firsts |-> Job("worker", WorkerOf(firsts[i]))]
  BY DEF Woken
<1> HIDE DEF firsts
<1>4. Len(firsts) \in Nat /\ DOMAIN firsts = 1..Len(firsts)
  BY <1>2, LenProperties
<1>5. \A i \in 1..Len(firsts) : Job("worker", WorkerOf(firsts[i])) \in WorkerJob
  BY <1>2, ElementOfSeq, WorkerOfType, JobTypes
<1>6. Woken(e) \in Seq(WorkerJob) /\ Len(Woken(e)) = Len(firsts)
  BY <1>3, <1>4, <1>5
<1>7. ASSUME NEW w \in Started(e) PROVE Has(Woken(e), Job("worker", w))
  <2>1. w \in Worker /\ \E p : p \in Range(Receivers(e)) /\ WorkerOf(p) = w
    BY DEF Started
  <2>2. Served(e, w) \in Seq(Projection) /\ \E i \in 1..Len(Served(e, w)) : TRUE
    BY <2>1, ServedIs DEF Has
  <2>3. Len(Served(e, w)) \in Nat \ {0} /\ Head(Served(e, w)) = Served(e, w)[1]
    BY <2>2, LenProperties
  <2>4. PICK p : p = Head(Served(e, w))
    OBVIOUS
  <2>5. p \in Range(Receivers(e)) /\ WorkerOf(p) = w
    BY <2>1, <2>3, <2>4, ServedIs DEF Has
  <2>6. p \in Starters(e)
    BY <2>4, <2>5 DEF Starters
  <2>7. Has(firsts, p)
    BY <1>1, <1>2, <2>5, <2>6, HasIs
  <2> QED
    BY <1>3, <1>4, <1>6, <2>5, <2>7 DEF Has
<1> QED
  BY <1>6, <1>7

\* The same of the loops that begin when the engine starts.
LEMMA LeftoverJobsIs ==
    /\ LeftoverJobs \in Seq(WorkerJob)
    /\ \A w \in Leftover : Has(LeftoverJobs, Job("worker", w))
<1> DEFINE all == [i \in 1..WorkerCount |-> i - 1]
           ids == Keep(all, Leftover)
<1>1. WorkerCount \in Nat
  BY NodeProjectorAssumption
<1>2. all \in Seq(Worker) /\ Len(all) = WorkerCount
  BY <1>1 DEF Worker
<1>3. /\ ids \in Seq(Worker)
      /\ \A x : Has(ids, x) <=> x \in Leftover /\ Has(all, x)
  <2> HIDE DEF all
  <2> QED
    BY <1>2, KeepIs
<1>4. LeftoverJobs = [i \in DOMAIN ids |-> Job("worker", ids[i])]
  BY DEF LeftoverJobs
<1>5. ASSUME NEW w \in Leftover PROVE Has(all, w)
  <2>1. w \in 0..(WorkerCount - 1)
    BY DEF Leftover, Worker
  <2>2. w + 1 \in 1..Len(all) /\ all[w + 1] = w
    BY <1>1, <1>2, <2>1
  <2> HIDE DEF all
  <2> QED
    BY <2>2 DEF Has
<1> HIDE DEF ids, all
<1>6. Len(ids) \in Nat /\ DOMAIN ids = 1..Len(ids)
  BY <1>3, LenProperties
<1>7. \A i \in 1..Len(ids) : Job("worker", ids[i]) \in WorkerJob
  BY <1>3, ElementOfSeq, JobTypes
<1>8. LeftoverJobs \in Seq(WorkerJob) /\ Len(LeftoverJobs) = Len(ids)
  BY <1>4, <1>6, <1>7
<1>9. ASSUME NEW w \in Leftover PROVE Has(LeftoverJobs, Job("worker", w))
  <2>1. Has(ids, w)
    BY <1>3, <1>5
  <2> QED
    BY <1>4, <1>6, <1>8, <2>1 DEF Has
<1> QED
  BY <1>8, <1>9

-----------------------------------------------------------------------------
(* Types                                                                    *)

LEMMA HeadFits ==
    ASSUME TypeOK, JobInv, NEW l, NEW x, NEW js \in Seq(JobRecord), RunJob(Job(l, x), js)
    PROVE  Moved(1, js) /\ jobs[1] = Job(l, x) /\ Fits(l, x) /\ Len(jobs) >= 1
<1>1. jobs \in Seq(JobRecord) /\ Len(jobs) \in Nat
  BY LenProperties DEF TypeOK, JobRecord
<1>2. Moved(1, js) /\ jobs[1] = Job(l, x) /\ Len(jobs) >= 1
  BY <1>1, RunJobMoves
<1>3. 1 \in 1..Len(jobs) /\ jobs[1].at = l /\ jobs[1].of = x
  BY <1>1, <1>2 DEF Job
<1> QED
  BY <1>2, <1>3 DEF JobInv

\* The sequences of jobs that steps leave.
LEMMA JobSequences ==
    /\ Seq(WorkerJob) \subseteq Seq(JobRecord)
    /\ <<>> \in Seq(WorkerJob)
    /\ \A job \in JobRecord : <<job>> \in Seq(JobRecord)
    /\ \A js \in Seq(WorkerJob), job \in JobRecord : js \o <<job>> \in Seq(JobRecord)
<1>1. Seq(WorkerJob) \subseteq Seq(JobRecord)
  BY JobTypes, SeqMonotonic
<1>2. \A job \in JobRecord : <<job>> \in Seq(JobRecord)
  OBVIOUS
<1>3. \A js \in Seq(WorkerJob), job \in JobRecord : js \o <<job>> \in Seq(JobRecord)
  BY <1>1, <1>2, ConcatProperties
<1> QED
  BY <1>1, <1>2, <1>3, EmptySeq

LEMMA AppliedType ==
    ASSUME NEW u \in Update(Event), NEW s \in ProjectionState
    PROVE  Applied(u, s) \in ProjectionState
<1> DEFINE t == [s EXCEPT !.orders = Counted(u.event.eventType, @)]
<1>1. Counted(u.event.eventType, s.orders) \in Nat
  BY DEF ProjectionState, Counted
<1>2. t \in ProjectionState
  BY <1>1 DEF ProjectionState
<1> HIDE DEF t
<1>3. Promoted(t) \in ProjectionState
  BY <1>2 DEF Promoted, ProjectionState
<1> QED
  BY <1>3 DEF Applied, t

LEMMA ApplyHeadsTypes ==
    ASSUME ProjectorTypeOK(Event), NEW W, NEW line,
           \A w \in Worker : line[w] \in Seq(Update(Event)),
           \A w \in W : w \in Worker /\ line[w] # <<>>,
           ApplyHeads(W, line)
    PROVE  queue' \in [Worker -> Seq(Update(Event))] /\ projections' \in [Projection -> ProjectionState]
<1>1. ASSUME NEW w \in W PROVE Head(line[w]) \in Update(Event) /\ Tail(line[w]) \in Seq(Update(Event))
  BY HeadTailProperties
<1>2. queue' \in [Worker -> Seq(Update(Event))]
  BY <1>1 DEF ApplyHeads
<1>3. ASSUME NEW p \in Projection
      PROVE  (IF WorkerOf(p) \in W /\ Head(line[WorkerOf(p)]).projectionName = p
              THEN Applied(Head(line[WorkerOf(p)]), projections[p])
              ELSE projections[p]) \in ProjectionState
  <2>1. projections[p] \in ProjectionState
    BY DEF ProjectorTypeOK
  <2> QED
    BY <1>1, <2>1, AppliedType
<1>4. projections' \in [Projection -> ProjectionState]
  BY <1>3 DEF ApplyHeads
<1> QED
  BY <1>2, <1>4

LEMMA EngineStartTypes == ASSUME ProjectorTypeOK(Event), EngineStart PROVE ProjectorTypeOK(Event)'
<1>1. \A w \in Worker : queue[w] \in Seq(Update(Event))
  BY DEF ProjectorTypeOK
<1>2. \A w \in Leftover : w \in Worker /\ queue[w] # <<>>
  BY DEF Leftover
<1>3. queue' \in [Worker -> Seq(Update(Event))] /\ projections' \in [Projection -> ProjectionState]
  BY <1>1, <1>2, ApplyHeadsTypes DEF EngineStart
<1> QED
  BY <1>3 DEF ProjectorTypeOK, EngineStart

LEMMA RouteEventTypes ==
    ASSUME ProjectorTypeOK(Event), NEW e \in Event, RouteEvent(e)
    PROVE  ProjectorTypeOK(Event)'
<1> DEFINE line == [w \in Worker |-> Line(e, w)]
<1>1. definitions \in Seq(Projection) /\ queue \in [Worker -> Seq(Update(Event))]
  BY DEF ProjectorTypeOK
<1>2. \A w \in Worker : line[w] \in Seq(Update(Event))
  BY <1>1, LineType
<1>3. \A w \in Started(e) : w \in Worker /\ line[w] # <<>>
  BY <1>1, StartedLine
<1>4. ApplyHeads(Started(e), line)
  BY DEF RouteEvent
<1> HIDE DEF line
<1>5. queue' \in [Worker -> Seq(Update(Event))] /\ projections' \in [Projection -> ProjectionState]
  BY <1>2, <1>3, <1>4, ApplyHeadsTypes
<1>6. processing' \in [Worker -> BOOLEAN]
  BY DEF ProjectorTypeOK, RouteEvent
<1>7. routed' \in [Projection -> Seq(Event)]
  BY AppendProperties DEF ProjectorTypeOK, RouteEvent
<1> QED
  BY <1>5, <1>6, <1>7 DEF ProjectorTypeOK, RouteEvent

LEMMA WaitingType ==
    ASSUME ProjectorTypeOK(Event), NEW p \in Projection
    PROVE  Waiting(p) \in Seq(Update(Event))
<1>1. queue[WorkerOf(p)] \in Seq(Update(Event))
  BY WorkerOfType DEF ProjectorTypeOK
<1> QED
  BY <1>1, KeepIs DEF Waiting, UpdatesOf

LEMMA RegisterTypes ==
    ASSUME ProjectorTypeOK(Event), NEW p \in Projection, RegisterProjection(p)
    PROVE  ProjectorTypeOK(Event)'
<1> DEFINE left == [i \in DOMAIN Waiting(p) |-> Waiting(p)[i].event]
<1>1. left \in Seq(Event)
  <2>1. Waiting(p) \in Seq(Update(Event))
    BY WaitingType
  <2>2. Len(Waiting(p)) \in Nat /\ DOMAIN Waiting(p) = 1..Len(Waiting(p))
    BY <2>1, LenProperties
  <2>3. \A i \in 1..Len(Waiting(p)) : Waiting(p)[i].event \in Event
    <3>1. \A i \in 1..Len(Waiting(p)) : Waiting(p)[i] \in Update(Event)
      BY <2>1, ElementOfSeq
    <3> QED
      BY <3>1 DEF Update
  <2> QED
    BY <2>2, <2>3
<1> HIDE DEF left
<1>2. routed' = [routed EXCEPT ![p] = left] /\ routed' \in [Projection -> Seq(Event)]
  BY <1>1 DEF RegisterProjection, left, ProjectorTypeOK
<1>3. definitions' \in Seq(Projection)
  BY AppendProperties DEF RegisterProjection, ProjectorTypeOK
<1>4. projections' \in [Projection -> ProjectionState]
  BY DEF RegisterProjection, ProjectorTypeOK, NewState, ProjectionState
<1> QED
  BY <1>2, <1>3, <1>4 DEF RegisterProjection, ProjectorTypeOK

LEMMA QueryTypes ==
    ASSUME ProjectorTypeOK(Event), NEW p \in Projection, Query(p)
    PROVE  ProjectorTypeOK(Event)'
<1>1. projections' \in [Projection -> ProjectionState]
  <2>1. projections[p] \in ProjectionState /\ projections \in [Projection -> ProjectionState]
    BY DEF ProjectorTypeOK
  <2>2. [projections[p] EXCEPT !.qps = @ + 1] \in ProjectionState
    BY <2>1 DEF ProjectionState
  <2>3. projections' = [projections EXCEPT ![p] = [projections[p] EXCEPT !.qps = @ + 1]]
    BY DEF Query
  <2> QED
    BY <2>1, <2>2, <2>3
<1> QED
  BY <1>1 DEF Query, ProjectorTypeOK

LEMMA WorkerTypes ==
    ASSUME ProjectorTypeOK(Event), NEW w \in Worker, WorkerContinues(w) \/ WorkerEnds(w)
    PROVE  ProjectorTypeOK(Event)'
<1>1. CASE WorkerContinues(w)
  <2>1. \A v \in Worker : queue[v] \in Seq(Update(Event))
    BY DEF ProjectorTypeOK
  <2>2. \A v \in {w} : v \in Worker /\ queue[v] # <<>>
    BY <1>1 DEF WorkerContinues
  <2>3. ApplyHeads({w}, queue)
    BY <1>1 DEF WorkerContinues
  <2>4. queue' \in [Worker -> Seq(Update(Event))] /\ projections' \in [Projection -> ProjectionState]
    BY <2>1, <2>2, <2>3, ApplyHeadsTypes
  <2> QED
    BY <1>1, <2>4 DEF WorkerContinues, ProjectorTypeOK
<1>2. CASE WorkerEnds(w)
  BY <1>2 DEF WorkerEnds, ProjectorTypeOK
<1> QED
  BY <1>1, <1>2

-----------------------------------------------------------------------------
(* What a step does to the queue                                            *)

\* The queue loses its first d jobs, whose rest goes on with what it has, and
\* gets jobs of workers.  Caller x has no other job, and its new one, with
\* label l, is the last; "none" stands for no such job.
Carries(d, x, l) ==
    /\ d \in 0..1 /\ d <= Len(jobs)
    /\ jobs' \in Seq(JobRecord)
    /\ Len(jobs') >= Len(jobs) - d
    /\ \A i \in 1..(Len(jobs) - d) :
          /\ jobs'[i] = jobs[i + d]
          /\ jobs[i + d].at # "worker" =>
                /\ arg'[jobs[i + d].of] = arg[jobs[i + d].of]
                /\ local'[jobs[i + d].of] = local[jobs[i + d].of]
                /\ l # "none" => jobs[i + d].of # x
    /\ \A i \in 1..Len(jobs') : i > Len(jobs) - d =>
          jobs'[i] \in WorkerJob \/ (l # "none" /\ i = Len(jobs') /\ jobs'[i] = Job(l, x))
    /\ l # "none" => Len(jobs') > Len(jobs) - d /\ jobs'[Len(jobs')] = Job(l, x)

LEMMA QuietCarries ==
    ASSUME NEW d, NEW js \in Seq(WorkerJob), Moved(d, js), jobs \in Seq(JobRecord), NEW x,
           \A i \in 1..(Len(jobs) - d) : jobs[i + d].at # "worker" =>
              /\ arg'[jobs[i + d].of] = arg[jobs[i + d].of]
              /\ local'[jobs[i + d].of] = local[jobs[i + d].of]
    PROVE  Carries(d, x, "none")
<1>1. Len(js) \in Nat /\ Len(jobs) \in Nat /\ d \in 0..1 /\ d <= Len(jobs)
  BY LenProperties DEF Moved
<1>2. \A i \in 1..Len(js) : js[i] \in WorkerJob
  BY ElementOfSeq
<1>3. ASSUME NEW i \in 1..Len(jobs'), i > Len(jobs) - d PROVE jobs'[i] \in WorkerJob
  <2>1. PICK k : k = i - (Len(jobs) - d)
    OBVIOUS
  <2>2. k \in 1..Len(js) /\ Len(jobs) - d + k = i
    BY <1>1, <1>3, <2>1 DEF Moved
  <2> QED
    BY <1>2, <2>2 DEF Moved
<1>4. /\ jobs' \in Seq(JobRecord) /\ Len(jobs') >= Len(jobs) - d
      /\ \A i \in 1..(Len(jobs) - d) : jobs'[i] = jobs[i + d]
  BY <1>1 DEF Moved
<1> QED
  BY <1>1, <1>3, <1>4 DEF Carries

LEMMA CallCarries ==
    ASSUME NEW d, NEW js \in Seq(WorkerJob), NEW c, NEW l, Moved(d, js \o <<Job(l, c)>>),
           jobs \in Seq(JobRecord), Job(l, c) \in JobRecord,
           \A i \in 1..(Len(jobs) - d) : jobs[i + d].at # "worker" =>
              /\ arg'[jobs[i + d].of] = arg[jobs[i + d].of]
              /\ local'[jobs[i + d].of] = local[jobs[i + d].of]
              /\ jobs[i + d].of # c,
           l # "none"
    PROVE  Carries(d, c, l)
<1>0. PICK all : all = js \o <<Job(l, c)>>
  OBVIOUS
<1>1. Len(js) \in Nat /\ Len(jobs) \in Nat /\ d \in 0..1 /\ d <= Len(jobs)
  BY LenProperties DEF Moved
<1>2. \A i \in 1..Len(js) : js[i] \in WorkerJob
  BY ElementOfSeq
<1>3. js \in Seq(JobRecord) /\ <<Job(l, c)>> \in Seq(JobRecord) /\ Len(<<Job(l, c)>>) = 1
  BY JobSequences
<1>4. /\ Len(all) = Len(js) + 1
      /\ \A i \in 1..Len(js) : all[i] = js[i]
      /\ \A i \in 1..1 : all[Len(js) + i] = <<Job(l, c)>>[i]
  BY <1>0, <1>3, Concatenated
<1>5. all[Len(js) + 1] = Job(l, c)
  BY <1>4
<1>6. /\ jobs' \in Seq(JobRecord)
      /\ Len(jobs') = Len(jobs) - d + (Len(js) + 1)
      /\ \A i \in 1..(Len(jobs) - d) : jobs'[i] = jobs[i + d]
      /\ \A i \in 1..Len(all) : jobs'[Len(jobs) - d + i] = all[i]
  <2>1. Moved(d, all)
    BY <1>0
  <2> QED
    BY <1>4, <2>1 DEF Moved
<1>7. Len(js) + 1 \in 1..Len(all) /\ Len(jobs') = Len(jobs) - d + (Len(js) + 1)
  BY <1>1, <1>4, <1>6
<1>8. jobs'[Len(jobs')] = Job(l, c)
  BY <1>5, <1>6, <1>7
<1>9. ASSUME NEW i \in 1..Len(jobs'), i > Len(jobs) - d
      PROVE  jobs'[i] \in WorkerJob \/ i = Len(jobs')
  <2>1. SUFFICES ASSUME i # Len(jobs') PROVE jobs'[i] \in WorkerJob
    OBVIOUS
  <2>2. PICK k : k = i - (Len(jobs) - d)
    OBVIOUS
  <2>3. k \in 1..Len(js) /\ k \in 1..Len(all) /\ Len(jobs) - d + k = i
    <3>1. /\ i \in Nat /\ i <= Len(jobs) - d + (Len(js) + 1) /\ i # Len(jobs) - d + (Len(js) + 1)
          /\ d \in Nat /\ Len(all) = Len(js) + 1
      BY <1>1, <1>4, <1>6, <2>1
    <3>2. PICK n, m, b : n = Len(jobs) - d /\ m = Len(js) /\ b = Len(all)
      OBVIOUS
    <3>3. n \in Nat /\ m \in Nat /\ b = m + 1 /\ i \in Nat /\ i <= n + (m + 1) /\ i # n + (m + 1) /\ i > n
      BY <1>1, <1>9, <3>1, <3>2
    <3>4. k = i - n
      BY <2>2, <3>2
    <3>5. k \in 1..m /\ k \in 1..b /\ n + k = i
      BY <3>3, <3>4
    <3> QED
      BY <3>2, <3>5
  <2> QED
    BY <1>2, <1>4, <1>6, <2>3
<1>10. Len(jobs') >= Len(jobs) - d /\ Len(jobs') > Len(jobs) - d
  BY <1>1, <1>6
<1> QED
  BY <1>1, <1>6, <1>8, <1>9, <1>10 DEF Carries

LEMMA LastIsLen ==
    ASSUME TypeOK, LogGapFree, NEW a \in Aggregate
    PROVE  /\ LastSequence(a) = Len(events[a]) /\ Len(events[a]) \in Nat
           /\ \A e \in Event : e.aggregateId = a => (Accepts(e) <=> e.sequence = Len(events[a]) + 1)
<1>1. events[a] \in Seq(Event)
  BY DEF TypeOK, StoreTypeOK
<1>2. Len(events[a]) \in Nat /\ DOMAIN events[a] = 1..Len(events[a])
  BY <1>1, LenProperties
<1>3. CASE events[a] = <<>>
  BY <1>2, <1>3 DEF LastSequence, Accepts
<1>4. CASE events[a] # <<>>
  <2>1. Len(events[a]) \in 1..Len(events[a])
    BY <1>1, <1>2, <1>4, EmptySeq
  <2>2. Last(events[a]).sequence = Len(events[a])
    BY <1>2, <2>1 DEF LogGapFree, Last
  <2> QED
    BY <1>2, <1>4, <2>2 DEF LastSequence, Accepts
<1> QED
  BY <1>3, <1>4

LEMMA JobsFacts == ASSUME TypeOK PROVE jobs \in Seq(JobRecord) /\ Len(jobs) \in Nat
BY LenProperties DEF TypeOK, JobRecord

LEMMA OthersMeans ==
    ASSUME TypeOK, JobInv, OneJobInv, NEW c, NEW l, l # "worker", Len(jobs) >= 1, jobs[1] = Job(l, c)
    PROVE  \A i \in 1..(Len(jobs) - 1) : jobs[i + 1].at # "worker" =>
              jobs[i + 1].of \in Caller /\ jobs[i + 1].of # c
<1>1. ASSUME NEW i \in 1..(Len(jobs) - 1), jobs[i + 1].at # "worker"
      PROVE  jobs[i + 1].of \in Caller /\ jobs[i + 1].of # c
  <2>1. i + 1 \in 1..Len(jobs) /\ 1 \in 1..Len(jobs) /\ i + 1 # 1
    BY JobsFacts
  <2>2. jobs[1].at # "worker" /\ jobs[1].of = c
    BY DEF Job
  <2>3. jobs[i + 1].of # c
    BY <1>1, <2>1, <2>2 DEF OneJobInv
  <2> QED
    BY <1>1, <2>1, <2>3 DEF JobInv, Fits
<1> QED
  BY <1>1

\* Caller c's next step is made from its first job, with label l, and leaves
\* it one with label m.
Continues(c, l, m) ==
    Carries(1, c, m) /\ c \in Caller /\ Fits(l, c) /\ Len(jobs) >= 1 /\ jobs[1] = Job(l, c)

LEMMA RunContinues ==
    ASSUME TypeOK, JobInv, OneJobInv, NEW c \in Caller, NEW l \in Label, NEW m \in Label,
           NEW js \in Seq(WorkerJob), RunJob(Job(l, c), js \o <<Job(m, c)>>), l # "worker",
           \A y \in Caller : y # c => arg'[y] = arg[y] /\ local'[y] = local[y]
    PROVE  Continues(c, l, m)
<1>1. Job(m, c) \in JobRecord /\ js \o <<Job(m, c)>> \in Seq(JobRecord)
  BY JobTypes, JobSequences
<1>2. Moved(1, js \o <<Job(m, c)>>) /\ jobs[1] = Job(l, c) /\ Fits(l, c) /\ Len(jobs) >= 1
  BY <1>1, HeadFits
<1>3. jobs \in Seq(JobRecord) /\ Len(jobs) \in Nat
  BY LenProperties DEF TypeOK, JobRecord
<1>4. \A i \in 1..(Len(jobs) - 1) : jobs[i + 1].at # "worker" =>
        jobs[i + 1].of \in Caller /\ jobs[i + 1].of # c
  BY <1>2, OthersMeans
<1>5. m # "none"
  BY DEF Label
<1>6. Carries(1, c, m)
  BY <1>1, <1>2, <1>3, <1>4, <1>5, CallCarries
<1> QED
  BY <1>2, <1>6 DEF Continues

-----------------------------------------------------------------------------
(* The steps, as the store sees them                                        *)

\* Nothing happens to it, but that a call may end, or begin in vain.
Rests(d, x, l) ==
    /\ Carries(d, x, l)
    /\ l \in {"none", "resume", "refused"}
    /\ l # "none" => x \in Caller
    /\ l = "refused" => arg'[x] \in Event
    /\ d = 1 => jobs[1].at \in {"resume", "worker", "refused"}
    /\ UNCHANGED <<events, snapshots, actors, broadcasts>>

\* Caller c writes e, which the storage appends.
Appends(d, c, e) ==
    /\ Carries(d, c, "stored")
    /\ d = 1 => jobs[1].at = "resume"
    /\ arg'[c] = e
    /\ e.sequence = Len(events[e.aggregateId]) + 1
    /\ events' = [events EXCEPT ![e.aggregateId] = Append(@, e)]
    /\ UNCHANGED <<snapshots, actors, broadcasts>>

\* Caller c asks for a state that is not cached.
Asks(c, a) ==
    /\ Carries(0, c, "loaded")
    /\ arg'[c] = [aggregateId |-> a]
    /\ local'[c] = Len(events[a])
    /\ UNCHANGED <<events, snapshots, actors, broadcasts>>

StoreStep ==
    \/ \E d, x, l : Rests(d, x, l)
    \/ \E d \in 0..1, c \in Caller, e \in Event : Appends(d, c, e)
    \/ \E c \in Caller, a \in Aggregate : Asks(c, a)
    \/ \E c \in Caller :
          \/ Loaded(c) /\ Continues(c, "loaded", "resume")
          \/ \E js \in Seq(WorkerJob) : Stored(c, js) /\ Continues(c, "stored", "resume")
          \/ StoredSnapshotDue(c) /\ Continues(c, "stored", "copy")
          \/ Copy(c) /\ Continues(c, "copy", "written")
          \/ Written(c) /\ Continues(c, "written", "broadcast")
          \/ \E js \in Seq(WorkerJob) : SnapshotMade(c, js) /\ Continues(c, "broadcast", "resume")

\* A macrotask's code that makes no call to the store.
LEMMA ScriptRests ==
    ASSUME TypeOK, NEW js \in Seq(WorkerJob), Script(js),
           UNCHANGED <<events, snapshots, actors, arg, local, broadcasts>>
    PROVE  StoreStep
<1>1. Moved(0, js)
  BY JobsFacts, JobSequences, ScriptMoves
<1>2. Carries(0, 0, "none")
  BY <1>1, JobsFacts, QuietCarries
<1> QED
  BY <1>2 DEF Rests, StoreStep

\* A write, in a macrotask's code or when its caller goes on.
LEMMA WriteSteps ==
    ASSUME TypeOK, LogGapFree, NEW c \in Caller, NEW e \in Event, NEW d,
           Moved(d, <<Job(Awaits(e), c)>>), WriteEvent(c, e),
           d = 1 => jobs[1].at = "resume",
           \A i \in 1..(Len(jobs) - d) : jobs[i + d].at # "worker" =>
              jobs[i + d].of \in Caller /\ jobs[i + d].of # c
    PROVE  StoreStep
<1>1. Awaits(e) \in {"resume", "stored", "refused"} /\ Awaits(e) \in Label
  BY DEF Awaits, Label
<1>2. Job(Awaits(e), c) \in JobRecord
  BY <1>1, JobTypes
<1>3. arg' = [arg EXCEPT ![c] = e] /\ arg \in [Caller -> Event \cup Question \cup {NoEvent}]
  BY DEF WriteEvent, TypeOK, StoreTypeOK
<1>4. \A i \in 1..(Len(jobs) - d) : jobs[i + d].at # "worker" =>
        /\ arg'[jobs[i + d].of] = arg[jobs[i + d].of]
        /\ local'[jobs[i + d].of] = local[jobs[i + d].of]
        /\ jobs[i + d].of # c
  BY <1>3 DEF WriteEvent
<1>5. <<>> \in Seq(WorkerJob) /\ <<>> \o <<Job(Awaits(e), c)>> = <<Job(Awaits(e), c)>>
  BY <1>2, JobSequences, ConcatEmptySeq
<1>6. Carries(d, c, Awaits(e))
  BY <1>1, <1>2, <1>4, <1>5, JobsFacts, CallCarries
<1>7. arg'[c] = e
  BY <1>3
<1>8. CASE running /\ Accepts(e)
  <2>1. e.aggregateId \in Aggregate
    BY DEF Event
  <2>2. e.sequence = Len(events[e.aggregateId]) + 1
    BY <1>8, <2>1, LastIsLen
  <2>3. Awaits(e) = "stored"
    BY <1>8 DEF Awaits
  <2>4. events' = [events EXCEPT ![e.aggregateId] = Append(@, e)]
        /\ UNCHANGED <<snapshots, actors, broadcasts>>
    BY <1>8 DEF WriteEvent
  <2>5. Appends(d, c, e) /\ d \in 0..1
    BY <1>6, <1>7, <2>2, <2>3, <2>4 DEF Appends, Carries
  <2> QED
    BY <2>5 DEF StoreStep
<1>9. CASE ~(running /\ Accepts(e))
  <2>1. Awaits(e) \in {"resume", "refused"}
    BY <1>9 DEF Awaits
  <2>2. UNCHANGED <<events, snapshots, actors, broadcasts>>
    BY <1>9 DEF WriteEvent
  <2>3. Rests(d, c, Awaits(e))
    BY <1>6, <1>7, <2>1, <2>2 DEF Rests
  <2> QED
    BY <2>3 DEF StoreStep
<1> QED
  BY <1>8, <1>9

LEMMA IdleMeans ==
    ASSUME TypeOK, JobInv, NEW c, Idle(c)
    PROVE  \A i \in 1..(Len(jobs) - 0) : jobs[i + 0].at # "worker" =>
              jobs[i + 0].of \in Caller /\ jobs[i + 0].of # c
<1>1. DOMAIN jobs = 1..Len(jobs) /\ Len(jobs) \in Nat
  BY JobsFacts, LenProperties
<1>2. \A i \in 1..Len(jobs) : jobs[i].of # c /\ (jobs[i].at # "worker" => jobs[i].of \in Caller)
  BY <1>1 DEF Idle, JobInv, Fits
<1> QED
  BY <1>1, <1>2

LEMMA AskActorSteps ==
    ASSUME TypeOK, LogGapFree, JobInv, NEW c \in Caller, NEW a \in Aggregate, AskActor(c, a)
    PROVE  StoreStep
<1> DEFINE l == ActorAwaits(a)
<1>1. l \in {"resume", "loaded"} /\ l \in Label
  BY DEF ActorAwaits, Label
<1>2. Job(l, c) \in JobRecord /\ <<Job(l, c)>> \in Seq(JobRecord) /\ l # "none"
  BY <1>1, JobTypes, JobSequences
<1>3. Idle(c) /\ Script(<<Job(l, c)>>) /\ GetActorState(c, a)
  BY DEF AskActor
<1> HIDE DEF l
<1>4. Moved(0, <<Job(l, c)>>)
  BY <1>2, <1>3, JobsFacts, ScriptMoves
<1>5. \A y \in Caller : y # c => arg'[y] = arg[y] /\ local'[y] = local[y]
  BY <1>3 DEF GetActorState, TypeOK, StoreTypeOK
<1>6. \A i \in 1..(Len(jobs) - 0) : jobs[i + 0].at # "worker" =>
        /\ arg'[jobs[i + 0].of] = arg[jobs[i + 0].of]
        /\ local'[jobs[i + 0].of] = local[jobs[i + 0].of]
        /\ jobs[i + 0].of # c
  BY <1>3, <1>5, IdleMeans
<1>7. <<>> \in Seq(WorkerJob) /\ <<>> \o <<Job(l, c)>> = <<Job(l, c)>>
  BY <1>2, JobSequences, ConcatEmptySeq
<1>8. Carries(0, c, l)
  BY <1>2, <1>4, <1>6, <1>7, JobsFacts, CallCarries
<1>9. /\ arg'[c] = [aggregateId |-> a] /\ local'[c] = Len(events[a])
      /\ UNCHANGED <<events, snapshots, actors, broadcasts>>
  BY <1>3, LastIsLen DEF GetActorState, TypeOK, StoreTypeOK
<1>10. CASE l = "loaded"
  <2>1. Asks(c, a)
    BY <1>8, <1>9, <1>10 DEF Asks
  <2> QED
    BY <2>1 DEF StoreStep
<1>11. CASE l = "resume"
  <2>1. Rests(0, c, l)
    BY <1>8, <1>9, <1>11 DEF Rests
  <2> QED
    BY <2>1 DEF StoreStep
<1> QED
  BY <1>1, <1>10, <1>11

\* A caller's job that is not a step of a call to the store.
LEMMA ResumeSteps ==
    ASSUME TypeOK, LogGapFree, JobInv, OneJobInv, NEW c \in Caller,
           Resume(c) \/ \E e \in Submitted : ResumeAndWrite(c, e)
    PROVE  StoreStep
<1>1. CASE Resume(c)
  <2>1. <<>> \in Seq(WorkerJob) /\ <<>> \in Seq(JobRecord)
    BY JobSequences
  <2>2. Moved(1, <<>>) /\ jobs[1] = Job("resume", c) /\ Len(jobs) >= 1
    BY <1>1, <2>1, HeadFits DEF Resume
  <2>3. \A i \in 1..(Len(jobs) - 1) : jobs[i + 1].at # "worker" =>
          jobs[i + 1].of \in Caller /\ jobs[i + 1].of # c
    BY <2>2, OthersMeans
  <2>4. /\ arg' = [arg EXCEPT ![c] = NoEvent] /\ local' = local
        /\ UNCHANGED <<events, snapshots, actors, broadcasts>>
    BY <1>1 DEF Resume
  <2>5. \A i \in 1..(Len(jobs) - 1) : jobs[i + 1].at # "worker" =>
          /\ arg'[jobs[i + 1].of] = arg[jobs[i + 1].of]
          /\ local'[jobs[i + 1].of] = local[jobs[i + 1].of]
    BY <2>3, <2>4 DEF TypeOK, StoreTypeOK
  <2>6. Carries(1, c, "none")
    BY <2>1, <2>2, <2>5, JobsFacts, QuietCarries
  <2>7. Rests(1, c, "none")
    BY <2>2, <2>4, <2>6 DEF Rests, Job
  <2> QED
    BY <2>7 DEF StoreStep
<1>2. ASSUME NEW e \in Submitted, ResumeAndWrite(c, e) PROVE StoreStep
  <2>1. e \in Event
    BY NodeServerAssumption
  <2>2. Awaits(e) \in Label
    BY DEF Awaits, Label
  <2>3. <<Job(Awaits(e), c)>> \in Seq(JobRecord)
    BY <2>2, JobTypes, JobSequences
  <2>4. RunJob(Job("resume", c), <<Job(Awaits(e), c)>>) /\ WriteEvent(c, e)
    BY <1>2 DEF ResumeAndWrite
  <2>5. Moved(1, <<Job(Awaits(e), c)>>) /\ jobs[1] = Job("resume", c) /\ Len(jobs) >= 1
    BY <2>3, <2>4, HeadFits
  <2>6. \A i \in 1..(Len(jobs) - 1) : jobs[i + 1].at # "worker" =>
          jobs[i + 1].of \in Caller /\ jobs[i + 1].of # c
    BY <2>5, OthersMeans
  <2>7. jobs[1].at = "resume"
    BY <2>5 DEF Job
  <2> QED
    BY <2>1, <2>4, <2>5, <2>6, <2>7, WriteSteps
<1> QED
  BY <1>1, <1>2

\* A step of a call that leaves jobs of workers and one of its own.
LEMMA CallSteps ==
    ASSUME TypeOK, JobInv, OneJobInv, NEW c \in Caller, BroadcastStep(c) \/ CallStep(c)
    PROVE  StoreStep
<1> DEFINE woken == Woken(arg[c])
<1>1. \A l, m \in Label : Job(m, c) \in JobRecord /\ <<>> \o <<Job(m, c)>> = <<Job(m, c)>>
  BY JobTypes, JobSequences, ConcatEmptySeq
<1>2. <<>> \in Seq(WorkerJob)
  BY JobSequences
<1>3. {"stored", "refused", "copy", "written", "broadcast", "loaded", "resume"} \subseteq Label
  BY DEF Label
<1>4. ASSUME NEW l \in Label, NEW m \in Label, RunJob(Job(l, c), <<Job(m, c)>>), l # "worker",
             \A y \in Caller : y # c => arg'[y] = arg[y] /\ local'[y] = local[y]
      PROVE  Continues(c, l, m)
  BY <1>1, <1>2, <1>4, RunContinues
<1>5. CASE BroadcastStep(c)
  <2>1. Stored(c, woken) \/ SnapshotMade(c, woken)
    BY <1>5 DEF BroadcastStep
  <2>2. arg' = arg /\ local' = local
    BY <2>1 DEF Stored, SnapshotMade
  <2>3. jobs # <<>> /\ Head(jobs) \in {Job("stored", c), Job("broadcast", c)}
    BY <2>1 DEF Stored, SnapshotMade, RunJob
  <2>4. 1 \in 1..Len(jobs) /\ Head(jobs) = jobs[1]
    BY <2>3, JobsFacts, EmptySeq
  <2>5. arg[c] \in Event
    BY <2>3, <2>4 DEF JobInv, Fits, Job, Snapshotting
  <2>6. woken \in Seq(WorkerJob)
    BY <2>5, WokenIs DEF TypeOK, ProjectorTypeOK
  <2> HIDE DEF woken
  <2>7. CASE Stored(c, woken)
    <3>1. RunJob(Job("stored", c), woken \o <<Job("resume", c)>>)
      BY <2>7 DEF Stored
    <3>2. Continues(c, "stored", "resume")
      BY <1>3, <2>2, <2>6, <3>1, RunContinues
    <3> QED
      BY <2>6, <2>7, <3>2 DEF StoreStep
  <2>8. CASE SnapshotMade(c, woken)
    <3>1. RunJob(Job("broadcast", c), woken \o <<Job("resume", c)>>)
      BY <2>8 DEF SnapshotMade
    <3>2. Continues(c, "broadcast", "resume")
      BY <1>3, <2>2, <2>6, <3>1, RunContinues
    <3> QED
      BY <2>6, <2>8, <3>2 DEF StoreStep
  <2> QED
    BY <2>1, <2>7, <2>8
<1>6. CASE StoredSnapshotDue(c)
  <2>1. RunJob(Job("stored", c), <<Job("copy", c)>>) /\ \A y \in Caller : y # c => arg'[y] = arg[y] /\ local'[y] = local[y]
    BY <1>6 DEF StoredSnapshotDue, TypeOK, StoreTypeOK
  <2> QED
    BY <1>3, <1>4, <1>6, <2>1 DEF StoreStep
<1>7. CASE Refused(c)
  <2>1. RunJob(Job("refused", c), <<Job("resume", c)>>) /\ arg' = arg /\ local' = local
        /\ UNCHANGED <<events, snapshots, actors, broadcasts>>
    BY <1>7 DEF Refused
  <2>2. Continues(c, "refused", "resume")
    BY <1>3, <1>4, <2>1
  <2>3. Rests(1, c, "resume")
    BY <2>1, <2>2 DEF Continues, Rests, Job
  <2> QED
    BY <2>3 DEF StoreStep
<1>8. CASE Copy(c)
  <2>1. RunJob(Job("copy", c), <<Job("written", c)>>) /\ \A y \in Caller : y # c => arg'[y] = arg[y] /\ local'[y] = local[y]
    BY <1>8 DEF Copy, TypeOK, StoreTypeOK
  <2> QED
    BY <1>3, <1>4, <1>8, <2>1 DEF StoreStep
<1>9. CASE Written(c)
  <2>1. RunJob(Job("written", c), <<Job("broadcast", c)>>) /\ arg' = arg /\ local' = local
    BY <1>9 DEF Written, storeVars
  <2> QED
    BY <1>3, <1>4, <1>9, <2>1 DEF StoreStep
<1>10. CASE Loaded(c)
  <2>1. RunJob(Job("loaded", c), <<Job("resume", c)>>) /\ \A y \in Caller : y # c => arg'[y] = arg[y] /\ local'[y] = local[y]
    BY <1>10 DEF Loaded, TypeOK, StoreTypeOK
  <2> QED
    BY <1>3, <1>4, <1>10, <2>1 DEF StoreStep
<1> QED
  BY <1>5, <1>6, <1>7, <1>8, <1>9, <1>10 DEF CallStep

\* A worker's step leaves its own job, or none.
LEMMA WorkerSteps ==
    ASSUME TypeOK, JobInv, NEW w \in Worker, WorkerStep(w)
    PROVE  StoreStep
<1>1. PICK js \in Seq(WorkerJob) : RunJob(Job("worker", w), js)
  <2>1. Job("worker", w) \in WorkerJob /\ <<>> \in Seq(WorkerJob)
    BY JobTypes, JobSequences
  <2>2. <<Job("worker", w)>> \in Seq(WorkerJob)
    BY <2>1
  <2> QED
    BY <2>1, <2>2 DEF WorkerStep, WorkerContinues, WorkerEnds
<1>2. js \in Seq(JobRecord)
  BY JobSequences
<1>3. Moved(1, js) /\ jobs[1] = Job("worker", w)
  BY <1>1, <1>2, HeadFits
<1>4. UNCHANGED <<events, snapshots, actors, arg, local, broadcasts>>
  BY DEF WorkerStep, storeVars
<1>5. Carries(1, w, "none")
  BY <1>3, <1>4, JobsFacts, QuietCarries
<1>6. Rests(1, w, "none")
  BY <1>3, <1>4, <1>5 DEF Rests, Job
<1> QED
  BY <1>6 DEF StoreStep

LEMMA StoreSteps == ASSUME StoreInv, [Next]_vars PROVE StoreStep
<1>1. TypeOK /\ JobInv /\ OneJobInv /\ LogGapFree
  BY DEF StoreInv
<1>2. <<>> \in Seq(WorkerJob) /\ LeftoverJobs \in Seq(WorkerJob)
  BY JobSequences, LeftoverJobsIs
<1>3. CASE Start \/ Stop \/ \E p \in Projection : Register(p) \/ AskProjection(p)
  <2>1. \E js \in Seq(WorkerJob) : Script(js)
    BY <1>2, <1>3 DEF Start, Stop, Register, AskProjection
  <2>2. UNCHANGED <<events, snapshots, actors, arg, local, broadcasts>>
    BY <1>3 DEF Start, Stop, Register, AskProjection, StoreStart, StoreStop, storeVars
  <2> QED
    BY <1>1, <2>1, <2>2, ScriptRests
<1>4. ASSUME NEW c \in Caller, NEW e \in Submitted, Write(c, e) PROVE StoreStep
  <2>1. e \in Event
    BY NodeServerAssumption
  <2>2. Awaits(e) \in Label
    BY DEF Awaits, Label
  <2>3. <<Job(Awaits(e), c)>> \in Seq(JobRecord)
    BY <2>2, JobTypes, JobSequences
  <2>4. Idle(c) /\ Script(<<Job(Awaits(e), c)>>) /\ WriteEvent(c, e)
    BY <1>4 DEF Write
  <2>5. Moved(0, <<Job(Awaits(e), c)>>)
    BY <1>1, <2>3, <2>4, JobsFacts, ScriptMoves
  <2>6. \A i \in 1..(Len(jobs) - 0) : jobs[i + 0].at # "worker" =>
          jobs[i + 0].of \in Caller /\ jobs[i + 0].of # c
    BY <1>1, <2>4, IdleMeans
  <2> QED
    BY <1>1, <2>1, <2>4, <2>5, <2>6, WriteSteps
<1>5. ASSUME NEW c \in Caller, NEW a \in Aggregate, AskActor(c, a) PROVE StoreStep
  BY <1>1, <1>5, AskActorSteps
<1>6. CASE JobStep
  BY <1>1, <1>6, ResumeSteps, CallSteps, WorkerSteps DEF JobStep
<1>7. CASE UNCHANGED vars
  <2>1. UNCHANGED <<jobs, events, snapshots, actors, arg, local, broadcasts>>
    BY <1>7 DEF vars, loopVars, storeVars
  <2>2. Len(<<>>) = 0 /\ Len(jobs) \in Nat /\ jobs \in Seq(JobRecord)
    BY <1>1, JobsFacts
  <2>3. Moved(0, <<>>)
    BY <2>1, <2>2 DEF Moved
  <2>4. Carries(0, 0, "none")
    BY <1>2, <2>1, <2>2, <2>3, QuietCarries
  <2> QED
    BY <2>1, <2>4 DEF Rests, StoreStep
<1> QED
  BY <1>3, <1>4, <1>5, <1>6, <1>7 DEF Next, ScriptStep

-----------------------------------------------------------------------------
(* Type correctness                                                         *)

\* A caller whose job is next, and what it was called with.
LEMMA NextCaller ==
    ASSUME TypeOK, JobInv, NEW c, NEW l, NEW js, RunJob(Job(l, c), js)
    PROVE  Fits(l, c) /\ Len(jobs) >= 1 /\ jobs[1] = Job(l, c)
<1>1. jobs # <<>> /\ Head(jobs) = Job(l, c)
  BY DEF RunJob
<1>2. 1 \in 1..Len(jobs) /\ Head(jobs) = jobs[1]
  BY <1>1, JobsFacts, EmptySeq
<1> QED
  BY <1>1, <1>2, JobsFacts DEF JobInv, Job

LEMMA WriteTypes ==
    ASSUME StoreTypeOK, NEW c \in Caller, NEW e \in Event, WriteEvent(c, e)
    PROVE  StoreTypeOK'
<1>1. e.aggregateId \in Aggregate
  BY DEF Event
<1>2. events' \in [Aggregate -> Seq(Event)]
  BY <1>1, AppendProperties DEF StoreTypeOK, WriteEvent
<1>3. arg' \in [Caller -> Event \cup Question \cup {NoEvent}]
  BY DEF StoreTypeOK, WriteEvent
<1>4. outcome' \in [Caller -> {"none", "pending", "ok", "failed"}]
  BY DEF StoreTypeOK, WriteEvent
<1> QED
  BY <1>2, <1>3, <1>4 DEF StoreTypeOK, WriteEvent

LEMMA CacheEventTypes ==
    ASSUME StoreTypeOK, NEW c, arg[c] \in Event, CacheEvent(c)
    PROVE  /\ actors' \in [Aggregate -> Seq(Nat)]
           /\ \A a \in Aggregate : a # arg[c].aggregateId => actors'[a] = actors[a]
           /\ LET a == arg[c].aggregateId
                  n == Len(actors[a])
                  m == Len(actors'[a])
              IN  /\ m = IF n = 0 THEN 1 ELSE n
                  /\ actors'[a][m] = arg[c].sequence
                  /\ \A k \in 1..n : k # m => actors'[a][k] = actors[a][k]
<1>1. PICK a, s : a = arg[c].aggregateId /\ s = arg[c].sequence
  OBVIOUS
<1>2. a \in Aggregate /\ s \in Nat
  BY <1>1 DEF Event
<1>3. actors[a] \in Seq(Nat) /\ Len(actors[a]) \in Nat
  BY <1>2, LenProperties DEF StoreTypeOK
<1>4. actors' = [actors EXCEPT ![a] = IF actors[a] = <<>> THEN <<s>> ELSE Append(Front(actors[a]), s)]
  BY <1>1 DEF CacheEvent
<1>5. CASE actors[a] = <<>>
  <2>1. <<s>> \in Seq(Nat) /\ Len(<<s>>) = 1 /\ <<s>>[1] = s /\ Len(actors[a]) = 0
    BY <1>2, <1>5
  <2>2. actors'[a] = <<s>> /\ actors' \in [Aggregate -> Seq(Nat)]
        /\ \A b \in Aggregate : b # a => actors'[b] = actors[b]
    BY <1>2, <1>4, <1>5, <2>1 DEF StoreTypeOK
  <2> QED
    BY <1>1, <2>1, <2>2
<1>6. CASE actors[a] # <<>>
  <2>1. Len(actors[a]) \in Nat \ {0}
    BY <1>3, <1>6, EmptySeq
  <2> DEFINE n == Len(actors[a])
             f == Front(actors[a])
  <2>2. f = SubSeq(actors[a], 1, n - 1)
    BY DEF Front
  <2>3. \A i \in 1..(n - 1) : actors[a][i] \in Nat
    BY <1>3, <2>1, ElementOfSeq
  <2>4. f \in Seq(Nat) /\ Len(f) = n - 1 /\ \A i \in 1..(n - 1) : f[i] = actors[a][i]
    BY <2>1, <2>2, <2>3, SubSeqProperties
  <2> HIDE DEF f
  <2>5. /\ Append(f, s) \in Seq(Nat) /\ Len(Append(f, s)) = n - 1 + 1
        /\ \A i \in 1..(n - 1) : Append(f, s)[i] = f[i]
        /\ Append(f, s)[n - 1 + 1] = s
    BY <1>2, <2>4, AppendProperties
  <2>6. actors'[a] = Append(f, s) /\ actors' \in [Aggregate -> Seq(Nat)]
        /\ \A b \in Aggregate : b # a => actors'[b] = actors[b]
    BY <1>2, <1>4, <1>6, <2>5 DEF StoreTypeOK, f
  <2>7. n - 1 + 1 = n
    BY <2>1
  <2> QED
    BY <1>1, <2>1, <2>4, <2>5, <2>6, <2>7
<1> QED
  BY <1>5, <1>6

LEMMA BroadcastTypes ==
    ASSUME StoreTypeOK, NEW c \in Caller, arg[c] \in Event, Broadcast(c)
    PROVE  broadcasts' \in Seq(Event) /\ outcome' \in [Caller -> {"none", "pending", "ok", "failed"}]
BY AppendProperties DEF StoreTypeOK, Broadcast

LEMMA StoreTypes == ASSUME StoreInv, [Next]_vars PROVE StoreTypeOK'
<1>1. TypeOK /\ StoreTypeOK /\ JobInv /\ CopyInv /\ LogGapFree
  BY DEF StoreInv, TypeOK
<1>2. CASE Start \/ Stop \/ \E p \in Projection : Register(p) \/ AskProjection(p)
  BY <1>1, <1>2 DEF Start, Stop, Register, AskProjection, StoreStart, StoreStop, storeVars, StoreTypeOK
<1>3. ASSUME NEW c \in Caller, NEW e \in Submitted, Write(c, e) \/ ResumeAndWrite(c, e)
      PROVE  StoreTypeOK'
  <2>1. e \in Event
    BY NodeServerAssumption
  <2> QED
    BY <1>1, <1>3, <2>1, WriteTypes DEF Write, ResumeAndWrite
<1>4. ASSUME NEW c \in Caller, NEW a \in Aggregate, AskActor(c, a) PROVE StoreTypeOK'
  <2>1. LastSequence(a) \in Nat
    BY <1>1, LastIsLen
  <2>2. [aggregateId |-> a] \in Question
    BY DEF Question
  <2> QED
    BY <1>1, <1>4, <2>1, <2>2 DEF AskActor, GetActorState, StoreTypeOK
<1>5. ASSUME NEW c \in Caller PROVE Resume(c) => StoreTypeOK'
  BY <1>1 DEF Resume, StoreTypeOK
<1>6. ASSUME NEW c \in Caller, BroadcastStep(c) PROVE StoreTypeOK'
  <2>1. Broadcast(c) /\ UNCHANGED <<running, events, snapshots, arg, local>>
        /\ (CacheEvent(c) \/ actors' = actors)
    BY <1>6 DEF BroadcastStep, Stored, SnapshotMade
  <2>2. arg[c] \in Event
    BY <1>1, <1>6, NextCaller DEF BroadcastStep, Stored, SnapshotMade, Fits, Snapshotting
  <2>3. actors' \in [Aggregate -> Seq(Nat)]
    BY <1>1, <2>1, <2>2, CacheEventTypes DEF StoreTypeOK
  <2>4. broadcasts' \in Seq(Event) /\ outcome' \in [Caller -> {"none", "pending", "ok", "failed"}]
    BY <1>1, <2>1, <2>2, BroadcastTypes
  <2> QED
    BY <1>1, <2>1, <2>3, <2>4 DEF StoreTypeOK
<1>7. ASSUME NEW c \in Caller, StoredSnapshotDue(c) PROVE StoreTypeOK'
  <2>1. arg[c] \in Event
    BY <1>1, <1>7, NextCaller DEF StoredSnapshotDue, Fits
  <2>2. actors' \in [Aggregate -> Seq(Nat)]
    BY <1>1, <1>7, <2>1, CacheEventTypes DEF StoredSnapshotDue
  <2>3. Len(actors'[arg[c].aggregateId]) \in Nat
    BY <2>1, <2>2, LenProperties DEF Event
  <2>4. local' \in [Caller -> Nat]
    BY <1>1, <1>7, <2>3 DEF StoredSnapshotDue, StoreTypeOK
  <2> QED
    BY <1>1, <1>7, <2>2, <2>4 DEF StoredSnapshotDue, StoreTypeOK
<1>8. ASSUME NEW c \in Caller, Refused(c) \/ Written(c) PROVE StoreTypeOK'
  BY <1>1, <1>8 DEF Refused, Written, storeVars, StoreTypeOK
<1>9. ASSUME NEW c \in Caller, Copy(c) PROVE StoreTypeOK'
  <2>1. jobs[1] = Job("copy", c) /\ 1 \in 1..Len(jobs) /\ arg[c] \in Event
    BY <1>1, <1>9, NextCaller, JobsFacts DEF Copy, Fits, Snapshotting
  <2>2. PICK a : a = arg[c].aggregateId
    OBVIOUS
  <2>3. a \in Aggregate /\ arg[c].sequence \in Nat
    BY <2>1, <2>2 DEF Event
  <2>4. local[c] \in 1..Len(actors[a])
    BY <1>1, <2>1, <2>2 DEF CopyInv, Arg, Job
  <2>5. actors[a][local[c]] \in Nat
    BY <1>1, <2>3, <2>4, ElementOfSeq DEF StoreTypeOK
  <2>6. snapshots' = [snapshots EXCEPT ![a] =
           [sequence |-> arg[c].sequence, lastSequence |-> actors[a][local[c]]]]
    BY <1>9, <2>2 DEF Copy
  <2>7. snapshots' \in [Aggregate -> [sequence : Nat, lastSequence : Nat]]
    BY <1>1, <2>3, <2>5, <2>6 DEF StoreTypeOK
  <2> QED
    BY <1>1, <1>9, <2>7 DEF Copy, StoreTypeOK
<1>10. ASSUME NEW c \in Caller, Loaded(c) PROVE StoreTypeOK'
  <2>1. arg[c].aggregateId \in Aggregate
    BY <1>1, <1>10, NextCaller DEF Loaded, Fits, Question
  <2>2. actors' \in [Aggregate -> Seq(Nat)]
    BY <1>1, <1>10, <2>1, AppendProperties DEF Loaded, StoreTypeOK
  <2> QED
    BY <1>1, <1>10, <2>2 DEF Loaded, StoreTypeOK
<1>11. ASSUME NEW w \in Worker, WorkerStep(w) PROVE StoreTypeOK'
  BY <1>1, <1>11 DEF WorkerStep, storeVars, StoreTypeOK
<1>12. CASE UNCHANGED vars
  BY <1>1, <1>12 DEF vars, storeVars, StoreTypeOK
<1> QED
  BY <1>2, <1>3, <1>4, <1>5, <1>6, <1>7, <1>8, <1>9, <1>10, <1>11, <1>12
     DEF Next, ScriptStep, JobStep, CallStep

LEMMA ProjectorTypes == ASSUME StoreInv, [Next]_vars PROVE ProjectorTypeOK(Event)'
<1>1. TypeOK /\ ProjectorTypeOK(Event) /\ JobInv
  BY DEF StoreInv, TypeOK
<1>2. CASE Start
  BY <1>1, <1>2, EngineStartTypes DEF Start
<1>3. CASE Stop
  BY <1>1, <1>3 DEF Stop, EngineStop, ProjectorTypeOK
<1>4. ASSUME NEW p \in Projection, Register(p) \/ AskProjection(p) PROVE ProjectorTypeOK(Event)'
  BY <1>1, <1>4, RegisterTypes, QueryTypes DEF Register, AskProjection
<1>5. ASSUME NEW c \in Caller, BroadcastStep(c) PROVE ProjectorTypeOK(Event)'
  <2>1. arg[c] \in Event
    BY <1>1, <1>5, NextCaller DEF BroadcastStep, Stored, SnapshotMade, Fits, Snapshotting
  <2> QED
    BY <1>1, <1>5, <2>1, RouteEventTypes DEF BroadcastStep
<1>6. ASSUME NEW w \in Worker, WorkerStep(w) PROVE ProjectorTypeOK(Event)'
  BY <1>1, <1>6, WorkerTypes DEF WorkerStep
<1>7. ASSUME UNCHANGED projectorVars PROVE ProjectorTypeOK(Event)'
  BY <1>1, <1>7 DEF projectorVars, ProjectorTypeOK
<1>8. ASSUME NEW c \in Caller,
             \/ CallStep(c) \/ Resume(c)
             \/ \E e \in Submitted : Write(c, e) \/ ResumeAndWrite(c, e)
             \/ \E a \in Aggregate : AskActor(c, a)
      PROVE  UNCHANGED projectorVars
  BY <1>8 DEF CallStep, Resume, Write, ResumeAndWrite, AskActor
<1>9. CASE UNCHANGED vars
  BY <1>7, <1>9 DEF vars
<1> QED
  BY <1>2, <1>3, <1>4, <1>5, <1>6, <1>7, <1>8, <1>9 DEF Next, ScriptStep, JobStep

LEMMA TypeStep == ASSUME StoreInv, [Next]_vars PROVE TypeOK'
<1>1. TypeOK
  BY DEF StoreInv
<1>2. jobs' \in Seq(JobRecord)
  BY StoreSteps DEF StoreStep, Rests, Appends, Asks, Continues, Carries
<1>3. started' \in BOOLEAN
  BY <1>1 DEF TypeOK, Next, ScriptStep, JobStep, Start, Stop, Register, AskProjection, Write, AskActor,
     Resume, ResumeAndWrite, BroadcastStep, CallStep, WorkerStep, vars
<1>4. turn' \in {"script", "drain"}
  <2>1. \A js : Script(js) => turn' = turn
    BY DEF Script
  <2>2. \A job, js : RunJob(job, js) => turn' \in {"script", "drain"}
    BY DEF RunJob
  <2>3. UNCHANGED vars => turn' = turn
    BY DEF vars, loopVars
  <2>4. CASE ScriptStep
    BY <1>1, <2>1, <2>4 DEF TypeOK, ScriptStep, Start, Stop, Register, AskProjection, Write, AskActor
  <2>5. CASE JobStep
    BY <2>2, <2>5 DEF JobStep, Resume, ResumeAndWrite, BroadcastStep, CallStep, WorkerStep, Stored,
       SnapshotMade, StoredSnapshotDue, Refused, Copy, Written, Loaded, WorkerContinues, WorkerEnds
  <2> QED
    BY <1>1, <2>3, <2>4, <2>5 DEF TypeOK, Next
<1> QED
  BY <1>2, <1>3, <1>4, StoreTypes, ProjectorTypes DEF TypeOK, JobRecord

-----------------------------------------------------------------------------
(* The jobs after a step                                                    *)

LEMMA OldJob ==
    ASSUME NEW d, NEW x, NEW l, Carries(d, x, l), NEW i \in 1..(Len(jobs) - d)
    PROVE  /\ jobs'[i] = jobs[i + d]
           /\ jobs[i + d].at # "worker" =>
                 /\ Arg(i)' = Arg(i + d)
                 /\ local'[jobs'[i].of] = local[jobs[i + d].of]
                 /\ l # "none" => jobs[i + d].of # x
           /\ \A a : /\ StoredAt(i, a)' <=> StoredAt(i + d, a)
                     /\ LoadedAt(i, a)' <=> LoadedAt(i + d, a)
                     /\ SnapshotAt(i, a)' <=> SnapshotAt(i + d, a)
<1>1. /\ jobs'[i] = jobs[i + d]
      /\ jobs[i + d].at # "worker" =>
            /\ arg'[jobs[i + d].of] = arg[jobs[i + d].of]
            /\ local'[jobs[i + d].of] = local[jobs[i + d].of]
            /\ l # "none" => jobs[i + d].of # x
  BY DEF Carries
<1>2. jobs[i + d].at # "worker" => Arg(i)' = Arg(i + d)
  BY <1>1 DEF Arg
<1> QED
  BY <1>1, <1>2 DEF StoredAt, LoadedAt, SnapshotAt, Snapshotting

LEMMA NewJob ==
    ASSUME NEW d, NEW x, NEW l, Carries(d, x, l), NEW i \in 1..Len(jobs'), i > Len(jobs) - d
    PROVE  \/ jobs'[i].at = "worker" /\ jobs'[i].of \in Worker
           \/ l # "none" /\ i = Len(jobs') /\ jobs'[i].at = l /\ jobs'[i].of = x
<1>1. jobs'[i] \in WorkerJob \/ (l # "none" /\ i = Len(jobs') /\ jobs'[i] = Job(l, x))
  BY DEF Carries
<1> QED
  BY <1>1 DEF WorkerJob, Job

LEMMA PlaceOf ==
    ASSUME TypeOK, NEW d, NEW x, NEW l, Carries(d, x, l), NEW i \in 1..Len(jobs')
    PROVE  /\ d \in 0..1 /\ d <= Len(jobs) /\ Len(jobs) \in Nat /\ Len(jobs') \in Nat
           /\ i \in 1..(Len(jobs) - d) \/ i > Len(jobs) - d
           /\ i \in 1..(Len(jobs) - d) => i + d \in 1..Len(jobs)
<1>1. d \in 0..1 /\ d <= Len(jobs) /\ jobs' \in Seq(JobRecord) /\ Len(jobs) \in Nat
  BY JobsFacts DEF Carries
<1>2. Len(jobs') \in Nat
  BY <1>1, LenProperties
<1> QED
  BY <1>1, <1>2

\* The logs only grow.
LEMMA LogsGrow ==
    ASSUME TypeOK, StoreStep, NEW a \in Aggregate
    PROVE  Len(events[a]) \in Nat /\ Len(events'[a]) \in Nat /\ Len(events'[a]) >= Len(events[a])
<1>1. events \in [Aggregate -> Seq(Event)] /\ events[a] \in Seq(Event) /\ Len(events[a]) \in Nat
  BY LenProperties DEF TypeOK, StoreTypeOK
<1>2. CASE events' = events
  BY <1>1, <1>2
<1>3. ASSUME NEW e \in Event, events' = [events EXCEPT ![e.aggregateId] = Append(@, e)]
      PROVE  Len(events'[a]) \in Nat /\ Len(events'[a]) >= Len(events[a])
  <2>1. Len(Append(events[a], e)) = Len(events[a]) + 1
    BY <1>1, AppendProperties
  <2>2. events'[a] = events[a] \/ events'[a] = Append(events[a], e)
    BY <1>1, <1>3
  <2> QED
    BY <1>1, <2>1, <2>2
<1>4. events' = events \/ \E e \in Event : events' = [events EXCEPT ![e.aggregateId] = Append(@, e)]
  BY DEF StoreStep, Rests, Appends, Asks, Loaded, Stored, StoredSnapshotDue, Copy, Written,
     SnapshotMade, storeVars
<1> QED
  BY <1>1, <1>2, <1>3, <1>4

LEMMA GapFreeStep == ASSUME StoreInv, StoreStep PROVE LogGapFree'
<1>1. TypeOK /\ LogGapFree
  BY DEF StoreInv
<1>2. CASE events' = events
  BY <1>1, <1>2 DEF LogGapFree
<1>3. ASSUME NEW d, NEW c, NEW e \in Event, Appends(d, c, e) PROVE LogGapFree'
  <2>1. SUFFICES ASSUME NEW a \in Aggregate, NEW i \in DOMAIN events'[a]
                 PROVE  events'[a][i].sequence = i
    BY DEF LogGapFree
  <2>2. events \in [Aggregate -> Seq(Event)] /\ events[a] \in Seq(Event) /\ Len(events[a]) \in Nat
        /\ DOMAIN events[a] = 1..Len(events[a])
    BY <1>1, LenProperties DEF TypeOK, StoreTypeOK
  <2>3. CASE e.aggregateId # a
    <3>1. events'[a] = events[a]
      BY <1>3, <2>2, <2>3 DEF Appends
    <3> QED
      BY <1>1, <2>1, <3>1 DEF LogGapFree
  <2>4. CASE e.aggregateId = a
    <3>1. events'[a] = Append(events[a], e) /\ e.sequence = Len(events[a]) + 1
      BY <1>3, <2>2, <2>4 DEF Appends
    <3>2. /\ DOMAIN events'[a] = 1..(Len(events[a]) + 1)
          /\ \A k \in 1..Len(events[a]) : events'[a][k] = events[a][k]
          /\ events'[a][Len(events[a]) + 1] = e
      BY <2>2, <3>1, AppendProperties, LenProperties
    <3>3. \A k \in 1..Len(events[a]) : events[a][k].sequence = k
      BY <1>1, <2>2 DEF LogGapFree
    <3> QED
      BY <2>1, <2>2, <3>1, <3>2, <3>3
  <2> QED
    BY <2>3, <2>4
<1> QED
  BY <1>2, <1>3 DEF StoreStep, Rests, Asks, Loaded, Stored, StoredSnapshotDue, Copy, Written,
     SnapshotMade, storeVars

\* Jobs that stay fit, since logs grow.
LEMMA JobsKept ==
    ASSUME TypeOK, JobInv, StoreStep, NEW d, NEW x, NEW l, Carries(d, x, l), l # "none" => Fits(l, x)'
    PROVE  JobInv'
<1>1. SUFFICES ASSUME NEW i \in 1..Len(jobs') PROVE Fits(jobs[i].at, jobs[i].of)'
  BY DEF JobInv
<1>2. CASE i > Len(jobs) - d
  BY <1>2, NewJob DEF Fits, Snapshotting
<1>3. CASE i \in 1..(Len(jobs) - d)
  <2>1. i + d \in 1..Len(jobs)
    BY <1>1, <1>3, PlaceOf
  <2>2. Fits(jobs[i + d].at, jobs[i + d].of)
    BY <2>1 DEF JobInv
  <2>3. PICK who, at : who = jobs[i + d].of /\ at = jobs[i + d].at
    OBVIOUS
  <2>4. jobs'[i].at = at /\ jobs'[i].of = who
    BY <1>3, <2>3, OldJob
  <2>5. at # "worker" => arg'[who] = arg[who]
    BY <1>3, <2>3 DEF Carries
  <2>6. \A e \in Event : Len(events[e.aggregateId]) \in Nat /\ Len(events'[e.aggregateId]) \in Nat
                         /\ Len(events'[e.aggregateId]) >= Len(events[e.aggregateId])
    BY LogsGrow DEF Event
  <2>7. \A e \in Event : e.sequence \in Nat
    BY DEF Event
  <2>8. Fits(at, who)
    BY <2>2, <2>3
  <2>9. Fits(at, who)'
    BY <2>5, <2>6, <2>7, <2>8 DEF Fits, Snapshotting, SnapshotDue
  <2> QED
    BY <2>4, <2>9
<1> QED
  BY <1>1, <1>2, <1>3, PlaceOf

LEMMA JobInvStep == ASSUME StoreInv, StoreStep PROVE JobInv'
<1>1. TypeOK /\ JobInv
  BY DEF StoreInv
<1>2. ASSUME NEW d, NEW x, NEW l, Rests(d, x, l) PROVE JobInv'
  <2>1. l # "none" => Fits(l, x)'
    BY <1>2 DEF Rests, Fits, Snapshotting
  <2> QED
    BY <1>1, <1>2, <2>1, JobsKept DEF Rests
<1>3. ASSUME NEW d, NEW c \in Caller, NEW e \in Event, Appends(d, c, e) PROVE JobInv'
  <2>1. events \in [Aggregate -> Seq(Event)] /\ e.aggregateId \in Aggregate
        /\ events[e.aggregateId] \in Seq(Event)
    BY <1>1 DEF TypeOK, StoreTypeOK, Event
  <2>2. Len(Append(events[e.aggregateId], e)) = Len(events[e.aggregateId]) + 1
        /\ Len(events[e.aggregateId]) \in Nat
    BY <2>1, AppendProperties, LenProperties
  <2>3. e.sequence <= Len(events'[e.aggregateId])
    BY <1>3, <2>1, <2>2 DEF Appends
  <2>4. Fits("stored", c)'
    BY <1>3, <2>3 DEF Fits, Snapshotting, Appends
  <2> QED
    BY <1>1, <1>3, <2>4, JobsKept DEF Appends
<1>4. ASSUME NEW c \in Caller, NEW a \in Aggregate, Asks(c, a) PROVE JobInv'
  <2>1. Fits("loaded", c)'
    BY <1>4 DEF Asks, Fits, Snapshotting, Question
  <2> QED
    BY <1>1, <1>4, <2>1, JobsKept DEF Asks
<1>5. ASSUME NEW c \in Caller, NEW l, NEW m, Continues(c, l, m), arg' = arg, events' = events,
             m \in {"resume", "copy", "written", "broadcast"},
             m # "resume" => (l = "stored" /\ SnapshotDue(arg[c])) \/ l \in Snapshotting
      PROVE  JobInv'
  <2>1. Fits(l, c)
    BY <1>5 DEF Continues
  <2>2. Fits(m, c)'
    BY <1>5, <2>1 DEF Fits, Snapshotting, SnapshotDue
  <2> QED
    BY <1>1, <1>5, <2>2, JobsKept DEF Continues
<1>6. \A c \in Caller : Loaded(c) /\ Continues(c, "loaded", "resume") => JobInv'
  BY <1>5 DEF Loaded
<1>7. \A c \in Caller : \A js : Stored(c, js) /\ Continues(c, "stored", "resume") => JobInv'
  BY <1>5 DEF Stored
<1>8. \A c \in Caller : StoredSnapshotDue(c) /\ Continues(c, "stored", "copy") => JobInv'
  BY <1>5 DEF StoredSnapshotDue
<1>9. \A c \in Caller : Copy(c) /\ Continues(c, "copy", "written") => JobInv'
  BY <1>5 DEF Copy, Snapshotting
<1>10. \A c \in Caller : Written(c) /\ Continues(c, "written", "broadcast") => JobInv'
  BY <1>5 DEF Written, Snapshotting, storeVars
<1>11. \A c \in Caller : \A js : SnapshotMade(c, js) /\ Continues(c, "broadcast", "resume") => JobInv'
  BY <1>5 DEF SnapshotMade
<1> QED
  BY <1>2, <1>3, <1>4, <1>6, <1>7, <1>8, <1>9, <1>10, <1>11 DEF StoreStep

LEMMA CarriesExists == ASSUME StoreStep PROVE \E d, x, l : Carries(d, x, l)
BY DEF StoreStep, Rests, Appends, Asks, Continues

LEMMA OneJobStep == ASSUME TypeOK, OneJobInv, StoreStep PROVE OneJobInv'
<1>1. PICK d, x, l : Carries(d, x, l)
  BY CarriesExists
<1>2. SUFFICES ASSUME NEW i \in 1..Len(jobs'), NEW j \in 1..Len(jobs'),
                      jobs'[i].at # "worker", jobs'[j].at # "worker", jobs'[i].of = jobs'[j].of
               PROVE  i = j
  BY DEF OneJobInv
<1>3. ASSUME NEW k \in 1..Len(jobs'), jobs'[k].at # "worker"
      PROVE  \/ k \in 1..(Len(jobs) - d) /\ k + d \in 1..Len(jobs) /\ jobs'[k] = jobs[k + d]
                /\ (l # "none" => jobs[k + d].of # x)
             \/ l # "none" /\ k = Len(jobs') /\ jobs'[k].of = x
  <2>1. CASE k > Len(jobs) - d
    BY <1>1, <1>3, <2>1, NewJob
  <2>2. CASE k \in 1..(Len(jobs) - d)
    BY <1>1, <1>3, <2>2, OldJob, PlaceOf
  <2> QED
    BY <1>1, <2>1, <2>2, PlaceOf
<1>4. CASE i \in 1..(Len(jobs) - d) /\ j \in 1..(Len(jobs) - d)
           /\ i + d \in 1..Len(jobs) /\ j + d \in 1..Len(jobs)
           /\ jobs'[i] = jobs[i + d] /\ jobs'[j] = jobs[j + d]
  <2>1. i + d = j + d
    BY <1>2, <1>4 DEF OneJobInv
  <2>2. d \in 0..1
    BY <1>1 DEF Carries
  <2> QED
    BY <2>1, <2>2
<1> QED
  BY <1>2, <1>3, <1>4

-----------------------------------------------------------------------------
(* The order of the writes that are under way                               *)

\* What the jobs are that continue a write, and what has been loaded.
LEMMA JobNumbers ==
    ASSUME TypeOK, JobInv, NEW i \in 1..Len(jobs), NEW a
    PROVE  /\ StoredAt(i, a) => Arg(i) \in Event /\ Arg(i).sequence \in Nat /\ a \in Aggregate
              /\ Arg(i).sequence <= Len(events[a])
           /\ SnapshotAt(i, a) => Arg(i) \in Event /\ Arg(i).sequence \in Nat /\ a \in Aggregate
              /\ Arg(i).sequence <= Len(events[a])
           /\ LoadedAt(i, a) => local[jobs[i].of] \in Nat /\ a \in Aggregate
<1>1. Fits(jobs[i].at, jobs[i].of)
  BY DEF JobInv
<1>2. \A e \in Event : e.aggregateId \in Aggregate /\ e.sequence \in Nat
  BY DEF Event
<1>3. StoredAt(i, a) \/ SnapshotAt(i, a) =>
        Arg(i) \in Event /\ Arg(i).aggregateId = a /\ Arg(i).sequence <= Len(events[a])
  BY <1>1 DEF Fits, StoredAt, SnapshotAt, Snapshotting, Arg
<1>4. LoadedAt(i, a) => local[jobs[i].of] \in Nat /\ a \in Aggregate
  <2>1. LoadedAt(i, a) => jobs[i].of \in Caller /\ Arg(i) \in Question /\ Arg(i).aggregateId = a
    BY <1>1 DEF Fits, LoadedAt, Arg
  <2> QED
    BY <2>1 DEF Question, TypeOK, StoreTypeOK
<1> QED
  BY <1>2, <1>3, <1>4

\* A step that leaves the log of a alone, or appends the write that it begins.
Extends(d, x, l, a) ==
    \/ l # "stored" /\ events'[a] = events[a]
    \/ l = "stored" /\ \E e \in Event : Appends(d, x, e)

LEMMA ExtendsLog ==
    ASSUME TypeOK, NEW d, NEW x, NEW l, NEW a \in Aggregate, Extends(d, x, l, a)
    PROVE  /\ Len(events[a]) \in Nat
           /\ \/ Len(events'[a]) = Len(events[a])
              \/ /\ Len(events'[a]) = Len(events[a]) + 1
                 /\ l = "stored" /\ arg'[x] \in Event /\ arg'[x].aggregateId = a
                 /\ arg'[x].sequence = Len(events'[a])
           /\ l = "stored" /\ arg'[x].aggregateId = a => arg'[x].sequence = Len(events'[a])
              /\ Len(events'[a]) = Len(events[a]) + 1
<1>1. events \in [Aggregate -> Seq(Event)] /\ events[a] \in Seq(Event) /\ Len(events[a]) \in Nat
  BY LenProperties DEF TypeOK, StoreTypeOK
<1>2. CASE l # "stored" /\ events'[a] = events[a]
  BY <1>1, <1>2
<1>3. ASSUME NEW e \in Event, Appends(d, x, e), l = "stored"
      PROVE  \/ Len(events'[a]) = Len(events[a]) /\ arg'[x].aggregateId # a
             \/ /\ Len(events'[a]) = Len(events[a]) + 1
                /\ arg'[x] \in Event /\ arg'[x].aggregateId = a
                /\ arg'[x].sequence = Len(events'[a])
  <2>1. Len(Append(events[a], e)) = Len(events[a]) + 1
    BY <1>1, AppendProperties
  <2>2. e.aggregateId # a => events'[a] = events[a]
    BY <1>1, <1>3 DEF Appends
  <2>3. e.aggregateId = a => events'[a] = Append(events[a], e)
    BY <1>1, <1>3 DEF Appends
  <2> QED
    BY <1>3, <2>1, <2>2, <2>3 DEF Appends
<1> QED
  BY <1>1, <1>2, <1>3 DEF Extends

LEMMA FollowsKept ==
    ASSUME TypeOK, JobInv, NEW d, NEW x, NEW l, Carries(d, x, l),
           NEW a \in Aggregate, NEW i \in 0..Len(jobs), NEW k \in 0..Len(jobs), NEW n \in Nat,
           k = IF i >= d THEN i - d ELSE 0,
           i >= d \/ ~StoredAt(1, a),
           Follows(a, i, n),
           Extends(d, x, l, a)
    PROVE  Follows(a, k, n)'
<1>1. d \in 0..1 /\ d <= Len(jobs) /\ Len(jobs) \in Nat /\ Len(jobs') \in Nat
  BY JobsFacts, LenProperties DEF Carries
<1>2. /\ Len(events[a]) \in Nat
      /\ \/ Len(events'[a]) = Len(events[a])
         \/ /\ Len(events'[a]) = Len(events[a]) + 1
            /\ l = "stored" /\ arg'[x] \in Event /\ arg'[x].aggregateId = a
            /\ arg'[x].sequence = Len(events'[a])
      /\ l = "stored" /\ arg'[x].aggregateId = a => arg'[x].sequence = Len(events'[a])
         /\ Len(events'[a]) = Len(events[a]) + 1
  BY ExtendsLog
<1>3. n <= Len(events[a])
  BY DEF Follows
<1>4. n <= Len(events'[a])
  BY <1>2, <1>3
<1>5. ASSUME NEW j \in 1..Len(jobs'), j > k, StoredAt(j, a)' PROVE n < Arg(j)'.sequence
  <2>1. CASE j \in 1..(Len(jobs) - d)
    <3>1. StoredAt(j + d, a) /\ Arg(j)' = Arg(j + d)
      BY <1>5, <2>1, OldJob DEF StoredAt
    <3>2. j + d \in 1..Len(jobs) /\ j + d > i
      BY <1>1, <1>5, <2>1
    <3> QED
      BY <3>1, <3>2 DEF Follows
  <2>2. CASE j > Len(jobs) - d
    <3>1. l = "stored" /\ jobs'[j].of = x /\ arg'[x].aggregateId = a /\ Arg(j)' = arg'[x]
      BY <1>5, <2>2, NewJob DEF StoredAt, Arg
    <3> QED
      BY <1>2, <1>3, <3>1
  <2> QED
    BY <2>1, <2>2, PlaceOf
<1>6. ASSUME NEW m \in (n + 1)..Len(events'[a])
      PROVE  \E j \in 1..Len(jobs') : j > k /\ StoredAt(j, a)' /\ Arg(j)'.sequence = m
  <2>1. CASE m <= Len(events[a])
    <3>1. m \in (n + 1)..Len(events[a])
      BY <1>2, <2>1
    <3>2. PICK j \in 1..Len(jobs) : j > i /\ StoredAt(j, a) /\ Arg(j).sequence = m
      BY <3>1 DEF Follows
    <3>3. j > d \/ d = 0
      BY <1>1, <3>2
    <3>4. PICK h : h = j - d
      OBVIOUS
    <3>5. h \in 1..(Len(jobs) - d) /\ h + d = j /\ h > k
      BY <1>1, <3>2, <3>3, <3>4
    <3>6. StoredAt(h, a)' /\ Arg(h)' = Arg(j)
      BY <3>2, <3>5, OldJob DEF StoredAt
    <3>7. h \in 1..Len(jobs')
      BY <1>1, <3>5 DEF Carries
    <3> QED
      BY <3>2, <3>5, <3>6, <3>7
  <2>2. CASE ~(m <= Len(events[a]))
    <3>1. m = Len(events'[a]) /\ Len(events'[a]) = Len(events[a]) + 1
      BY <1>2, <2>2
    <3>2. l = "stored" /\ arg'[x].aggregateId = a /\ arg'[x].sequence = m
      BY <1>2, <3>1
    <3>3. Len(jobs') > Len(jobs) - d /\ jobs'[Len(jobs')] = Job("stored", x)
      BY <3>2 DEF Carries
    <3>4. PICK h : h = Len(jobs')
      OBVIOUS
    <3>5. h \in 1..Len(jobs') /\ h > k
      BY <1>1, <3>3, <3>4
    <3>6. jobs'[h].at = "stored" /\ jobs'[h].of = x
      BY <3>3, <3>4 DEF Job
    <3>7. StoredAt(h, a)' /\ Arg(h)' = arg'[x]
      BY <3>2, <3>6 DEF StoredAt, Arg
    <3> QED
      BY <3>2, <3>5, <3>7
  <2> QED
    BY <2>1, <2>2
<1> QED
  BY <1>4, <1>5, <1>6 DEF Follows

\* What has just been appended is followed by nothing.
LEMMA FollowsLast ==
    ASSUME TypeOK', NEW a \in Aggregate, NEW i, NEW n, i = Len(jobs'), n = Len(events'[a])
    PROVE  Follows(a, i, n)'
<1>1. jobs' \in Seq(JobRecord) /\ events'[a] \in Seq(Event)
  BY DEF TypeOK, StoreTypeOK, JobRecord
<1>2. i \in Nat /\ n \in Nat
  BY <1>1, LenProperties
<1>3. (n + 1)..n = {} /\ ~\E j \in 1..i : j > i
  BY <1>2
<1> QED
  BY <1>2, <1>3 DEF Follows

LEMMA OrderKept ==
    ASSUME TypeOK, TypeOK', JobInv, OrderInv, NEW d, NEW x, NEW l, Carries(d, x, l),
           \A a \in Aggregate : Extends(d, x, l, a),
           l = "loaded" => \E a \in Aggregate : Asks(x, a)
    PROVE  OrderInv'
<1>1. SUFFICES ASSUME NEW i \in 1..Len(jobs'), NEW a \in Aggregate, NEW n \in Nat, Brings(i, a, n)'
               PROVE  Follows(a, i, n)'
  BY DEF OrderInv
<1>2. CASE i \in 1..(Len(jobs) - d)
  <2>1. d \in 0..1 /\ i + d \in 1..Len(jobs) /\ i \in 0..Len(jobs)
    BY <1>1, <1>2, PlaceOf
  <2>2. Brings(i + d, a, n)
    BY <1>1, <1>2, OldJob DEF Brings, StoredAt, LoadedAt
  <2>3. PICK k : k = i + d
    OBVIOUS
  <2>4. Follows(a, k, n)
    BY <2>1, <2>2, <2>3 DEF OrderInv
  <2>5. k \in 0..Len(jobs) /\ k >= d /\ i = k - d
    BY <2>1, <2>3, JobsFacts
  <2>6. i = IF k >= d THEN k - d ELSE 0
    BY <2>5
  <2> QED
    BY <2>1, <2>4, <2>5, <2>6, FollowsKept
<1>3. CASE i > Len(jobs) - d
  <2>1. l # "none" /\ i = Len(jobs') /\ jobs'[i].at = l /\ jobs'[i].of = x
    BY <1>1, <1>3, NewJob DEF Brings, StoredAt, LoadedAt
  <2>2. CASE StoredAt(i, a)' /\ Arg(i)'.sequence = n
    <3>1. l = "stored" /\ arg'[x].aggregateId = a /\ arg'[x].sequence = n
      BY <2>1, <2>2 DEF StoredAt, Arg
    <3>2. n = Len(events'[a])
      BY <3>1, ExtendsLog
    <3> QED
      BY <2>1, <3>2, FollowsLast
  <2>3. CASE LoadedAt(i, a)' /\ local'[jobs'[i].of] = n
    <3>1. l = "loaded" /\ arg'[x].aggregateId = a /\ local'[x] = n
      BY <2>1, <2>3 DEF LoadedAt, Arg
    <3>2. PICK b \in Aggregate : Asks(x, b)
      BY <3>1
    <3>3. b = a /\ n = Len(events'[a])
      BY <3>1, <3>2 DEF Asks
    <3> QED
      BY <2>1, <3>3, FollowsLast
  <2> QED
    BY <1>1, <2>2, <2>3 DEF Brings
<1> QED
  BY <1>2, <1>3, PlaceOf

\* How each step carries the jobs, and what it adds to a log.
LEMMA StepExtends ==
    ASSUME TypeOK, StoreStep
    PROVE  \E d, x, l : /\ Carries(d, x, l)
                        /\ \A a \in Aggregate : Extends(d, x, l, a)
                        /\ l = "loaded" => \E a \in Aggregate : Asks(x, a)
<1>1. ASSUME NEW d, NEW x, NEW l, Carries(d, x, l), events' = events, l \notin {"stored", "loaded"}
      PROVE  /\ Carries(d, x, l)
             /\ \A a \in Aggregate : Extends(d, x, l, a)
             /\ l = "loaded" => \E a \in Aggregate : Asks(x, a)
  BY <1>1 DEF Extends
<1>2. ASSUME NEW d, NEW x, NEW l, Rests(d, x, l)
      PROVE  Carries(d, x, l) /\ events' = events /\ l \notin {"stored", "loaded"}
  BY <1>2 DEF Rests
<1>3. ASSUME NEW d, NEW c, NEW e \in Event, Appends(d, c, e)
      PROVE  Carries(d, c, "stored") /\ \A a \in Aggregate : Extends(d, c, "stored", a)
  BY <1>3 DEF Appends, Extends
<1>4. ASSUME NEW c, NEW a \in Aggregate, Asks(c, a)
      PROVE  Carries(0, c, "loaded") /\ \A b \in Aggregate : Extends(0, c, "loaded", b)
  BY <1>4 DEF Asks, Extends
<1>5. ASSUME NEW c \in Caller, NEW l, NEW m, Continues(c, l, m), events' = events,
             m \notin {"stored", "loaded"}
      PROVE  \E d, x, k : /\ Carries(d, x, k)
                          /\ \A a \in Aggregate : Extends(d, x, k, a)
                          /\ k = "loaded" => \E a \in Aggregate : Asks(x, a)
  <2>1. Carries(1, c, m)
    BY <1>5 DEF Continues
  <2> QED
    BY <1>1, <1>5, <2>1
<1>6. \A c \in Caller : Loaded(c) \/ StoredSnapshotDue(c) \/ Copy(c) \/ Written(c) => events' = events
  BY DEF Loaded, StoredSnapshotDue, Copy, Written, storeVars
<1>7. \A c \in Caller : \A js : Stored(c, js) \/ SnapshotMade(c, js) => events' = events
  BY DEF Stored, SnapshotMade
<1>8. CASE \E d, x, l : Rests(d, x, l)
  BY <1>1, <1>2, <1>8
<1>9. CASE \E d \in 0..1, c \in Caller, e \in Event : Appends(d, c, e)
  BY <1>3, <1>9
<1>10. CASE \E c \in Caller, a \in Aggregate : Asks(c, a)
  BY <1>4, <1>10
<1> QED
  BY <1>5, <1>6, <1>7, <1>8, <1>9, <1>10 DEF StoreStep

LEMMA OrderStep == ASSUME StoreInv, TypeOK', StoreStep PROVE OrderInv'
BY StepExtends, OrderKept DEF StoreInv

-----------------------------------------------------------------------------
(* The cache                                                                *)

LEMMA CacheKept ==
    ASSUME TypeOK, JobInv, OrderInv, CacheInv, NEW d, NEW x, NEW l, Carries(d, x, l),
           NEW a \in Aggregate, Extends(d, x, l, a), NEW n \in Nat,
           \/ Cached(a, n) /\ ~(d = 1 /\ StoredAt(1, a))
           \/ d = 1 /\ Brings(1, a, n)
    PROVE  Follows(a, 0, n)'
<1>1. d \in 0..1 /\ d <= Len(jobs) /\ Len(jobs) \in Nat
  BY JobsFacts DEF Carries
<1>2. CASE Cached(a, n) /\ ~(d = 1 /\ StoredAt(1, a))
  <2>1. Follows(a, 0, n)
    BY <1>2 DEF CacheInv
  <2>2. 0 \in 0..Len(jobs) /\ (0 >= d \/ ~StoredAt(1, a)) /\ 0 = IF 0 >= d THEN 0 - d ELSE 0
    BY <1>1, <1>2
  <2> QED
    BY <2>1, <2>2, FollowsKept
<1>3. CASE d = 1 /\ Brings(1, a, n)
  <2>1. 1 \in 1..Len(jobs)
    BY <1>1, <1>3
  <2>2. Follows(a, 1, n)
    BY <1>3, <2>1 DEF OrderInv
  <2>3. 0 \in 0..Len(jobs) /\ 1 \in 0..Len(jobs) /\ 1 >= d /\ 0 = IF 1 >= d THEN 1 - d ELSE 0
    BY <1>1, <1>3
  <2> QED
    BY <2>2, <2>3, FollowsKept
<1> QED
  BY <1>2, <1>3

\* What a step leaves in the cache.
LEMMA CachedFacts ==
    ASSUME TypeOK, NEW a \in Aggregate
    PROVE  /\ Len(actors[a]) \in Nat /\ (actors[a] # <<>> <=> Len(actors[a]) # 0)
           /\ \A n : Cached(a, n) <=> Len(actors[a]) # 0 /\ actors[a][Len(actors[a])] = n
           /\ \A k \in 1..Len(actors[a]) : actors[a][k] \in Nat
<1>1. actors[a] \in Seq(Nat)
  BY DEF TypeOK, StoreTypeOK
<1>2. Len(actors[a]) \in Nat /\ (actors[a] # <<>> <=> Len(actors[a]) # 0)
  BY <1>1, LenProperties, EmptySeq
<1> QED
  BY <1>1, <1>2, ElementOfSeq DEF Cached, Last

\* A step that leaves the cache alone, and does not take a new write to it.
LEMMA CacheIdle ==
    ASSUME StoreInv, TypeOK', StoreStep, NEW d, NEW x, NEW l, Carries(d, x, l),
           \A a \in Aggregate : Extends(d, x, l, a),
           d = 1 => jobs[1].at # "stored", actors' = actors
    PROVE  CacheInv'
<1>1. TypeOK /\ JobInv /\ OrderInv /\ CacheInv
  BY DEF StoreInv
<1>2. ASSUME NEW a \in Aggregate, NEW n \in Nat, Cached(a, n)' PROVE Follows(a, 0, n)'
  <2>1. Cached(a, n) /\ ~(d = 1 /\ StoredAt(1, a))
    BY <1>2 DEF Cached, StoredAt
  <2> QED
    BY <1>1, <2>1, CacheKept
<1>3. ASSUME NEW a \in Aggregate, NEW k \in 1..Len(actors'[a])
      PROVE  actors'[a][k] <= Len(events'[a])
  <2>1. actors[a][k] <= Len(events[a]) /\ actors[a][k] \in Nat
    BY <1>1, <1>3, CachedFacts DEF CacheInv
  <2> QED
    BY <1>1, <2>1, LogsGrow
<1> QED
  BY <1>2, <1>3 DEF CacheInv

LEMMA StoredCache ==
    ASSUME StoreInv, TypeOK', StoreStep, NEW c, NEW m, Continues(c, "stored", m), m # "stored",
           CacheEvent(c), events' = events
    PROVE  CacheInv'
<1>1. TypeOK /\ JobInv /\ OrderInv /\ CacheInv /\ StoreTypeOK
  BY DEF StoreInv, TypeOK
<1>2. PICK b, s : b = arg[c].aggregateId /\ s = arg[c].sequence
  OBVIOUS
<1>3. arg[c] \in Event /\ s <= Len(events[b]) /\ jobs[1].at = "stored" /\ jobs[1].of = c
  BY <1>2 DEF Continues, Fits, Snapshotting, Job
<1>4. b \in Aggregate /\ s \in Nat
  BY <1>2, <1>3 DEF Event
<1>5. StoredAt(1, b) /\ Brings(1, b, s) /\ \A a : a # b => ~StoredAt(1, a)
  BY <1>2, <1>3 DEF StoredAt, Brings, Arg
<1>6. Carries(1, c, m) /\ \A a \in Aggregate : Extends(1, c, m, a)
  BY DEF Continues, Extends
<1>7. /\ \A a \in Aggregate : a # b => actors'[a] = actors[a]
      /\ Len(actors'[b]) = IF Len(actors[b]) = 0 THEN 1 ELSE Len(actors[b])
      /\ actors'[b][Len(actors'[b])] = s
      /\ \A k \in 1..Len(actors[b]) : k # Len(actors'[b]) => actors'[b][k] = actors[b][k]
  BY <1>1, <1>2, <1>3, CacheEventTypes
<1>8. ASSUME NEW a \in Aggregate, NEW n \in Nat, Cached(a, n)' PROVE Follows(a, 0, n)'
  <2>1. CASE a = b
    <3>1. Cached(b, n)' => actors'[b][Len(actors'[b])] = n
      BY <1>4, CachedFacts DEF Cached, Last
    <3>2. n = s
      BY <1>7, <1>8, <2>1, <3>1
    <3> QED
      BY <1>1, <1>5, <1>6, <2>1, <3>2, CacheKept
  <2>2. CASE a # b
    <3>1. Cached(a, n) /\ ~StoredAt(1, a)
      BY <1>5, <1>7, <1>8, <2>2 DEF Cached
    <3> QED
      BY <1>1, <1>6, <3>1, CacheKept
  <2> QED
    BY <2>1, <2>2
<1>9. ASSUME NEW a \in Aggregate, NEW k \in 1..Len(actors'[a])
      PROVE  actors'[a][k] <= Len(events'[a])
  <2>1. CASE a = b
    <3>1. Len(actors[b]) \in Nat
      BY <1>1, <1>4, CachedFacts
    <3>2. CASE k = Len(actors'[b])
      BY <1>3, <1>7, <2>1, <3>2
    <3>3. CASE k # Len(actors'[b])
      <4>1. k \in 1..Len(actors[b])
        BY <1>7, <1>9, <2>1, <3>1, <3>3
      <4>2. actors'[b][k] = actors[b][k] /\ actors[b][k] <= Len(events[b])
        BY <1>1, <1>4, <1>7, <3>3, <4>1 DEF CacheInv
      <4> QED
        BY <2>1, <4>2
    <3> QED
      BY <3>2, <3>3
  <2>2. CASE a # b
    BY <1>1, <1>7, <1>9, <2>2 DEF CacheInv
  <2> QED
    BY <2>1, <2>2
<1> QED
  BY <1>8, <1>9 DEF CacheInv

\* A number that was loaded is not larger than the log by now.
LEMMA LoadedCache ==
    ASSUME StoreInv, TypeOK', StoreStep, NEW c \in Caller, Loaded(c), Continues(c, "loaded", "resume")
    PROVE  CacheInv'
<1>1. TypeOK /\ JobInv /\ OrderInv /\ CacheInv /\ StoreTypeOK
  BY DEF StoreInv, TypeOK
<1>2. PICK b, s : b = arg[c].aggregateId /\ s = local[c]
  OBVIOUS
<1>3. jobs[1].at = "loaded" /\ jobs[1].of = c /\ arg[c] \in Question /\ 1 \in 1..Len(jobs)
  BY <1>1, JobsFacts DEF Continues, Fits, Job
<1>4. b \in Aggregate /\ s \in Nat
  BY <1>1, <1>2, <1>3 DEF Question, StoreTypeOK
<1>5. Brings(1, b, s) /\ \A a : ~StoredAt(1, a)
  BY <1>2, <1>3 DEF StoredAt, LoadedAt, Brings, Arg
<1>6. Carries(1, c, "resume") /\ events' = events /\ \A a \in Aggregate : Extends(1, c, "resume", a)
  BY DEF Continues, Extends, Loaded
<1>7. actors' = IF s > 0 THEN [actors EXCEPT ![b] = Append(@, s)] ELSE actors
  BY <1>2 DEF Loaded
<1>8. CASE actors' = actors
  <2>1. 1 = 1 => jobs[1].at # "stored"
    BY <1>3
  <2> QED
    BY <1>6, <1>8, <2>1, CacheIdle
<1>9. CASE actors' = [actors EXCEPT ![b] = Append(@, s)]
  <2>1. actors \in [Aggregate -> Seq(Nat)] /\ actors[b] \in Seq(Nat) /\ Len(actors[b]) \in Nat
    BY <1>1, <1>4, LenProperties DEF StoreTypeOK
  <2>2. actors'[b] = Append(actors[b], s) /\ \A a \in Aggregate : a # b => actors'[a] = actors[a]
    BY <1>4, <1>9, <2>1
  <2>3. /\ Len(actors'[b]) = Len(actors[b]) + 1
        /\ actors'[b][Len(actors[b]) + 1] = s
        /\ \A k \in 1..Len(actors[b]) : actors'[b][k] = actors[b][k]
    BY <1>4, <2>1, <2>2, AppendProperties
  <2>4. ASSUME NEW a \in Aggregate, NEW n \in Nat, Cached(a, n)' PROVE Follows(a, 0, n)'
    <3>1. CASE a = b
      <4>1. Cached(b, n)' => actors'[b][Len(actors'[b])] = n
        BY DEF Cached, Last
      <4>2. n = s
        BY <2>3, <2>4, <3>1, <4>1
      <4> QED
        BY <1>1, <1>5, <1>6, <3>1, <4>2, CacheKept
    <3>2. CASE a # b
      <4>1. Cached(a, n)
        BY <2>2, <2>4, <3>2 DEF Cached
      <4> QED
        BY <1>1, <1>5, <1>6, <4>1, CacheKept
    <3> QED
      BY <3>1, <3>2
  <2>5. ASSUME NEW a \in Aggregate, NEW k \in 1..Len(actors'[a])
        PROVE  actors'[a][k] <= Len(events'[a])
    <3>1. CASE a = b /\ k = Len(actors[b]) + 1
      <4>1. Follows(b, 1, s)
        BY <1>1, <1>3, <1>4, <1>5 DEF OrderInv
      <4> QED
        BY <1>6, <2>3, <3>1, <4>1 DEF Follows
    <3>2. CASE a = b /\ k # Len(actors[b]) + 1
      <4>1. k \in 1..Len(actors[b])
        BY <2>1, <2>3, <2>5, <3>2
      <4> QED
        BY <1>1, <1>4, <1>6, <2>3, <3>2, <4>1 DEF CacheInv
    <3>3. CASE a # b
      BY <1>1, <1>6, <2>2, <2>5, <3>3 DEF CacheInv
    <3> QED
      BY <3>1, <3>2, <3>3
  <2> QED
    BY <2>4, <2>5 DEF CacheInv
<1> QED
  BY <1>7, <1>8, <1>9

LEMMA CacheStep == ASSUME StoreInv, TypeOK', StoreStep PROVE CacheInv'
<1>1. ASSUME NEW d, NEW x, NEW l, Rests(d, x, l) PROVE CacheInv'
  <2>1. /\ Carries(d, x, l) /\ (d = 1 => jobs[1].at # "stored") /\ actors' = actors
        /\ \A a \in Aggregate : Extends(d, x, l, a)
    BY <1>1 DEF Rests, Extends
  <2> QED
    BY <2>1, CacheIdle
<1>2. ASSUME NEW d, NEW c, NEW e \in Event, Appends(d, c, e) PROVE CacheInv'
  <2>1. /\ Carries(d, c, "stored") /\ (d = 1 => jobs[1].at # "stored") /\ actors' = actors
        /\ \A a \in Aggregate : Extends(d, c, "stored", a)
    BY <1>2 DEF Appends, Extends
  <2> QED
    BY <2>1, CacheIdle
<1>3. ASSUME NEW c, NEW a \in Aggregate, Asks(c, a) PROVE CacheInv'
  <2>1. /\ Carries(0, c, "loaded") /\ (0 = 1 => jobs[1].at # "stored") /\ actors' = actors
        /\ \A b \in Aggregate : Extends(0, c, "loaded", b)
    BY <1>3 DEF Asks, Extends
  <2> QED
    BY <2>1, CacheIdle
<1>4. ASSUME NEW c, NEW l, NEW m, Continues(c, l, m), l # "stored", m # "stored",
             events' = events, actors' = actors
      PROVE  CacheInv'
  <2>1. /\ Carries(1, c, m) /\ (1 = 1 => jobs[1].at # "stored")
        /\ \A b \in Aggregate : Extends(1, c, m, b)
    BY <1>4 DEF Continues, Extends, Job
  <2> QED
    BY <1>4, <2>1, CacheIdle
<1>5. ASSUME NEW c \in Caller, NEW js, Stored(c, js), Continues(c, "stored", "resume") PROVE CacheInv'
  BY <1>5, StoredCache DEF Stored
<1>6. ASSUME NEW c \in Caller, StoredSnapshotDue(c), Continues(c, "stored", "copy") PROVE CacheInv'
  BY <1>6, StoredCache DEF StoredSnapshotDue
<1>7. ASSUME NEW c \in Caller, Copy(c), Continues(c, "copy", "written") PROVE CacheInv'
  BY <1>4, <1>7 DEF Copy
<1>8. ASSUME NEW c \in Caller, Written(c), Continues(c, "written", "broadcast") PROVE CacheInv'
  BY <1>4, <1>8 DEF Written, storeVars
<1>9. ASSUME NEW c \in Caller, NEW js, SnapshotMade(c, js), Continues(c, "broadcast", "resume")
      PROVE  CacheInv'
  BY <1>4, <1>9 DEF SnapshotMade
<1> QED
  BY <1>1, <1>2, <1>3, <1>5, <1>6, <1>7, <1>8, <1>9, LoadedCache DEF StoreStep

-----------------------------------------------------------------------------
(* Snapshots                                                                *)

\* No state object goes away, and its number does not go back.
LEMMA ObjectsGrow ==
    ASSUME StoreInv, StoreStep, NEW a \in Aggregate, NEW k \in 1..Len(actors[a])
    PROVE  k \in 1..Len(actors'[a]) /\ actors'[a][k] >= actors[a][k]
<1>1. TypeOK /\ StoreTypeOK /\ JobInv /\ CacheInv
  BY DEF StoreInv, TypeOK
<1>2. actors \in [Aggregate -> Seq(Nat)] /\ actors[a] \in Seq(Nat) /\ Len(actors[a]) \in Nat
      /\ actors[a][k] \in Nat
  BY <1>1, LenProperties, ElementOfSeq DEF StoreTypeOK
<1>3. CASE actors' = actors
  BY <1>2, <1>3
<1>4. ASSUME NEW c, NEW m, Continues(c, "stored", m), CacheEvent(c)
      PROVE  k \in 1..Len(actors'[a]) /\ actors'[a][k] >= actors[a][k]
  <2>1. PICK b, s : b = arg[c].aggregateId /\ s = arg[c].sequence
    OBVIOUS
  <2>2. arg[c] \in Event /\ jobs[1].at = "stored" /\ jobs[1].of = c /\ 1 \in 1..Len(jobs)
    BY <1>4, JobsFacts, <1>1 DEF Continues, Fits, Job
  <2>3. b \in Aggregate /\ s \in Nat /\ StoredAt(1, b) /\ Arg(1).sequence = s
    BY <2>1, <2>2 DEF Event, StoredAt, Arg
  <2>4. /\ \A e \in Aggregate : e # b => actors'[e] = actors[e]
        /\ Len(actors'[b]) = IF Len(actors[b]) = 0 THEN 1 ELSE Len(actors[b])
        /\ actors'[b][Len(actors'[b])] = s
        /\ \A h \in 1..Len(actors[b]) : h # Len(actors'[b]) => actors'[b][h] = actors[b][h]
    BY <1>1, <1>4, <2>1, <2>2, CacheEventTypes
  <2>5. CASE a = b
    <3>1. Len(actors[b]) # 0 /\ Len(actors'[b]) = Len(actors[b])
      BY <1>2, <2>4, <2>5
    <3>2. CASE k = Len(actors[b])
      <4>1. Cached(b, actors[b][k])
        BY <1>1, <2>3, <3>1, <3>2, CachedFacts
      <4>2. Follows(b, 0, actors[b][k])
        BY <1>1, <1>2, <2>3, <2>5, <4>1 DEF CacheInv
      <4>3. actors[b][k] < s
        BY <2>2, <2>3, <4>2 DEF Follows
      <4> QED
        BY <1>2, <2>3, <2>4, <2>5, <3>1, <3>2, <4>3
    <3>3. CASE k # Len(actors[b])
      BY <1>2, <2>4, <2>5, <3>1, <3>3
    <3> QED
      BY <3>2, <3>3
  <2>6. CASE a # b
    BY <1>2, <2>4, <2>6
  <2> QED
    BY <2>5, <2>6
<1>5. ASSUME NEW s \in Nat, NEW b, actors' = [actors EXCEPT ![b] = Append(@, s)]
      PROVE  k \in 1..Len(actors'[a]) /\ actors'[a][k] >= actors[a][k]
  <2>1. actors'[a] = actors[a] \/ actors'[a] = Append(actors[a], s)
    BY <1>2, <1>5
  <2>2. Len(Append(actors[a], s)) = Len(actors[a]) + 1 /\ Append(actors[a], s)[k] = actors[a][k]
    BY <1>2, AppendProperties
  <2> QED
    BY <1>2, <2>1, <2>2
<1>6. ASSUME NEW c \in Caller, Loaded(c) PROVE k \in 1..Len(actors'[a]) /\ actors'[a][k] >= actors[a][k]
  <2>1. local[c] \in Nat
    BY <1>1 DEF StoreTypeOK
  <2> QED
    BY <1>3, <1>5, <1>6, <2>1 DEF Loaded
<1> QED
  BY <1>3, <1>4, <1>6 DEF StoreStep, Rests, Appends, Asks, Stored, StoredSnapshotDue, Copy, Written,
     SnapshotMade, storeVars

\* The object of a copy shows its event.
Shows(c) ==
    /\ local[c] \in 1..Len(actors[arg[c].aggregateId])
    /\ arg[c].sequence <= actors[arg[c].aggregateId][local[c]]

LEMMA CopyKept ==
    ASSUME StoreInv, TypeOK', StoreStep, NEW d, NEW x, NEW l, Carries(d, x, l), l = "copy" => Shows(x)'
    PROVE  CopyInv'
<1>1. TypeOK /\ JobInv /\ CopyInv
  BY DEF StoreInv
<1>2. SUFFICES ASSUME NEW i \in 1..Len(jobs'), jobs'[i].at = "copy"
               PROVE  \A who : who = jobs'[i].of => Shows(who)'
  BY DEF CopyInv, Shows, Arg
<1>3. CASE i > Len(jobs) - d
  BY <1>2, <1>3, NewJob
<1>4. CASE i \in 1..(Len(jobs) - d)
  <2>1. i + d \in 1..Len(jobs)
    BY <1>1, <1>4, PlaceOf
  <2>2. PICK who : who = jobs[i + d].of
    OBVIOUS
  <2>3. jobs'[i] = jobs[i + d] /\ arg'[who] = arg[who] /\ local'[who] = local[who]
    BY <1>2, <1>4, <2>2 DEF Carries
  <2>4. Shows(who) /\ arg[who] \in Event
    BY <1>1, <1>2, <2>1, <2>2, <2>3 DEF CopyInv, Shows, Arg, JobInv, Fits, Snapshotting
  <2>5. PICK a, k, s : a = arg[who].aggregateId /\ k = local[who] /\ s = arg[who].sequence
    OBVIOUS
  <2>6. a \in Aggregate /\ s \in Nat /\ k \in 1..Len(actors[a]) /\ s <= actors[a][k] /\ actors[a][k] \in Nat
    BY <1>1, <2>4, <2>5, CachedFacts DEF Shows, Event
  <2>7. k \in 1..Len(actors'[a]) /\ actors'[a][k] >= actors[a][k]
    BY <2>6, ObjectsGrow
  <2>8. k \in 1..Len(actors'[a]) /\ s <= actors'[a][k]
    <3>1. actors'[a] \in Seq(Nat)
      BY <2>6 DEF TypeOK, StoreTypeOK
    <3>2. actors'[a][k] \in Nat
      BY <2>7, <3>1, ElementOfSeq
    <3> QED
      BY <2>6, <2>7, <3>2
  <2>9. Shows(who)'
    BY <2>3, <2>5, <2>8 DEF Shows
  <2> QED
    BY <2>2, <2>3, <2>9
<1> QED
  BY <1>1, <1>2, <1>3, <1>4, PlaceOf

LEMMA CopyStep == ASSUME StoreInv, TypeOK', StoreStep PROVE CopyInv'
<1>1. TypeOK /\ StoreTypeOK /\ JobInv
  BY DEF StoreInv, TypeOK
<1>2. ASSUME NEW c \in Caller, StoredSnapshotDue(c), Continues(c, "stored", "copy") PROVE CopyInv'
  <2>1. PICK b, s : b = arg[c].aggregateId /\ s = arg[c].sequence
    OBVIOUS
  <2>2. arg[c] \in Event /\ b \in Aggregate /\ s \in Nat
    BY <1>2, <2>1 DEF Continues, Fits, Event
  <2>3. /\ Len(actors'[b]) = IF Len(actors[b]) = 0 THEN 1 ELSE Len(actors[b])
        /\ actors'[b][Len(actors'[b])] = s
    BY <1>1, <1>2, <2>1, <2>2, CacheEventTypes DEF StoredSnapshotDue
  <2>4. Len(actors'[b]) \in 1..Len(actors'[b])
    BY <1>1, <2>2, <2>3, CachedFacts
  <2>5. arg'[c] = arg[c] /\ local'[c] = Len(actors'[b])
    BY <1>1, <1>2, <2>1 DEF StoredSnapshotDue, StoreTypeOK
  <2>6. Shows(c)'
    BY <2>1, <2>2, <2>3, <2>4, <2>5 DEF Shows
  <2> QED
    BY <1>2, <2>6, CopyKept DEF Continues
<1>3. ASSUME NEW d, NEW x, NEW l, Rests(d, x, l) PROVE CopyInv'
  <2>1. Carries(d, x, l) /\ l # "copy"
    BY <1>3 DEF Rests
  <2> QED
    BY <2>1, CopyKept
<1>4. ASSUME NEW d, NEW c, NEW e, Appends(d, c, e) PROVE CopyInv'
  <2>1. Carries(d, c, "stored") /\ "stored" # "copy"
    BY <1>4 DEF Appends
  <2> QED
    BY <2>1, CopyKept
<1>5. ASSUME NEW c, NEW a, Asks(c, a) PROVE CopyInv'
  <2>1. Carries(0, c, "loaded") /\ "loaded" # "copy"
    BY <1>5 DEF Asks
  <2> QED
    BY <2>1, CopyKept
<1>6. ASSUME NEW c, NEW l, NEW m, Continues(c, l, m), m # "copy" PROVE CopyInv'
  BY <1>6, CopyKept DEF Continues
<1> QED
  BY <1>2, <1>3, <1>4, <1>5, <1>6 DEF StoreStep

LEMMA SnapshotStep == ASSUME StoreInv, StoreStep PROVE SnapshotInv'
<1>1. TypeOK /\ StoreTypeOK /\ JobInv /\ CopyInv /\ CacheInv /\ SnapshotInv
  BY DEF StoreInv, TypeOK
<1>2. CASE snapshots' = snapshots
  <2>1. SUFFICES ASSUME NEW a \in Aggregate
                 PROVE  /\ snapshots'[a].sequence <= snapshots'[a].lastSequence
                        /\ snapshots'[a].lastSequence <= Len(events'[a])
    BY DEF SnapshotInv
  <2>2. snapshots[a].lastSequence \in Nat /\ snapshots[a].sequence <= snapshots[a].lastSequence
        /\ snapshots[a].lastSequence <= Len(events[a])
    BY <1>1 DEF SnapshotInv, StoreTypeOK
  <2> QED
    BY <1>1, <1>2, <2>2, LogsGrow
<1>3. ASSUME NEW c \in Caller, Copy(c), Continues(c, "copy", "written") PROVE SnapshotInv'
  <2>1. PICK b, k, s : b = arg[c].aggregateId /\ k = local[c] /\ s = arg[c].sequence
    OBVIOUS
  <2>2. arg[c] \in Event /\ jobs[1].at = "copy" /\ jobs[1].of = c /\ 1 \in 1..Len(jobs)
    BY <1>1, <1>3, JobsFacts DEF Continues, Fits, Snapshotting, Job
  <2>3. b \in Aggregate /\ k \in 1..Len(actors[b]) /\ s <= actors[b][k]
    BY <1>1, <2>1, <2>2 DEF CopyInv, Arg, Event
  <2>4. actors[b][k] <= Len(events[b])
    BY <1>1, <2>3 DEF CacheInv
  <2>5. snapshots' = [snapshots EXCEPT ![b] = [sequence |-> s, lastSequence |-> actors[b][k]]]
        /\ events' = events
    BY <1>3, <2>1 DEF Copy
  <2> QED
    BY <1>1, <2>3, <2>4, <2>5 DEF SnapshotInv, StoreTypeOK
<1> QED
  BY <1>2, <1>3 DEF StoreStep, Rests, Appends, Asks, Loaded, Stored, StoredSnapshotDue, Written,
     SnapshotMade, storeVars

-----------------------------------------------------------------------------
(* What listeners hear                                                      *)

\* What the next job's event is to the events that were heard, and to those
\* of the other jobs.
LEMMA HeadHeard ==
    ASSUME StoreInv, Len(jobs) >= 1, NEW b, NEW s, StoredAt(1, b) \/ SnapshotAt(1, b),
           Arg(1).sequence = s
    PROVE  /\ s \in Nat /\ b \in Aggregate /\ s <= Len(events[b]) /\ Arg(1) \in Event
           /\ \A k \in 1..Len(broadcasts) : broadcasts[k].aggregateId = b =>
                 /\ broadcasts[k].sequence # s
                 /\ StoredAt(1, b) => broadcasts[k].sequence < s
           /\ \A j \in 2..Len(jobs) :
                 /\ StoredAt(j, b) => s < Arg(j).sequence
                 /\ SnapshotAt(j, b) => s # Arg(j).sequence
<1>1. TypeOK /\ JobInv /\ OrderInv /\ HeardInv /\ 1 \in 1..Len(jobs) /\ Len(jobs) \in Nat
  BY JobsFacts DEF StoreInv
<1>2. s \in Nat /\ b \in Aggregate /\ s <= Len(events[b]) /\ Arg(1) \in Event
  BY <1>1, JobNumbers
<1>3. ASSUME NEW k \in 1..Len(broadcasts), broadcasts[k].aggregateId = b
      PROVE  /\ broadcasts[k].sequence # s
             /\ StoredAt(1, b) => broadcasts[k].sequence < s
  <2>1. broadcasts[k].sequence \in Nat
    <3>1. broadcasts[k] \in Event
      BY <1>1, ElementOfSeq DEF TypeOK, StoreTypeOK
    <3> QED
      BY <3>1 DEF Event
  <2>2. /\ StoredAt(1, b) => broadcasts[k].sequence < s
        /\ SnapshotAt(1, b) => broadcasts[k].sequence # s
    BY <1>1, <1>3 DEF HeardInv
  <2> QED
    BY <1>2, <2>1, <2>2
<1>4. ASSUME NEW j \in 2..Len(jobs)
      PROVE  /\ StoredAt(j, b) => s < Arg(j).sequence
             /\ SnapshotAt(j, b) => s # Arg(j).sequence
  <2>1. j \in 1..Len(jobs) /\ j > 1 /\ j # 1
    BY <1>1
  <2>2. CASE StoredAt(1, b)
    <3>1. Follows(b, 1, s)
      BY <1>1, <1>2, <2>2 DEF OrderInv, Brings
    <3>2. StoredAt(j, b) => s < Arg(j).sequence
      BY <2>1, <3>1 DEF Follows
    <3>3. SnapshotAt(j, b) => Arg(j).sequence < s /\ Arg(j).sequence \in Nat
      BY <1>1, <1>2, <2>1, <2>2, JobNumbers DEF HeardInv
    <3> QED
      BY <1>2, <3>2, <3>3
  <2>3. CASE SnapshotAt(1, b)
    BY <1>1, <1>2, <2>1, <2>3 DEF HeardInv
  <2> QED
    BY <2>2, <2>3
<1> QED
  BY <1>2, <1>3, <1>4

\* Where a job with an event comes from.
LEMMA Whence ==
    ASSUME TypeOK, NEW d, NEW x, NEW l, Carries(d, x, l), NEW j \in 1..Len(jobs'), NEW a,
           StoredAt(j, a)' \/ SnapshotAt(j, a)'
    PROVE  \/ \E h \in (1 + d)..Len(jobs) :
                 /\ h = j + d /\ Arg(j)' = Arg(h)
                 /\ StoredAt(j, a)' <=> StoredAt(h, a)
                 /\ SnapshotAt(j, a)' <=> SnapshotAt(h, a)
           \/ /\ j = Len(jobs') /\ l \in Snapshotting \cup {"stored"}
              /\ StoredAt(j, a)' <=> l = "stored"
              /\ SnapshotAt(j, a)' <=> l # "stored"
              /\ Arg(j)' = arg'[x] /\ arg'[x].aggregateId = a
<1>1. CASE j \in 1..(Len(jobs) - d)
  <2>1. PICK h : h = j + d
    OBVIOUS
  <2>2. h \in (1 + d)..Len(jobs)
    BY <1>1, <2>1, PlaceOf
  <2>3. jobs[h].at # "worker"
    BY <1>1, <2>1, OldJob DEF StoredAt, SnapshotAt, Snapshotting
  <2> QED
    BY <1>1, <2>1, <2>2, <2>3, OldJob
<1>2. CASE j > Len(jobs) - d
  <2>1. j = Len(jobs') /\ jobs'[j].at = l /\ jobs'[j].of = x
    BY <1>2, NewJob DEF StoredAt, SnapshotAt, Snapshotting
  <2> QED
    BY <2>1 DEF StoredAt, SnapshotAt, Snapshotting, Arg
<1> QED
  BY <1>1, <1>2, PlaceOf

\* The event of a new job: of a write that begins, or of the job before it.
NewEvent(d, x, l) ==
    \/ l \notin Snapshotting \cup {"stored"}
    \/ l = "stored" /\ \E e \in Event : Appends(d, x, e)
    \/ /\ l \in Snapshotting /\ d = 1 /\ arg'[x] = Arg(1)
       /\ \E b : StoredAt(1, b) \/ SnapshotAt(1, b)

\* What is so of the events of jobs before a step is so of their events, and
\* of the new job's, after it.
LEMMA EventsOfJobs ==
    ASSUME StoreInv, NEW d, NEW x, NEW l, Carries(d, x, l), NewEvent(d, x, l),
           NEW i \in 1..Len(jobs'), NEW j \in 1..Len(jobs'), NEW a
    PROVE  /\ SnapshotAt(i, a)' /\ StoredAt(j, a)' => Arg(i)'.sequence < Arg(j)'.sequence
           /\ SnapshotAt(i, a)' /\ SnapshotAt(j, a)' /\ i # j => Arg(i)'.sequence # Arg(j)'.sequence
<1>1. TypeOK /\ JobInv /\ HeardInv /\ d \in 0..1 /\ d <= Len(jobs) /\ Len(jobs) \in Nat
  BY JobsFacts DEF StoreInv, Carries
<1> DEFINE Was(k, h) == /\ h \in (1 + d)..Len(jobs) /\ h \in 1..Len(jobs) /\ h = k + d /\ Arg(k)' = Arg(h)
                        /\ StoredAt(k, a)' <=> StoredAt(h, a)
                        /\ SnapshotAt(k, a)' <=> SnapshotAt(h, a)
           IsNew(k) == /\ k = Len(jobs') /\ l \in Snapshotting \cup {"stored"}
                       /\ StoredAt(k, a)' <=> l = "stored"
                       /\ SnapshotAt(k, a)' <=> l # "stored"
                       /\ Arg(k)' = arg'[x] /\ arg'[x].aggregateId = a
<1>2. ASSUME NEW k \in 1..Len(jobs'), StoredAt(k, a)' \/ SnapshotAt(k, a)'
      PROVE  (\E h : Was(k, h)) \/ IsNew(k)
  <2>1. \A h \in (1 + d)..Len(jobs) : h \in 1..Len(jobs)
    BY <1>1
  <2> QED
    BY <1>1, <1>2, <2>1, Whence
<1>3. ASSUME NEW g, NEW h, Was(i, g), Was(j, h)
      PROVE  /\ SnapshotAt(i, a)' /\ StoredAt(j, a)' => Arg(i)'.sequence < Arg(j)'.sequence
             /\ SnapshotAt(i, a)' /\ SnapshotAt(j, a)' /\ i # j => Arg(i)'.sequence # Arg(j)'.sequence
  <2>1. SnapshotAt(g, a) => a \in Aggregate
    BY <1>1, <1>3, JobNumbers
  <2>2. i # j => g # h
    BY <1>1, <1>3
  <2> QED
    BY <1>1, <1>3, <2>1, <2>2 DEF HeardInv
\* The new job's event is a new one, or that of the first job.
<1>4. ASSUME NEW k, IsNew(k), l = "stored", NEW h, h \in 1..Len(jobs), SnapshotAt(h, a)
      PROVE  Arg(h).sequence < Arg(k)'.sequence
  <2>1. PICK e \in Event : Appends(d, x, e)
    BY <1>4 DEF NewEvent, Snapshotting
  <2>2. arg'[x] = e /\ e.aggregateId = a /\ e.sequence = Len(events[a]) + 1
    BY <1>4, <2>1 DEF Appends
  <2>3. Arg(h).sequence \in Nat /\ Arg(h).sequence <= Len(events[a]) /\ a \in Aggregate
    BY <1>1, <1>4, JobNumbers
  <2>4. Len(events[a]) \in Nat
    BY <1>1, <2>3, LenProperties DEF TypeOK, StoreTypeOK
  <2> QED
    BY <1>4, <2>2, <2>3, <2>4
<1>5. ASSUME NEW k, IsNew(k), l # "stored"
      PROVE  /\ d = 1 /\ Arg(k)' = Arg(1)
             /\ \A h \in (1 + d)..Len(jobs) :
                   /\ StoredAt(h, a) => Arg(1).sequence < Arg(h).sequence
                   /\ SnapshotAt(h, a) => Arg(1).sequence # Arg(h).sequence
  <2>1. d = 1 /\ arg'[x] = Arg(1) /\ \E b : StoredAt(1, b) \/ SnapshotAt(1, b)
    BY <1>5 DEF NewEvent
  <2>2. Arg(1).aggregateId = a
    BY <1>5, <2>1
  <2>3. StoredAt(1, a) \/ SnapshotAt(1, a)
    BY <2>1, <2>2 DEF StoredAt, SnapshotAt
  <2>4. \A h \in 2..Len(jobs) :
           /\ StoredAt(h, a) => Arg(1).sequence < Arg(h).sequence
           /\ SnapshotAt(h, a) => Arg(1).sequence # Arg(h).sequence
    BY <1>1, <2>1, <2>3, HeadHeard
  <2> QED
    BY <1>5, <2>1, <2>4
<1>6. SUFFICES ASSUME SnapshotAt(i, a)', StoredAt(j, a)' \/ SnapshotAt(j, a)'
               PROVE  /\ StoredAt(j, a)' => Arg(i)'.sequence < Arg(j)'.sequence
                      /\ SnapshotAt(j, a)' /\ i # j => Arg(i)'.sequence # Arg(j)'.sequence
  OBVIOUS
<1>7. ((\E g : Was(i, g)) \/ IsNew(i)) /\ ((\E h : Was(j, h)) \/ IsNew(j))
  BY <1>2, <1>6
<1>8. CASE IsNew(i) /\ IsNew(j)
  BY <1>6, <1>8
<1>9. ASSUME NEW h, IsNew(i), Was(j, h)
      PROVE  /\ StoredAt(j, a)' => Arg(i)'.sequence < Arg(j)'.sequence
             /\ SnapshotAt(j, a)' => Arg(i)'.sequence # Arg(j)'.sequence
  BY <1>5, <1>6, <1>9
<1>10. ASSUME NEW g, Was(i, g), IsNew(j)
       PROVE  /\ StoredAt(j, a)' => Arg(i)'.sequence < Arg(j)'.sequence
              /\ SnapshotAt(j, a)' => Arg(i)'.sequence # Arg(j)'.sequence
  BY <1>4, <1>5, <1>6, <1>10
<1> HIDE DEF Was, IsNew
<1> QED
  BY <1>3, <1>6, <1>7, <1>8, <1>9, <1>10

\* An event that was heard stays behind the writes, and apart from the
\* snapshots, that are under way.
LEMMA HeardOne ==
    ASSUME StoreInv, NEW d, NEW x, NEW l, Carries(d, x, l), NewEvent(d, x, l),
           NEW a \in Aggregate, NEW m \in Nat, m <= Len(events[a]),
           \A h \in 1..Len(jobs) : h > d \/ l \in Snapshotting =>
              /\ StoredAt(h, a) => m < Arg(h).sequence
              /\ SnapshotAt(h, a) => m # Arg(h).sequence,
           NEW j \in 1..Len(jobs')
    PROVE  /\ StoredAt(j, a)' => m < Arg(j)'.sequence
           /\ SnapshotAt(j, a)' => m # Arg(j)'.sequence
<1>1. TypeOK /\ JobInv /\ d \in 0..1 /\ d <= Len(jobs) /\ Len(jobs) \in Nat
  BY JobsFacts DEF StoreInv, Carries
<1>2. SUFFICES ASSUME StoredAt(j, a)' \/ SnapshotAt(j, a)'
               PROVE  /\ StoredAt(j, a)' => m < Arg(j)'.sequence
                      /\ SnapshotAt(j, a)' => m # Arg(j)'.sequence
  OBVIOUS
<1>3. CASE \E h \in (1 + d)..Len(jobs) :
              /\ h = j + d /\ Arg(j)' = Arg(h)
              /\ StoredAt(j, a)' <=> StoredAt(h, a)
              /\ SnapshotAt(j, a)' <=> SnapshotAt(h, a)
  <2>1. PICK h \in (1 + d)..Len(jobs) :
              /\ h = j + d /\ Arg(j)' = Arg(h)
              /\ StoredAt(j, a)' <=> StoredAt(h, a)
              /\ SnapshotAt(j, a)' <=> SnapshotAt(h, a)
    BY <1>3
  <2>2. h \in 1..Len(jobs) /\ h > d
    BY <1>1
  <2> QED
    BY <2>1, <2>2
<1>4. CASE /\ j = Len(jobs') /\ l \in Snapshotting \cup {"stored"}
           /\ StoredAt(j, a)' <=> l = "stored"
           /\ SnapshotAt(j, a)' <=> l # "stored"
           /\ Arg(j)' = arg'[x] /\ arg'[x].aggregateId = a
  <2>1. CASE l = "stored"
    <3>1. PICK e \in Event : Appends(d, x, e)
      BY <2>1 DEF NewEvent, Snapshotting
    <3>2. arg'[x] = e /\ e.aggregateId = a /\ e.sequence = Len(events[a]) + 1
      BY <1>4, <3>1 DEF Appends
    <3>3. Len(events[a]) \in Nat
      BY <1>1, LenProperties DEF TypeOK, StoreTypeOK
    <3> QED
      BY <1>4, <2>1, <3>2, <3>3
  <2>2. CASE l # "stored"
    <3>1. l \in Snapshotting /\ d = 1 /\ arg'[x] = Arg(1) /\ \E b : StoredAt(1, b) \/ SnapshotAt(1, b)
      BY <1>4, <2>2 DEF NewEvent
    <3>2. StoredAt(1, a) \/ SnapshotAt(1, a)
      BY <1>4, <3>1 DEF StoredAt, SnapshotAt
    <3>3. 1 \in 1..Len(jobs)
      BY <1>1, <3>1
    <3>4. Arg(1).sequence \in Nat
      BY <1>1, <3>2, <3>3, JobNumbers
    <3>5. m # Arg(1).sequence
      BY <3>1, <3>2, <3>3, <3>4
    <3> QED
      BY <1>4, <2>2, <3>1, <3>5
  <2> QED
    BY <2>1, <2>2
<1> QED
  BY <1>1, <1>2, <1>3, <1>4, Whence

LEMMA HeardTypes ==
    ASSUME TypeOK
    PROVE  /\ Len(broadcasts) \in Nat /\ DOMAIN broadcasts = 1..Len(broadcasts)
           /\ \A k \in 1..Len(broadcasts) : /\ broadcasts[k].aggregateId \in Aggregate
                                            /\ broadcasts[k].sequence \in Nat
<1>1. broadcasts \in Seq(Event)
  BY DEF TypeOK, StoreTypeOK
<1>2. \A k \in 1..Len(broadcasts) : broadcasts[k] \in Event
  BY <1>1, ElementOfSeq
<1> QED
  BY <1>1, <1>2, LenProperties DEF Event

\* A step in which nothing is broadcast.
LEMMA HeardSame ==
    ASSUME StoreInv, StoreStep, NEW d, NEW x, NEW l, Carries(d, x, l), NewEvent(d, x, l),
           broadcasts' = broadcasts
    PROVE  HeardInv' /\ OvertakenOnlyAtSnapshots'
<1>1. TypeOK /\ JobInv /\ HeardInv /\ OvertakenOnlyAtSnapshots
  BY DEF StoreInv
<1>2. ASSUME NEW k \in 1..Len(broadcasts), NEW i \in 1..Len(jobs')
      PROVE  /\ StoredAt(i, broadcasts[k].aggregateId)' => broadcasts[k].sequence < Arg(i)'.sequence
             /\ SnapshotAt(i, broadcasts[k].aggregateId)' => broadcasts[k].sequence # Arg(i)'.sequence
  <2>1. PICK a, m : a = broadcasts[k].aggregateId /\ m = broadcasts[k].sequence
    OBVIOUS
  <2>2. a \in Aggregate /\ m \in Nat /\ m <= Len(events[a])
    BY <1>1, <2>1, HeardTypes DEF HeardInv
  <2>3. \A h \in 1..Len(jobs) :
           /\ StoredAt(h, a) => m < Arg(h).sequence
           /\ SnapshotAt(h, a) => m # Arg(h).sequence
    BY <1>1, <2>1 DEF HeardInv
  <2>4. /\ StoredAt(i, a)' => m < Arg(i)'.sequence
        /\ SnapshotAt(i, a)' => m # Arg(i)'.sequence
    BY <2>2, <2>3, HeardOne
  <2>5. broadcasts'[k].aggregateId = a
    BY <2>1
  <2>6. /\ StoredAt(i, broadcasts[k].aggregateId)' <=> StoredAt(i, a)'
        /\ SnapshotAt(i, broadcasts[k].aggregateId)' <=> SnapshotAt(i, a)'
    BY <2>5 DEF StoredAt, SnapshotAt
  <2> QED
    BY <2>1, <2>4, <2>6
<1>3. ASSUME NEW k \in 1..Len(broadcasts)
      PROVE  broadcasts[k].sequence <= Len(events'[broadcasts[k].aggregateId])
  <2>1. PICK a, m : a = broadcasts[k].aggregateId /\ m = broadcasts[k].sequence
    OBVIOUS
  <2>2. a \in Aggregate /\ m \in Nat /\ m <= Len(events[a])
    BY <1>1, <2>1, HeardTypes DEF HeardInv
  <2> QED
    BY <1>1, <2>1, <2>2, LogsGrow
<1>4. \A i, j \in 1..Len(jobs'), a \in Aggregate :
         /\ SnapshotAt(i, a)' /\ StoredAt(j, a)' => Arg(i)'.sequence < Arg(j)'.sequence
         /\ SnapshotAt(i, a)' /\ SnapshotAt(j, a)' /\ i # j => Arg(i)'.sequence # Arg(j)'.sequence
  BY EventsOfJobs
<1>5. HeardInv'
  BY <1>2, <1>3, <1>4 DEF HeardInv
<1>6. OvertakenOnlyAtSnapshots'
  BY <1>1 DEF OvertakenOnlyAtSnapshots, SnapshotDue
<1> QED
  BY <1>5, <1>6

\* A step that broadcasts the event of the first job, which a snapshot is due
\* for unless its write has just been stored.
LEMMA HeardNew ==
    ASSUME StoreInv, StoreStep, NEW c, NEW l, Continues(c, l, "resume"), arg' = arg,
           l = "stored" \/ (l \in Snapshotting /\ SnapshotDue(arg[c])),
           broadcasts' = Append(broadcasts, arg[c])
    PROVE  HeardInv' /\ OvertakenOnlyAtSnapshots'
<1>1. TypeOK /\ JobInv /\ HeardInv /\ OvertakenOnlyAtSnapshots /\ Len(jobs) \in Nat
  BY JobsFacts DEF StoreInv
<1>2. PICK b, s, n : b = arg[c].aggregateId /\ s = arg[c].sequence /\ n = Len(broadcasts)
  OBVIOUS
<1>3. /\ jobs[1].at = l /\ jobs[1].of = c /\ Len(jobs) >= 1 /\ Arg(1) = arg[c]
      /\ Carries(1, c, "resume") /\ NewEvent(1, c, "resume")
  BY DEF Continues, Job, Arg, NewEvent, Snapshotting
<1>4. (StoredAt(1, b) <=> l = "stored") /\ (SnapshotAt(1, b) <=> l \in Snapshotting)
  BY <1>2, <1>3 DEF StoredAt, SnapshotAt
<1>5. /\ s \in Nat /\ b \in Aggregate /\ s <= Len(events[b]) /\ arg[c] \in Event
      /\ \A k \in 1..n : broadcasts[k].aggregateId = b =>
            /\ broadcasts[k].sequence # s
            /\ l = "stored" => broadcasts[k].sequence < s
      /\ \A j \in 2..Len(jobs) :
            /\ StoredAt(j, b) => s < Arg(j).sequence
            /\ SnapshotAt(j, b) => s # Arg(j).sequence
  BY <1>2, <1>3, <1>4, HeadHeard
<1>6. n \in Nat /\ broadcasts \in Seq(Event)
  BY <1>1, <1>2, HeardTypes DEF TypeOK, StoreTypeOK
<1>7. /\ Len(broadcasts') = n + 1 /\ DOMAIN broadcasts' = 1..(n + 1)
      /\ \A k \in 1..n : broadcasts'[k] = broadcasts[k]
      /\ broadcasts'[n + 1] = arg[c]
  BY <1>2, <1>5, <1>6, AppendProperties, LenProperties
<1>8. ASSUME NEW k \in 1..Len(broadcasts')
      PROVE  \/ k \in 1..n /\ broadcasts'[k] = broadcasts[k]
             \/ k = n + 1 /\ broadcasts'[k].aggregateId = b /\ broadcasts'[k].sequence = s
  BY <1>2, <1>6, <1>7
<1>9. ASSUME NEW k \in 1..Len(broadcasts')
      PROVE  \E a \in Aggregate, m \in Nat :
                /\ a = broadcasts'[k].aggregateId /\ m = broadcasts'[k].sequence
                /\ m <= Len(events[a])
                /\ \A h \in 1..Len(jobs) : h > 1 =>
                      /\ StoredAt(h, a) => m < Arg(h).sequence
                      /\ SnapshotAt(h, a) => m # Arg(h).sequence
  <2>1. CASE k \in 1..n /\ broadcasts'[k] = broadcasts[k]
    <3>1. broadcasts[k].aggregateId \in Aggregate /\ broadcasts[k].sequence \in Nat
      BY <1>1, <1>2, <2>1, HeardTypes
    <3> QED
      BY <1>1, <1>2, <2>1, <3>1 DEF HeardInv
  <2>2. CASE k = n + 1 /\ broadcasts'[k].aggregateId = b /\ broadcasts'[k].sequence = s
    <3>1. \A h \in 1..Len(jobs) : h > 1 => h \in 2..Len(jobs)
      BY <1>1
    <3> QED
      BY <1>5, <2>2, <3>1
  <2> QED
    BY <1>8, <2>1, <2>2
<1>10. ASSUME NEW k \in 1..Len(broadcasts'), NEW i \in 1..Len(jobs')
       PROVE  /\ StoredAt(i, broadcasts[k].aggregateId)' => broadcasts'[k].sequence < Arg(i)'.sequence
              /\ SnapshotAt(i, broadcasts[k].aggregateId)' => broadcasts'[k].sequence # Arg(i)'.sequence
  <2>1. PICK a \in Aggregate, m \in Nat :
           /\ a = broadcasts'[k].aggregateId /\ m = broadcasts'[k].sequence
           /\ m <= Len(events[a])
           /\ \A h \in 1..Len(jobs) : h > 1 =>
                 /\ StoredAt(h, a) => m < Arg(h).sequence
                 /\ SnapshotAt(h, a) => m # Arg(h).sequence
    BY <1>9
  <2>2. "resume" \notin Snapshotting
    BY DEF Snapshotting
  <2>3. \A h \in 1..Len(jobs) : h > 1 \/ "resume" \in Snapshotting =>
           /\ StoredAt(h, a) => m < Arg(h).sequence
           /\ SnapshotAt(h, a) => m # Arg(h).sequence
    BY <2>1, <2>2
  <2>4. Carries(1, c, "resume") /\ NewEvent(1, c, "resume") /\ m <= Len(events[a])
    BY <1>3, <2>1
  <2>5. /\ StoredAt(i, a)' => m < Arg(i)'.sequence
        /\ SnapshotAt(i, a)' => m # Arg(i)'.sequence
    BY <2>3, <2>4, HeardOne
  <2>6. /\ StoredAt(i, broadcasts[k].aggregateId)' <=> StoredAt(i, a)'
        /\ SnapshotAt(i, broadcasts[k].aggregateId)' <=> SnapshotAt(i, a)'
    BY <2>1 DEF StoredAt, SnapshotAt
  <2> QED
    BY <2>1, <2>5, <2>6
<1>11. ASSUME NEW k \in 1..Len(broadcasts')
       PROVE  broadcasts'[k].sequence <= Len(events'[broadcasts'[k].aggregateId])
  <2>1. PICK a \in Aggregate, m \in Nat :
           a = broadcasts'[k].aggregateId /\ m = broadcasts'[k].sequence /\ m <= Len(events[a])
    BY <1>9
  <2> QED
    BY <1>1, <2>1, LogsGrow
<1>12. \A i, j \in 1..Len(jobs'), a \in Aggregate :
          /\ SnapshotAt(i, a)' /\ StoredAt(j, a)' => Arg(i)'.sequence < Arg(j)'.sequence
          /\ SnapshotAt(i, a)' /\ SnapshotAt(j, a)' /\ i # j => Arg(i)'.sequence # Arg(j)'.sequence
  BY <1>3, EventsOfJobs
<1>13. HeardInv'
  BY <1>10, <1>11, <1>12 DEF HeardInv
<1>14. OvertakenOnlyAtSnapshots'
  <2>1. SUFFICES ASSUME NEW i \in 1..(n + 1), NEW j \in 1..(n + 1), i < j,
                        broadcasts'[i].aggregateId = broadcasts'[j].aggregateId
                 PROVE  \/ broadcasts'[i].sequence < broadcasts'[j].sequence
                        \/ /\ broadcasts'[i].sequence > broadcasts'[j].sequence
                           /\ SnapshotDue(broadcasts'[j])
    BY <1>7 DEF OvertakenOnlyAtSnapshots, SnapshotDue
  <2>2. i \in 1..n
    BY <1>6, <2>1
  <2>3. CASE j \in 1..n
    <3>1. i \in DOMAIN broadcasts /\ j \in DOMAIN broadcasts
      BY <1>1, <1>2, <2>2, <2>3, HeardTypes
    <3> QED
      BY <1>1, <1>7, <2>1, <2>2, <2>3, <3>1 DEF OvertakenOnlyAtSnapshots
  <2>4. CASE j = n + 1
    <3>1. broadcasts'[j] = arg[c] /\ broadcasts'[i] = broadcasts[i] /\ broadcasts[i].aggregateId = b
      BY <1>2, <1>7, <2>1, <2>2, <2>4
    <3>2. broadcasts[i].sequence # s /\ (l = "stored" => broadcasts[i].sequence < s)
          /\ broadcasts[i].sequence \in Nat
      BY <1>1, <1>2, <1>5, <2>2, <3>1, HeardTypes
    <3>3. l # "stored" => SnapshotDue(arg[c])
      OBVIOUS
    <3> QED
      BY <1>2, <1>5, <3>1, <3>2, <3>3
  <2>5. j \in 1..n \/ j = n + 1
    BY <1>6
  <2> QED
    BY <2>3, <2>4, <2>5
<1> QED
  BY <1>13, <1>14

LEMMA HeardStep ==
    ASSUME StoreInv, StoreStep
    PROVE  HeardInv' /\ OvertakenOnlyAtSnapshots'
<1>1. ASSUME NEW d, NEW x, NEW l, Rests(d, x, l) PROVE HeardInv' /\ OvertakenOnlyAtSnapshots'
  <2>1. Carries(d, x, l) /\ NewEvent(d, x, l) /\ broadcasts' = broadcasts
    BY <1>1 DEF Rests, NewEvent, Snapshotting
  <2> QED
    BY <2>1, HeardSame
<1>2. ASSUME NEW d, NEW c, NEW e \in Event, Appends(d, c, e)
      PROVE  HeardInv' /\ OvertakenOnlyAtSnapshots'
  <2>1. Carries(d, c, "stored") /\ NewEvent(d, c, "stored") /\ broadcasts' = broadcasts
    BY <1>2 DEF Appends, NewEvent
  <2> QED
    BY <2>1, HeardSame
<1>3. ASSUME NEW c, NEW a, Asks(c, a) PROVE HeardInv' /\ OvertakenOnlyAtSnapshots'
  <2>1. Carries(0, c, "loaded") /\ NewEvent(0, c, "loaded") /\ broadcasts' = broadcasts
    BY <1>3 DEF Asks, NewEvent, Snapshotting
  <2> QED
    BY <2>1, HeardSame
<1>4. ASSUME NEW c, NEW l, NEW m, Continues(c, l, m), arg' = arg, broadcasts' = broadcasts,
             \/ m = "resume"
             \/ m \in Snapshotting /\ l \in Snapshotting \cup {"stored"}
      PROVE  HeardInv' /\ OvertakenOnlyAtSnapshots'
  <2>1. Carries(1, c, m) /\ jobs[1].at = l /\ Arg(1) = arg'[c]
    BY <1>4 DEF Continues, Arg, Job
  <2>2. l \in Snapshotting \cup {"stored"} => \E b : StoredAt(1, b) \/ SnapshotAt(1, b)
    BY <2>1 DEF StoredAt, SnapshotAt
  <2>3. NewEvent(1, c, m)
    BY <1>4, <2>1, <2>2 DEF NewEvent, Snapshotting
  <2> QED
    BY <1>4, <2>1, <2>3, HeardSame
<1>5. \A c \in Caller : Loaded(c) /\ Continues(c, "loaded", "resume") => HeardInv' /\ OvertakenOnlyAtSnapshots'
  BY <1>4 DEF Loaded
<1>6. \A c \in Caller : StoredSnapshotDue(c) /\ Continues(c, "stored", "copy")
                          => HeardInv' /\ OvertakenOnlyAtSnapshots'
  BY <1>4 DEF StoredSnapshotDue, Snapshotting
<1>7. \A c \in Caller : Copy(c) /\ Continues(c, "copy", "written") => HeardInv' /\ OvertakenOnlyAtSnapshots'
  BY <1>4 DEF Copy, Snapshotting
<1>8. \A c \in Caller : Written(c) /\ Continues(c, "written", "broadcast")
                          => HeardInv' /\ OvertakenOnlyAtSnapshots'
  BY <1>4 DEF Written, Snapshotting, storeVars
<1>9. \A c \in Caller : \A js : Stored(c, js) /\ Continues(c, "stored", "resume")
                              => HeardInv' /\ OvertakenOnlyAtSnapshots'
  BY HeardNew DEF Stored, Broadcast
<1>10. ASSUME NEW c \in Caller, NEW js, SnapshotMade(c, js), Continues(c, "broadcast", "resume")
       PROVE  HeardInv' /\ OvertakenOnlyAtSnapshots'
  <2>1. "broadcast" \in Snapshotting /\ SnapshotDue(arg[c])
    BY <1>10 DEF Continues, Fits, Snapshotting
  <2>2. arg' = arg /\ broadcasts' = Append(broadcasts, arg[c])
    BY <1>10 DEF SnapshotMade, Broadcast
  <2> QED
    BY <1>10, <2>1, <2>2, HeardNew
<1> QED
  BY <1>1, <1>2, <1>3, <1>5, <1>6, <1>7, <1>8, <1>9, <1>10 DEF StoreStep

-----------------------------------------------------------------------------
(* The store's invariant                                                    *)

LEMMA StoreInvInit == Init => StoreInv
<1> SUFFICES ASSUME Init PROVE StoreInv
  OBVIOUS
<1>1. jobs = <<>> /\ broadcasts = <<>> /\ \A a \in Aggregate : events[a] = <<>> /\ actors[a] = <<>>
  BY DEF Init, LoopInit, StoreInit
<1>2. Len(<<>>) = 0 /\ 1..0 = {} /\ DOMAIN <<>> = {}
  OBVIOUS
<1>3. TypeOK
  <2>1. \A S : <<>> \in Seq(S)
    BY EmptySeq
  <2>2. NewState \in ProjectionState
    BY DEF NewState, ProjectionState
  <2>3. ProjectorTypeOK(Event)
    BY <2>1, <2>2 DEF Init, ProjectorInit, ProjectorTypeOK
  <2>4. StoreTypeOK
    BY <2>1 DEF Init, StoreInit, StoreTypeOK
  <2> QED
    BY <2>1, <2>3, <2>4 DEF Init, LoopInit, TypeOK
<1>4. LogGapFree /\ JobInv /\ OneJobInv /\ OrderInv /\ CopyInv /\ HeardInv /\ OvertakenOnlyAtSnapshots
  BY <1>1, <1>2 DEF LogGapFree, JobInv, OneJobInv, OrderInv, CopyInv, HeardInv, OvertakenOnlyAtSnapshots
<1>5. CacheInv
  BY <1>1, <1>2 DEF CacheInv, Cached
<1>6. SnapshotInv
  BY <1>1, <1>2 DEF SnapshotInv, Init, StoreInit
<1> QED
  BY <1>3, <1>4, <1>5, <1>6 DEF StoreInv

LEMMA StoreInvStep == StoreInv /\ [Next]_vars => StoreInv'
<1> SUFFICES ASSUME StoreInv, [Next]_vars PROVE StoreInv'
  OBVIOUS
<1>1. StoreStep /\ TypeOK'
  BY StoreSteps, TypeStep
<1>2. LogGapFree' /\ JobInv' /\ OneJobInv' /\ OrderInv'
  BY <1>1, GapFreeStep, JobInvStep, OneJobStep, OrderStep DEF StoreInv
<1>3. CacheInv' /\ CopyInv' /\ SnapshotInv' /\ HeardInv' /\ OvertakenOnlyAtSnapshots'
  BY <1>1, CacheStep, CopyStep, SnapshotStep, HeardStep
<1> QED
  BY <1>1, <1>2, <1>3 DEF StoreInv

LEMMA SpecStoreInv == Spec => []StoreInv
BY StoreInvInit, StoreInvStep, PTL DEF Spec

\* The types of the store's, the engine's and the queue's state.
THEOREM TypeCorrect == Spec => []TypeOK
<1>1. StoreInv => TypeOK
  BY DEF StoreInv
<1> QED
  BY <1>1, SpecStoreInv, PTL

\* A stored snapshot shows at least the event it is labelled with and at most
\* what the log has (createSnapshot), for any interval and any callers.
THEOREM SnapshotCorrect == Spec => []SnapshotNotBehind
<1>1. StoreInv => SnapshotNotBehind
  <2>1. ASSUME StoreInv, NEW a \in Aggregate
        PROVE  /\ snapshots[a].sequence <= snapshots[a].lastSequence
               /\ snapshots[a].lastSequence <= LastSequence(a)
    BY <2>1, LastIsLen DEF StoreInv, SnapshotInv
  <2> QED
    BY <2>1 DEF SnapshotNotBehind
<1> QED
  BY <1>1, SpecStoreInv, PTL

\* Listeners hear of an event once, and only an event that a snapshot is due
\* for comes after a later one of its aggregate (broadcastEvent).
THEOREM BroadcastOrder == Spec => []OvertakenOnlyAtSnapshots
<1>1. StoreInv => OvertakenOnlyAtSnapshots
  BY DEF StoreInv
<1> QED
  BY <1>1, SpecStoreInv, PTL

-----------------------------------------------------------------------------
(* The cache's distance to the log                                          *)

\* The writes that the cache does not reflect are as many as it is behind.
LEMMA UncachedCount ==
    ASSUME StoreInv, NEW a \in Aggregate, NEW n \in Nat, Follows(a, 0, n)
    PROVE  n + Cardinality(Uncached(a)) = Len(events[a])
<1>1. TypeOK /\ JobInv /\ OrderInv /\ Len(jobs) \in Nat /\ DOMAIN jobs = 1..Len(jobs)
  BY JobsFacts, LenProperties DEF StoreInv
<1>2. PICK l : l = Len(events[a])
  OBVIOUS
<1>3. l \in Nat /\ n <= l
  BY <1>1, <1>2, LenProperties DEF Follows, TypeOK, StoreTypeOK
<1> DEFINE U == Uncached(a)
           number == [i \in U |-> Arg(i).sequence]
           numbers == (n + 1)..l
<1>4. \A i : i \in U <=> i \in 1..Len(jobs) /\ StoredAt(i, a)
  BY <1>1 DEF Uncached, StoredAt, Arg
<1> HIDE DEF U
<1>5. ASSUME NEW i \in U PROVE Arg(i).sequence \in numbers
  <2>1. i \in 1..Len(jobs) /\ StoredAt(i, a) /\ i > 0
    BY <1>4
  <2>2. Arg(i).sequence \in Nat /\ Arg(i).sequence <= l
    BY <1>1, <1>2, <2>1, JobNumbers
  <2>3. n < Arg(i).sequence
    BY <2>1 DEF Follows
  <2> QED
    BY <1>3, <2>2, <2>3
<1>6. ASSUME NEW i \in U, NEW j \in U, i < j PROVE Arg(i).sequence < Arg(j).sequence
  <2>1. i \in 1..Len(jobs) /\ StoredAt(i, a) /\ j \in 1..Len(jobs) /\ StoredAt(j, a) /\ j > i
    BY <1>4, <1>6
  <2>2. PICK s : s = Arg(i).sequence
    OBVIOUS
  <2>3. s \in Nat /\ Brings(i, a, s)
    BY <1>1, <2>1, <2>2, JobNumbers DEF Brings
  <2>4. Follows(a, i, s)
    BY <1>1, <2>1, <2>3 DEF OrderInv
  <2> QED
    BY <2>1, <2>2, <2>4 DEF Follows
<1>7. ASSUME NEW i \in U, NEW j \in U, i # j PROVE Arg(i).sequence # Arg(j).sequence
  <2>1. i \in Nat /\ j \in Nat /\ (i < j \/ j < i)
    BY <1>4, <1>7
  <2>2. Arg(i).sequence \in Nat /\ Arg(j).sequence \in Nat
    BY <1>3, <1>5
  <2> QED
    BY <1>6, <2>1, <2>2
<1>8. \A m \in numbers : \E i \in U : Arg(i).sequence = m
  BY <1>2, <1>4 DEF Follows
<1>9. number \in Bijection(U, numbers)
  BY <1>5, <1>7, <1>8 DEF Bijection, Injection, Surjection, IsInjective
<1>10. IsFiniteSet(numbers) /\ Cardinality(numbers) = l - n
  <2>1. n + 1 \in Int /\ l \in Int
    BY <1>3
  <2>2. IsFiniteSet(numbers) /\ Cardinality(numbers) = IF n + 1 > l THEN 0 ELSE l - (n + 1) + 1
    BY <2>1, FS_Interval
  <2> QED
    BY <1>3, <2>2
<1>11. Cardinality(U) = Cardinality(numbers)
  <2> HIDE DEF number, numbers
  <2>1. IsFiniteSet(U)
    <3>1. U \in SUBSET (1..Len(jobs)) /\ 1 \in Int /\ Len(jobs) \in Int
      BY <1>1, <1>4
    <3>2. IsFiniteSet(1..Len(jobs))
      BY <3>1, FS_Interval
    <3> QED
      BY <3>1, <3>2, FS_Subset
  <2> QED
    BY <1>9, <2>1, FS_Bijection DEF ExistsBijection
<1> QED
  BY <1>2, <1>3, <1>10, <1>11 DEF U

\* The cached number of an aggregate (EventStore.actors) is behind the log by
\* the writes whose first await has not been answered, for any callers and
\* any interleaving of their calls.
THEOREM CacheIsCurrent == Spec => []CacheCurrent
<1>1. ASSUME StoreInv, NEW a \in Aggregate, actors[a] # <<>>
      PROVE  Last(actors[a]) + Cardinality(Uncached(a)) = LastSequence(a)
  <2>1. TypeOK /\ CacheInv /\ LogGapFree
    BY <1>1 DEF StoreInv
  <2>2. PICK n : n = Last(actors[a])
    OBVIOUS
  <2>3. Cached(a, n)
    BY <1>1, <2>2 DEF Cached
  <2>4. actors[a] \in Seq(Nat) /\ Len(actors[a]) \in 1..Len(actors[a])
    BY <1>1, <2>1, CachedFacts DEF TypeOK, StoreTypeOK
  <2>5. n \in Nat
    BY <2>2, <2>4, ElementOfSeq DEF Last
  <2>6. Follows(a, 0, n)
    BY <2>1, <2>3, <2>5 DEF CacheInv
  <2> QED
    BY <1>1, <2>1, <2>2, <2>5, <2>6, UncachedCount, LastIsLen
<1>2. StoreInv => CacheCurrent
  BY <1>1 DEF CacheCurrent
<1> QED
  BY <1>2, SpecStoreInv, PTL

-----------------------------------------------------------------------------
(* The workers                                                              *)

LEMMA QueuedStays ==
    ASSUME TypeOK, NEW d, NEW js \in Seq(JobRecord), Moved(d, js), NEW w,
           \/ Has(js, Job("worker", w))
           \/ Queued(w) /\ (d = 1 => jobs[1] # Job("worker", w))
    PROVE  Queued(w)'
<1>1. d \in 0..1 /\ d <= Len(jobs) /\ Len(jobs) \in Nat /\ Len(js) \in Nat
      /\ Len(jobs') = Len(jobs) - d + Len(js)
  BY JobsFacts, LenProperties DEF Moved
<1>2. CASE Has(js, Job("worker", w))
  <2>1. PICK i \in 1..Len(js) : js[i] = Job("worker", w)
    BY <1>2 DEF Has
  <2>2. PICK k : k = Len(jobs) - d + i
    OBVIOUS
  <2>3. k \in 1..Len(jobs') /\ jobs'[k] = Job("worker", w)
    BY <1>1, <2>1, <2>2 DEF Moved
  <2> QED
    BY <2>3 DEF Queued, Has, Job
<1>3. CASE Queued(w) /\ (d = 1 => jobs[1] # Job("worker", w))
  <2>1. PICK i \in 1..Len(jobs) : jobs[i] = Job("worker", w)
    BY <1>3 DEF Queued, Has
  <2>2. PICK k : k = i - d
    OBVIOUS
  <2>3. k \in 1..(Len(jobs) - d) /\ k + d = i
    BY <1>1, <1>3, <2>1, <2>2
  <2>4. jobs'[k] = Job("worker", w) /\ k \in 1..Len(jobs')
    BY <1>1, <2>1, <2>3 DEF Moved
  <2> QED
    BY <2>4 DEF Queued, Has, Job
<1> QED
  BY <1>2, <1>3

\* A step that is no worker's leaves every worker its job.
LEMMA QueuedKept ==
    ASSUME TypeOK, JobInv, NEW js \in Seq(JobRecord),
           \/ Script(js)
           \/ \E l, c : l # "worker" /\ RunJob(Job(l, c), js)
    PROVE  \A w : Queued(w) \/ Has(js, Job("worker", w)) => Queued(w)'
<1>1. CASE Script(js)
  <2>1. Moved(0, js)
    BY <1>1, JobsFacts, ScriptMoves
  <2> QED
    BY <2>1, QueuedStays
<1>2. ASSUME NEW l, NEW c, l # "worker", RunJob(Job(l, c), js)
      PROVE  \A w : Queued(w) \/ Has(js, Job("worker", w)) => Queued(w)'
  <2>1. Moved(1, js) /\ jobs[1] = Job(l, c)
    BY <1>2, HeadFits
  <2>2. \A w : jobs[1] # Job("worker", w)
    BY <1>2, <2>1 DEF Job
  <2> QED
    BY <2>1, <2>2, QueuedStays
<1> QED
  BY <1>1, <1>2

\* A step that leaves the workers alone.
LEMMA WorkersIdle ==
    ASSUME TypeOK, JobInv, WorkerInv, NEW js \in Seq(JobRecord),
           \/ Script(js)
           \/ \E l, c : l # "worker" /\ RunJob(Job(l, c), js),
           queue' = queue, processing' = processing, awake' = awake \/ awake' = [w \in Worker |-> FALSE]
    PROVE  WorkerInv'
<1>1. \A w : Queued(w) => Queued(w)'
  BY QueuedKept
<1>2. ASSUME NEW w \in Worker
      PROVE  /\ processing'[w] => Queued(w)'
             /\ awake'[w] /\ queue'[w] # <<>> => processing'[w]
  BY <1>1 DEF WorkerInv
<1> QED
  BY <1>2 DEF WorkerInv

LEMMA ScriptWorkers == ASSUME StoreInv, WorkerInv, ScriptStep PROVE WorkerInv'
<1>1. TypeOK /\ JobInv /\ ProjectorTypeOK(Event)
  BY DEF StoreInv, TypeOK
<1>2. <<>> \in Seq(JobRecord) /\ LeftoverJobs \in Seq(JobRecord)
  BY JobSequences, LeftoverJobsIs
<1>3. CASE Start
  <2>1. Script(LeftoverJobs) /\ EngineStart
    BY <1>3 DEF Start
  <2>2. ASSUME NEW w \in Worker
        PROVE  /\ processing'[w] => Queued(w)'
               /\ awake'[w] /\ queue'[w] # <<>> => processing'[w]
    <3>1. processing'[w] = (processing[w] \/ w \in Leftover)
      BY <2>1 DEF EngineStart
    <3>2. w \in Leftover <=> queue[w] # <<>> /\ ~processing[w]
      BY DEF Leftover
    <3>3. queue'[w] = IF w \in Leftover THEN Tail(queue[w]) ELSE queue[w]
      BY <2>1 DEF EngineStart, ApplyHeads
    <3>4. processing[w] => Queued(w)
      BY DEF WorkerInv
    <3>5. w \in Leftover => Has(LeftoverJobs, Job("worker", w))
      BY LeftoverJobsIs
    <3>6. Queued(w) \/ Has(LeftoverJobs, Job("worker", w)) => Queued(w)'
      BY <1>1, <1>2, <2>1, QueuedKept
    <3> QED
      BY <3>1, <3>2, <3>3, <3>4, <3>5, <3>6
  <2> QED
    BY <2>2 DEF WorkerInv
<1>4. CASE Stop \/ \E p \in Projection : Register(p) \/ AskProjection(p)
  <2>1. /\ Script(<<>>) /\ queue' = queue /\ processing' = processing
        /\ awake' = awake \/ awake' = [w \in Worker |-> FALSE]
    BY <1>4 DEF Stop, EngineStop, Register, RegisterProjection, AskProjection, Query
  <2> QED
    BY <1>1, <1>2, <2>1, WorkersIdle
<1>5. ASSUME NEW c \in Caller, NEW e \in Submitted, Write(c, e) PROVE WorkerInv'
  <2>1. <<Job(Awaits(e), c)>> \in Seq(JobRecord)
    BY JobTypes, JobSequences DEF Awaits, Label
  <2> QED
    BY <1>1, <1>5, <2>1, WorkersIdle DEF Write, projectorVars
<1>6. ASSUME NEW c \in Caller, NEW a \in Aggregate, AskActor(c, a) PROVE WorkerInv'
  <2>1. <<Job(ActorAwaits(a), c)>> \in Seq(JobRecord)
    BY JobTypes, JobSequences DEF ActorAwaits, Label
  <2> QED
    BY <1>1, <1>6, <2>1, WorkersIdle DEF AskActor, projectorVars
<1> QED
  BY <1>3, <1>4, <1>5, <1>6 DEF ScriptStep

\* A worker that an event finds idle is started, if it is awake.
LEMMA RouteWorkers ==
    ASSUME TypeOK, JobInv, WorkerInv, NEW c \in Caller, BroadcastStep(c)
    PROVE  WorkerInv'
<1>1. PICK e : e = arg[c]
  OBVIOUS
<1>2. e \in Event
  BY <1>1, NextCaller DEF BroadcastStep, Stored, SnapshotMade, Fits, Snapshotting
<1>3. definitions \in Seq(Projection) /\ queue \in [Worker -> Seq(Update(Event))]
      /\ processing \in [Worker -> BOOLEAN]
  BY DEF TypeOK, ProjectorTypeOK
<1>4. Woken(e) \in Seq(WorkerJob) /\ \A w \in Started(e) : Has(Woken(e), Job("worker", w))
  BY <1>2, <1>3, WokenIs
<1>5. PICK js : js = Woken(e) \o <<Job("resume", c)>>
  OBVIOUS
<1>6. Job("resume", c) \in JobRecord
  BY JobTypes DEF Label
<1>7. js \in Seq(JobRecord)
  BY <1>4, <1>5, <1>6, JobSequences
<1>8. \E l : l # "worker" /\ RunJob(Job(l, c), js)
  <2>1. RunJob(Job("stored", c), js) \/ RunJob(Job("broadcast", c), js)
    BY <1>1, <1>5 DEF BroadcastStep, Stored, SnapshotMade
  <2> QED
    BY <2>1
<1>9. \A w \in Started(e) : Has(js, Job("worker", w))
  <2>1. Woken(e) \in Seq(JobRecord) /\ <<Job("resume", c)>> \in Seq(JobRecord)
    BY <1>4, <1>6, JobSequences
  <2>2. /\ Len(Woken(e)) \in Nat /\ Len(<<Job("resume", c)>>) \in Nat
        /\ Len(js) = Len(Woken(e)) + Len(<<Job("resume", c)>>)
        /\ \A i \in 1..Len(Woken(e)) : js[i] = Woken(e)[i]
    BY <1>5, <2>1, Concatenated
  <2> QED
    BY <1>4, <2>2 DEF Has
<1>10. RouteEvent(e)
  BY <1>1 DEF BroadcastStep
<1>11. ASSUME NEW w \in Worker
       PROVE  /\ processing'[w] => Queued(w)'
              /\ awake'[w] /\ queue'[w] # <<>> => processing'[w]
  <2>1. processing'[w] = (processing[w] \/ w \in Started(e)) /\ awake' = awake
    BY <1>10 DEF RouteEvent
  <2>2. queue'[w] = IF w \in Started(e) THEN Tail(Line(e, w)) ELSE Line(e, w)
    BY <1>10 DEF RouteEvent, ApplyHeads
  <2>3. Queued(w) \/ Has(js, Job("worker", w)) => Queued(w)'
    BY <1>7, <1>8, QueuedKept
  <2>4. processing'[w] => Queued(w)'
    BY <1>9, <2>1, <2>3 DEF WorkerInv
  <2>5. ASSUME w \notin Started(e), awake[w], ~processing[w] PROVE Line(e, w) = <<>>
    <3>1. queue[w] = <<>>
      BY <2>5 DEF WorkerInv
    <3>2. \A p : ~Has(Served(e, w), p)
      BY <1>3, <2>5, ServedIs DEF Started
    <3>3. Served(e, w) \in Seq(Projection)
      BY <1>3, ServedIs
    <3>4. Len(Served(e, w)) = 0
      BY <3>2, <3>3, LenProperties DEF Has
    <3>5. Len(Line(e, w)) = 0 /\ Line(e, w) \in Seq(Update(Event))
      BY <1>2, <1>3, <3>1, <3>4, LineType
    <3> QED
      BY <3>5, EmptySeq
  <2> QED
    BY <2>1, <2>2, <2>4, <2>5
<1> QED
  BY <1>11 DEF WorkerInv

LEMMA WorkerJobs ==
    ASSUME TypeOK, JobInv, WorkerInv, NEW w \in Worker, WorkerStep(w)
    PROVE  WorkerInv'
<1>1. processing \in [Worker -> BOOLEAN] /\ queue \in [Worker -> Seq(Update(Event))]
  BY DEF TypeOK, ProjectorTypeOK
<1>2. <<>> \in Seq(JobRecord) /\ <<Job("worker", w)>> \in Seq(JobRecord)
  BY JobTypes, JobSequences
<1>3. PICK js \in Seq(JobRecord) :
         /\ RunJob(Job("worker", w), js)
         /\ WorkerContinues(w) => Has(js, Job("worker", w))
  <2>1. Has(<<Job("worker", w)>>, Job("worker", w))
    BY DEF Has
  <2> QED
    BY <1>2, <2>1 DEF WorkerStep, WorkerContinues, WorkerEnds
<1>4. Moved(1, js) /\ jobs[1] = Job("worker", w)
  BY <1>3, HeadFits
<1>5. ASSUME NEW v \in Worker, v # w, Queued(v) PROVE Queued(v)'
  <2>1. jobs[1] # Job("worker", v)
    BY <1>4, <1>5 DEF Job
  <2> QED
    BY <1>4, <1>5, <2>1, QueuedStays
<1>6. CASE WorkerContinues(w)
  <2>1. Queued(w)'
    BY <1>3, <1>4, <1>6, QueuedStays
  <2>2. processing' = processing /\ awake' = awake /\ awake[w] /\ queue[w] # <<>>
        /\ \A v \in Worker : v # w => queue'[v] = queue[v]
    BY <1>6 DEF WorkerContinues, ApplyHeads
  <2>3. ASSUME NEW v \in Worker
        PROVE  /\ processing'[v] => Queued(v)'
               /\ awake'[v] /\ queue'[v] # <<>> => processing'[v]
    BY <1>5, <2>1, <2>2 DEF WorkerInv
  <2> QED
    BY <2>3 DEF WorkerInv
<1>7. CASE WorkerEnds(w)
  <2>1. /\ processing' = [processing EXCEPT ![w] = FALSE] /\ awake' = awake /\ queue' = queue
        /\ ~awake[w] \/ queue[w] = <<>>
    BY <1>7 DEF WorkerEnds
  <2>2. ASSUME NEW v \in Worker
        PROVE  /\ processing'[v] => Queued(v)'
               /\ awake'[v] /\ queue'[v] # <<>> => processing'[v]
    BY <1>1, <1>5, <2>1 DEF WorkerInv
  <2> QED
    BY <2>2 DEF WorkerInv
<1> QED
  BY <1>6, <1>7 DEF WorkerStep

LEMMA WorkerInvStep == ASSUME StoreInv, WorkerInv, [Next]_vars PROVE WorkerInv'
<1>1. TypeOK /\ JobInv
  BY DEF StoreInv
<1>2. ASSUME NEW c \in Caller, NEW l \in Label, NEW m \in Label, RunJob(Job(l, c), <<Job(m, c)>>),
             l # "worker", UNCHANGED projectorVars
      PROVE  WorkerInv'
  <2>1. <<Job(m, c)>> \in Seq(JobRecord)
    BY JobTypes, JobSequences
  <2> QED
    BY <1>1, <1>2, <2>1, WorkersIdle DEF projectorVars
<1>3. ASSUME NEW c \in Caller, Resume(c) PROVE WorkerInv'
  <2>1. <<>> \in Seq(JobRecord)
    BY JobSequences
  <2>2. RunJob(Job("resume", c), <<>>) /\ UNCHANGED projectorVars
    BY <1>3 DEF Resume
  <2> QED
    BY <1>1, <2>1, <2>2, WorkersIdle DEF projectorVars
<1>4. ASSUME NEW c \in Caller, NEW e \in Submitted, ResumeAndWrite(c, e) PROVE WorkerInv'
  <2>1. Awaits(e) \in Label /\ "resume" \in Label
    BY DEF Awaits, Label
  <2> QED
    BY <1>2, <1>4, <2>1 DEF ResumeAndWrite
<1>5. ASSUME NEW c \in Caller, CallStep(c) PROVE WorkerInv'
  <2>1. {"stored", "refused", "copy", "written", "broadcast", "loaded", "resume"} \subseteq Label
    BY DEF Label
  <2> QED
    BY <1>2, <1>5, <2>1 DEF CallStep, StoredSnapshotDue, Refused, Copy, Written, Loaded
<1>6. CASE UNCHANGED vars
  BY <1>6 DEF vars, loopVars, projectorVars, WorkerInv, Queued
<1> QED
  BY <1>1, <1>3, <1>4, <1>5, <1>6, ScriptWorkers, RouteWorkers, WorkerJobs DEF Next, JobStep

LEMMA SpecWorkerInv == Spec => []WorkerInv
<1>1. Init => WorkerInv
  <2>1. ASSUME Init, NEW w \in Worker PROVE ~processing[w] /\ ~awake[w]
    BY <2>1 DEF Init, ProjectorInit
  <2> QED
    BY <2>1 DEF WorkerInv
<1>2. StoreInv /\ WorkerInv /\ [Next]_vars => WorkerInv'
  BY WorkerInvStep
<1> QED
  BY <1>1, <1>2, SpecStoreInv, PTL DEF Spec

\* A worker that is running and has updates in its queue has a job that will
\* take them (process), whatever the order of routing, start and stop.
THEOREM WakeupNotLost == Spec => []NoLostWakeup
<1>1. ASSUME StoreInv, WorkerInv, NEW w \in Worker, awake[w], queue[w] # <<>>
      PROVE  \E i \in DOMAIN jobs : jobs[i] = Job("worker", w)
  <2>1. Has(jobs, Job("worker", w))
    BY <1>1 DEF WorkerInv, Queued
  <2>2. TypeOK
    BY <1>1 DEF StoreInv
  <2>3. DOMAIN jobs = 1..Len(jobs)
    BY <2>2, JobsFacts, LenProperties
  <2> QED
    BY <2>1, <2>3 DEF Has
<1>2. StoreInv /\ WorkerInv => NoLostWakeup
  BY <1>1 DEF NoLostWakeup
<1> QED
  BY <1>2, SpecStoreInv, SpecWorkerInv, PTL

-----------------------------------------------------------------------------
(* OrdersAfter, one event after the other                                   *)

\* The function by which FoldLeft is defined.
IsOrdersIter(it, s, n) ==
    it = [X \in SUBSET (1..n) |-> IF X = {} THEN 0 ELSE Counted(s[Max(X)].eventType, it[X \ {Max(X)}])]

LEMMA OrdersIterExists == ASSUME NEW s, NEW n \in Nat PROVE \E it : IsOrdersIter(it, s, n)
<1> DEFINE A == {k \in Nat : \E it : IsOrdersIter(it, s, k)}
<1>1. 0 \in A
  <2>1. IsOrdersIter([X \in SUBSET (1..0) |-> 0], s, 0)
    <3>1. \A X \in SUBSET (1..0) : X = {}
      OBVIOUS
    <3> QED
      BY <3>1 DEF IsOrdersIter
  <2> QED
    BY <2>1
<1>2. ASSUME NEW k \in Nat, k \in A PROVE k + 1 \in A
  <2>1. PICK it : IsOrdersIter(it, s, k)
    BY <1>2
  <2> DEFINE next == [X \in SUBSET (1..(k + 1)) |->
                         IF k + 1 \in X THEN Counted(s[k + 1].eventType, it[X \ {k + 1}]) ELSE it[X]]
             Value(X) == IF X = {} THEN 0 ELSE Counted(s[Max(X)].eventType, next[X \ {Max(X)}])
  <2>2. ASSUME NEW X \in SUBSET (1..(k + 1)) PROVE next[X] = Value(X)
    <3>1. CASE k + 1 \in X
      <4>1. Max(X) = k + 1
        BY <3>1, MaxIsBound
      <4>2. next[X \ {k + 1}] = it[X \ {k + 1}]
        OBVIOUS
      <4> QED
        BY <3>1, <4>1, <4>2
    <3>2. CASE k + 1 \notin X
      <4>1. X \in SUBSET (1..k)
        BY <3>2
      <4>2. next[X] = it[X] /\ next[X \ {Max(X)}] = it[X \ {Max(X)}]
        BY <3>2
      <4>3. it[X] = IF X = {} THEN 0 ELSE Counted(s[Max(X)].eventType, it[X \ {Max(X)}])
        BY <4>1, <2>1 DEF IsOrdersIter
      <4> QED
        BY <4>2, <4>3
    <3> QED
      BY <3>1, <3>2
  <2>3. next = [X \in SUBSET (1..(k + 1)) |-> Value(X)]
    <3>1. next = [X \in SUBSET (1..(k + 1)) |-> next[X]]
      OBVIOUS
    <3> HIDE DEF next, Value
    <3> QED
      BY <2>2, <3>1
  <2>4. IsOrdersIter(next, s, k + 1)
    BY <2>3 DEF IsOrdersIter
  <2> HIDE DEF next
  <2> QED
    BY <2>4
<1>3. \A k \in Nat : k \in A
  <2> HIDE DEF A
  <2> QED
   BY <1>1, <1>2, Induction
<1> QED
  BY <1>3

(* OrdersAfter goes through the sequence from its first element to its last. *)
LEMMA OrdersSteps ==
    ASSUME NEW s, NEW n \in Nat, DOMAIN s = 1..n
    PROVE  \E g : /\ g[0] = 0 /\ g[n] = OrdersAfter(s)
                  /\ \A i \in 1..n : g[i] = Counted(s[i].eventType, g[i - 1])
<1> DEFINE it == CHOOSE f : IsOrdersIter(f, s, n)
           g == [i \in 0..n |-> it[1..i]]
<1>1. IsOrdersIter(it, s, n)
  BY OrdersIterExists
<1>2. OrdersAfter(s) = it[1..n]
  BY DEF OrdersAfter, FoldLeft, MapThenFoldSet, IsOrdersIter
<1> HIDE DEF it
<1>3. \A X \in SUBSET (1..n) : it[X] = IF X = {} THEN 0 ELSE Counted(s[Max(X)].eventType, it[X \ {Max(X)}])
  BY <1>1 DEF IsOrdersIter
<1>4. it[1..0] = 0
  <2> DEFINE e == 1..0
  <2>1. e = {}
    OBVIOUS
  <2> HIDE DEF e
  <2>2. it[e] = 0
    BY <1>3, <2>1
  <2> QED
    BY <2>2 DEF e
<1>5. ASSUME NEW i \in 1..n PROVE it[1..i] = Counted(s[i].eventType, it[1..(i - 1)])
  <2> DEFINE e == 1..i
             d == 1..(i - 1)
  <2>1. e \in SUBSET (1..n) /\ i \in e
    OBVIOUS
  <2>4. e \ {i} = d
    <3>1. \A x : x \in e \ {i} <=> x \in d
      OBVIOUS
    <3> HIDE DEF e, d
    <3> QED
      BY <3>1
  <2>2. Max(e) = i
    BY MaxIsBound
  <2> HIDE DEF e, d
  <2>3. it[e] = Counted(s[i].eventType, it[d])
    BY <1>3, <2>1, <2>2, <2>4
  <2> QED
    BY <2>3 DEF e, d
<1>6. /\ g[0] = 0 /\ g[n] = OrdersAfter(s)
      /\ \A i \in 1..n : g[i] = Counted(s[i].eventType, g[i - 1])
  BY <1>2, <1>4, <1>5
<1> QED
  BY <1>6

(* And nothing else does what it does. *)
LEMMA OrdersUnique ==
    ASSUME NEW s, NEW n \in Nat, DOMAIN s = 1..n,
           NEW h, h[0] = 0, \A i \in 1..n : h[i] = Counted(s[i].eventType, h[i - 1])
    PROVE  h[n] = OrdersAfter(s)
<1>1. PICK g : /\ g[0] = 0 /\ g[n] = OrdersAfter(s)
               /\ \A i \in 1..n : g[i] = Counted(s[i].eventType, g[i - 1])
  BY OrdersSteps
<1> DEFINE A == {k \in Nat : k <= n => g[k] = h[k]}
<1>2. 0 \in A
  BY <1>1
<1>3. ASSUME NEW k \in Nat, k \in A PROVE k + 1 \in A
  <2>1. SUFFICES ASSUME k + 1 <= n PROVE g[k + 1] = h[k + 1]
    OBVIOUS
  <2>2. k + 1 \in 1..n /\ k + 1 - 1 = k /\ g[k] = h[k]
    BY <1>3, <2>1
  <2> QED
    BY <1>1, <2>2
<1>4. \A k \in Nat : k \in A
  <2> HIDE DEF A
  <2> QED
    BY <1>2, <1>3, Induction
<1> QED
  BY <1>1, <1>4

LEMMA OrdersEmpty == OrdersAfter(<<>>) = 0
<1>1. DOMAIN <<>> = 1..0
  OBVIOUS
<1>2. PICK g : g[0] = 0 /\ g[0] = OrdersAfter(<<>>)
  BY <1>1, OrdersSteps
<1> QED
  BY <1>2

LEMMA OrdersAppend ==
    ASSUME NEW T, NEW s \in Seq(T), NEW x \in T
    PROVE  OrdersAfter(Append(s, x)) = Counted(x.eventType, OrdersAfter(s))
<1> DEFINE n == Len(s)
           t == Append(s, x)
<1>1. n \in Nat /\ n + 1 \in Nat /\ DOMAIN s = 1..n /\ DOMAIN t = 1..(n + 1)
  BY LenProperties, AppendProperties
<1>2. t[n + 1] = x /\ \A i \in 1..n : t[i] = s[i]
  BY AppendProperties
<1> HIDE DEF n, t
<1>3. PICK g : /\ g[0] = 0 /\ g[n + 1] = OrdersAfter(t)
               /\ \A i \in 1..(n + 1) : g[i] = Counted(t[i].eventType, g[i - 1])
  BY <1>1, OrdersSteps
<1>4. \A i \in 1..n : g[i] = Counted(s[i].eventType, g[i - 1])
  BY <1>1, <1>2, <1>3
<1>5. g[n] = OrdersAfter(s)
  BY <1>1, <1>3, <1>4, OrdersUnique
<1>6. n + 1 \in 1..(n + 1) /\ n + 1 - 1 = n
  BY <1>1
<1>7. g[n + 1] = Counted(t[n + 1].eventType, g[n])
  <2>1. \A i \in 1..(n + 1) : i - 1 = n => g[i] = Counted(t[i].eventType, g[n])
    BY <1>3
  <2> QED
    BY <1>1, <1>6, <2>1
<1> QED
  BY <1>2, <1>3, <1>5, <1>6, <1>7 DEF t

-----------------------------------------------------------------------------
(* The events that wait for a projection                                    *)

\* The events of the updates of p in a queue.
Behind(p, line) == [i \in DOMAIN UpdatesOf(p, line) |-> UpdatesOf(p, line)[i].event]

(* What Keep keeps depends on the elements of the sequence only. *)
LEMMA KeepSame ==
    ASSUME NEW T, NEW s \in Seq(T), NEW S, NEW R, \A x \in T : x \in S <=> x \in R
    PROVE  Keep(s, S) = Keep(s, R)
<1> DEFINE A == {r \in Seq(T) : Keep(r, S) = Keep(r, R)}
<1>1. <<>> \in A
  BY KeepEmpty, EmptySeq
<1>2. ASSUME NEW r \in Seq(T), NEW x \in T, r \in A PROVE Append(r, x) \in A
  <2>1. Keep(Append(r, x), S) = Kept(Keep(r, S), x, S) /\ Keep(Append(r, x), R) = Kept(Keep(r, R), x, R)
    BY KeepAppend
  <2>2. Append(r, x) \in Seq(T)
    BY AppendProperties
  <2>3. Keep(r, S) = Keep(r, R) /\ (x \in S <=> x \in R)
    BY <1>2
  <2>4. Kept(Keep(r, S), x, S) = Kept(Keep(r, R), x, R)
    BY <2>3 DEF Kept
  <2> QED
    BY <2>1, <2>2, <2>4
<1>3. \A r \in Seq(T) : r \in A
  <2> HIDE DEF A
  <2> QED
    BY <1>1, <1>2, ByAppending
<1> QED
  BY <1>3

\* The updates of p.
Of(p) == {u \in Update(Event) : u.projectionName = p}

LEMMA UpdatesOfIs ==
    ASSUME NEW p, NEW line \in Seq(Update(Event))
    PROVE  UpdatesOf(p, line) = Keep(line, Of(p)) /\ UpdatesOf(p, line) \in Seq(Update(Event))
<1>1. line \in Seq(Range(line)) /\ Range(line) \subseteq Update(Event)
  BY SeqOfRange, RangeOfSeq
<1>2. \A u \in Range(line) : u \in {v \in Range(line) : v.projectionName = p} <=> u \in Of(p)
  BY <1>1 DEF Of
<1>3. Keep(line, {v \in Range(line) : v.projectionName = p}) = Keep(line, Of(p))
  BY <1>1, <1>2, KeepSame
<1> QED
  BY <1>3, KeepIs DEF UpdatesOf

LEMMA BehindEmpty == ASSUME NEW p PROVE Behind(p, <<>>) = <<>>
<1>1. <<>> \in Seq(Update(Event)) /\ <<>> \in Seq(Event)
  BY EmptySeq
<1>2. UpdatesOf(p, <<>>) = <<>>
  BY <1>1, UpdatesOfIs, KeepEmpty
<1> QED
  BY <1>2 DEF Behind

LEMMA BehindType ==
    ASSUME NEW p, NEW line \in Seq(Update(Event))
    PROVE  Behind(p, line) \in Seq(Event) /\ Len(Behind(p, line)) = Len(UpdatesOf(p, line))
<1>1. PICK s \in Seq(Update(Event)) : s = UpdatesOf(p, line)
  BY UpdatesOfIs
<1>2. Len(s) \in Nat /\ DOMAIN s = 1..Len(s)
  BY LenProperties
<1>3. \A i \in 1..Len(s) : s[i].event \in Event
  <2>1. \A i \in 1..Len(s) : s[i] \in Update(Event)
    BY ElementOfSeq
  <2> QED
    BY <2>1 DEF Update
<1>4. Behind(p, line) = [i \in 1..Len(s) |-> s[i].event]
  BY <1>1, <1>2 DEF Behind
<1> QED
  BY <1>1, <1>2, <1>3, <1>4

(* An update at the end of the queue. *)
LEMMA BehindAppend ==
    ASSUME NEW p, NEW line \in Seq(Update(Event)), NEW u \in Update(Event)
    PROVE  Behind(p, Append(line, u)) =
              IF u.projectionName = p THEN Append(Behind(p, line), u.event) ELSE Behind(p, line)
<1>1. PICK more \in Seq(Update(Event)) : more = Append(line, u)
  BY AppendProperties
<1>2. PICK s \in Seq(Update(Event)) : s = UpdatesOf(p, line)
  BY UpdatesOfIs
<1>3. UpdatesOf(p, more) = Kept(s, u, Of(p))
  <2>1. UpdatesOf(p, more) = Keep(more, Of(p)) /\ s = Keep(line, Of(p))
    BY <1>2, UpdatesOfIs
  <2>2. Keep(Append(line, u), Of(p)) = Kept(Keep(line, Of(p)), u, Of(p))
    BY KeepAppend
  <2> QED
    BY <1>1, <2>1, <2>2
<1>4. CASE u.projectionName # p
  BY <1>1, <1>2, <1>3, <1>4 DEF Kept, Of, Behind
<1>5. CASE u.projectionName = p
  <2>1. PICK t : t = Append(s, u)
    OBVIOUS
  <2>2. UpdatesOf(p, more) = t
    BY <1>3, <1>5, <2>1 DEF Kept, Of
  <2>3. /\ Len(s) \in Nat /\ t \in Seq(Update(Event)) /\ Len(t) = Len(s) + 1
        /\ t[Len(s) + 1] = u /\ \A i \in 1..Len(s) : t[i] = s[i]
        /\ DOMAIN s = 1..Len(s) /\ DOMAIN t = 1..Len(t)
    BY <2>1, AppendProperties, LenProperties
  <2>4. PICK b \in Seq(Event) : b = Behind(p, line) /\ Len(b) = Len(s)
    BY <1>2, BehindType
  <2>5. PICK c \in Seq(Event) : c = Behind(p, more) /\ Len(c) = Len(t)
    BY <2>2, BehindType
  <2>6. \A i \in 1..Len(s) : b[i] = s[i].event
    BY <1>2, <2>3, <2>4 DEF Behind
  <2>7. \A i \in 1..Len(t) : c[i] = t[i].event
    BY <2>2, <2>3, <2>5 DEF Behind
  <2>8. u.event \in Event
    BY DEF Update
  <2>9. PICK d : d = Append(b, u.event)
    OBVIOUS
  <2>10. /\ d \in Seq(Event) /\ Len(d) = Len(s) + 1 /\ d[Len(s) + 1] = u.event
         /\ \A i \in 1..Len(s) : d[i] = b[i]
    BY <2>4, <2>8, <2>9, AppendProperties
  <2>11. \A i \in 1..Len(t) : c[i] = d[i]
    <3>1. PICK n \in Nat : n = Len(s)
      BY <2>3
    <3>2. ASSUME NEW i \in 1..Len(t) PROVE i = n + 1 \/ i \in 1..n
      BY <2>3, <3>1
    <3> QED
      BY <2>3, <2>6, <2>7, <2>10, <3>1, <3>2
  <2>12. c = d
    BY <2>3, <2>5, <2>10, <2>11, SeqEqual
  <2> QED
    BY <1>1, <1>5, <2>4, <2>5, <2>9, <2>12
<1> QED
  BY <1>4, <1>5

(* An element after two sequences. *)
LEMMA AppendAfter ==
    ASSUME NEW T, NEW s \in Seq(T), NEW t \in Seq(T), NEW x \in T, NEW st \in Seq(T), st = s \o t
    PROVE  Append(st, x) = s \o Append(t, x)
<1>1. PICK o \in Seq(T) : o = <<x>>
  <2>1. <<x>> \in Seq(T)
    OBVIOUS
  <2> QED
    BY <2>1
<1>2. Append(st, x) = st \o o /\ Append(t, x) = t \o o
  BY <1>1, AppendIsConcat
<1>3. (s \o t) \o o = s \o (t \o o)
  BY ConcatAssociative
<1> QED
  BY <1>2, <1>3

LEMMA AppendEvent ==
    ASSUME NEW s \in Seq(Event), NEW t \in Seq(Event), NEW x \in Event
    PROVE  Append(s \o t, x) = s \o Append(t, x)
<1>1. PICK st \in Seq(Event) : st = s \o t
  BY ConcatProperties
<1> QED
  BY <1>1, AppendAfter

LEMMA AppendUpdate ==
    ASSUME NEW s \in Seq(Update(Event)), NEW t \in Seq(Update(Event)), NEW x \in Update(Event)
    PROVE  Append(s \o t, x) = s \o Append(t, x)
<1>1. PICK st \in Seq(Update(Event)) : st = s \o t
  BY ConcatProperties
<1> QED
  BY <1>1, AppendAfter

(* The update at the head of the queue. *)
LEMMA BehindHead ==
    ASSUME NEW p, NEW line \in Seq(Update(Event)), line # <<>>
    PROVE  IF Head(line).projectionName = p
           THEN Behind(p, line) = <<Head(line).event>> \o Behind(p, Tail(line))
           ELSE Behind(p, line) = Behind(p, Tail(line))
<1> DEFINE U == Update(Event)
           First(r, v) == IF Head(r).projectionName = p
                          THEN v = <<Head(r).event>> \o Behind(p, Tail(r))
                          ELSE v = Behind(p, Tail(r))
           A == {r \in Seq(U) : r # <<>> => First(r, Behind(p, r))}
<1>1. <<>> \in A
  BY EmptySeq
<1>2. ASSUME NEW r \in Seq(U), NEW x \in U, r \in A PROVE Append(r, x) \in A
  <2>1. PICK t \in Seq(U) : t = Append(r, x)
    BY AppendProperties
  <2>2. Behind(p, t) = IF x.projectionName = p THEN Append(Behind(p, r), x.event) ELSE Behind(p, r)
    BY <2>1, BehindAppend
  <2>3. x.event \in Event
    BY DEF Update
  <2>4. CASE r = <<>>
    <3>1. Head(t) = x /\ Tail(t) = <<>>
      BY <2>1, <2>4, HeadTailAppend
    <3>2. Behind(p, r) = <<>> /\ Behind(p, Tail(t)) = <<>>
      BY <2>4, <3>1, BehindEmpty
    <3>3. Append(<<>>, x.event) = <<x.event>> \o <<>>
      BY <2>3, ConcatEmptySeq
    <3>4. First(t, Behind(p, t))
      BY <2>2, <3>1, <3>2, <3>3
    <3> QED
      BY <2>1, <3>4
  <2>5. CASE r # <<>>
    <3>1. PICK h \in U, q \in Seq(U) : h = Head(r) /\ q = Tail(r)
      BY <2>5, HeadTailProperties
    <3>2. Head(t) = h /\ Tail(t) = Append(q, x)
      BY <2>1, <2>5, <3>1, HeadTailAppend
    <3>3. PICK b \in Seq(Event), c \in Seq(Event) : b = Behind(p, r) /\ c = Behind(p, q)
      BY <3>1, BehindType
    <3>4. Behind(p, Tail(t)) = IF x.projectionName = p THEN Append(c, x.event) ELSE c
      <4>1. Behind(p, Append(q, x)) = IF x.projectionName = p THEN Append(Behind(p, q), x.event) ELSE Behind(p, q)
        BY BehindAppend
      <4> QED
        BY <3>2, <3>3, <4>1
    <3>5. IF h.projectionName = p THEN b = <<h.event>> \o c ELSE b = c
      BY <1>2, <2>5, <3>1, <3>3
    <3>6. h.event \in Event /\ <<h.event>> \in Seq(Event)
      BY <3>1 DEF Update
    <3>7. Append(<<h.event>> \o c, x.event) = <<h.event>> \o Append(c, x.event)
      BY <2>3, <3>6, AppendEvent
    <3>8. Behind(p, t) = IF x.projectionName = p THEN Append(b, x.event) ELSE b
      BY <2>2, <3>3
    <3>9. First(t, Behind(p, t))
      BY <3>2, <3>4, <3>5, <3>7, <3>8
    <3> QED
      BY <2>1, <3>9
  <2> QED
    BY <2>4, <2>5
<1>3. \A r \in Seq(U) : r \in A
  <2> HIDE DEF A
  <2> QED
    BY <1>1, <1>2, ByAppending
<1> QED
  BY <1>3

-----------------------------------------------------------------------------
(* What an event brings a projection                                        *)

\* The sequence s has x at most once.
Once(s, x) == \A i, j \in 1..Len(s) : s[i] = x /\ s[j] = x => i = j

LEMMA HasAppend ==
    ASSUME NEW T, NEW s \in Seq(T), NEW y \in T, NEW x
    PROVE  /\ Has(Append(s, y), x) <=> Has(s, x) \/ x = y
           /\ Once(Append(s, y), x) <=> Once(s, x) /\ ~(x = y /\ Has(s, x))
<1>1. PICK t : t = Append(s, y)
  OBVIOUS
<1>2. PICK n \in Nat : n = Len(s)
  BY LenProperties
<1>3. Len(t) = n + 1 /\ t[n + 1] = y /\ \A i \in 1..n : t[i] = s[i]
  BY <1>1, <1>2, AppendProperties
<1>4. Has(t, x) <=> Has(s, x) \/ x = y
  BY <1>2, <1>3 DEF Has
<1>5. ASSUME Once(t, x) PROVE Once(s, x) /\ ~(x = y /\ Has(s, x))
  <2>1. Once(s, x)
    BY <1>2, <1>3, <1>5 DEF Once
  <2>2. ASSUME x = y, NEW i \in 1..n, s[i] = x PROVE FALSE
    <3>1. i \in 1..(n + 1) /\ n + 1 \in 1..(n + 1) /\ i # n + 1 /\ t[i] = x /\ t[n + 1] = x
      BY <1>3, <2>2
    <3> QED
      BY <1>3, <1>5, <3>1 DEF Once
  <2> QED
    BY <1>2, <2>1, <2>2 DEF Has
<1>6. ASSUME Once(s, x), ~(x = y /\ Has(s, x)) PROVE Once(t, x)
  <2>1. ASSUME NEW i \in 1..(n + 1), NEW j \in 1..(n + 1), t[i] = x, t[j] = x PROVE i = j
    <3>1. (i = n + 1 \/ i \in 1..n) /\ (j = n + 1 \/ j \in 1..n)
      OBVIOUS
    <3>2. ASSUME i \in 1..n, j \in 1..n PROVE i = j
      BY <1>2, <1>3, <1>6, <2>1, <3>2 DEF Once
    <3> QED
      BY <1>2, <1>3, <1>6, <2>1, <3>1, <3>2 DEF Has
  <2> QED
    BY <1>3, <2>1 DEF Once
<1> QED
  BY <1>1, <1>4, <1>5, <1>6

LEMMA KeepOnce ==
    ASSUME NEW T, NEW s \in Seq(T), NEW S, NEW x, Once(s, x)
    PROVE  Once(Keep(s, S), x)
<1> DEFINE A == {r \in Seq(T) : Once(r, x) => Once(Keep(r, S), x)}
<1>1. <<>> \in A
  BY KeepEmpty, EmptySeq
<1>2. ASSUME NEW r \in Seq(T), NEW y \in T, r \in A PROVE Append(r, y) \in A
  <2>1. PICK k \in Seq(T) : k = Keep(r, S) /\ (Has(k, x) <=> x \in S /\ Has(r, x))
    BY KeepIs
  <2>2. Keep(Append(r, y), S) = IF y \in S THEN Append(k, y) ELSE k
    BY <2>1, KeepAppend DEF Kept
  <2>3. Append(r, y) \in Seq(T)
    BY AppendProperties
  <2>4. Once(Append(r, y), x) <=> Once(r, x) /\ ~(x = y /\ Has(r, x))
    BY HasAppend
  <2>5. Once(Append(k, y), x) <=> Once(k, x) /\ ~(x = y /\ Has(k, x))
    BY HasAppend
  <2> QED
    BY <1>2, <2>1, <2>2, <2>3, <2>4, <2>5
<1>3. \A r \in Seq(T) : r \in A
  <2> HIDE DEF A
  <2> QED
    BY <1>1, <1>2, ByAppending
<1> QED
  BY <1>3

\* The updates that e is to the projections of r.
UpdatesBy(e, r) == [i \in DOMAIN r |-> [projectionName |-> r[i], event |-> e]]

LEMMA UpdatesByIs ==
    ASSUME NEW e \in Event, NEW r \in Seq(Projection)
    PROVE  /\ UpdatesBy(e, r) \in Seq(Update(Event)) /\ Len(UpdatesBy(e, r)) = Len(r)
           /\ \A i \in 1..Len(r) : UpdatesBy(e, r)[i] = [projectionName |-> r[i], event |-> e]
<1>1. Len(r) \in Nat /\ DOMAIN r = 1..Len(r) /\ \A i \in 1..Len(r) : r[i] \in Projection
  BY LenProperties, ElementOfSeq
<1> QED
  BY <1>1 DEF UpdatesBy, Update

LEMMA UpdatesByAppend ==
    ASSUME NEW e \in Event, NEW r \in Seq(Projection), NEW q \in Projection
    PROVE  UpdatesBy(e, Append(r, q)) = Append(UpdatesBy(e, r), [projectionName |-> q, event |-> e])
<1> DEFINE x == [projectionName |-> q, event |-> e]
<1>1. x \in Update(Event)
  BY DEF Update
<1>2. PICK t \in Seq(Projection) : t = Append(r, q)
  BY AppendProperties
<1>3. PICK n \in Nat : n = Len(r)
  BY LenProperties
<1>4. Len(t) = n + 1 /\ t[n + 1] = q /\ \A i \in 1..n : t[i] = r[i]
  BY <1>2, <1>3, AppendProperties
<1>5. PICK u \in Seq(Update(Event)) :
         /\ u = UpdatesBy(e, r) /\ Len(u) = n
         /\ \A i \in 1..n : u[i] = [projectionName |-> r[i], event |-> e]
  BY <1>3, UpdatesByIs
<1>6. PICK v \in Seq(Update(Event)) :
         /\ v = UpdatesBy(e, t) /\ Len(v) = n + 1
         /\ \A i \in 1..(n + 1) : v[i] = [projectionName |-> t[i], event |-> e]
  BY <1>4, UpdatesByIs
<1>7. v[n + 1] = x
  BY <1>4, <1>6
<1> HIDE DEF x
<1>8. PICK z \in Seq(Update(Event)) :
         z = Append(u, x) /\ Len(z) = n + 1 /\ z[n + 1] = x /\ \A i \in 1..n : z[i] = u[i]
  <2>1. PICK U : U = Update(Event)
    OBVIOUS
  <2>2. u \in Seq(U) /\ x \in U
    BY <1>1, <2>1
  <2>3. PICK z \in Seq(U) : z = Append(u, x)
    BY <2>2, AppendProperties
  <2>4. Len(z) = n + 1 /\ z[n + 1] = x /\ \A i \in 1..n : z[i] = u[i]
    BY <1>5, <2>2, <2>3, AppendProperties
  <2> QED
    BY <2>1, <2>3, <2>4
<1>9. ASSUME NEW i \in 1..(n + 1) PROVE v[i] = z[i]
  <2>1. i = n + 1 \/ i \in 1..n
    OBVIOUS
  <2>2. ASSUME i \in 1..n PROVE v[i] = u[i]
    <3>1. v[i] = [projectionName |-> t[i], event |-> e]
      BY <1>6
    <3>2. u[i] = [projectionName |-> r[i], event |-> e] /\ t[i] = r[i]
      BY <1>4, <1>5, <2>2
    <3> QED
      BY <3>1, <3>2
  <2> QED
    BY <1>7, <1>8, <2>1, <2>2
<1>10. v = z
  BY <1>6, <1>8, <1>9, SeqEqual
<1> QED
  BY <1>2, <1>5, <1>6, <1>8, <1>10 DEF x

(* An event adds itself to what waits for the projections it goes to, once. *)
LEMMA BehindMore ==
    ASSUME NEW e \in Event, NEW p \in Projection, NEW line \in Seq(Update(Event)),
           NEW r \in Seq(Projection), Once(r, p)
    PROVE  Behind(p, line \o UpdatesBy(e, r)) =
              IF Has(r, p) THEN Append(Behind(p, line), e) ELSE Behind(p, line)
<1> DEFINE After(t) == IF Has(t, p) THEN Append(Behind(p, line), e) ELSE Behind(p, line)
           A == {t \in Seq(Projection) : Once(t, p) => Behind(p, line \o UpdatesBy(e, t)) = After(t)}
<1>1. <<>> \in A
  <2>1. UpdatesBy(e, <<>>) = <<>>
    BY DEF UpdatesBy
  <2>2. line \o <<>> = line
    BY ConcatEmptySeq
  <2>3. ~Has(<<>>, p)
    BY EmptySeq DEF Has
  <2> QED
    BY <2>1, <2>2, <2>3, EmptySeq
<1>2. ASSUME NEW t \in Seq(Projection), NEW q \in Projection, t \in A PROVE Append(t, q) \in A
  <2>1. PICK x \in Update(Event) : x = [projectionName |-> q, event |-> e]
    <3>1. [projectionName |-> q, event |-> e] \in Update(Event)
      BY DEF Update
    <3> QED
      BY <3>1
  <2>2. PICK u \in Seq(Update(Event)) : u = UpdatesBy(e, t)
    BY UpdatesByIs
  <2>3. PICK v \in Seq(Update(Event)) : v = line \o u
    BY ConcatProperties
  <2>4. line \o UpdatesBy(e, Append(t, q)) = Append(v, x)
    <3>1. UpdatesBy(e, Append(t, q)) = Append(u, x)
      BY <2>1, <2>2, UpdatesByAppend
    <3>2. Append(line \o u, x) = line \o Append(u, x)
      BY AppendUpdate
    <3> QED
      BY <2>3, <3>1, <3>2
  <2>5. Behind(p, Append(v, x)) = IF q = p THEN Append(Behind(p, v), e) ELSE Behind(p, v)
    <3>1. x.projectionName = q /\ x.event = e
      BY <2>1
    <3>2. Behind(p, Append(v, x)) =
             IF x.projectionName = p THEN Append(Behind(p, v), x.event) ELSE Behind(p, v)
      BY BehindAppend
    <3> QED
      BY <3>1, <3>2
  <2>6. /\ Has(Append(t, q), p) <=> Has(t, p) \/ p = q
        /\ Once(Append(t, q), p) <=> Once(t, p) /\ ~(p = q /\ Has(t, p))
    BY HasAppend
  <2>7. Append(t, q) \in Seq(Projection)
    BY AppendProperties
  <2>8. Once(t, p) => Behind(p, v) = After(t)
    BY <1>2, <2>2, <2>3
  <2>9. ASSUME Once(Append(t, q), p) PROVE Behind(p, Append(v, x)) = After(Append(t, q))
    BY <2>5, <2>6, <2>8, <2>9
  <2> QED
    BY <2>4, <2>7, <2>9
<1>3. \A t \in Seq(Projection) : t \in A
  <2> HIDE DEF A
  <2> QED
    BY <1>1, <1>2, ByAppending
<1> QED
  BY <1>3

(* The line of the worker of p, as p sees it. *)
LEMMA LineBehind ==
    ASSUME definitions \in Seq(Projection), queue \in [Worker -> Seq(Update(Event))], DefinitionsInv,
           NEW e \in Event, NEW p \in Projection
    PROVE  Behind(p, Line(e, WorkerOf(p))) =
              IF p \in Range(Receivers(e))
              THEN Append(Behind(p, queue[WorkerOf(p)]), e)
              ELSE Behind(p, queue[WorkerOf(p)])
<1>1. PICK w \in Worker : w = WorkerOf(p)
  BY WorkerOfType
<1>2. PICK r \in Seq(Projection) :
         r = Served(e, w) /\ (Has(r, p) <=> p \in Range(Receivers(e)) /\ WorkerOf(p) = w)
  BY ServedIs
<1>3. Once(r, p)
  <2>1. Once(definitions, p)
    BY DEF Once, DefinitionsInv
  <2>2. Once(<<>>, p)
    BY EmptySeq DEF Once
  <2>3. Once(Receivers(e), p)
    BY <2>1, <2>2, KeepOnce DEF Receivers
  <2>4. Receivers(e) \in Seq(Projection)
    BY ReceiversType
  <2> QED
    BY <1>2, <2>3, <2>4, KeepOnce DEF Served
<1>4. Line(e, w) = queue[w] \o UpdatesBy(e, r)
  BY <1>2 DEF Line, UpdatesBy
<1>5. queue[w] \in Seq(Update(Event))
  OBVIOUS
<1>6. Behind(p, queue[w] \o UpdatesBy(e, r)) =
         IF Has(r, p) THEN Append(Behind(p, queue[w]), e) ELSE Behind(p, queue[w])
  BY <1>3, <1>5, BehindMore
<1> QED
  BY <1>1, <1>2, <1>4, <1>6

-----------------------------------------------------------------------------
(* Updates are applied in the order of routing                              *)

\* The events r are those that led to n orders, and after them the ones that
\* wait for p in the queue.
Settled(p, r, line, n) ==
    \E s \in Seq(Event) : r = s \o Behind(p, line) /\ n = OrdersAfter(s)

AppliedInv ==
    \A p \in Projection : Settled(p, routed[p], queue[WorkerOf(p)], projections[p].orders)

LEMMA AppliedOrders ==
    ASSUME NEW u \in Update(Event), NEW st \in ProjectionState
    PROVE  Applied(u, st).orders = Counted(u.event.eventType, st.orders)
<1>1. PICK t : t = [st EXCEPT !.orders = Counted(u.event.eventType, @)]
  OBVIOUS
<1>2. t.orders = Counted(u.event.eventType, st.orders)
  BY <1>1 DEF ProjectionState
<1>3. t \in [orders : {t.orders}, qps : Nat, isMaterialized : BOOLEAN]
  BY <1>1 DEF ProjectionState
<1>4. Promoted(t).orders = t.orders
  BY <1>3 DEF Promoted
<1> QED
  BY <1>1, <1>2, <1>4 DEF Applied

(* The worker of p takes the head of its queue. *)
LEMMA HeadSettles ==
    ASSUME NEW p \in Projection, NEW r, NEW line \in Seq(Update(Event)), line # <<>>,
           NEW st \in ProjectionState, Settled(p, r, line, st.orders)
    PROVE  Settled(p, r, Tail(line),
                   (IF Head(line).projectionName = p THEN Applied(Head(line), st) ELSE st).orders)
<1>1. PICK h \in Update(Event), t \in Seq(Update(Event)) : h = Head(line) /\ t = Tail(line)
  BY HeadTailProperties
<1>2. PICK s \in Seq(Event) : r = s \o Behind(p, line) /\ st.orders = OrdersAfter(s)
  BY DEF Settled
<1>3. PICK b \in Seq(Event) : b = Behind(p, t)
  BY BehindType
<1>4. CASE h.projectionName # p
  <2>1. Behind(p, line) = b
    BY <1>1, <1>3, <1>4, BehindHead
  <2> QED
    BY <1>1, <1>2, <1>3, <1>4, <2>1 DEF Settled
<1>5. CASE h.projectionName = p
  <2>1. PICK e \in Event : e = h.event
    BY DEF Update
  <2>2. Behind(p, line) = <<e>> \o b
    BY <1>1, <1>3, <1>5, <2>1, BehindHead
  <2>3. <<e>> \in Seq(Event)
    OBVIOUS
  <2>4. PICK z \in Seq(Event) : z = Append(s, e)
    BY AppendProperties
  <2>5. s \o (<<e>> \o b) = z \o b
    <3>1. z = s \o <<e>>
      BY <2>4, AppendIsConcat
    <3>2. (s \o <<e>>) \o b = s \o (<<e>> \o b)
      BY <2>3, ConcatAssociative
    <3> QED
      BY <3>1, <3>2
  <2>6. OrdersAfter(z) = Counted(e.eventType, OrdersAfter(s))
    BY <2>4, OrdersAppend
  <2>7. Applied(h, st).orders = OrdersAfter(z)
    BY <1>2, <2>1, <2>6, AppliedOrders
  <2> QED
    BY <1>1, <1>2, <1>3, <1>5, <2>2, <2>5, <2>7 DEF Settled
<1> QED
  BY <1>4, <1>5

(* Each worker of W takes the head of its line. *)
LEMMA HeadsSettle ==
    ASSUME ProjectorTypeOK(Event), NEW W, NEW line,
           \A w \in Worker : line[w] \in Seq(Update(Event)),
           \A w \in W : w \in Worker /\ line[w] # <<>>,
           ApplyHeads(W, line),
           NEW p \in Projection, NEW r, Settled(p, r, line[WorkerOf(p)], projections[p].orders)
    PROVE  Settled(p, r, queue'[WorkerOf(p)], projections'[p].orders)
<1>1. PICK w \in Worker : w = WorkerOf(p)
  BY WorkerOfType
<1>2. PICK mine \in Seq(Update(Event)) : mine = line[w]
  OBVIOUS
<1>3. PICK st \in ProjectionState : st = projections[p]
  BY DEF ProjectorTypeOK
<1>4. queue'[w] = IF w \in W THEN Tail(mine) ELSE mine
  BY <1>2 DEF ApplyHeads
<1>5. projections'[p] =
         IF w \in W THEN IF Head(mine).projectionName = p THEN Applied(Head(mine), st) ELSE st ELSE st
  BY <1>1, <1>2, <1>3 DEF ApplyHeads
<1>6. CASE w \notin W
  BY <1>1, <1>2, <1>3, <1>4, <1>5, <1>6
<1>7. CASE w \in W
  <2>1. mine # <<>> /\ Settled(p, r, mine, st.orders)
    BY <1>1, <1>2, <1>3, <1>7
  <2>2. Settled(p, r, Tail(mine),
                (IF Head(mine).projectionName = p THEN Applied(Head(mine), st) ELSE st).orders)
    BY <2>1, HeadSettles
  <2> QED
    BY <1>1, <1>4, <1>5, <1>7, <2>2
<1> QED
  BY <1>6, <1>7

LEMMA EngineStartSettles ==
    ASSUME ProjectorTypeOK(Event), AppliedInv, EngineStart
    PROVE  AppliedInv'
<1>1. \A w \in Worker : queue[w] \in Seq(Update(Event))
  BY DEF ProjectorTypeOK
<1>2. \A w \in Leftover : w \in Worker /\ queue[w] # <<>>
  BY DEF Leftover
<1>3. ApplyHeads(Leftover, queue) /\ routed' = routed
  BY DEF EngineStart
<1>4. ASSUME NEW p \in Projection
      PROVE  Settled(p, routed[p], queue'[WorkerOf(p)], projections'[p].orders)
  <2>1. Settled(p, routed[p], queue[WorkerOf(p)], projections[p].orders)
    BY DEF AppliedInv
  <2> QED
    BY <1>1, <1>2, <1>3, <2>1, HeadsSettle
<1> QED
  BY <1>3, <1>4 DEF AppliedInv

LEMMA RouteSettles ==
    ASSUME ProjectorTypeOK(Event), DefinitionsInv, AppliedInv, NEW e \in Event, RouteEvent(e)
    PROVE  AppliedInv'
<1> DEFINE line == [w \in Worker |-> Line(e, w)]
<1>1. definitions \in Seq(Projection) /\ queue \in [Worker -> Seq(Update(Event))]
  BY DEF ProjectorTypeOK
<1>2. \A w \in Worker : line[w] \in Seq(Update(Event))
  BY <1>1, LineType
<1>3. \A w \in Started(e) : w \in Worker /\ line[w] # <<>>
  BY <1>1, StartedLine
<1>4. ApplyHeads(Started(e), line)
  BY DEF RouteEvent
<1>5. \A w \in Worker : line[w] = Line(e, w)
  OBVIOUS
<1> HIDE DEF line
<1>6. ASSUME NEW p \in Projection
      PROVE  Settled(p, routed'[p], queue'[WorkerOf(p)], projections'[p].orders)
  <2>1. PICK r : r = routed'[p]
    OBVIOUS
  <2>2. PICK w \in Worker : w = WorkerOf(p)
    BY WorkerOfType
  <2>3. PICK s \in Seq(Event) :
           routed[p] = s \o Behind(p, queue[w]) /\ projections[p].orders = OrdersAfter(s)
    BY <2>2 DEF AppliedInv, Settled
  <2>4. PICK b \in Seq(Event) : b = Behind(p, queue[w])
    BY <1>1, BehindType
  <2>5. r = IF p \in Range(Receivers(e)) THEN Append(s \o b, e) ELSE s \o b
    BY <2>1, <2>3, <2>4 DEF RouteEvent
  <2>6. Behind(p, Line(e, w)) = IF p \in Range(Receivers(e)) THEN Append(b, e) ELSE b
    BY <1>1, <2>2, <2>4, LineBehind
  <2>7. Append(s \o b, e) = s \o Append(b, e)
    BY AppendEvent
  <2>8. Settled(p, r, line[WorkerOf(p)], projections[p].orders)
    BY <1>5, <2>2, <2>3, <2>5, <2>6, <2>7 DEF Settled
  <2>9. Settled(p, r, queue'[WorkerOf(p)], projections'[p].orders)
    BY <1>2, <1>3, <1>4, <2>8, HeadsSettle
  <2> QED
    BY <2>1, <2>9
<1> QED
  BY <1>6 DEF AppliedInv

LEMMA RegisterSettles ==
    ASSUME ProjectorTypeOK(Event), DefinitionsInv, AppliedInv, NEW q \in Projection, RegisterProjection(q)
    PROVE  DefinitionsInv' /\ AppliedInv'
<1>1. DefinitionsInv'
  <2>1. PICK s \in Seq(Projection) : s = definitions
    BY DEF ProjectorTypeOK
  <2>2. \A p : Once(s, p)
    BY <2>1 DEF DefinitionsInv, Once
  <2>3. Has(s, q) <=> q \in Range(s)
    BY HasIs
  <2>4. PICK t : t = definitions'
    OBVIOUS
  <2>5. t = IF Has(s, q) THEN s ELSE Append(s, q)
    BY <2>1, <2>3, <2>4 DEF RegisterProjection, Registered
  <2>6. ASSUME NEW p PROVE Once(t, p)
    <3>1. Once(Append(s, q), p) <=> Once(s, p) /\ ~(p = q /\ Has(s, p))
      BY HasAppend
    <3> QED
      BY <2>2, <2>5, <3>1
  <2> QED
    BY <2>4, <2>6 DEF DefinitionsInv, Once
<1>2. ASSUME NEW p \in Projection, p # q
      PROVE  Settled(p, routed'[p], queue'[WorkerOf(p)], projections'[p].orders)
  <2>1. routed'[p] = routed[p] /\ queue' = queue /\ projections'[p] = projections[p]
    BY <1>2 DEF RegisterProjection, ProjectorTypeOK
  <2> QED
    BY <2>1 DEF AppliedInv
<1>3. Settled(q, routed'[q], queue'[WorkerOf(q)], projections'[q].orders)
  <2>1. PICK line \in Seq(Update(Event)) : line = queue[WorkerOf(q)]
    BY WorkerOfType DEF ProjectorTypeOK
  <2>2. routed'[q] = Behind(q, line) /\ queue' = queue /\ projections'[q].orders = 0
    BY <2>1 DEF RegisterProjection, ProjectorTypeOK, NewState, Waiting, Behind
  <2>3. PICK b \in Seq(Event) : b = Behind(q, line)
    BY BehindType
  <2>4. <<>> \in Seq(Event) /\ <<>> \o b = b /\ OrdersAfter(<<>>) = 0
    BY EmptySeq, ConcatEmptySeq, OrdersEmpty
  <2> QED
    BY <2>1, <2>2, <2>3, <2>4 DEF Settled
<1> QED
  BY <1>1, <1>2, <1>3 DEF AppliedInv

LEMMA QuerySettles ==
    ASSUME ProjectorTypeOK(Event), AppliedInv, NEW q \in Projection, Query(q)
    PROVE  AppliedInv'
<1>1. ASSUME NEW p \in Projection PROVE projections'[p].orders = projections[p].orders
  <2>1. projections \in [Projection -> ProjectionState] /\ projections[p] \in ProjectionState
    BY DEF ProjectorTypeOK
  <2>2. projections'[p] = IF p = q THEN [projections[p] EXCEPT !.qps = @ + 1] ELSE projections[p]
    BY <2>1 DEF Query
  <2>3. [projections[p] EXCEPT !.qps = @ + 1].orders = projections[p].orders
    BY <2>1 DEF ProjectionState
  <2> QED
    BY <2>2, <2>3
<1>2. routed' = routed /\ queue' = queue
  BY DEF Query
<1> QED
  BY <1>1, <1>2 DEF AppliedInv

LEMMA WorkerSettles ==
    ASSUME ProjectorTypeOK(Event), AppliedInv, NEW w \in Worker, WorkerContinues(w)
    PROVE  AppliedInv'
<1>1. \A v \in Worker : queue[v] \in Seq(Update(Event))
  BY DEF ProjectorTypeOK
<1>2. \A v \in {w} : v \in Worker /\ queue[v] # <<>>
  BY DEF WorkerContinues
<1>3. ApplyHeads({w}, queue) /\ routed' = routed
  BY DEF WorkerContinues
<1>4. ASSUME NEW p \in Projection
      PROVE  Settled(p, routed[p], queue'[WorkerOf(p)], projections'[p].orders)
  <2>1. Settled(p, routed[p], queue[WorkerOf(p)], projections[p].orders)
    BY DEF AppliedInv
  <2> QED
    BY <1>1, <1>2, <1>3, <2>1, HeadsSettle
<1> QED
  BY <1>3, <1>4 DEF AppliedInv

LEMMA SettlesStep ==
    ASSUME TypeOK, JobInv, DefinitionsInv, AppliedInv, [Next]_vars
    PROVE  DefinitionsInv' /\ AppliedInv'
<1>1. ProjectorTypeOK(Event)
  BY DEF TypeOK
<1>2. ASSUME definitions' = definitions, projections' = projections, queue' = queue, routed' = routed
      PROVE  DefinitionsInv' /\ AppliedInv'
  BY <1>2 DEF DefinitionsInv, AppliedInv
<1>3. ASSUME definitions' = definitions PROVE DefinitionsInv'
  BY <1>3 DEF DefinitionsInv
<1>4. CASE Start
  BY <1>1, <1>3, <1>4, EngineStartSettles DEF Start, EngineStart
<1>5. CASE Stop
  BY <1>2, <1>5 DEF Stop, EngineStop
<1>6. ASSUME NEW p \in Projection, Register(p) PROVE DefinitionsInv' /\ AppliedInv'
  BY <1>1, <1>6, RegisterSettles DEF Register
<1>7. ASSUME NEW p \in Projection, AskProjection(p) PROVE DefinitionsInv' /\ AppliedInv'
  BY <1>1, <1>3, <1>7, QuerySettles DEF AskProjection, Query
<1>8. ASSUME NEW c \in Caller, BroadcastStep(c) PROVE DefinitionsInv' /\ AppliedInv'
  <2>1. PICK e : e = arg[c]
    OBVIOUS
  <2>2. e \in Event
    BY <1>8, <2>1, NextCaller DEF BroadcastStep, Stored, SnapshotMade, Fits, Snapshotting
  <2>3. RouteEvent(e)
    BY <1>8, <2>1 DEF BroadcastStep
  <2> QED
    BY <1>1, <1>3, <2>2, <2>3, RouteSettles DEF RouteEvent
<1>9. ASSUME NEW w \in Worker, WorkerStep(w) PROVE DefinitionsInv' /\ AppliedInv'
  <2>1. CASE WorkerContinues(w)
    BY <1>1, <1>3, <2>1, WorkerSettles DEF WorkerContinues
  <2>2. CASE WorkerEnds(w)
    BY <1>2, <2>2 DEF WorkerEnds
  <2> QED
    BY <1>9, <2>1, <2>2 DEF WorkerStep
<1>10. CASE UNCHANGED projectorVars
  BY <1>2, <1>10 DEF projectorVars
<1>11. ScriptStep => \/ Start \/ Stop \/ UNCHANGED projectorVars
                     \/ \E p \in Projection : Register(p) \/ AskProjection(p)
  BY DEF ScriptStep, Write, AskActor
<1>12. JobStep => \/ UNCHANGED projectorVars
                  \/ \E c \in Caller : BroadcastStep(c)
                  \/ \E w \in Worker : WorkerStep(w)
  BY DEF JobStep, Resume, ResumeAndWrite, CallStep
<1>13. UNCHANGED vars => UNCHANGED projectorVars
  BY DEF vars
<1> QED
  BY <1>4, <1>5, <1>6, <1>7, <1>8, <1>9, <1>10, <1>11, <1>12, <1>13 DEF Next

LEMMA SettlesInit == Init => DefinitionsInv /\ AppliedInv
<1> SUFFICES ASSUME Init PROVE DefinitionsInv /\ AppliedInv
  OBVIOUS
<1>1. DefinitionsInv
  BY DEF Init, ProjectorInit, DefinitionsInv
<1>2. ASSUME NEW p \in Projection
      PROVE  Settled(p, routed[p], queue[WorkerOf(p)], projections[p].orders)
  <2>1. routed[p] = <<>> /\ queue[WorkerOf(p)] = <<>> /\ projections[p].orders = 0
    BY <1>2, WorkerOfType DEF Init, ProjectorInit, NewState
  <2>2. <<>> \in Seq(Event) /\ <<>> \o <<>> = <<>>
    BY EmptySeq, ConcatEmptySeq
  <2> QED
    BY <2>1, <2>2, BehindEmpty, OrdersEmpty DEF Settled
<1> QED
  BY <1>1, <1>2 DEF AppliedInv

LEMMA SettledIsApplied ==
    ASSUME ProjectorTypeOK(Event), AppliedInv
    PROVE  AppliedInOrder
<1>1. ASSUME NEW p \in Projection
      PROVE  LET n == Len(routed[p]) - Len(Waiting(p)) IN
             /\ projections[p].orders = OrdersAfter(SubSeq(routed[p], 1, n))
             /\ \A i \in 1..Len(Waiting(p)) : Waiting(p)[i].event = routed[p][n + i]
  <2>1. PICK line \in Seq(Update(Event)) : line = queue[WorkerOf(p)]
    BY WorkerOfType DEF ProjectorTypeOK
  <2>2. PICK s \in Seq(Event) :
           routed[p] = s \o Behind(p, line) /\ projections[p].orders = OrdersAfter(s)
    BY <2>1 DEF AppliedInv, Settled
  <2>3. PICK wait \in Seq(Update(Event)) : wait = UpdatesOf(p, line) /\ wait = Waiting(p)
    BY <2>1, UpdatesOfIs DEF Waiting
  <2>4. PICK b \in Seq(Event) : b = Behind(p, line) /\ Len(b) = Len(wait)
    BY <2>3, BehindType
  <2>5. PICK r \in Seq(Event) : r = s \o b
    BY ConcatProperties
  <2>6. \A i \in 1..Len(wait) : b[i] = wait[i].event
    <3>1. DOMAIN wait = 1..Len(wait)
      BY LenProperties
    <3> QED
      BY <2>3, <2>4, <3>1 DEF Behind
  <2>7. PICK n \in Nat : n = Len(s)
    BY LenProperties
  <2>8. PICK m \in Nat : m = Len(b)
    BY LenProperties
  <2>9. /\ Len(r) = n + m /\ Len(r) - Len(wait) = n
        /\ \A i \in 1..n : r[i] = s[i]
        /\ \A i \in 1..m : r[n + i] = b[i]
    <3>1. /\ Len(s \o b) = Len(s) + Len(b)
          /\ \A i \in 1..Len(s) : (s \o b)[i] = s[i]
          /\ \A i \in 1..Len(b) : (s \o b)[Len(s) + i] = b[i]
      BY Concatenated
    <3>2. Len(r) = n + m /\ Len(wait) = m
      BY <2>4, <2>5, <2>7, <2>8, <3>1
    <3>3. Len(r) - Len(wait) = n
      BY <3>2
    <3>4. /\ \A i \in 1..n : r[i] = s[i]
          /\ \A i \in 1..m : r[n + i] = b[i]
      BY <2>5, <2>7, <2>8, <3>1
    <3> QED
      BY <3>2, <3>3, <3>4
  <2>10. SubSeq(r, 1, n) = s
    <3>1. \A i \in 1..n : s[i] \in Event
      BY <2>7, ElementOfSeq
    <3>2. \A i \in 1..n : r[i] \in Event
      BY <2>9, <3>1
    <3>3. PICK q : q = SubSeq(r, 1, n)
      OBVIOUS
    <3>4. /\ q \in Seq(Event) /\ Len(q) = IF 1 <= n THEN n - 1 + 1 ELSE 0
          /\ \A i \in 1..(n - 1 + 1) : q[i] = r[1 + i - 1]
      BY <3>2, <3>3, SubSeqProperties
    <3>5. Len(q) = n /\ \A i \in 1..n : q[i] = s[i]
      <4>1. n - 1 + 1 = n /\ \A i \in 1..n : 1 + i - 1 = i
        OBVIOUS
      <4> QED
        BY <2>9, <3>4, <4>1
    <3> QED
      BY <2>7, <3>3, <3>4, <3>5, SeqEqual
  <2>11. \A i \in 1..Len(wait) : wait[i].event = r[n + i]
    BY <2>4, <2>6, <2>8, <2>9
  <2>12. routed[p] = r
    BY <2>2, <2>4, <2>5
  <2> QED
    BY <2>2, <2>3, <2>9, <2>10, <2>11, <2>12
<1> QED
  BY <1>1 DEF AppliedInOrder

LEMMA SpecAppliedInv == Spec => [](DefinitionsInv /\ AppliedInv)
<1>1. StoreInv /\ DefinitionsInv /\ AppliedInv /\ [Next]_vars => DefinitionsInv' /\ AppliedInv'
  BY SettlesStep DEF StoreInv
<1> QED
  BY <1>1, SettlesInit, SpecStoreInv, PTL DEF Spec

\* What a projection shows is the effect of the events that were routed to it,
\* in that order, up to those that wait for its worker: the loop of the worker
\* and the calls that bring it events never change their order (enqueue,
\* process).
THEOREM AppliedInRoutingOrder == Spec => []AppliedInOrder
<1>1. StoreInv /\ DefinitionsInv /\ AppliedInv => AppliedInOrder
  BY SettledIsApplied DEF StoreInv, TypeOK
<1> QED
  BY <1>1, SpecStoreInv, SpecAppliedInv, PTL

=============================================================================
