---------------------------- MODULE MCSqlStorage ----------------------------
(* Small instances of SqlStorage for TLC. *)
EXTENDS SqlStorage

CONSTANTS t1, t2, a1, a2

Key(a, n) == [AggregateID |-> a, Sequence |-> n]

\* Single events, batches over two aggregates in either order, some of whose
\* events may be refused, and batches within one aggregate.
SmallRequests ==
    {<<Key(a1, 1)>>, <<Key(a1, 2)>>, <<Key(a2, 1)>>,
     <<Key(a1, 1), Key(a2, 1)>>, <<Key(a2, 1), Key(a1, 1)>>,
     <<Key(a1, 2), Key(a2, 1)>>, <<Key(a2, 1), Key(a1, 2)>>,
     <<Key(a1, 1), Key(a1, 2)>>, <<Key(a1, 2), Key(a1, 1)>>}

=============================================================================
