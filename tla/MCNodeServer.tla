---------------------------- MODULE MCNodeServer ----------------------------
(* Small instances of NodeServer for TLC. *)
EXTENDS NodeServer, TLC

CONSTANTS p1, p2

Orders == {"order_created", "order_cancelled"}

\* One projection of both kinds of event and one of cancellations, whose
\* names have lengths that share the only worker.
SharedNames == [p \in Projection |-> IF p = p1 THEN 3 ELSE 4]

\* Queries are counted for the second projection only.
FewQueries == [p \in Projection |-> IF p = p1 THEN 0 ELSE 1]

TwoSources == [p \in Projection |-> IF p = p1 THEN Orders ELSE {"order_cancelled"}]

\* Two orders are placed, and one is cancelled in between.
FewEvents ==
    {[aggregateId |-> a, sequence |-> n,
      eventType |-> IF n = 2 THEN "order_cancelled" ELSE "order_created"] :
        a \in Aggregate, n \in 1..MaxSequence}

=============================================================================
