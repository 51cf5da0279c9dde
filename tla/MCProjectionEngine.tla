------------------------- MODULE MCProjectionEngine -------------------------
(* Small instances of ProjectionEngine for TLC. *)
EXTENDS ProjectionEngine

CONSTANTS p1, p2

\* Two names whose lengths select different workers of two.
TwoLengths == (p1 :> 1) @@ (p2 :> 2)

\* One projection takes both streams, the other only new orders.
TwoSources == (p1 :> EventType) @@ (p2 :> {"order_created"})

=============================================================================
