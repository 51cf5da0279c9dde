---------------------------- MODULE MCEventStore ----------------------------
(* A small instance of EventStore for TLC. *)
EXTENDS EventStore

\* Every goroutine may write every aggregate.
AnyWriter == Thread \X Aggregate

=============================================================================
