------------------------------ MODULE TodoItem ------------------------------
(***************************************************************************)
(* The todo item of demo/nextjs-libsql: its events, its reducer, and what  *)
(* the handles of its states can do.                                       *)
(***************************************************************************)
EXTENDS Sequences, SequencesExt

TodoEvent ==
    {"todo_item_created", "todo_item_updated", "todo_item_completed", "todo_item_deleted"}

\* No event leads to in_progress: the updates of todo_item_updated have no status.
Status == {"pending", "in_progress", "completed", "cancelled"}

Reduce(status, type) ==
    CASE type = "todo_item_created"   -> "pending"
      [] type = "todo_item_updated"   -> status
      [] type = "todo_item_completed" -> "completed"
      [] type = "todo_item_deleted"   -> "cancelled"

\* The status that a ReducerAggregate has after events of these types.
StatusOf(types) == FoldLeft(Reduce, "pending", types)

\* What the handle of a status can write: update, complete and delete.
HandleOffers(status) ==
    CASE status \in {"pending", "in_progress"} -> TodoEvent \ {"todo_item_created"}
      [] status = "completed"                  -> {"todo_item_deleted"}
      [] status = "cancelled"                  -> {}

=============================================================================
