---------------------------- MODULE MCTodoClient ----------------------------
(* Small instances of TodoClient for TLC. *)
EXTENDS TodoClient, TLC

Written3 == {"todo_item_created", "todo_item_completed", "todo_item_deleted"}

MadeOrDeleted == {"todo_item_created", "todo_item_deleted"}

Deletion == {"todo_item_deleted"}

\* The bare holder's numbers leave the last place to the others.
TwoOrThree == [h \in Holder |-> IF h \in Bare THEN 2 ELSE 3]

CallSymmetry == Permutations(Call)

=============================================================================
