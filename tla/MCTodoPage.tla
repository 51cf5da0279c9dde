----------------------------- MODULE MCTodoPage -----------------------------
(* Small instances of TodoPage for TLC. *)
EXTENDS TodoPage, TLC

PageSymmetry == Permutations(Page)

=============================================================================
