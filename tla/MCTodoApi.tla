----------------------------- MODULE MCTodoApi -----------------------------
(* Small instances of TodoApi for TLC. *)
EXTENDS TodoApi, TLC

CallSymmetry == Permutations(Call)

=============================================================================
