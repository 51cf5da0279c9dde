----------------------------- MODULE MCKVStorage -----------------------------
(* Small instances of KVStorage for TLC. *)
EXTENDS KVStorage

CONSTANTS t1, t2, a1, a2

\* Both goroutines write a1, and only the first writes a2.
SharedAndOwn == (Thread \X {a1}) \cup {<<t1, a2>>}

=============================================================================
