--------------------------- MODULE MCNodeProgram ---------------------------
(* Small instances of NodeProgram for TLC. *)
EXTENDS NodeProgram
=============================================================================
