---------------------------- MODULE MCGoProgram ----------------------------
(* GoProgram with the model values that its configuration gives.             *)
EXTENDS GoProgram
=============================================================================
