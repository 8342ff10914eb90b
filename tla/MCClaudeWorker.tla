--------------------------- MODULE MCClaudeWorker ---------------------------
(* ClaudeWorker for TLC: the model values of the configurations. *)
EXTENDS ClaudeWorker

CONSTANTS s1, t1, t2
=============================================================================
