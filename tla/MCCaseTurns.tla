----------------------------- MODULE MCCaseTurns -----------------------------
(* Small instances of CaseTurns for TLC. *)
EXTENDS CaseTurns

AllRequests == {"sync", "retry", "archive", "touch", "delete", "reload"}
ChatAndRetry == {"sync", "retry"}
=============================================================================
