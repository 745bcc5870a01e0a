----------------------------- MODULE MCPiiKeys -----------------------------
(* Small instances of PiiKeys for TLC. *)
EXTENDS PiiKeys
=============================================================================
