-------------------------- MODULE MCAnalystAccount --------------------------
(* Small instances of AnalystAccount for TLC. *)
EXTENDS AnalystAccount, TLC

\* The sets of endpoints the runs choose from.
EveryEndpoint    == Endpoint
SecondFactorOnly == Endpoint \ {"login", "password", "totp"}

\* No liveness is checked, so calls may be interchanged.
RequestSymmetry == Permutations(Request)
=============================================================================
