------------------------- MODULE MCDossierRegistry -------------------------
(* Small instances of DossierRegistry for TLC. *)
EXTENDS DossierRegistry, TLC

\* Requests differ by nothing but their names.  Used by runs without liveness
\* only.
RequestSymmetry == Permutations(Request)

\* The migration has numbered as many dossiers as it may, all of one borrower:
\* borrowers differ by nothing but their names.
MigratedInit ==
  /\ Init
  /\ seq = MaxBackfill
  /\ \A d \in dossiers : d.inn = CHOOSE i \in Inn : TRUE

RolloverSpec == MigratedInit /\ [][Next]_vars /\ Fairness
=============================================================================
