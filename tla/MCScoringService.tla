------------------------- MODULE MCScoringService -------------------------
(* Small instances of ScoringService for TLC. *)
EXTENDS ScoringService

\* The numbers of flags the 24 rules of v1_uz_msb.yaml can raise: around the
\* thresholds and the most there can be, so that the score is clamped.
TriedFlags ==
  [s \in Severity |-> CASE s = "low"      -> {0}
                        [] s = "medium"   -> {0, 3, 11}
                        [] s = "high"     -> {0, 2, 10}
                        [] s = "critical" -> {0, 1, 2}]

\* Every step of the sources that come in small numbers, both sides of the
\* thresholds of the others.
TriedSources ==
  [s \in Source |-> CASE s = "annual"    -> {0, 1, 2}
                      [] s = "vat"       -> {0, 1, 6}
                      [] s = "monthly"   -> {0, 12}
                      [] s = "quarterly" -> {0, 4}
                      [] s = "sides"     -> {0, 2}
                      [] s = "tax"       -> {0, 4}
                      [] s = "invoices"  -> {0, 10}
                      [] s = "loan"      -> {0, 1}]

TriedCore == {2, 4}
=============================================================================
