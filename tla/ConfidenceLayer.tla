-------------------------- MODULE ConfidenceLayer --------------------------
(***************************************************************************)
(* compute_confidence: how much of what the score should rest on is in a   *)
(* snapshot, as a coverage between 10 and 100 and the tier it falls in.    *)
(***************************************************************************)
EXTENDS Integers

\* Documents of a snapshot are counted; "sides" counts which of buyers and
\* suppliers are given, "loan" whether a loan is asked for.
Source == {"annual", "vat", "monthly", "quarterly", "sides", "tax",
           "invoices", "loan"}

\* Mutant: the operands of the division swapped.
Graded_swapped(weight, n, full) ==
  IF n >= full \/ n = 0 THEN (IF n = 0 THEN 0 ELSE weight)
                        ELSE (weight * full) \div n

\* All of the weight from `full` documents on, a share of it below, rounded
\* down as Python's // does.
Graded(weight, n, full) == IF n >= full THEN weight ELSE (weight * n) \div full

\* Of the four fields of a borrower one alone counts for nothing.
Core(filled) == IF filled < 2 THEN 0 ELSE Graded(10, filled, 4)

Coverage(core, docs) ==
  LET total == 10 + Core(core)
                  + Graded(15, docs["annual"], 2)
                  + Graded(12, docs["vat"], 6)
                  + Graded(10, docs["monthly"], 12)
                  + Graded(8,  docs["quarterly"], 4)
                  + Graded(10, docs["sides"], 2)
                  + Graded(10, docs["tax"], 6)
                  + Graded(10, docs["invoices"], 10)
                  + Graded(5,  docs["loan"], 1)
  IN  IF total > 100 THEN 100 ELSE total

Tier(coverage) ==
  CASE coverage >= 75 -> "high"
    [] coverage \in 50 .. 74 -> "medium"
    [] coverage \in 30 .. 49 -> "low"
    [] coverage < 30  -> "critical"
=============================================================================
