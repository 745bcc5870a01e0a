--------------------------- MODULE ScoringService ---------------------------
(***************************************************************************)
(* ScoringService.score as POST /api/manual-input calls it: the flags the  *)
(* rules raised become a score, the INSUFFICIENT_DATA policy and then the  *)
(* confidence in the data correct it.  A form is sent again and again, each*)
(* time with more in it; every assessment is made from nothing.            *)
(***************************************************************************)
EXTENDS ConfidenceLayer

CONSTANTS
  FlagCounts,    \* how many flags of each severity are tried
  SourceCounts,  \* how many documents of each source are tried
  CoreCounts     \* how many of the borrower's four fields are filled

Severity == {"low", "medium", "high", "critical"}

ASSUME ScoringAssumption ==
  /\ FlagCounts \in [Severity -> SUBSET Nat]
  /\ SourceCounts \in [Source -> SUBSET Nat]
  /\ CoreCounts \subseteq 0 .. 4

VARIABLES
  flags,      \* flags raised by severity, INSUFFICIENT_DATA left out
  noRevenue,  \* INSUFFICIENT_DATA was raised: no report shows any revenue
  core,       \* fields of the borrower filled
  docs,       \* documents of each source
  result      \* the score and the recommendation

vars == <<flags, noRevenue, core, docs, result>>

MaxScore == 100
Floor    == 50

\* Weights of FlagSeverity; INSUFFICIENT_DATA is a flag of severity high.
TotalWeight(f, blind) ==
  f["low"] + 3 * f["medium"] + 7 * f["high"] + 15 * f["critical"]
    + (IF blind THEN 7 ELSE 0)

AtMost(limit, n)  == IF n > limit THEN limit ELSE n
AtLeast(limit, n) == IF n < limit THEN limit ELSE n

\* _resolve_recommendation
Recommend(score) ==
  CASE score < 15 -> "approve" [] score \in 15 .. 29 -> "review" [] score >= 30 -> "reject"

Assessment(score, recommendation) ==
  [score |-> score, recommendation |-> recommendation]

\* Mutant: a policy that leaves the recommendation alone.
Blinded_scoreOnly(a) == Assessment(AtLeast(Floor, a.score), a.recommendation)

\* The INSUFFICIENT_DATA policy.
Blinded(a) == Assessment(AtLeast(Floor, a.score), "review")

FromFlags(f, blind) ==
  LET score == AtMost(MaxScore, TotalWeight(f, blind))
      raw   == Assessment(score, Recommend(score))
  IN  IF blind THEN Blinded(raw) ELSE raw

\* Mutant: the recommendation kept, as the layer's own docstring says.
Penalised_kept(a) == Assessment(AtMost(MaxScore, a.score + 5), a.recommendation)

\* Tier medium: five points more, and the recommendation of the new score.
Penalised(a) ==
  LET score == AtMost(MaxScore, a.score + 5)
  IN  Assessment(score, Recommend(score))

\* Mutants: the reject forgotten; the condition inverted.
Floored_review(a)   == Assessment(AtLeast(Floor, a.score), "review")
Floored_inverted(a) ==
  Assessment(AtLeast(Floor, a.score),
             IF a.recommendation = "reject" THEN "review" ELSE "reject")

\* Tiers low and critical: the floor, and a review unless it is a reject.  The
\* floored score is never below the threshold of a reject, so the handler's
\* last branch is not reached.
Floored(a) ==
  Assessment(AtLeast(Floor, a.score),
             IF a.recommendation = "reject" THEN "reject" ELSE "review")

\* _apply_confidence
Adjusted(a, tier) ==
  CASE tier = "high" -> a
    [] tier = "medium" -> Penalised(a)
    [] tier \in {"low", "critical"} -> Floored(a)

Score(f, blind, c, d) == Adjusted(FromFlags(f, blind), Tier(Coverage(c, d)))
-----------------------------------------------------------------------------
\* An empty form: INSUFFICIENT_DATA is raised.
Init ==
  /\ flags = [s \in Severity |-> 0]
  /\ noRevenue = TRUE
  /\ core \in CoreCounts
  /\ docs = [s \in Source |-> 0]
  /\ result = Score(flags, noRevenue, core, docs)

Assess == result' = Score(flags', noRevenue', core', docs')

\* What is sent raises more flags of one severity.
MoreFlags ==
  /\ \E s \in Severity : \E n \in FlagCounts[s] :
       n > flags[s] /\ flags' = [flags EXCEPT ![s] = n]
  /\ UNCHANGED <<noRevenue, core, docs>>
  /\ Assess

\* More documents of one source are sent.  Reports and turnover may show the
\* first revenue; they may also show none.
MoreDocuments ==
  /\ \E s \in Source : \E n \in SourceCounts[s] :
       /\ n > docs[s]
       /\ docs' = [docs EXCEPT ![s] = n]
       /\ noRevenue' \in {noRevenue} \cup
            (IF s \in {"annual", "quarterly", "monthly"} THEN {FALSE} ELSE {})
  /\ UNCHANGED <<flags, core>>
  /\ Assess

\* More of the borrower's fields are filled.
MoreFields ==
  /\ core' \in {n \in CoreCounts : n > core}
  /\ UNCHANGED <<flags, noRevenue, docs>>
  /\ Assess

Next == MoreFlags \/ MoreDocuments \/ MoreFields

Spec == Init /\ [][Next]_vars
-----------------------------------------------------------------------------
\* The type invariant: the score is a number between 0 and 100.
TypeOK ==
  /\ flags \in [Severity -> Nat]
  /\ noRevenue \in BOOLEAN
  /\ core \in 0 .. 4
  /\ docs \in [Source -> Nat]
  /\ result \in [score : 0 .. MaxScore,
                 recommendation : {"approve", "review", "reject"}]

\* The tier of the data in hand.
Confidence == Tier(Coverage(core, docs))

\* The point of the policy and of the confidence layer: nobody is approved
\* because the data that could have raised flags was not there.
NeverApprovedBlind ==
  noRevenue \/ Confidence \in {"low", "critical"}
    => result.recommendation # "approve"

\* After all corrections the score and the recommendation still agree: an
\* approval has a score below 15, a reject one of 30 or more.
RecommendationFitsScore ==
  /\ result.recommendation = "approve" => result.score < 15
  /\ result.recommendation = "reject"  => result.score >= 30

\* Flags heavy enough for a reject stay one at every tier, however few documents
\* there are, as long as some revenue is known.  With no revenue the policy makes
\* it a review, which tier medium alone makes a reject again.  And no correction
\* takes off the score what the flags put on it.
RejectStands ==
  TotalWeight(flags, noRevenue) >= 30 =>
    /\ result.score >= AtMost(MaxScore, TotalWeight(flags, noRevenue))
    /\ result.recommendation =
         IF noRevenue /\ Confidence # "medium" THEN "review" ELSE "reject"

\* The inductive invariant the proofs rest on: the result is computed anew
\* from all that was sent, whatever was sent before.
ScoringInv ==
  /\ TypeOK
  /\ result = Score(flags, noRevenue, core, docs)

Harshness(recommendation) ==
  CASE recommendation = "approve" -> 0
    [] recommendation = "review"  -> 1
    [] recommendation = "reject"  -> 2

\* One more flag never makes an assessment milder, whatever the data, the
\* floors and the clamp at 100.
MoreFlagsNeverMilder ==
  [][MoreFlags => /\ result'.score >= result.score
                  /\ Harshness(result'.recommendation)
                       >= Harshness(result.recommendation)]_vars

\* Sending more of anything never lowers the coverage.
MoreDataNeverLowersCoverage ==
  [][MoreDocuments \/ MoreFields
       => Coverage(core', docs') >= Coverage(core, docs)]_vars

\* The INSUFFICIENT_DATA policy forces a review (tests of the policy: even
\* with flags heavy enough for a reject).
InsufficientDataIsReviewed == noRevenue => result.recommendation = "review"
=============================================================================
