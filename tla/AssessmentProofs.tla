------------------------- MODULE AssessmentProofs ---------------------------
(***************************************************************************)
(* Theorems about what is made of the borrower's figures: the score of     *)
(* ScoringService, for any number of flags and documents, and the flags, the *)
(* screen and the report of SnapshotReview and DossierReport, for any form. *)
(***************************************************************************)
EXTENDS ScoringService, DossierReport, ListProofs

\* Coverage is a number, so a tier is always found.
LEMMA CoverageIsANumber ==
  ASSUME NEW c \in 0 .. 4, NEW d \in [Source -> Nat]
  PROVE  Coverage(c, d) \in 0 .. 100
<1>1. Core(c) \in 0 .. 10
  BY DEF Core, Graded
<1>2. ASSUME NEW w \in 5 .. 15, NEW n \in Nat, NEW full \in {1, 2, 4, 6, 10, 12}
      PROVE  Graded(w, n, full) \in Nat
  BY <1>2 DEF Graded
<1>3. \A s \in Source : d[s] \in Nat
  OBVIOUS
<1> DEFINE a == Graded(15, d["annual"], 2)    v == Graded(12, d["vat"], 6)
           m == Graded(10, d["monthly"], 12)  q == Graded(8, d["quarterly"], 4)
           s == Graded(10, d["sides"], 2)     t == Graded(10, d["tax"], 6)
           i == Graded(10, d["invoices"], 10) l == Graded(5, d["loan"], 1)
           total == 10 + Core(c) + a + v + m + q + s + t + i + l
<1>4. /\ a \in Nat /\ v \in Nat /\ m \in Nat /\ q \in Nat
      /\ s \in Nat /\ t \in Nat /\ i \in Nat /\ l \in Nat
  BY <1>2, <1>3 DEF Source
<1>5. Coverage(c, d) = IF total > 100 THEN 100 ELSE total
  BY DEF Coverage
<1> HIDE DEF a, v, m, q, s, t, i, l
<1>6. total \in Nat
  BY <1>1, <1>4
<1>7. QED
  BY <1>5, <1>6

\* A coverage has one of four tiers.
LEMMA TierIsOne ==
  ASSUME NEW n \in Int
  PROVE  Tier(n) \in {"high", "medium", "low", "critical"}
  BY DEF Tier

\* Flags weigh a number.
LEMMA WeightIsANumber ==
  ASSUME NEW f \in [Severity -> Nat], NEW blind \in BOOLEAN
  PROVE  TotalWeight(f, blind) \in Nat
<1>1. /\ f["low"] \in Nat /\ f["medium"] \in Nat /\ f["high"] \in Nat
      /\ f["critical"] \in Nat
  BY DEF Severity
<1>2. QED
  BY <1>1 DEF TotalWeight

\* What an assessment may be.
Result == [score : 0 .. MaxScore,
           recommendation : {"approve", "review", "reject"}]

\* What the flags alone come to.
LEMMA FlagsGiveAResult ==
  ASSUME NEW f \in [Severity -> Nat], NEW blind \in BOOLEAN
  PROVE  FromFlags(f, blind) \in Result
  BY WeightIsANumber DEF FromFlags, Blinded, Assessment, Recommend, AtMost,
     AtLeast, MaxScore, Floor, Result

\* The corrections of the tier leave it one.
LEMMA AdjustedIsAResult ==
  ASSUME NEW a \in Result, NEW t \in {"high", "medium", "low", "critical"}
  PROVE  Adjusted(a, t) \in Result
  BY DEF Adjusted, Penalised, Floored, Assessment, Recommend, AtMost, AtLeast,
     MaxScore, Floor, Result

\* A score is one, whatever was sent.
LEMMA ScoreIsAResult ==
  ASSUME NEW f \in [Severity -> Nat], NEW blind \in BOOLEAN,
         NEW c \in 0 .. 4, NEW d \in [Source -> Nat]
  PROVE  Score(f, blind, c, d) \in Result
<1>1. Tier(Coverage(c, d)) \in {"high", "medium", "low", "critical"}
  BY CoverageIsANumber, TierIsOne
<1>2. QED
  BY <1>1, FlagsGiveAResult, AdjustedIsAResult DEF Score

-----------------------------------------------------------------------------
\* The result is always that of the flags and the data in hand.
LEMMA ScoringStep ==
  (Init => ScoringInv) /\ (ScoringInv /\ [Next]_vars => ScoringInv')
<1> USE ScoringAssumption DEF ScoringAssumption
<1>1. Init => ScoringInv
  <2> SUFFICES ASSUME Init PROVE ScoringInv
    OBVIOUS
  <2>1. /\ flags \in [Severity -> Nat] /\ noRevenue \in BOOLEAN
        /\ core \in 0 .. 4 /\ docs \in [Source -> Nat]
    BY DEF Init
  <2>2. result = Score(flags, noRevenue, core, docs)
    BY DEF Init
  <2>3. QED
    BY <2>1, <2>2, ScoreIsAResult DEF ScoringInv, TypeOK, Result
<1>2. ScoringInv /\ [Next]_vars => ScoringInv'
  <2> SUFFICES ASSUME ScoringInv, [Next]_vars PROVE ScoringInv'
    OBVIOUS
  <2>1. ASSUME /\ flags' \in [Severity -> Nat] /\ noRevenue' \in BOOLEAN
               /\ core' \in 0 .. 4 /\ docs' \in [Source -> Nat],
               Assess
        PROVE  ScoringInv'
    <3>1. Score(flags', noRevenue', core', docs') \in Result
      BY <2>1, ScoreIsAResult
    <3>2. QED
      BY <2>1, <3>1 DEF ScoringInv, TypeOK, Assess, Result
  <2>2. CASE MoreFlags
    BY <2>1, <2>2 DEF MoreFlags, ScoringInv, TypeOK
  <2>3. CASE MoreDocuments
    BY <2>1, <2>3 DEF MoreDocuments, ScoringInv, TypeOK
  <2>4. CASE MoreFields
    BY <2>1, <2>4 DEF MoreFields, ScoringInv, TypeOK
  <2>5. CASE UNCHANGED vars
    BY <2>5 DEF vars, ScoringInv, TypeOK
  <2>6. QED
    BY <2>2, <2>3, <2>4, <2>5 DEF Next
<1>3. QED
  BY <1>1, <1>2

\* In every state the assessment is that of what was sent.
LEMMA ScoringIsAFunction == Spec => []ScoringInv
  BY ScoringStep, PTL DEF Spec

\* ScoringService: the score is a number from 0 to 100 after every correction.
THEOREM TypeCorrect == Spec => []TypeOK
<1>1. ScoringInv => TypeOK
  BY DEF ScoringInv
<1>2. QED
  BY <1>1, ScoringIsAFunction, PTL

\* ScoringService: no approval on the strength of data that is not there.
THEOREM BlindIsNeverApproved == Spec => []NeverApprovedBlind
<1>1. ScoringInv => NeverApprovedBlind
  <2> SUFFICES ASSUME ScoringInv, noRevenue \/ Confidence \in {"low", "critical"}
               PROVE  result.recommendation # "approve"
    BY DEF NeverApprovedBlind
  <2> DEFINE a == FromFlags(flags, noRevenue)
  <2>1. a \in Result /\ result = Adjusted(a, Confidence)
    BY FlagsGiveAResult DEF ScoringInv, TypeOK, Score, Confidence
  <2>2. Confidence \in {"high", "medium", "low", "critical"}
    BY CoverageIsANumber, TierIsOne DEF Confidence, ScoringInv, TypeOK
  <2>3. ASSUME noRevenue PROVE a.recommendation = "review" /\ a.score >= 50
    <3> DEFINE w == TotalWeight(flags, noRevenue)
    <3>1. w \in Nat
      BY WeightIsANumber DEF ScoringInv, TypeOK
    <3>2. a = Assessment(AtLeast(50, AtMost(100, w)), "review")
      BY <2>3 DEF FromFlags, Blinded, Assessment, Floor, MaxScore
    <3> HIDE DEF a, w
    <3>3. QED
      BY <3>1, <3>2 DEF Assessment, AtLeast, AtMost
  <2> HIDE DEF a
  <2>4. QED
    BY <2>1, <2>2, <2>3 DEF Adjusted, Penalised, Floored, Assessment, Recommend,
       AtMost, AtLeast, MaxScore, Floor, Result
<1>2. QED
  BY <1>1, ScoringIsAFunction, PTL

\* ScoringService: flags that call for a reject stay one whatever documents are
\* missing, if some revenue is known; with none they are a review, but for tier
\* medium; and the score is never below what they weigh.
THEOREM FlagsAreNotExcused == Spec => []RejectStands
<1>1. ScoringInv => RejectStands
  <2> DEFINE w == TotalWeight(flags, noRevenue)
             a == Assessment(AtMost(100, w), "reject")
  <2> SUFFICES ASSUME ScoringInv, w >= 30
               PROVE  /\ result.score >= AtMost(MaxScore, w)
                      /\ result.recommendation =
                           IF noRevenue /\ Confidence # "medium" THEN "review" ELSE "reject"
    BY DEF RejectStands
  <2>1. w \in Nat /\ w >= 30
    BY WeightIsANumber DEF ScoringInv, TypeOK
  <2>2. FromFlags(flags, noRevenue)
          = IF noRevenue THEN Blinded(Assessment(AtMost(100, w), Recommend(AtMost(100, w))))
            ELSE Assessment(AtMost(100, w), Recommend(AtMost(100, w)))
    BY DEF FromFlags, MaxScore
  <2>3. Confidence \in {"high", "medium", "low", "critical"}
    BY CoverageIsANumber, TierIsOne DEF Confidence, ScoringInv, TypeOK
  <2>4. result = Adjusted(FromFlags(flags, noRevenue), Confidence)
    BY DEF ScoringInv, Score, Confidence
  <2> HIDE DEF w
  <2>5. AtMost(100, w) \in 30 .. 100 /\ Recommend(AtMost(100, w)) = "reject"
    BY <2>1 DEF AtMost, Recommend
  <2>6. a.score = AtMost(100, w) /\ a.score \in 30 .. 100 /\ a.recommendation = "reject"
    BY <2>5 DEF Assessment
  <2>7. CASE ~noRevenue
    <3>1. FromFlags(flags, noRevenue) = a
      BY <2>2, <2>5, <2>7
    <3> HIDE DEF a
    <3>2. QED
      BY <2>3, <2>4, <2>6, <2>7, <3>1 DEF Adjusted, Penalised, Floored, Assessment,
         Recommend, AtMost, AtLeast, MaxScore, Floor
  <2>8. CASE noRevenue
    <3> DEFINE b == Blinded(a)
    <3>1. FromFlags(flags, noRevenue) = b
      BY <2>2, <2>5, <2>8
    <3>2. b.score \in 50 .. 100 /\ b.score >= AtMost(100, w) /\ b.recommendation = "review"
      BY <2>6 DEF Blinded, Assessment, AtLeast, Floor
    <3> HIDE DEF b
    <3> DEFINE m == AtMost(100, w)
    <3>3. m \in 30 .. 100 /\ m = AtMost(MaxScore, w)
      BY <2>5 DEF MaxScore
    <3>4. result = Adjusted(b, Confidence)
      BY <2>4, <3>1
    <3> HIDE DEF m
    <3>5. CASE Confidence = "medium"
      <4>1. AtMost(MaxScore, b.score + 5) \in 50 .. 100 /\ AtMost(MaxScore, b.score + 5) >= b.score
        BY <3>2 DEF AtMost, MaxScore
      <4>2. result.score \in Nat /\ result.score >= b.score /\ result.recommendation = "reject"
        BY <3>4, <3>5, <4>1 DEF Adjusted, Penalised, Assessment, Recommend
      <4>3. QED
        BY <2>8, <3>2, <3>3, <3>5, <4>2 DEF m
    <3>6. CASE Confidence \in {"high", "low", "critical"}
      <4>1. AtLeast(Floor, b.score) = b.score
        BY <3>2 DEF AtLeast, Floor
      <4>2. result.score = b.score /\ result.recommendation = "review"
        BY <3>2, <3>4, <3>6, <4>1 DEF Adjusted, Floored, Assessment
      <4>3. QED
        BY <2>8, <3>2, <3>3, <3>6, <4>2 DEF m
    <3>7. QED
      BY <2>3, <3>5, <3>6
  <2>9. QED
    BY <2>7, <2>8
<1>2. QED
  BY <1>1, ScoringIsAFunction, PTL

\* A result whose recommendation is one its score allows.
Fits(a) == /\ a.recommendation = "approve" => a.score < 15
           /\ a.recommendation = "reject"  => a.score >= 30

\* ScoringService: after every correction score and recommendation agree.
THEOREM ScoreAndRecommendationAgree == Spec => []RecommendationFitsScore
<1>1. ScoringInv => RecommendationFitsScore
  <2> SUFFICES ASSUME ScoringInv PROVE Fits(result)
    BY DEF RecommendationFitsScore, Fits
  <2> DEFINE a == FromFlags(flags, noRevenue)
             w == TotalWeight(flags, noRevenue)
  <2>1. a \in Result /\ result = Adjusted(a, Confidence)
    BY FlagsGiveAResult DEF ScoringInv, TypeOK, Score, Confidence
  <2>2. Confidence \in {"high", "medium", "low", "critical"}
    BY CoverageIsANumber, TierIsOne DEF Confidence, ScoringInv, TypeOK
  <2>3. Fits(a)
    <3>1. a = IF noRevenue
              THEN Assessment(AtLeast(50, AtMost(100, w)), "review")
              ELSE Assessment(AtMost(100, w), Recommend(AtMost(100, w)))
      BY DEF FromFlags, Blinded, Assessment, Floor, MaxScore
    <3>2. w \in Nat
      BY WeightIsANumber DEF ScoringInv, TypeOK
    <3> HIDE DEF a, w
    <3>3. QED
      BY <3>1, <3>2 DEF Fits, Assessment, Recommend, AtMost
  <2> HIDE DEF a
  <2>4. QED
    BY <2>1, <2>2, <2>3 DEF Fits, Adjusted, Penalised, Floored, Assessment,
       Recommend, AtMost, AtLeast, MaxScore, Floor, Result
<1>2. QED
  BY <1>1, ScoringIsAFunction, PTL

-----------------------------------------------------------------------------
\* One result is at least as harsh as another.
Harsher(b, a) == /\ b.score >= a.score
                 /\ Harshness(b.recommendation) >= Harshness(a.recommendation)

\* More weight, with the INSUFFICIENT_DATA policy applied to both or to none.
LEMMA WeightIsHarsher ==
  ASSUME NEW f \in [Severity -> Nat], NEW g \in [Severity -> Nat],
         NEW blind \in BOOLEAN,
         TotalWeight(g, blind) >= TotalWeight(f, blind)
  PROVE  Harsher(FromFlags(g, blind), FromFlags(f, blind))
<1> DEFINE w == TotalWeight(f, blind)
           z == TotalWeight(g, blind)
<1>1. w \in Nat /\ z \in Nat /\ z >= w
  BY WeightIsANumber
<1>2. CASE blind
  <2>1. /\ FromFlags(f, blind) = Assessment(AtLeast(50, AtMost(100, w)), "review")
        /\ FromFlags(g, blind) = Assessment(AtLeast(50, AtMost(100, z)), "review")
    BY <1>2 DEF FromFlags, Blinded, Assessment, Floor, MaxScore
  <2> HIDE DEF w, z
  <2>2. QED
    BY <1>1, <2>1 DEF Harsher, Harshness, Assessment, AtMost, AtLeast
<1>3. CASE ~blind
  <2>1. /\ FromFlags(f, blind) = Assessment(AtMost(100, w), Recommend(AtMost(100, w)))
        /\ FromFlags(g, blind) = Assessment(AtMost(100, z), Recommend(AtMost(100, z)))
    BY <1>3 DEF FromFlags, MaxScore
  <2> HIDE DEF w, z
  <2>2. QED
    BY <1>1, <2>1 DEF Harsher, Harshness, Recommend, Assessment, AtMost
<1>4. QED
  BY <1>2, <1>3

\* The confidence layer keeps the order of results that fit their score.
LEMMA AdjustedIsHarsher ==
  ASSUME NEW a \in Result, NEW b \in Result, Harsher(b, a),
         NEW t \in {"high", "medium", "low", "critical"}
  PROVE  Harsher(Adjusted(b, t), Adjusted(a, t))
<1>1. CASE t = "high"
  BY <1>1 DEF Adjusted
<1>2. CASE t = "medium"
  BY <1>2 DEF Adjusted, Penalised, Assessment, Recommend, AtMost, MaxScore,
     Harsher, Harshness, Result
<1>3. CASE t \in {"low", "critical"}
  BY <1>3 DEF Adjusted, Floored, Assessment, AtLeast, Floor,
     Harsher, Harshness, Result
<1>4. QED
  BY <1>1, <1>2, <1>3

\* ScoringService: one more flag never makes an assessment milder.
THEOREM FlagsNeverHelp == Spec => MoreFlagsNeverMilder
<1>1. ASSUME ScoringInv, ScoringInv', MoreFlags
      PROVE  Harsher(result', result)
  <2>0. PICK s \in Severity : \E n \in FlagCounts[s] :
          n > flags[s] /\ flags' = [flags EXCEPT ![s] = n]
    BY <1>1 DEF MoreFlags
  <2>1. PICK n \in FlagCounts[s] :
          n > flags[s] /\ flags' = [flags EXCEPT ![s] = n]
    BY <2>0
  <2>2. \A x \in Severity : flags'[x] \in Nat /\ flags[x] \in Nat
                               /\ flags'[x] >= flags[x]
    BY <1>1, <2>1 DEF ScoringInv, TypeOK
  <2>3. TotalWeight(flags', noRevenue) >= TotalWeight(flags, noRevenue)
    <3>1. /\ flags'["low"] >= flags["low"] /\ flags'["medium"] >= flags["medium"]
          /\ flags'["high"] >= flags["high"]
          /\ flags'["critical"] >= flags["critical"]
      BY <2>2 DEF Severity
    <3>2. /\ flags'["low"] \in Nat /\ flags'["medium"] \in Nat
          /\ flags'["high"] \in Nat /\ flags'["critical"] \in Nat
          /\ flags["low"] \in Nat /\ flags["medium"] \in Nat
          /\ flags["high"] \in Nat /\ flags["critical"] \in Nat
      BY <2>2 DEF Severity
    <3>3. QED
      BY <3>1, <3>2 DEF TotalWeight
  <2>4. /\ result = Adjusted(FromFlags(flags, noRevenue), Confidence)
        /\ result' = Adjusted(FromFlags(flags', noRevenue), Confidence)
    BY <1>1 DEF ScoringInv, Score, Confidence, MoreFlags
  <2>5. Confidence \in {"high", "medium", "low", "critical"}
    BY <1>1, CoverageIsANumber, TierIsOne DEF Confidence, ScoringInv, TypeOK
  <2>6. /\ flags \in [Severity -> Nat] /\ flags' \in [Severity -> Nat]
        /\ noRevenue \in BOOLEAN
    BY <1>1 DEF ScoringInv, TypeOK
  <2>7. Harsher(FromFlags(flags', noRevenue), FromFlags(flags, noRevenue))
    BY <2>3, <2>6, WeightIsHarsher
  <2>8. QED
    BY <2>4, <2>5, <2>6, <2>7, FlagsGiveAResult, AdjustedIsHarsher
<1>2. ScoringInv /\ ScoringInv'
        => [MoreFlags => /\ result'.score >= result.score
                         /\ Harshness(result'.recommendation)
                              >= Harshness(result.recommendation)]_vars
  BY <1>1 DEF Harsher
<1>3. QED
  BY <1>2, ScoringIsAFunction, PTL DEF MoreFlagsNeverMilder

-----------------------------------------------------------------------------
\* More documents of a source are worth at least as much.
LEMMA GradedGrows ==
  ASSUME NEW n \in Nat, NEW m \in Nat, m >= n
  PROVE  /\ Graded(15, m, 2)  \in Nat /\ Graded(15, n, 2)  \in 0 .. Graded(15, m, 2)
         /\ Graded(12, m, 6)  \in Nat /\ Graded(12, n, 6)  \in 0 .. Graded(12, m, 6)
         /\ Graded(10, m, 12) \in Nat /\ Graded(10, n, 12) \in 0 .. Graded(10, m, 12)
         /\ Graded(8, m, 4)   \in Nat /\ Graded(8, n, 4)   \in 0 .. Graded(8, m, 4)
         /\ Graded(10, m, 2)  \in Nat /\ Graded(10, n, 2)  \in 0 .. Graded(10, m, 2)
         /\ Graded(10, m, 6)  \in Nat /\ Graded(10, n, 6)  \in 0 .. Graded(10, m, 6)
         /\ Graded(10, m, 10) \in Nat /\ Graded(10, n, 10) \in 0 .. Graded(10, m, 10)
         /\ Graded(5, m, 1)   \in Nat /\ Graded(5, n, 1)   \in 0 .. Graded(5, m, 1)
  BY DEF Graded

\* More fields and documents never cover less.
LEMMA CoverageGrows ==
  ASSUME NEW c \in 0 .. 4, NEW d \in [Source -> Nat],
         NEW k \in 0 .. 4, NEW e \in [Source -> Nat],
         k >= c, \A x \in Source : e[x] >= d[x]
  PROVE  Coverage(k, e) >= Coverage(c, d)
<1>1. Core(c) \in Nat /\ Core(k) \in Nat /\ Core(k) >= Core(c)
  BY DEF Core, Graded
<1>2. \A x \in Source : d[x] \in Nat /\ e[x] \in Nat /\ e[x] >= d[x]
  OBVIOUS
<1> DEFINE Total(y, f) ==
             10 + Core(y) + Graded(15, f["annual"], 2) + Graded(12, f["vat"], 6)
                + Graded(10, f["monthly"], 12) + Graded(8, f["quarterly"], 4)
                + Graded(10, f["sides"], 2) + Graded(10, f["tax"], 6)
                + Graded(10, f["invoices"], 10) + Graded(5, f["loan"], 1)
<1>3. /\ Graded(15, d["annual"], 2) \in 0 .. Graded(15, e["annual"], 2)
      /\ Graded(12, d["vat"], 6) \in 0 .. Graded(12, e["vat"], 6)
      /\ Graded(10, d["monthly"], 12) \in 0 .. Graded(10, e["monthly"], 12)
      /\ Graded(8, d["quarterly"], 4) \in 0 .. Graded(8, e["quarterly"], 4)
      /\ Graded(10, d["sides"], 2) \in 0 .. Graded(10, e["sides"], 2)
      /\ Graded(10, d["tax"], 6) \in 0 .. Graded(10, e["tax"], 6)
      /\ Graded(10, d["invoices"], 10) \in 0 .. Graded(10, e["invoices"], 10)
      /\ Graded(5, d["loan"], 1) \in 0 .. Graded(5, e["loan"], 1)
  BY <1>2, GradedGrows DEF Source
<1>4. /\ Graded(15, e["annual"], 2) \in Nat /\ Graded(12, e["vat"], 6) \in Nat
      /\ Graded(10, e["monthly"], 12) \in Nat /\ Graded(8, e["quarterly"], 4) \in Nat
      /\ Graded(10, e["sides"], 2) \in Nat /\ Graded(10, e["tax"], 6) \in Nat
      /\ Graded(10, e["invoices"], 10) \in Nat /\ Graded(5, e["loan"], 1) \in Nat
  BY <1>2, GradedGrows DEF Source
<1>5. Total(c, d) \in Nat /\ Total(k, e) \in Nat /\ Total(k, e) >= Total(c, d)
  BY <1>1, <1>3, <1>4
<1>6. /\ Coverage(c, d) = IF Total(c, d) > 100 THEN 100 ELSE Total(c, d)
      /\ Coverage(k, e) = IF Total(k, e) > 100 THEN 100 ELSE Total(k, e)
  BY DEF Coverage
<1> HIDE DEF Total
<1>7. QED
  BY <1>5, <1>6

\* ConfidenceLayer: sending more of anything never lowers the coverage.
THEOREM MoreDataNeverHurts == Spec => MoreDataNeverLowersCoverage
<1>1. ASSUME ScoringInv, ScoringInv', MoreDocuments \/ MoreFields
      PROVE  Coverage(core', docs') >= Coverage(core, docs)
  <2>1. /\ core \in 0 .. 4 /\ docs \in [Source -> Nat]
        /\ core' \in 0 .. 4 /\ docs' \in [Source -> Nat]
    BY <1>1 DEF ScoringInv, TypeOK
  <2>2. core' >= core /\ \A x \in Source : docs'[x] >= docs[x]
    <3>1. CASE MoreDocuments
      <4>1. PICK s \in Source : \E n \in SourceCounts[s] :
              n > docs[s] /\ docs' = [docs EXCEPT ![s] = n]
        BY <3>1 DEF MoreDocuments
      <4>2. PICK n \in SourceCounts[s] :
              n > docs[s] /\ docs' = [docs EXCEPT ![s] = n]
        BY <4>1
      <4>3. n \in Nat
        BY ScoringAssumption DEF ScoringAssumption
      <4>4. QED
        BY <2>1, <3>1, <4>2, <4>3 DEF MoreDocuments
    <3>2. CASE MoreFields
      BY <2>1, <3>2, ScoringAssumption DEF MoreFields, ScoringAssumption
    <3>3. QED
      BY <1>1, <3>1, <3>2
  <2>3. QED
    BY <2>1, <2>2, CoverageGrows
<1>2. ScoringInv /\ ScoringInv'
        => [MoreDocuments \/ MoreFields
              => Coverage(core', docs') >= Coverage(core, docs)]_vars
  BY <1>1
<1>3. QED
  BY <1>2, ScoringIsAFunction, PTL DEF MoreDataNeverLowersCoverage

-----------------------------------------------------------------------------
\* What may be sent: the lists of the form, with figures of any size.
Form ==
  [annual : Seq(FinancialReport), quarterly : Seq(FinancialReport),
   months : Seq(MonthlyTurnover), vatPeriods : Seq(VatPeriodReport),
   buyers : Seq(Counterparty), suppliers : Seq(Counterparty),
   buyerShares : Seq(ShareEntry), supplierShares : Seq(ShareEntry),
   invoices : Seq(Invoice), taxEvents : Seq(TaxEvent), asOf : Int,
   borrower : Borrower, loan : LoanRequest \cup {Unknown}]

\* A dictionary has every key once.
Dictionary(shares) ==
  \A i, j \in DOMAIN shares : shares[i].inn = shares[j].inn => i = j

\* The flags beside a form are those of its own figures.
ReviewInv ==
  /\ form \in Form
  /\ page \in SUBSET Section
  /\ Dictionary(form.buyerShares) /\ Dictionary(form.supplierShares)
  /\ found = run_all(form)

\* Every list of the form holds the items of its section.
LEMMA Lists ==
  ASSUME NEW s \in Form, NEW section \in Section
  PROVE  s[section] \in Seq(Entry(section))
BY DEF Form, Section, Entry

\* A share entered twice stands once.
LEMMA SharesStay ==
  ASSUME NEW shares \in Seq(ShareEntry), Dictionary(shares), NEW item \in ShareEntry
  PROVE  /\ ShareEntered(shares, item) \in Seq(ShareEntry)
         /\ Dictionary(ShareEntered(shares, item))
<1>1. CASE \E i \in DOMAIN shares : shares[i].inn = item.inn
  <2> DEFINE f == [i \in DOMAIN shares |-> IF shares[i].inn = item.inn THEN item ELSE shares[i]]
  <2>1. f \in Seq(ShareEntry) /\ DOMAIN f = DOMAIN shares
    OBVIOUS
  <2>2. \A i \in DOMAIN shares : f[i].inn = shares[i].inn
    OBVIOUS
  <2>3. ShareEntered(shares, item) = f
    BY <1>1 DEF ShareEntered
  <2> HIDE DEF f
  <2>4. QED
    BY <2>1, <2>2, <2>3 DEF Dictionary
<1>2. CASE ~\E i \in DOMAIN shares : shares[i].inn = item.inn
  <2>1. ShareEntered(shares, item) = Append(shares, item)
    BY <1>2 DEF ShareEntered
  <2>2. QED
    BY <1>2, <2>1 DEF Dictionary
<1>3. QED
  BY <1>1, <1>2

\* So it is with the form that is empty, as a dictionary has no key twice.
LEMMA ReviewInitInv == ReviewInit => ReviewInv
<1> SUFFICES ASSUME ReviewInit PROVE ReviewInv
  OBVIOUS
<1>1. form \in Form
  BY ReviewAssumption DEF ReviewInit, Form
<1>2. page \in SUBSET Section
  BY ReviewAssumption DEF ReviewInit
<1>3. form.buyerShares = <<>> /\ form.supplierShares = <<>>
  BY DEF ReviewInit
<1>4. found = run_all(form)
  BY DEF ReviewInit
<1>5. QED
  BY <1>1, <1>2, <1>3, <1>4 DEF ReviewInv, Dictionary

\* What an entry does to its list.
LEMMA EnteredIs ==
  ASSUME ReviewInv, NEW section \in Section, NEW item \in Offered[section]
  PROVE  /\ Entered(section, item) \in Seq(Entry(section))
         /\ section \in {"buyerShares", "supplierShares"} => Dictionary(Entered(section, item))
<1>1. item \in Entry(section)
  BY ReviewAssumption
<1>2. form[section] \in Seq(Entry(section))
  BY Lists DEF ReviewInv
<1>3. CASE section \in {"buyerShares", "supplierShares"}
  <2>1. Entry(section) = ShareEntry /\ Dictionary(form[section])
    BY <1>3 DEF Entry, ReviewInv
  <2>2. QED
    BY <1>1, <1>2, <1>3, <2>1, SharesStay DEF Entered
<1>4. CASE section \notin {"buyerShares", "supplierShares"}
  BY <1>1, <1>2, <1>4 DEF Entered
<1>5. QED
  BY <1>3, <1>4

\* Each step runs the registry over the form as a whole.
LEMMA ReviewStep == ReviewInv /\ [ReviewNext]_reviewVars => ReviewInv'
<1> SUFFICES ASSUME ReviewInv, [ReviewNext]_reviewVars PROVE ReviewInv'
  OBVIOUS
<1>1. CASE Enter
  <2>1. PICK section \in page : \E item \in Offered[section] :
          form' = [form EXCEPT ![section] = Entered(section, item)]
    BY <1>1 DEF Enter
  <2>7. PICK item \in Offered[section] : form' = [form EXCEPT ![section] = Entered(section, item)]
    BY <2>1
  <2>2. section \in Section
    BY DEF ReviewInv
  <2>3. /\ Entered(section, item) \in Seq(Entry(section))
        /\ section \in {"buyerShares", "supplierShares"} => Dictionary(Entered(section, item))
    BY <2>2, EnteredIs
  <2>4. form' \in Form
    BY <2>2, <2>3, <2>7 DEF ReviewInv, Form, Section, Entry
  <2>5. Dictionary(form'.buyerShares) /\ Dictionary(form'.supplierShares)
    BY <2>2, <2>3, <2>7 DEF ReviewInv, Form, Section
  <2>6. QED
    BY <1>1, <2>4, <2>5 DEF Enter, Sends, ReviewInv
<1>2. CASE AskFor
  <2>1. PICK loan \in Loans : form' = [form EXCEPT !.loan = loan]
    BY <1>2 DEF AskFor
  <2>2. form' \in Form /\ form'.buyerShares = form.buyerShares
          /\ form'.supplierShares = form.supplierShares
    BY <2>1, ReviewAssumption DEF ReviewInv, Form
  <2>3. QED
    BY <1>2, <2>2 DEF AskFor, Sends, ReviewInv
<1>3. CASE DaysPass
  <2>3. DayStep \in Int
    BY ReviewAssumption
  <2>4. form' = [form EXCEPT !.asOf = form.asOf + DayStep]
    BY <1>3 DEF DaysPass
  <2>5. PICK day \in Int : day = form.asOf + DayStep
    <3>1. form.asOf \in Int
      BY DEF ReviewInv, Form
    <3>2. QED
      BY <2>3, <3>1
  <2>1. form' \in Form /\ form'.buyerShares = form.buyerShares
          /\ form'.supplierShares = form.supplierShares
    <3>1. form' = [form EXCEPT !.asOf = day]
      BY <2>4, <2>5
    <3>2. QED
      BY <3>1 DEF ReviewInv, Form
  <2>2. QED
    BY <1>3, <2>1 DEF DaysPass, Sends, ReviewInv
<1>4. CASE UNCHANGED reviewVars
  BY <1>4 DEF reviewVars, ReviewInv
<1>5. QED
  BY <1>1, <1>2, <1>3, <1>4 DEF ReviewNext

\* The flags beside a form are those of its own figures, and a dictionary of
\* shares never gets a key twice.
THEOREM FlagsAreOfTheForm == ReviewSpec => []ReviewInv
BY ReviewInitInv, ReviewStep, PTL DEF ReviewSpec

-----------------------------------------------------------------------------
\* The identifiers in the YAML.
RuleNames ==
  {"DIRECTOR_CHANGED_6M", "OKVED_CHANGED_12M", "LOAN_TO_REVENUE_RATIO",
     "REVENUE_DROP_MOM_30", "REVENUE_DROP_YOY_50", "NEGATIVE_PROFIT_3Q",
     "NEGATIVE_EQUITY", "VAT_GROWTH_NO_REVENUE", "VAT_ESF_MISMATCH",
     "LOW_MARGIN_HIGH_TURNOVER", "FX_MISMATCH_HIGH", "DSCR_LOW",
     "WC_INSUFFICIENT", "OFF_BALANCE_COMMITMENTS", "CASH_FLOW_QUALITY",
     "TAX_PAYMENT_DELAYS", "BANK_ACCOUNT_FROZEN_12M", "TAX_PENALTIES_CURRENT_YEAR",
     "SINGLE_BUYER_CONCENTRATION", "SINGLE_SUPPLIER_CONCENTRATION", "NEW_COUNTERPARTY_LARGE_SHARE",
     "SHELL_COMPANY_PARTNERS", "CIRCULAR_INVOICING", "INSUFFICIENT_DATA"}

\* A rule is among the flags of a form when it holds of the form.
LEMMA RaisedIs ==
  ASSUME NEW s
  PROVE  /\ DOMAIN run_all(s) \subseteq RuleNames
         /\ \A id \in DOMAIN run_all(s) : run_all(s)[id] = SeverityIn(s, id)
         /\ "DIRECTOR_CHANGED_6M" \in DOMAIN run_all(s) <=> director_changed_6m(s)
         /\ "OKVED_CHANGED_12M" \in DOMAIN run_all(s) <=> okved_changed_12m(s)
         /\ "LOAN_TO_REVENUE_RATIO" \in DOMAIN run_all(s) <=> loan_to_revenue_ratio(s)
         /\ "REVENUE_DROP_MOM_30" \in DOMAIN run_all(s) <=> revenue_drop_mom_30(s)
         /\ "REVENUE_DROP_YOY_50" \in DOMAIN run_all(s) <=> revenue_drop_yoy_50(s)
         /\ "NEGATIVE_PROFIT_3Q" \in DOMAIN run_all(s) <=> negative_profit_3q(s)
         /\ "NEGATIVE_EQUITY" \in DOMAIN run_all(s) <=> negative_equity(s)
         /\ "VAT_GROWTH_NO_REVENUE" \in DOMAIN run_all(s) <=> vat_growth_no_revenue(s)
         /\ "VAT_ESF_MISMATCH" \in DOMAIN run_all(s) <=> vat_esf_mismatch(s)
         /\ "LOW_MARGIN_HIGH_TURNOVER" \in DOMAIN run_all(s) <=> low_margin_high_turnover(s)
         /\ "FX_MISMATCH_HIGH" \in DOMAIN run_all(s) <=> fx_mismatch(s)
         /\ "DSCR_LOW" \in DOMAIN run_all(s) <=> dscr_low(s)
         /\ "WC_INSUFFICIENT" \in DOMAIN run_all(s) <=> wc_insufficient(s)
         /\ "OFF_BALANCE_COMMITMENTS" \in DOMAIN run_all(s) <=> off_balance_commitments(s)
         /\ "CASH_FLOW_QUALITY" \in DOMAIN run_all(s) <=> cash_flow_quality(s)
         /\ "TAX_PAYMENT_DELAYS" \in DOMAIN run_all(s) <=> tax_payment_delays(s)
         /\ "BANK_ACCOUNT_FROZEN_12M" \in DOMAIN run_all(s) <=> bank_account_frozen_12m(s)
         /\ "TAX_PENALTIES_CURRENT_YEAR" \in DOMAIN run_all(s) <=> tax_penalties_current_year(s)
         /\ "SINGLE_BUYER_CONCENTRATION" \in DOMAIN run_all(s) <=> single_buyer_concentration(s)
         /\ "SINGLE_SUPPLIER_CONCENTRATION" \in DOMAIN run_all(s) <=> single_supplier_concentration(s)
         /\ "NEW_COUNTERPARTY_LARGE_SHARE" \in DOMAIN run_all(s) <=> new_counterparty_large_share(s)
         /\ "SHELL_COMPANY_PARTNERS" \in DOMAIN run_all(s) <=> shell_company_partners(s)
         /\ "CIRCULAR_INVOICING" \in DOMAIN run_all(s) <=> circular_invoicing(s)
         /\ "INSUFFICIENT_DATA" \in DOMAIN run_all(s) <=> insufficient_data(s)
<1> DEFINE rules == CodeRules(s)
<1>1. run_all(s) = [id \in {id \in DOMAIN rules : rules[id]} |-> SeverityIn(s, id)]
  BY DEF run_all
<1>2. DOMAIN run_all(s) = {id \in DOMAIN rules : rules[id]}
  BY <1>1
<1>3. DOMAIN rules = RuleNames
  BY DEF CodeRules, RuleNames
<1>4. \A id \in DOMAIN run_all(s) : run_all(s)[id] = SeverityIn(s, id)
  BY <1>1, <1>2
<1>5. rules.DIRECTOR_CHANGED_6M = director_changed_6m(s)
  BY DEF CodeRules
<1>6. rules.OKVED_CHANGED_12M = okved_changed_12m(s)
  BY DEF CodeRules
<1>7. rules.LOAN_TO_REVENUE_RATIO = loan_to_revenue_ratio(s)
  BY DEF CodeRules
<1>8. rules.REVENUE_DROP_MOM_30 = revenue_drop_mom_30(s)
  BY DEF CodeRules
<1>9. rules.REVENUE_DROP_YOY_50 = revenue_drop_yoy_50(s)
  BY DEF CodeRules
<1>10. rules.NEGATIVE_PROFIT_3Q = negative_profit_3q(s)
  BY DEF CodeRules
<1>11. rules.NEGATIVE_EQUITY = negative_equity(s)
  BY DEF CodeRules
<1>12. rules.VAT_GROWTH_NO_REVENUE = vat_growth_no_revenue(s)
  BY DEF CodeRules
<1>13. rules.VAT_ESF_MISMATCH = vat_esf_mismatch(s)
  BY DEF CodeRules
<1>14. rules.LOW_MARGIN_HIGH_TURNOVER = low_margin_high_turnover(s)
  BY DEF CodeRules
<1>15. rules.FX_MISMATCH_HIGH = fx_mismatch(s)
  BY DEF CodeRules
<1>16. rules.DSCR_LOW = dscr_low(s)
  BY DEF CodeRules
<1>17. rules.WC_INSUFFICIENT = wc_insufficient(s)
  BY DEF CodeRules
<1>18. rules.OFF_BALANCE_COMMITMENTS = off_balance_commitments(s)
  BY DEF CodeRules
<1>19. rules.CASH_FLOW_QUALITY = cash_flow_quality(s)
  BY DEF CodeRules
<1>20. rules.TAX_PAYMENT_DELAYS = tax_payment_delays(s)
  BY DEF CodeRules
<1>21. rules.BANK_ACCOUNT_FROZEN_12M = bank_account_frozen_12m(s)
  BY DEF CodeRules
<1>22. rules.TAX_PENALTIES_CURRENT_YEAR = tax_penalties_current_year(s)
  BY DEF CodeRules
<1>23. rules.SINGLE_BUYER_CONCENTRATION = single_buyer_concentration(s)
  BY DEF CodeRules
<1>24. rules.SINGLE_SUPPLIER_CONCENTRATION = single_supplier_concentration(s)
  BY DEF CodeRules
<1>25. rules.NEW_COUNTERPARTY_LARGE_SHARE = new_counterparty_large_share(s)
  BY DEF CodeRules
<1>26. rules.SHELL_COMPANY_PARTNERS = shell_company_partners(s)
  BY DEF CodeRules
<1>27. rules.CIRCULAR_INVOICING = circular_invoicing(s)
  BY DEF CodeRules
<1>28. rules.INSUFFICIENT_DATA = insufficient_data(s)
  BY DEF CodeRules
<1> HIDE DEF rules
<1>29. QED
  BY <1>2, <1>3, <1>4, <1>5, <1>6, <1>7, <1>8, <1>9, <1>10, <1>11,
     <1>12, <1>13, <1>14, <1>15, <1>16, <1>17, <1>18, <1>19, <1>20, <1>21,
     <1>22, <1>23, <1>24, <1>25, <1>26, <1>27, <1>28 DEF RuleNames

\* Every rule that holds of one form holds of the other.
NoMore(t, s) ==
  /\ director_changed_6m(t) => director_changed_6m(s)
  /\ okved_changed_12m(t) => okved_changed_12m(s)
  /\ loan_to_revenue_ratio(t) => loan_to_revenue_ratio(s)
  /\ revenue_drop_mom_30(t) => revenue_drop_mom_30(s)
  /\ revenue_drop_yoy_50(t) => revenue_drop_yoy_50(s)
  /\ negative_profit_3q(t) => negative_profit_3q(s)
  /\ negative_equity(t) => negative_equity(s)
  /\ vat_growth_no_revenue(t) => vat_growth_no_revenue(s)
  /\ vat_esf_mismatch(t) => vat_esf_mismatch(s)
  /\ low_margin_high_turnover(t) => low_margin_high_turnover(s)
  /\ fx_mismatch(t) => fx_mismatch(s)
  /\ dscr_low(t) => dscr_low(s)
  /\ wc_insufficient(t) => wc_insufficient(s)
  /\ off_balance_commitments(t) => off_balance_commitments(s)
  /\ cash_flow_quality(t) => cash_flow_quality(s)
  /\ tax_payment_delays(t) => tax_payment_delays(s)
  /\ bank_account_frozen_12m(t) => bank_account_frozen_12m(s)
  /\ tax_penalties_current_year(t) => tax_penalties_current_year(s)
  /\ single_buyer_concentration(t) => single_buyer_concentration(s)
  /\ single_supplier_concentration(t) => single_supplier_concentration(s)
  /\ new_counterparty_large_share(t) => new_counterparty_large_share(s)
  /\ shell_company_partners(t) => shell_company_partners(s)
  /\ circular_invoicing(t) => circular_invoicing(s)
  /\ insufficient_data(t) => insufficient_data(s)

\* When no rule holds anew, no flag is raised anew.
LEMMA NoMoreRaised ==
  ASSUME NEW s, NEW t, NoMore(t, s)
  PROVE  DOMAIN run_all(t) \subseteq DOMAIN run_all(s)
<1> SUFFICES ASSUME NEW id \in DOMAIN run_all(t) PROVE id \in DOMAIN run_all(s)
  OBVIOUS
<1>1. id \in RuleNames
  BY RaisedIs
<1>2. QED
  BY <1>1, RaisedIs DEF RuleNames, NoMore

\* Which parts of the form a rule reads: it says the same of two forms that agree
\* on these.
LEMMA ReadsReports ==
  ASSUME NEW s, NEW t, t.annual = s.annual
  PROVE  /\ negative_equity(t) <=> negative_equity(s)
         /\ low_margin_high_turnover(t) <=> low_margin_high_turnover(s)
         /\ wc_insufficient(t) <=> wc_insufficient(s)
         /\ cash_flow_quality(t) <=> cash_flow_quality(s)
         /\ off_balance_commitments(t) <=> off_balance_commitments(s)
         /\ revenue_drop_yoy_50(t) <=> revenue_drop_yoy_50(s)
         /\ t.loan = s.loan =>
              /\ loan_to_revenue_ratio(t) <=> loan_to_revenue_ratio(s)
              /\ fx_mismatch(t) <=> fx_mismatch(s)
              /\ dscr_low(t) <=> dscr_low(s)
         /\ (t.quarterly = s.quarterly /\ t.months = s.months)
              => (insufficient_data(t) <=> insufficient_data(s))
<1>1. negative_equity(t) <=> negative_equity(s)
  BY DEF negative_equity, OfLatest
<1>2. low_margin_high_turnover(t) <=> low_margin_high_turnover(s)
  BY DEF low_margin_high_turnover, OfLatest
<1>3. wc_insufficient(t) <=> wc_insufficient(s)
  BY DEF wc_insufficient, OfLatest
<1>4. cash_flow_quality(t) <=> cash_flow_quality(s)
  BY DEF cash_flow_quality, OfLatest
<1>5. off_balance_commitments(t) <=> off_balance_commitments(s)
  BY DEF off_balance_commitments, OfLatest
<1>6. revenue_drop_yoy_50(t) <=> revenue_drop_yoy_50(s)
  BY DEF revenue_drop_yoy_50
<1>7. ASSUME t.loan = s.loan
      PROVE  /\ loan_to_revenue_ratio(t) <=> loan_to_revenue_ratio(s)
             /\ fx_mismatch(t) <=> fx_mismatch(s)
             /\ dscr_low(t) <=> dscr_low(s)
  BY <1>7 DEF loan_to_revenue_ratio, fx_mismatch, dscr_low, OfLatest
<1>8. ASSUME t.quarterly = s.quarterly, t.months = s.months
      PROVE  insufficient_data(t) <=> insufficient_data(s)
  BY <1>8 DEF insufficient_data
<1>9. QED
  BY <1>1, <1>2, <1>3, <1>4, <1>5, <1>6, <1>7, <1>8

\* The same of the rules that read dates.
LEMMA ReadsDates ==
  ASSUME NEW s, NEW t
  PROVE  /\ t.quarterly = s.quarterly => (negative_profit_3q(t) <=> negative_profit_3q(s))
         /\ t.months = s.months =>
              /\ revenue_drop_mom_30(t) <=> revenue_drop_mom_30(s)
              /\ vat_growth_no_revenue(t) <=> vat_growth_no_revenue(s)
         /\ t.vatPeriods = s.vatPeriods => (vat_esf_mismatch(t) <=> vat_esf_mismatch(s))
         /\ (t.borrower = s.borrower /\ t.asOf = s.asOf) =>
              /\ okved_changed_12m(t) <=> okved_changed_12m(s)
              /\ t.loan = s.loan => (director_changed_6m(t) <=> director_changed_6m(s))
         /\ t.taxEvents = s.taxEvents =>
              /\ tax_payment_delays(t) <=> tax_payment_delays(s)
              /\ t.asOf = s.asOf =>
                   /\ bank_account_frozen_12m(t) <=> bank_account_frozen_12m(s)
                   /\ tax_penalties_current_year(t) <=> tax_penalties_current_year(s)
<1>1. ASSUME t.quarterly = s.quarterly PROVE negative_profit_3q(t) <=> negative_profit_3q(s)
  BY <1>1 DEF negative_profit_3q
<1>2. ASSUME t.months = s.months
      PROVE  /\ revenue_drop_mom_30(t) <=> revenue_drop_mom_30(s)
             /\ vat_growth_no_revenue(t) <=> vat_growth_no_revenue(s)
  BY <1>2 DEF revenue_drop_mom_30, vat_growth_no_revenue, Calendar
<1>3. ASSUME t.vatPeriods = s.vatPeriods PROVE vat_esf_mismatch(t) <=> vat_esf_mismatch(s)
  BY <1>3 DEF vat_esf_mismatch
<1>4. ASSUME t.borrower = s.borrower, t.asOf = s.asOf
      PROVE  /\ okved_changed_12m(t) <=> okved_changed_12m(s)
             /\ t.loan = s.loan => (director_changed_6m(t) <=> director_changed_6m(s))
  BY <1>4 DEF okved_changed_12m, director_changed_6m
<1>5. ASSUME t.taxEvents = s.taxEvents PROVE \A type : EventOfType(t, type) = EventOfType(s, type)
  BY <1>5 DEF EventOfType
<1>6. ASSUME t.taxEvents = s.taxEvents
      PROVE  /\ tax_payment_delays(t) <=> tax_payment_delays(s)
             /\ t.asOf = s.asOf =>
                  /\ bank_account_frozen_12m(t) <=> bank_account_frozen_12m(s)
                  /\ tax_penalties_current_year(t) <=> tax_penalties_current_year(s)
  BY <1>5, <1>6 DEF tax_payment_delays, bank_account_frozen_12m, tax_penalties_current_year
<1>7. QED
  BY <1>1, <1>2, <1>3, <1>4, <1>6

\* The same of the rules that read partners and invoices.
LEMMA ReadsPartners ==
  ASSUME NEW s, NEW t
  PROVE  /\ t.buyerShares = s.buyerShares =>
              (single_buyer_concentration(t) <=> single_buyer_concentration(s))
         /\ (t.suppliers = s.suppliers /\ t.supplierShares = s.supplierShares) =>
              /\ SupplierEscalates(t) <=> SupplierEscalates(s)
              /\ single_supplier_concentration(t) <=> single_supplier_concentration(s)
         /\ (t.buyers = s.buyers /\ t.asOf = s.asOf) =>
              /\ t.buyerShares = s.buyerShares =>
                   (new_counterparty_large_share(t) <=> new_counterparty_large_share(s))
              /\ t.suppliers = s.suppliers =>
                   (shell_company_partners(t) <=> shell_company_partners(s))
         /\ (t.invoices = s.invoices /\ t.borrower.inn = s.borrower.inn) =>
              /\ circular_invoicing(t) <=> circular_invoicing(s)
              /\ CarouselEscalates(t) <=> CarouselEscalates(s)
<1>1. ASSUME t.buyerShares = s.buyerShares
      PROVE  single_buyer_concentration(t) <=> single_buyer_concentration(s)
  BY <1>1 DEF single_buyer_concentration
<1>2. ASSUME t.suppliers = s.suppliers, t.supplierShares = s.supplierShares
      PROVE  /\ SupplierEscalates(t) <=> SupplierEscalates(s)
             /\ single_supplier_concentration(t) <=> single_supplier_concentration(s)
  <2>1. LargestIsForeign(t) <=> LargestIsForeign(s)
    BY <1>2 DEF LargestIsForeign
  <2>2. SupplierEscalates(t) <=> SupplierEscalates(s)
    BY <1>2, <2>1 DEF SupplierEscalates
  <2>3. QED
    BY <1>2, <2>2 DEF single_supplier_concentration
<1>3. ASSUME t.buyers = s.buyers, t.asOf = s.asOf, t.buyerShares = s.buyerShares
      PROVE  new_counterparty_large_share(t) <=> new_counterparty_large_share(s)
  BY <1>3 DEF new_counterparty_large_share
<1>4. ASSUME t.buyers = s.buyers, t.asOf = s.asOf, t.suppliers = s.suppliers
      PROVE  shell_company_partners(t) <=> shell_company_partners(s)
  BY <1>4 DEF shell_company_partners
<1>5. ASSUME t.invoices = s.invoices, t.borrower.inn = s.borrower.inn
      PROVE  /\ circular_invoicing(t) <=> circular_invoicing(s)
             /\ CarouselEscalates(t) <=> CarouselEscalates(s)
  <2>1. \A inv : Edge(t, inv) = Edge(s, inv)
    BY <1>5 DEF Edge
  <2>2. Nodes(t) = Nodes(s) /\ \A edge : Invoices(t, edge) = Invoices(s, edge)
    BY <1>5, <2>1 DEF Nodes, Invoices
  <2>3. SimpleCycles(t) = SimpleCycles(s)
    BY <2>2 DEF SimpleCycles
  <2>4. \A c : Qualifies(t, c) <=> Qualifies(s, c)
    BY <1>5, <2>2 DEF Qualifies
  <2>5. QualifyingCycles(t) = QualifyingCycles(s)
    BY <2>3, <2>4 DEF QualifyingCycles
  <2>6. QED
    BY <2>5 DEF circular_invoicing, CarouselEscalates
<1>6. QED
  BY <1>1, <1>2, <1>3, <1>4, <1>5

-----------------------------------------------------------------------------
\* Every item of the form is of the kind its list is for.
LEMMA ItemsOf ==
  ASSUME NEW s \in Form
  PROVE  /\ \A i \in DOMAIN s.annual : s.annual[i] \in FinancialReport
         /\ \A i \in DOMAIN s.quarterly : s.quarterly[i] \in FinancialReport
         /\ \A i \in DOMAIN s.months : s.months[i] \in MonthlyTurnover
         /\ \A i \in DOMAIN s.vatPeriods : s.vatPeriods[i] \in VatPeriodReport
         /\ \A i \in DOMAIN s.buyers : s.buyers[i] \in Counterparty
         /\ \A i \in DOMAIN s.suppliers : s.suppliers[i] \in Counterparty
         /\ \A i \in DOMAIN s.buyerShares : s.buyerShares[i] \in ShareEntry
         /\ \A i \in DOMAIN s.supplierShares : s.supplierShares[i] \in ShareEntry
         /\ \A i \in DOMAIN s.invoices : s.invoices[i] \in Invoice
         /\ \A i \in DOMAIN s.taxEvents : s.taxEvents[i] \in TaxEvent
<1>1. /\ s.annual \in Seq(FinancialReport) /\ s.quarterly \in Seq(FinancialReport)
      /\ s.months \in Seq(MonthlyTurnover) /\ s.vatPeriods \in Seq(VatPeriodReport)
      /\ s.buyers \in Seq(Counterparty) /\ s.suppliers \in Seq(Counterparty)
      /\ s.buyerShares \in Seq(ShareEntry) /\ s.supplierShares \in Seq(ShareEntry)
      /\ s.invoices \in Seq(Invoice) /\ s.taxEvents \in Seq(TaxEvent)
  BY DEF Form
<1>2. QED
  BY <1>1, PlacesOf

\* The types of what a tax event has.
LEMMA EventFields ==
  ASSUME NEW e \in TaxEvent
  PROVE  e.date \in Int /\ e.delay \in Optional
BY DEF TaxEvent

\* The types of what a partner has.
LEMMA PartnerFields ==
  ASSUME NEW cp \in Counterparty
  PROVE  cp.registered \in Int /\ cp.inn \in Int
BY DEF Counterparty

\* A month is one of twelve, and its days are counted.
LEMMA MonthIs ==
  ASSUME NEW a \in Int
  PROVE  MonthOf(a) \in 1 .. 12 /\ DayOf(a) \in Int
<1> DEFINE Begun == {i \in 1 .. 12 : MonthStarts[i] <= a % 365}
<1>1. a % 365 \in 0 .. 364
  OBVIOUS
<1>2. 1 \in Begun
  BY <1>1 DEF MonthStarts
<1>3. IsFiniteSet(1 .. 12) /\ Cardinality(1 .. 12) = 12
  BY CountTo
<1>4. Begun \subseteq 1 .. 12
  OBVIOUS
<1> HIDE DEF Begun
<1>5. IsFiniteSet(Begun) /\ Cardinality(Begun) <= 12
  BY <1>3, <1>4, FS_Subset
<1>6. Cardinality(Begun) \in Nat /\ Cardinality(Begun) # 0
  BY <1>2, <1>5, FS_CardinalityType, FS_EmptySet
<1>7. MonthOf(a) \in 1 .. 12
  BY <1>5, <1>6 DEF MonthOf, Begun
<1>8. \A m \in 1 .. 12 : MonthStarts[m] \in Int
  BY DEF MonthStarts
<1>9. QED
  BY <1>1, <1>7, <1>8 DEF DayOf

\* A later day of the year is in the same month or a later one.
LEMMA MonthsGoOn ==
  ASSUME NEW a \in Int, NEW b \in Int, a % 365 <= b % 365
  PROVE  MonthOf(a) <= MonthOf(b)
<1> DEFINE Begun(d) == {i \in 1 .. 12 : MonthStarts[i] <= d % 365}
<1>1. Begun(a) \subseteq Begun(b)
  <2>1. \A m \in 1 .. 12 : MonthStarts[m] \in Int
    BY DEF MonthStarts
  <2>2. a % 365 \in Int /\ b % 365 \in Int
    OBVIOUS
  <2>3. QED
    BY <2>1, <2>2
<1>2. IsFiniteSet(1 .. 12) /\ Begun(b) \subseteq 1 .. 12
  BY CountTo
<1> HIDE DEF Begun
<1>3. IsFiniteSet(Begun(b))
  BY <1>2, FS_Subset
<1>4. Cardinality(Begun(a)) <= Cardinality(Begun(b))
  BY <1>1, <1>3, FS_Subset
<1>5. QED
  BY <1>4 DEF MonthOf, Begun

\* The age of a company in months does not fall.
LEMMA AgeGrows ==
  ASSUME NEW cp \in Counterparty, NEW a \in Int, NEW b \in Int, a <= b
  PROVE  /\ months_since_registration(cp, a) \in Int
         /\ months_since_registration(cp, b) \in Int
         /\ months_since_registration(cp, a) <= months_since_registration(cp, b)
<1> DEFINE r == cp.registered
<1>1. r \in Int
  BY DEF Counterparty
<1> HIDE DEF r
<1>2. /\ MonthOf(a) \in 1 .. 12 /\ DayOf(a) \in Int /\ YearOf(a) \in Int
      /\ MonthOf(b) \in 1 .. 12 /\ DayOf(b) \in Int /\ YearOf(b) \in Int
      /\ MonthOf(r) \in 1 .. 12 /\ DayOf(r) \in Int /\ YearOf(r) \in Int
  BY <1>1, MonthIs DEF YearOf
<1>3. YearOf(a) <= YearOf(b) /\ (YearOf(a) = YearOf(b) => a % 365 <= b % 365)
  BY DEF YearOf
<1>4. YearOf(a) = YearOf(b) => MonthOf(a) <= MonthOf(b)
  BY <1>3, MonthsGoOn
<1>5. YearOf(a) = YearOf(b) /\ MonthOf(a) = MonthOf(b) => DayOf(a) <= DayOf(b)
  <2>1. \A m \in 1 .. 12 : MonthStarts[m] \in Int
    BY DEF MonthStarts
  <2>2. a % 365 \in Int /\ b % 365 \in Int
    OBVIOUS
  <2>3. QED
    BY <1>2, <1>3, <2>1, <2>2 DEF DayOf
<1>6. /\ months_since_registration(cp, a) =
           12 * (YearOf(a) - YearOf(r)) + MonthOf(a) - MonthOf(r) - (IF DayOf(a) < DayOf(r) THEN 1 ELSE 0)
      /\ months_since_registration(cp, b) =
           12 * (YearOf(b) - YearOf(r)) + MonthOf(b) - MonthOf(r) - (IF DayOf(b) < DayOf(r) THEN 1 ELSE 0)
  BY DEF months_since_registration, r
<1>7. QED
  BY <1>2, <1>3, <1>4, <1>5, <1>6

\* A share is a percentage.
LEMMA SharesAreNumbers ==
  ASSUME NEW x \in ShareEntry
  PROVE  x.share \in Nat /\ x.share <= 100 /\ x.inn \in Int
<1>1. x.share \in 0 .. 100 /\ x.inn \in Int
  BY DEF ShareEntry
<1>2. QED
  BY <1>1

\* A share is looked up as it was entered, or none.
LEMMA ShareIsNumber ==
  ASSUME NEW shares \in Seq(ShareEntry), NEW inn
  PROVE  ShareOf(shares, inn) \in Nat
<1> DEFINE of == {i \in DOMAIN shares : shares[i].inn = inn}
<1>1. CASE of = {}
  BY <1>1 DEF ShareOf
<1>2. CASE of # {}
  <2>1. (CHOOSE i \in of : TRUE) \in DOMAIN shares
    BY <1>2
  <2>2. \A i \in DOMAIN shares : shares[i].share \in Nat
    <3>1. \A i \in DOMAIN shares : shares[i] \in ShareEntry
      BY PlacesOf
    <3>2. QED
      BY <3>1, SharesAreNumbers
  <2>3. ShareOf(shares, inn) = shares[CHOOSE i \in of : TRUE].share
    BY <1>2 DEF ShareOf
  <2>4. QED
    BY <2>1, <2>2, <2>3
<1>3. QED
  BY <1>1, <1>2

\* The partners registered in the last half year.
NewPartners(s) == {s.buyers[i].inn : i \in {i \in DOMAIN s.buyers : s.buyers[i].registered >= s.asOf - 180}}

\* More new buyers with larger shares only add to their sum.
LEMMA NewPartnersGrow ==
  ASSUME NEW s \in Form, NEW t \in Form, NewPartners(s) \subseteq NewPartners(t),
         \A inn \in NewPartners(s) : ShareOf(s.buyerShares, inn) <= ShareOf(t.buyerShares, inn),
         new_counterparty_large_share(s)
  PROVE  new_counterparty_large_share(t)
<1> DEFINE f == [inn \in NewPartners(t) |-> ShareOf(t.buyerShares, inn)]
           g == [inn \in NewPartners(s) |-> ShareOf(s.buyerShares, inn)]
<1>1. IsFiniteSet(NewPartners(t))
  <2> DEFINE D == {i \in DOMAIN t.buyers : t.buyers[i].registered >= t.asOf - 180}
             inns == [i \in D |-> t.buyers[i].inn]
  <2>1. IsFiniteSet(D)
    <3>1. t.buyers \in Seq(Counterparty)
      BY DEF Form
    <3>2. IsFiniteSet(DOMAIN t.buyers)
      BY <3>1, PlacesOf
    <3>3. QED
      BY <3>2, FS_Subset
  <2>2. NewPartners(t) = {inns[i] : i \in D}
    BY DEF NewPartners
  <2> HIDE DEF D, inns
  <2>3. QED
    BY <2>1, <2>2, ImageIsFinite
<1>2. f \in [NewPartners(t) -> Nat] /\ g \in [NewPartners(s) -> Nat]
  <2>1. s.buyerShares \in Seq(ShareEntry) /\ t.buyerShares \in Seq(ShareEntry)
    BY DEF Form
  <2>2. \A inn : ShareOf(s.buyerShares, inn) \in Nat /\ ShareOf(t.buyerShares, inn) \in Nat
    BY <2>1, ShareIsNumber
  <2>3. QED
    BY <2>2
<1>3. \A inn \in NewPartners(s) : g[inn] <= f[inn]
  OBVIOUS
<1>4. SumFunction(g) > 30
  BY DEF new_counterparty_large_share, NewPartners
<1> HIDE DEF f, g
<1>5. SumFunction(f) \in Nat /\ SumFunction(g) \in Nat /\ SumFunction(g) <= SumFunction(f)
  BY <1>1, <1>2, <1>3, SumGrows
<1>6. SumFunction(f) > 30
  BY <1>4, <1>5
<1>7. QED
  BY <1>6 DEF new_counterparty_large_share, NewPartners, f

-----------------------------------------------------------------------------
\* On a later day every rule holds of no more than it did.
LEMMA LaterDay ==
  ASSUME NEW s \in Form, NEW day \in Int, s.asOf <= day,
         NEW t, t = [s EXCEPT !.asOf = day],
         \A i \in DOMAIN s.taxEvents : YearOf(s.taxEvents[i].date) <= YearOf(s.asOf)
  PROVE  DOMAIN run_all(t) \subseteq DOMAIN run_all(s)
<1>1. /\ t \in Form /\ t.asOf = day
      /\ t.annual = s.annual /\ t.quarterly = s.quarterly /\ t.months = s.months
      /\ t.vatPeriods = s.vatPeriods /\ t.buyers = s.buyers /\ t.suppliers = s.suppliers
      /\ t.buyerShares = s.buyerShares /\ t.supplierShares = s.supplierShares
      /\ t.invoices = s.invoices /\ t.taxEvents = s.taxEvents
      /\ t.borrower = s.borrower /\ t.loan = s.loan
  BY DEF Form
<1>2. s.asOf \in Int /\ s.borrower \in Borrower
      /\ s.buyers \in Seq(Counterparty) /\ s.suppliers \in Seq(Counterparty)
      /\ s.taxEvents \in Seq(TaxEvent)
  BY DEF Form
<1>3. director_changed_6m(t) => director_changed_6m(s)
  <2>1. s.borrower.directorSince \in Int
    BY <1>2 DEF Borrower
  <2>2. QED
    BY <1>1, <1>2, <2>1 DEF director_changed_6m
<1>4. okved_changed_12m(t) => okved_changed_12m(s)
  <2>1. s.borrower.okedSince # Unknown => s.borrower.okedSince \in Int
    BY <1>2 DEF Borrower, Optional
  <2>2. QED
    BY <1>1, <1>2, <2>1 DEF okved_changed_12m
<1>5. \A i \in DOMAIN s.taxEvents : s.taxEvents[i].date \in Int
  BY ItemsOf, EventFields
<1>6. \A type : EventOfType(t, type) = EventOfType(s, type)
                  /\ EventOfType(s, type) \subseteq DOMAIN s.taxEvents
  BY <1>1 DEF EventOfType
<1>7. bank_account_frozen_12m(t) => bank_account_frozen_12m(s)
  <2> SUFFICES ASSUME NEW i \in EventOfType(s, "freeze"), s.taxEvents[i].date >= day - 365
               PROVE  bank_account_frozen_12m(s)
    BY <1>1, <1>6 DEF bank_account_frozen_12m
  <2>1. s.taxEvents[i].date \in Int
    BY <1>5, <1>6
  <2>2. s.taxEvents[i].date >= s.asOf - 365
    BY <1>2, <2>1
  <2>3. QED
    BY <2>2 DEF bank_account_frozen_12m
<1>8. tax_penalties_current_year(t) => tax_penalties_current_year(s)
  <2> SUFFICES ASSUME NEW i \in EventOfType(s, "penalty"), s.taxEvents[i].material,
                      YearOf(s.taxEvents[i].date) = YearOf(day)
               PROVE  tax_penalties_current_year(s)
    BY <1>1, <1>6 DEF tax_penalties_current_year
  <2>1. YearOf(s.taxEvents[i].date) <= YearOf(s.asOf)
    BY <1>6
  <2>2. YearOf(s.asOf) <= YearOf(day) /\ YearOf(s.asOf) \in Int /\ YearOf(day) \in Int
    BY <1>2 DEF YearOf
  <2>3. YearOf(s.taxEvents[i].date) = YearOf(s.asOf)
    BY <2>1, <2>2
  <2>4. QED
    BY <2>3 DEF tax_penalties_current_year
<1>9. new_counterparty_large_share(t) => new_counterparty_large_share(s)
  <2>1. \A i \in DOMAIN s.buyers : s.buyers[i].registered \in Int
    BY ItemsOf, PartnerFields
  <2>2. NewPartners(t) \subseteq NewPartners(s)
    BY <1>1, <1>2, <2>1 DEF NewPartners
  <2>3. \A inn : ShareOf(t.buyerShares, inn) <= ShareOf(s.buyerShares, inn)
    <3>1. \A inn : ShareOf(s.buyerShares, inn) \in Nat
      BY ShareIsNumber DEF Form
    <3>2. QED
      BY <1>1, <3>1
  <2>4. QED
    BY <1>1, <2>2, <2>3, NewPartnersGrow
<1>10. shell_company_partners(t) => shell_company_partners(s)
  <2> SUFFICES ASSUME NEW cp \in ToSet(s.buyers) \cup ToSet(s.suppliers),
                      months_since_registration(cp, day) < 6, cp.opf # "IE"
               PROVE  shell_company_partners(s)
    BY <1>1 DEF shell_company_partners
  <2>1. cp \in Counterparty
    BY ItemsOf DEF ToSet
  <2>2. months_since_registration(cp, s.asOf) < 6
    BY <1>2, <2>1, AgeGrows
  <2>3. QED
    BY <2>2 DEF shell_company_partners
<1>11. NoMore(t, s)
  BY <1>1, <1>3, <1>4, <1>7, <1>8, <1>9, <1>10, ReadsReports, ReadsDates, ReadsPartners
     DEF NoMore
<1>12. QED
  BY <1>11, NoMoreRaised

\* Time clears flags and raises none, unless an event lies in a year to come.
THEOREM TimeClearsFlags == ReviewSpec => TimeOnlyClearsFlags
<1>1. ASSUME ReviewInv, DaysPass, NothingAhead PROVE DOMAIN found' \subseteq DOMAIN found
  <2>1. form.asOf \in Int /\ DayStep \in Nat
    BY <1>1, ReviewAssumption DEF ReviewInv, Form
  <2>2. PICK day \in Int : day = form.asOf + DayStep /\ form.asOf <= day
    BY <2>1
  <2>3. form' = [form EXCEPT !.asOf = day]
    BY <1>1, <2>2 DEF DaysPass
  <2>4. found' = run_all(form') /\ found = run_all(form) /\ form \in Form
    BY <1>1 DEF DaysPass, Sends, ReviewInv
  <2>5. \A i \in DOMAIN form.taxEvents : YearOf(form.taxEvents[i].date) <= YearOf(form.asOf)
    BY <1>1 DEF NothingAhead
  <2>6. QED
    BY <2>2, <2>3, <2>4, <2>5, LaterDay
<1>2. ReviewInv /\ [ReviewNext]_reviewVars
        => [DaysPass /\ NothingAhead => DOMAIN found' \subseteq DOMAIN found]_reviewVars
  BY <1>1
<1>3. QED
  BY <1>2, FlagsAreOfTheForm, PTL DEF ReviewSpec, TimeOnlyClearsFlags

-----------------------------------------------------------------------------
\* The latest report is one of the reports, and none ends later.
LEMMA LatestIs ==
  ASSUME NEW S, NEW reports \in Seq(S), reports # <<>>,
         \A i \in DOMAIN reports : reports[i].end \in Int
  PROVE  \E i \in DOMAIN reports :
           /\ LatestByEnd(reports) = reports[i]
           /\ \A j \in DOMAIN reports : \/ reports[j].end < reports[i].end
                                        \/ reports[j].end = reports[i].end /\ i <= j
<1> DEFINE D == DOMAIN reports
           key == [i \in D |-> reports[i].end]
           First(i) == \A j \in D : \/ reports[j].end < reports[i].end
                                    \/ reports[j].end = reports[i].end /\ i <= j
<1>1. D \in SUBSET Int /\ IsFiniteSet(D) /\ D # {}
  BY PlacesOf
<1>2. \A i \in D : key[i] \in Int /\ key[i] = reports[i].end
  OBVIOUS
<1> HIDE DEF D, key
<1>3. \E i \in D : \A j \in D : key[j] < key[i] \/ (key[j] = key[i] /\ i <= j)
  BY <1>1, <1>2, FirstOfLargest
<1>4. \E i \in D : First(i)
  BY <1>2, <1>3
<1>5. LatestByEnd(reports) = reports[CHOOSE i \in D : First(i)]
  BY DEF LatestByEnd, D
<1> HIDE DEF First
<1>6. (CHOOSE i \in D : First(i)) \in D /\ First(CHOOSE i \in D : First(i))
  BY <1>4
<1>7. QED
  BY <1>5, <1>6 DEF First, D

\* The types of what a report has.
LEMMA ReportFields ==
  ASSUME NEW r \in FinancialReport
  PROVE  /\ r.start \in Int /\ r.end \in Int /\ r.revenue \in Int /\ r.net \in Int
         /\ r.pbt \in Optional /\ r.interest \in Optional /\ r.da \in Optional
         /\ r.ocf \in Optional /\ r.equity \in Optional /\ r.debt \in Optional
         /\ r.ca \in Optional /\ r.cl \in Optional
BY DEF FinancialReport

\* The latest of the reports is one of them.
LEMMA LatestAnnual ==
  ASSUME NEW s \in Form, s.annual # <<>>
  PROVE  LatestByEnd(s.annual) \in FinancialReport
<1>1. s.annual \in Seq(FinancialReport)
  BY DEF Form
<1>2. \A i \in DOMAIN s.annual : s.annual[i] \in FinancialReport /\ s.annual[i].end \in Int
  BY ItemsOf, ReportFields
<1>3. QED
  BY <1>1, <1>2, LatestIs

\* What pays the debt service is a number when it is known.
LEMMA NumeratorIs ==
  ASSUME NEW r \in FinancialReport, r.interest # Unknown, DscrNumerator(r) # Unknown
  PROVE  DscrNumerator(r) \in Int /\ r.interest \in Int
<1>1. r.interest \in Int
  BY ReportFields DEF Optional
<1>2. CASE r.ocf # Unknown
  BY <1>2, ReportFields DEF Optional, DscrNumerator
<1>3. CASE r.ocf = Unknown /\ r.pbt # Unknown /\ r.da # Unknown
  <2>1. DscrNumerator(r) = r.pbt + r.interest + r.da
    BY <1>3 DEF DscrNumerator, Known
  <2>2. QED
    BY <1>1, <1>3, <2>1, ReportFields DEF Optional
<1>4. CASE r.ocf = Unknown /\ r.pbt # Unknown /\ r.da = Unknown
  <2>1. DscrNumerator(r) = r.pbt + r.interest
    BY <1>4 DEF DscrNumerator, Known
  <2>2. QED
    BY <1>1, <1>4, <2>1, ReportFields DEF Optional
<1>5. CASE r.ocf = Unknown /\ r.pbt = Unknown
  BY <1>5 DEF DscrNumerator, Known
<1>6. QED
  BY <1>2, <1>3, <1>4, <1>5

\* The same form with a larger loan on the same terms.
LEMMA LargerLoan ==
  ASSUME NEW s \in Form, NEW loan \in LoanRequest, s.loan \in LoanRequest,
         loan.amount > s.loan.amount, SameTerms(s.loan, loan),
         NEW t, t = [s EXCEPT !.loan = loan]
  PROVE  DOMAIN run_all(s) \subseteq DOMAIN run_all(t)
<1>1. /\ t \in Form /\ t.loan = loan /\ t.asOf = s.asOf
      /\ t.annual = s.annual /\ t.quarterly = s.quarterly /\ t.months = s.months
      /\ t.vatPeriods = s.vatPeriods /\ t.buyers = s.buyers /\ t.suppliers = s.suppliers
      /\ t.buyerShares = s.buyerShares /\ t.supplierShares = s.supplierShares
      /\ t.invoices = s.invoices /\ t.taxEvents = s.taxEvents
      /\ t.borrower = s.borrower
  BY DEF Form
<1>2. /\ loan.amount \in Int /\ s.loan.amount \in Int /\ loan.term \in Int
      /\ s.loan # Unknown /\ loan # Unknown
  BY ReviewAssumption DEF LoanRequest
<1>3. loan.term = s.loan.term /\ loan.currency = s.loan.currency
        /\ loan.collateral = s.loan.collateral
  <2>1. [s.loan EXCEPT !.amount = 0] = [loan EXCEPT !.amount = 0]
    BY DEF SameTerms
  <2>2. \A a \in LoanRequest : /\ [a EXCEPT !.amount = 0].term = a.term
                               /\ [a EXCEPT !.amount = 0].currency = a.currency
                               /\ [a EXCEPT !.amount = 0].collateral = a.collateral
    BY DEF LoanRequest
  <2>3. QED
    BY <2>1, <2>2
<1>4. director_changed_6m(s) => director_changed_6m(t)
  BY <1>1, <1>2 DEF director_changed_6m
<1> DEFINE r == LatestByEnd(s.annual)
<1>5. s.annual # <<>> => r \in FinancialReport
  BY LatestAnnual
<1>6. loan_to_revenue_ratio(s) => loan_to_revenue_ratio(t)
  <2>1. s.annual # <<>> => r.revenue \in Int
    BY <1>5, ReportFields
  <2> HIDE DEF r
  <2>2. QED
    BY <1>1, <1>2, <1>3, <2>1 DEF loan_to_revenue_ratio, OfLatest, r
<1>7. fx_mismatch(s) => fx_mismatch(t)
  BY <1>1, <1>2, <1>3 DEF fx_mismatch, OfLatest
<1>8. dscr_low(s) => dscr_low(t)
  <2> SUFFICES ASSUME dscr_low(s) PROVE dscr_low(t)
    OBVIOUS
  <2>1. /\ s.loan.term > 0 /\ s.loan.amount > 0 /\ s.annual # <<>>
        /\ r.interest # Unknown /\ DscrNumerator(r) # Unknown
        /\ DebtServiceTimesTerm(r, s.loan) > 0
        /\ 10 * DscrNumerator(r) * s.loan.term < 13 * DebtServiceTimesTerm(r, s.loan)
    BY DEF dscr_low, OfLatest
  <2>2. DscrNumerator(r) \in Int /\ r.interest \in Int
    BY <1>5, <2>1, NumeratorIs
  <2> HIDE DEF r
  <2>3. DebtServiceTimesTerm(r, s.loan) < DebtServiceTimesTerm(r, loan)
    <3> DEFINE fixed == r.interest * loan.term
    <3>1. fixed \in Int
      BY <1>2, <2>2
    <3>2. /\ DebtServiceTimesTerm(r, s.loan) = fixed + s.loan.amount * 12
          /\ DebtServiceTimesTerm(r, loan) = fixed + loan.amount * 12
      BY <1>3 DEF DebtServiceTimesTerm
    <3> HIDE DEF fixed
    <3>3. QED
      BY <1>2, <3>1, <3>2
  <2>4. DebtServiceTimesTerm(r, s.loan) \in Int /\ DebtServiceTimesTerm(r, loan) \in Int
    BY <1>2, <1>3, <2>2 DEF DebtServiceTimesTerm
  <2> DEFINE paid == 10 * DscrNumerator(r) * loan.term
  <2>5. paid \in Int
    BY <1>2, <2>2
  <2>6. paid < 13 * DebtServiceTimesTerm(r, s.loan)
    BY <1>3, <2>1
  <2> HIDE DEF paid
  <2>7. /\ DebtServiceTimesTerm(r, loan) > 0
        /\ paid < 13 * DebtServiceTimesTerm(r, loan)
    BY <2>1, <2>3, <2>4, <2>5, <2>6
  <2>8. loan.amount > 0 /\ loan.term > 0
    BY <1>2, <1>3, <2>1
  <2>9. QED
    BY <1>1, <1>2, <2>1, <2>7, <2>8 DEF dscr_low, OfLatest, paid, r
<1>9. NoMore(s, t)
  BY <1>1, <1>4, <1>6, <1>7, <1>8, ReadsReports, ReadsDates, ReadsPartners DEF NoMore
<1>10. QED
  BY <1>9, NoMoreRaised

\* No flag goes away because more money is asked for.
THEOREM MoreIsAskedForInVain == ReviewSpec => AskingMoreNeverHelps
<1>1. ASSUME ReviewInv, AskFor, form.loan # Unknown, form'.loan.amount > form.loan.amount,
             SameTerms(form.loan, form'.loan)
      PROVE  DOMAIN found \subseteq DOMAIN found'
  <2>1. PICK loan \in Loans : form' = [form EXCEPT !.loan = loan]
    BY <1>1 DEF AskFor
  <2>2. form \in Form /\ form.loan \in LoanRequest /\ loan \in LoanRequest
    BY <1>1, ReviewAssumption DEF ReviewInv, Form
  <2>3. form'.loan = loan
    BY <2>1, <2>2 DEF Form
  <2>4. found' = run_all(form') /\ found = run_all(form)
    BY <1>1 DEF AskFor, Sends, ReviewInv
  <2>5. QED
    BY <1>1, <2>1, <2>2, <2>3, <2>4, LargerLoan
<1>2. ASSUME ReviewInv, AskFor
      PROVE  \/ form.loan = Unknown \/ form'.loan.amount <= form.loan.amount
             \/ ~SameTerms(form.loan, form'.loan)
             \/ DOMAIN found \subseteq DOMAIN found'
  <2>1. form.loan # Unknown => form.loan.amount \in Int /\ form'.loan.amount \in Int
    <3>1. PICK loan \in Loans : form' = [form EXCEPT !.loan = loan]
      BY <1>2 DEF AskFor
    <3>2. form'.loan = loan /\ loan \in LoanRequest
      BY <1>2, <3>1, ReviewAssumption DEF ReviewInv, Form
    <3>3. form.loan # Unknown => form.loan \in LoanRequest
      BY <1>2 DEF ReviewInv, Form
    <3>4. QED
      BY <3>2, <3>3 DEF LoanRequest
  <2>2. QED
    BY <1>1, <1>2, <2>1
<1>3. ReviewInv /\ [ReviewNext]_reviewVars
        => [AskFor => (\/ form.loan = Unknown \/ form'.loan.amount <= form.loan.amount
                       \/ ~SameTerms(form.loan, form'.loan)
                       \/ DOMAIN found \subseteq DOMAIN found')]_reviewVars
  BY <1>2
<1>4. QED
  BY <1>3, FlagsAreOfTheForm, PTL DEF ReviewSpec, AskingMoreNeverHelps

-----------------------------------------------------------------------------
\* A list that another one continues.
Continues(longer, list) ==
  /\ DOMAIN list \subseteq DOMAIN longer
  /\ \A i \in DOMAIN list : longer[i] = list[i]

\* A list that was added to continues the one before.
LEMMA AppendContinues ==
  ASSUME NEW S, NEW list \in Seq(S), NEW item \in S
  PROVE  Continues(Append(list, item), list)
BY DEF Continues

\* A new key in the dictionary takes nothing from the others.
LEMMA ShareOfGrows ==
  ASSUME NEW shares \in Seq(ShareEntry), NEW item \in ShareEntry,
         \A i \in DOMAIN shares : shares[i].inn # item.inn, NEW inn
  PROVE  ShareOf(shares, inn) <= ShareOf(Append(shares, item), inn)
<1> DEFINE longer == Append(shares, item)
           of == {i \in DOMAIN shares : shares[i].inn = inn}
           ofLonger == {i \in DOMAIN longer : longer[i].inn = inn}
<1>1. /\ longer \in Seq(ShareEntry) /\ Len(longer) = Len(shares) + 1
      /\ Len(shares) \in Nat /\ DOMAIN shares = 1 .. Len(shares)
      /\ DOMAIN longer = 1 .. Len(shares) + 1
      /\ longer[Len(shares) + 1] = item /\ \A i \in DOMAIN shares : longer[i] = shares[i]
  OBVIOUS
<1>2. ShareOf(shares, inn) \in Nat /\ ShareOf(longer, inn) \in Nat
  BY <1>1, ShareIsNumber
<1> HIDE DEF longer
<1>3. CASE inn = item.inn
  <2>1. of = {}
    BY <1>3
  <2>2. ShareOf(shares, inn) = 0
    BY <2>1 DEF ShareOf
  <2>3. QED
    BY <1>2, <2>2 DEF longer
<1>4. CASE inn # item.inn
  <2>1. ofLonger = of
    BY <1>1, <1>4
  <2>2. CASE of = {}
    <3>1. ShareOf(shares, inn) = 0
      BY <2>2 DEF ShareOf
    <3>2. QED
      BY <1>2, <3>1 DEF longer
  <2>3. CASE of # {}
    <3>1. ShareOf(longer, inn) = longer[CHOOSE i \in ofLonger : TRUE].share
      BY <2>1, <2>3 DEF ShareOf
    <3>2. ShareOf(shares, inn) = shares[CHOOSE i \in of : TRUE].share
      BY <2>3 DEF ShareOf
    <3>3. (CHOOSE i \in of : TRUE) \in DOMAIN shares
      BY <2>3
    <3> HIDE DEF of, ofLonger
    <3>4. ShareOf(longer, inn) = ShareOf(shares, inn)
      BY <1>1, <2>1, <3>1, <3>2, <3>3
    <3>5. QED
      BY <1>2, <3>4 DEF longer
  <2>4. QED
    BY <2>2, <2>3
<1>5. QED
  BY <1>3, <1>4

\* The nodes of the graph are finitely many.
LEMMA NodesAreFew ==
  ASSUME NEW s \in Form
  PROVE  IsFiniteSet(Nodes(s)) /\ Cardinality(Nodes(s)) \in Nat
<1> DEFINE D == DOMAIN s.invoices
           inns == [i \in D |-> s.invoices[i].inn]
           Partners == {inns[i] : i \in D}
<1>1. s.invoices \in Seq(Invoice)
  BY DEF Form
<1>2. IsFiniteSet(D)
  BY <1>1, PlacesOf
<1>3. IsFiniteSet(Partners)
  <2> HIDE DEF D, inns
  <2>1. QED
    BY <1>2, ImageIsFinite
<1>4. IsFiniteSet(Partners \cup {s.borrower.inn})
  <2> HIDE DEF Partners
  <2>1. QED
    BY <1>3, FS_AddElement
<1>5. Nodes(s) \subseteq Partners \cup {s.borrower.inn}
  <2> SUFFICES ASSUME NEW inv \in ToSet(s.invoices)
               PROVE  {Edge(s, inv)[1], Edge(s, inv)[2]} \subseteq Partners \cup {s.borrower.inn}
    BY DEF Nodes
  <2>1. inv.inn \in Partners
    BY DEF ToSet
  <2> HIDE DEF Partners
  <2>2. QED
    BY <2>1 DEF Edge
<1> HIDE DEF Partners
<1>6. QED
  BY <1>4, <1>5, FS_Subset, FS_CardinalityType

\* More invoices leave the cycles there were.
LEMMA CyclesStay ==
  ASSUME NEW s \in Form, NEW t \in Form, t.borrower = s.borrower,
         Continues(t.invoices, s.invoices), circular_invoicing(s)
  PROVE  circular_invoicing(t)
<1>1. ToSet(s.invoices) \subseteq ToSet(t.invoices)
  BY DEF Continues, ToSet
<1>2. \A inv : Edge(t, inv) = Edge(s, inv)
  BY DEF Edge
<1>3. \A edge : Invoices(s, edge) \subseteq Invoices(t, edge)
  BY <1>1, <1>2 DEF Invoices
<1>4. Nodes(s) \subseteq Nodes(t)
  BY <1>1, <1>2 DEF Nodes
<1>5. Cardinality(Nodes(s)) <= Cardinality(Nodes(t))
        /\ Cardinality(Nodes(s)) \in Nat /\ Cardinality(Nodes(t)) \in Nat
  BY <1>4, NodesAreFew, FS_Subset
<1>6. PICK c \in SimpleCycles(s) : Qualifies(s, c)
  BY DEF circular_invoicing, QualifyingCycles
<1>7. PICK n \in 2 .. Cardinality(Nodes(s)) : c \in [1 .. n -> Nodes(s)]
  BY DEF SimpleCycles
<1>8. n \in 2 .. Cardinality(Nodes(t)) /\ c \in [1 .. n -> Nodes(t)]
  BY <1>4, <1>5, <1>7
<1>9. c \in SimpleCycles(t)
  <2>1. IsInjective(c) /\ \A i \in DOMAIN c : Invoices(s, <<c[i], c[(i % Len(c)) + 1]>>) # {}
    BY DEF SimpleCycles
  <2>2. \A i \in DOMAIN c : Invoices(t, <<c[i], c[(i % Len(c)) + 1]>>) # {}
    BY <1>3, <2>1
  <2>3. QED
    BY <1>8, <2>1, <2>2 DEF SimpleCycles
<1>10. Qualifies(t, c)
  <2>1. PICK combo \in [DOMAIN c -> ToSet(s.invoices)] :
          /\ \A i \in DOMAIN c : combo[i] \in Invoices(s, <<c[i], c[(i % Len(c)) + 1]>>)
          /\ \A i, j \in DOMAIN c : combo[i].date - combo[j].date <= 90
          /\ SumFunction([i \in DOMAIN c |-> combo[i].amount]) >= 100
    BY <1>6 DEF Qualifies
  <2>2. combo \in [DOMAIN c -> ToSet(t.invoices)]
    BY <1>1
  <2>3. \A i \in DOMAIN c : combo[i] \in Invoices(t, <<c[i], c[(i % Len(c)) + 1]>>)
    BY <1>3, <2>1
  <2>4. QED
    BY <2>1, <2>2, <2>3 DEF Qualifies
<1>11. QED
  BY <1>9, <1>10 DEF circular_invoicing, QualifyingCycles

\* A form to which items were added keeps the evidence.
LEMMA MoreItems ==
  ASSUME NEW s \in Form, NEW t \in Form, t.asOf = s.asOf, t.borrower = s.borrower,
         Continues(t.taxEvents, s.taxEvents), Continues(t.buyers, s.buyers),
         Continues(t.suppliers, s.suppliers), Continues(t.invoices, s.invoices),
         \A inn : ShareOf(s.buyerShares, inn) <= ShareOf(t.buyerShares, inn)
  PROVE  DOMAIN run_all(s) \cap Evidence \subseteq DOMAIN run_all(t)
<1>1. \A type : \A i \in EventOfType(s, type) :
        i \in EventOfType(t, type) /\ t.taxEvents[i] = s.taxEvents[i]
  BY DEF EventOfType, Continues
<1>2. tax_payment_delays(s) => tax_payment_delays(t)
  BY <1>1 DEF tax_payment_delays
<1>3. bank_account_frozen_12m(s) => bank_account_frozen_12m(t)
  BY <1>1 DEF bank_account_frozen_12m
<1>4. tax_penalties_current_year(s) => tax_penalties_current_year(t)
  BY <1>1 DEF tax_penalties_current_year
<1>5. new_counterparty_large_share(s) => new_counterparty_large_share(t)
  <2>1. NewPartners(s) \subseteq NewPartners(t)
    BY DEF NewPartners, Continues
  <2>2. QED
    BY <2>1, NewPartnersGrow
<1>6. shell_company_partners(s) => shell_company_partners(t)
  <2>1. ToSet(s.buyers) \subseteq ToSet(t.buyers) /\ ToSet(s.suppliers) \subseteq ToSet(t.suppliers)
    BY DEF ToSet, Continues
  <2>2. QED
    BY <2>1 DEF shell_company_partners
<1>7. circular_invoicing(s) => circular_invoicing(t)
  BY CyclesStay
<1>8. QED
  BY <1>2, <1>3, <1>4, <1>5, <1>6, <1>7, RaisedIs DEF Evidence

\* What was found among the events, the partners and the invoices is not covered
\* up by more of them.
THEOREM EvidenceStays == ReviewSpec => EvidenceIsNotBuried
<1>1. ASSUME ReviewInv, Enter
      PROVE  \/ \E section \in page : Len(form'[section]) = Len(form[section])
                                         /\ form'[section] # form[section]
             \/ DOMAIN found \cap Evidence \subseteq DOMAIN found'
  <2>1. PICK section \in page : \E item \in Offered[section] :
          form' = [form EXCEPT ![section] = Entered(section, item)]
    BY <1>1 DEF Enter
  <2>2. PICK item \in Offered[section] : form' = [form EXCEPT ![section] = Entered(section, item)]
    BY <2>1
  <2>3. section \in Section /\ form \in Form /\ item \in Entry(section)
    BY <1>1, ReviewAssumption DEF ReviewInv
  <2>4. form[section] \in Seq(Entry(section))
    BY <2>3, Lists
  <2>5. found' = run_all(form') /\ found = run_all(form)
    BY <1>1 DEF Enter, Sends, ReviewInv
  <2>6. form'[section] = Entered(section, item)
    BY <2>2, <2>3 DEF Form, Section
  <2>7. CASE Entered(section, item) = Append(form[section], item)
    <3>1. form' \in Form
      BY <1>1, <2>1, <2>2, <2>3, EnteredIs DEF Form, Section, Entry
    <3>2. form'.asOf = form.asOf /\ form'.borrower = form.borrower
      BY <2>2, <2>3 DEF Form, Section
    <3>3. \A other \in Section : \/ other = section
                                 \/ form'[other] = form[other]
      BY <2>2, <2>3 DEF Form, Section
    <3>4. \A other \in Section : Continues(form'[other], form[other])
      <4>1. Continues(form'[section], form[section])
        BY <2>3, <2>4, <2>6, <2>7, AppendContinues
      <4>2. QED
        BY <3>3, <4>1 DEF Continues
    <3>5. ASSUME NEW inn PROVE ShareOf(form.buyerShares, inn) <= ShareOf(form'.buyerShares, inn)
      <4>1. CASE section = "buyerShares"
        <5>1. Entry(section) = ShareEntry /\ item \in ShareEntry
          BY <2>3, <4>1 DEF Entry
        <5>2. ShareEntered(form.buyerShares, item) = Append(form.buyerShares, item)
          BY <2>7, <4>1 DEF Entered
        <5>3. form.buyerShares \in Seq(ShareEntry)
          BY <2>4, <4>1, <5>1
        <5>4. \A i \in DOMAIN form.buyerShares : form.buyerShares[i].inn # item.inn
          <6> SUFFICES ASSUME \E i \in DOMAIN form.buyerShares : form.buyerShares[i].inn = item.inn
                       PROVE  FALSE
            OBVIOUS
          <6>1. DOMAIN ShareEntered(form.buyerShares, item) = DOMAIN form.buyerShares
            BY DEF ShareEntered
          <6>2. DOMAIN Append(form.buyerShares, item) # DOMAIN form.buyerShares
            BY <5>3
          <6>3. QED
            BY <5>2, <6>1, <6>2
        <5>5. QED
          BY <2>6, <2>7, <4>1, <5>1, <5>3, <5>4, ShareOfGrows
      <4>2. CASE section # "buyerShares"
        <5>1. form'.buyerShares = form.buyerShares
          BY <3>3, <4>2 DEF Section
        <5>2. ShareOf(form.buyerShares, inn) \in Nat
          BY <2>3, ShareIsNumber DEF Form
        <5>3. QED
          BY <5>1, <5>2
      <4>3. QED
        BY <4>1, <4>2
    <3>6. QED
      BY <2>3, <2>5, <3>1, <3>2, <3>4, <3>5, MoreItems DEF Section
  <2>8. CASE Entered(section, item) # Append(form[section], item)
    <3>1. section \in {"buyerShares", "supplierShares"}
      BY <2>8 DEF Entered
    <3>2. DOMAIN Entered(section, item) = DOMAIN form[section]
      BY <2>8, <3>1 DEF Entered, ShareEntered
    <3>3. Len(Entered(section, item)) = Len(form[section])
      <4>1. Entered(section, item) \in Seq(Entry(section))
        BY <1>1, <2>3, EnteredIs
      <4>2. QED
        BY <2>4, <3>2, <4>1
    <3>4. CASE form'[section] = form[section]
      <4>1. form' = form
        BY <2>2, <2>3, <2>6, <3>4 DEF Form, Section
      <4>2. QED
        BY <2>5, <4>1
    <3>5. QED
      BY <2>6, <3>3, <3>4
  <2>9. QED
    BY <2>7, <2>8
<1>2. ReviewInv /\ [ReviewNext]_reviewVars
        => [Enter => (\/ \E section \in page : Len(form'[section]) = Len(form[section])
                                         /\ form'[section] # form[section]
                      \/ DOMAIN found \cap Evidence \subseteq DOMAIN found')]_reviewVars
  BY <1>1
<1>3. QED
  BY <1>2, FlagsAreOfTheForm, PTL DEF ReviewSpec, EvidenceIsNotBuried

-----------------------------------------------------------------------------
\* The largest share is one of the shares, and none is larger.
LEMMA LargestIs ==
  ASSUME NEW shares \in Seq(ShareEntry), shares # <<>>
  PROVE  \E i \in DOMAIN shares :
           /\ LargestShare(shares) = shares[i]
           /\ \A j \in DOMAIN shares : shares[j].share <= shares[i].share
<1> DEFINE D == DOMAIN shares
           key == [i \in D |-> shares[i].share]
           First(i) == \A j \in D : \/ shares[j].share < shares[i].share
                                    \/ shares[j].share = shares[i].share /\ i <= j
<1>1. D \in SUBSET Int /\ IsFiniteSet(D) /\ D # {}
  <2>1. 1 \in D
    OBVIOUS
  <2>2. D \in SUBSET Int /\ IsFiniteSet(D)
    BY PlacesOf
  <2>3. QED
    BY <2>1, <2>2
<1>2. \A i \in D : shares[i].share \in Nat
  BY PlacesOf, SharesAreNumbers
<1>3. \A i \in D : key[i] \in Int /\ key[i] = shares[i].share
  BY <1>2
<1> HIDE DEF D, key
<1>4. \E i \in D : \A j \in D : key[j] < key[i] \/ (key[j] = key[i] /\ i <= j)
  BY <1>1, <1>3, FirstOfLargest
<1>5. \E i \in D : First(i)
  BY <1>3, <1>4
<1>6. LargestShare(shares) = shares[CHOOSE i \in D : First(i)]
  BY DEF LargestShare, D
<1> HIDE DEF First
<1>7. (CHOOSE i \in D : First(i)) \in D /\ First(CHOOSE i \in D : First(i))
  BY <1>5
<1>8. \A i \in D : First(i) => \A j \in D : shares[j].share <= shares[i].share
  BY <1>2 DEF First
<1>9. QED
  BY <1>6, <1>7, <1>8 DEF D

\* The same dictionary with its keys in another order.
LEMMA StoredShares ==
  ASSUME NEW shares \in Seq(ShareEntry), Dictionary(shares),
         NEW stored, stored = Sorted(shares, Inns(shares))
  PROVE  /\ stored \in Seq(ShareEntry) /\ Len(stored) = Len(shares)
         /\ stored = <<>> <=> shares = <<>>
         /\ \A inn : ShareOf(stored, inn) = ShareOf(shares, inn)
         /\ shares # <<>> => LargestShare(stored).share = LargestShare(shares).share
         /\ (/\ shares # <<>> /\ LargestShare(shares).share > 50
             /\ SumFunction([i \in DOMAIN shares |-> shares[i].share]) <= 100)
              => LargestShare(stored) = LargestShare(shares)
<1> DEFINE key == Inns(shares)
           order == Ranked(DOMAIN shares, key)
<1>1. \A i \in DOMAIN shares : shares[i].share \in Nat /\ shares[i].inn \in Int
  BY PlacesOf, SharesAreNumbers
<1>2. \A i \in DOMAIN shares : key[i] \in Int
  BY <1>1 DEF Inns
<1>3. /\ stored \in Seq(ShareEntry) /\ Len(stored) = Len(shares)
      /\ \A n \in DOMAIN shares : order[n] \in DOMAIN shares /\ stored[n] = shares[order[n]]
      /\ \A i \in DOMAIN shares : \E n \in DOMAIN shares : order[n] = i
  <2> HIDE DEF key
  <2>1. QED
    BY <1>2, SortedIs DEF key
<1>4. DOMAIN stored = DOMAIN shares /\ (stored = <<>> <=> shares = <<>>)
  BY <1>3
<1> HIDE DEF order, key
<1>5. ASSUME NEW inn PROVE ShareOf(stored, inn) = ShareOf(shares, inn)
  <2> DEFINE of == {i \in DOMAIN shares : shares[i].inn = inn}
             ofStored == {i \in DOMAIN stored : stored[i].inn = inn}
  <2>1. CASE of = {}
    <3>1. ofStored = {}
      BY <1>3, <1>4, <2>1
    <3>2. ShareOf(shares, inn) = 0
      BY <2>1 DEF ShareOf
    <3>3. ShareOf(stored, inn) = 0
      BY <3>1 DEF ShareOf
    <3>4. QED
      BY <3>2, <3>3
  <2>2. CASE of # {}
    <3>1. PICK i \in DOMAIN shares : shares[i].inn = inn
      BY <2>2
    <3>2. of = {i}
      BY <3>1 DEF Dictionary
    <3>3. PICK n \in DOMAIN shares : order[n] = i
      BY <1>3
    <3>4. n \in ofStored
      BY <1>3, <1>4, <3>1, <3>3
    <3>5. ASSUME NEW m \in ofStored PROVE order[m] = i /\ stored[m] = shares[i]
      <4>1. m \in DOMAIN shares /\ stored[m].inn = inn
        BY <1>4
      <4>2. order[m] \in DOMAIN shares /\ stored[m] = shares[order[m]]
        BY <1>3, <4>1
      <4>3. order[m] = i
        BY <3>1, <4>1, <4>2 DEF Dictionary
      <4>4. QED
        BY <4>2, <4>3
    <3>6. ShareOf(shares, inn) = shares[CHOOSE k \in of : TRUE].share
      BY <2>2 DEF ShareOf
    <3>7. ShareOf(stored, inn) = stored[CHOOSE k \in ofStored : TRUE].share
      BY <3>4 DEF ShareOf
    <3> HIDE DEF of, ofStored
    <3>8. (CHOOSE k \in of : TRUE) = i /\ (CHOOSE k \in ofStored : TRUE) \in ofStored
      BY <3>2, <3>4
    <3>9. QED
      BY <3>5, <3>6, <3>7, <3>8
  <2>3. QED
    BY <2>1, <2>2
<1>6. ASSUME shares # <<>>
      PROVE  \E i, k \in DOMAIN shares :
               /\ LargestShare(shares) = shares[i] /\ LargestShare(stored) = shares[k]
               /\ shares[i].share = shares[k].share
  <2>1. PICK i \in DOMAIN shares :
          /\ LargestShare(shares) = shares[i]
          /\ \A j \in DOMAIN shares : shares[j].share <= shares[i].share
    BY <1>6, LargestIs
  <2>2. PICK n \in DOMAIN stored :
          /\ LargestShare(stored) = stored[n]
          /\ \A j \in DOMAIN stored : stored[j].share <= stored[n].share
    BY <1>3, <1>4, <1>6, LargestIs
  <2>3. order[n] \in DOMAIN shares /\ LargestShare(stored) = shares[order[n]]
    BY <1>3, <1>4, <2>2
  <2>4. shares[order[n]].share <= shares[i].share
    BY <2>1, <2>3
  <2>5. PICK m \in DOMAIN shares : order[m] = i
    BY <1>3
  <2>6. shares[i].share <= shares[order[n]].share
    BY <1>3, <1>4, <2>2, <2>5
  <2>7. shares[i].share = shares[order[n]].share
    BY <1>1, <2>3, <2>4, <2>6
  <2>8. QED
    BY <2>1, <2>3, <2>7
<1>7. ASSUME shares # <<>>, LargestShare(shares).share > 50,
             SumFunction([i \in DOMAIN shares |-> shares[i].share]) <= 100
      PROVE  LargestShare(stored) = LargestShare(shares)
  <2> DEFINE f == [i \in DOMAIN shares |-> shares[i].share]
  <2>1. PICK i \in DOMAIN shares : \E k \in DOMAIN shares :
               /\ LargestShare(shares) = shares[i] /\ LargestShare(stored) = shares[k]
               /\ shares[i].share = shares[k].share
    BY <1>6, <1>7
  <2>2. PICK k \in DOMAIN shares :
               /\ LargestShare(shares) = shares[i] /\ LargestShare(stored) = shares[k]
               /\ shares[i].share = shares[k].share
    BY <2>1
  <2>3. IsFiniteSet(DOMAIN shares)
    BY PlacesOf
  <2>4. f \in [DOMAIN shares -> Nat] /\ f[i] = shares[i].share /\ f[k] = shares[k].share
    BY <1>1
  <2>5. f[i] \in Nat /\ f[k] \in Nat /\ f[i] > 50 /\ f[k] > 50
    BY <1>1, <1>7, <2>2, <2>4
  <2>6. SumFunction(f) \in Nat
    <3> DEFINE g == f
    <3> HIDE DEF f
    <3>1. QED
      BY <2>3, <2>4, SumGrows
  <2>7. i = k
    <3> SUFFICES ASSUME i # k PROVE FALSE
      OBVIOUS
    <3> HIDE DEF f
    <3>1. f[i] + f[k] <= SumFunction(f)
      BY <2>3, <2>4, TwoOfSum
    <3>2. SumFunction(f) <= 100
      BY <1>7 DEF f
    <3>3. QED
      BY <2>5, <2>6, <3>1, <3>2
  <2>8. QED
    BY <2>2, <2>7
<1>8. QED
  BY <1>3, <1>4, <1>5, <1>6, <1>7

\* The stored form raises what the form raised.
LEMMA StoredRaises ==
  ASSUME NEW s \in Form, Dictionary(s.buyerShares), Dictionary(s.supplierShares),
         SumFunction([i \in DOMAIN s.supplierShares |-> s.supplierShares[i].share]) <= 100
  PROVE  run_all(Stored(s)) = run_all(s)
<1> DEFINE t == Stored(s)
<1>1. /\ s.buyerShares \in Seq(ShareEntry) /\ s.supplierShares \in Seq(ShareEntry)
  BY DEF Form
<1>2. /\ t.buyerShares = Sorted(s.buyerShares, Inns(s.buyerShares))
      /\ t.supplierShares = Sorted(s.supplierShares, Inns(s.supplierShares))
      /\ t.loan = s.loan /\ t.asOf = s.asOf
      /\ t.annual = s.annual /\ t.quarterly = s.quarterly /\ t.months = s.months
      /\ t.vatPeriods = s.vatPeriods /\ t.buyers = s.buyers /\ t.suppliers = s.suppliers
      /\ t.invoices = s.invoices /\ t.taxEvents = s.taxEvents /\ t.borrower = s.borrower
  BY DEF Form, Stored
<1> HIDE DEF t
<1>3. single_buyer_concentration(t) <=> single_buyer_concentration(s)
  BY <1>1, <1>2, StoredShares DEF single_buyer_concentration
<1>4. new_counterparty_large_share(t) <=> new_counterparty_large_share(s)
  <2>1. \A inn : ShareOf(t.buyerShares, inn) = ShareOf(s.buyerShares, inn)
    BY <1>1, <1>2, StoredShares
  <2>2. QED
    BY <1>2, <2>1 DEF new_counterparty_large_share
<1>5. /\ t.supplierShares = <<>> <=> s.supplierShares = <<>>
      /\ s.supplierShares # <<>> =>
           /\ LargestShare(t.supplierShares).share = LargestShare(s.supplierShares).share
           /\ LargestShare(s.supplierShares).share > 50
                => LargestShare(t.supplierShares) = LargestShare(s.supplierShares)
  BY <1>1, <1>2, StoredShares
<1>6. SupplierEscalates(t) <=> SupplierEscalates(s)
  <2>1. CASE s.supplierShares # <<>> /\ LargestShare(s.supplierShares).share > 50
    <3>1. LargestIsForeign(t) <=> LargestIsForeign(s)
      BY <1>2, <1>5, <2>1 DEF LargestIsForeign
    <3>2. QED
      BY <1>5, <2>1, <3>1 DEF SupplierEscalates
  <2>2. CASE ~(s.supplierShares # <<>> /\ LargestShare(s.supplierShares).share > 50)
    BY <1>5, <2>2 DEF SupplierEscalates
  <2>3. QED
    BY <2>1, <2>2
<1>7. single_supplier_concentration(t) <=> single_supplier_concentration(s)
  BY <1>5, <1>6 DEF single_supplier_concentration
<1>8. NoMore(t, s) /\ NoMore(s, t)
  BY <1>2, <1>3, <1>4, <1>7, ReadsReports, ReadsDates, ReadsPartners DEF NoMore
<1>9. DOMAIN run_all(t) = DOMAIN run_all(s)
  BY <1>8, NoMoreRaised
<1>10. \A id : SeverityIn(t, id) = SeverityIn(s, id)
  <2>1. CarouselEscalates(t) <=> CarouselEscalates(s)
    BY <1>2, ReadsPartners
  <2>2. QED
    BY <1>6, <2>1 DEF SeverityIn
<1>11. run_all(t) = [id \in DOMAIN run_all(t) |-> SeverityIn(t, id)]
         /\ run_all(s) = [id \in DOMAIN run_all(s) |-> SeverityIn(s, id)]
  BY DEF run_all
<1>12. run_all(t) = run_all(s)
  BY <1>9, <1>10, <1>11
<1>13. QED
  BY <1>12 DEF t

\* Of the borrower's row, all rules but two read the taxpayer number alone.
LEMMA OtherCardRaises ==
  ASSUME NEW s \in Form, NEW card \in Borrower, card.inn = s.borrower.inn
  PROVE  LET t == [s EXCEPT !.borrower = card]
         IN  Restrict(run_all(t), DOMAIN run_all(t) \ OfTheCard)
               = Restrict(run_all(s), DOMAIN run_all(s) \ OfTheCard)
<1> DEFINE t == [s EXCEPT !.borrower = card]
<1>1. /\ t.buyerShares = s.buyerShares /\ t.supplierShares = s.supplierShares
      /\ t.loan = s.loan /\ t.asOf = s.asOf
      /\ t.annual = s.annual /\ t.quarterly = s.quarterly /\ t.months = s.months
      /\ t.vatPeriods = s.vatPeriods /\ t.buyers = s.buyers /\ t.suppliers = s.suppliers
      /\ t.invoices = s.invoices /\ t.taxEvents = s.taxEvents
      /\ t.borrower.inn = s.borrower.inn
  BY DEF Form
<1> HIDE DEF t
<1>2. \A id \in RuleNames \ OfTheCard : id \in DOMAIN run_all(t) <=> id \in DOMAIN run_all(s)
  BY <1>1, RaisedIs, ReadsReports, ReadsDates, ReadsPartners DEF RuleNames, OfTheCard
<1>3. DOMAIN run_all(t) \ OfTheCard = DOMAIN run_all(s) \ OfTheCard
  BY <1>2, RaisedIs
<1>4. \A id : SeverityIn(t, id) = SeverityIn(s, id)
  BY <1>1, ReadsPartners DEF SeverityIn
<1>5. \A id \in DOMAIN run_all(t) \ OfTheCard : run_all(t)[id] = run_all(s)[id]
  BY <1>3, <1>4, RaisedIs
<1>6. QED
  BY <1>3, <1>5 DEF t, Restrict

\* What was stored, run again, gives the flags stored with it; with the row of a
\* later form of the borrower two rules may differ and no others.
THEOREM ReplayIsTheSame == ReviewSpec => []ReplayAgrees
<1>1. ReviewInv => ReplayAgrees
  <2> SUFFICES ASSUME ReviewInv,
                      SumFunction([i \in DOMAIN form.supplierShares
                                     |-> form.supplierShares[i].share]) <= 100,
                      NEW card \in Cards, card.inn = form.borrower.inn
               PROVE  /\ card = form.borrower => Replayed(form, card) = found
                      /\ Restrict(Replayed(form, card), DOMAIN Replayed(form, card) \ OfTheCard)
                           = Restrict(found, DOMAIN found \ OfTheCard)
    BY DEF ReplayAgrees
  <2> DEFINE t == Stored(form)
             u == [t EXCEPT !.borrower = card]
  <2>1. run_all(t) = found
    BY StoredRaises DEF ReviewInv
  <2>2. card \in Borrower /\ t \in Form /\ t.borrower = form.borrower
    <3>1. /\ Sorted(form.buyerShares, Inns(form.buyerShares)) \in Seq(ShareEntry)
          /\ Sorted(form.supplierShares, Inns(form.supplierShares)) \in Seq(ShareEntry)
      BY StoredShares DEF ReviewInv, Form
    <3>2. QED
      BY <3>1, ReviewAssumption DEF Stored, ReviewInv, Form
  <2>3. Replayed(form, card) = run_all(u)
    BY DEF Replayed
  <2>4. card = form.borrower => u = t
    BY <2>2 DEF Form
  <2> HIDE DEF t
  <2>5. Restrict(run_all(u), DOMAIN run_all(u) \ OfTheCard)
          = Restrict(run_all(t), DOMAIN run_all(t) \ OfTheCard)
    BY <2>2, OtherCardRaises
  <2>6. QED
    BY <2>1, <2>3, <2>4, <2>5
<1>2. QED
  BY <1>1, FlagsAreOfTheForm, PTL

-----------------------------------------------------------------------------
\* An invoice is between the borrower and somebody.
LEMMA EdgesTouchBorrower ==
  ASSUME NEW s, NEW x, NEW y, Invoices(s, <<x, y>>) # {}
  PROVE  s.borrower.inn \in {x, y}
<1>1. PICK inv : Edge(s, inv) = <<x, y>>
  BY DEF Invoices
<1>2. QED
  BY <1>1 DEF Edge

\* Two nodes are all a cycle can have: the edges of a third would pass by the
\* borrower.
LEMMA CyclesAreShort ==
  ASSUME NEW s, NEW c \in SimpleCycles(s)
  PROVE  Len(c) < 3
<1> SUFFICES ASSUME ~(Len(c) < 3) PROVE FALSE
  OBVIOUS
<1>1. PICK n \in 2 .. Cardinality(Nodes(s)) : c \in [1 .. n -> Nodes(s)]
  BY DEF SimpleCycles
<1>2. n \in Nat /\ DOMAIN c = 1 .. n
  BY <1>1
<1>3. Len(c) = n
  <2>1. c \in [1 .. n -> Nodes(s)]
    BY <1>1
  <2>2. QED
    BY <1>2, <2>1, ListOf
<1>4. n >= 3
  BY <1>2, <1>3
<1>5. \A i, j \in 1 .. n : c[i] = c[j] => i = j
  BY <1>2 DEF SimpleCycles, IsInjective
<1> DEFINE b == s.borrower.inn
           next(i) == (i % n) + 1
<1>6. \A i \in 1 .. n : b \in {c[i], c[next(i)]}
  BY <1>2, <1>3, EdgesTouchBorrower DEF SimpleCycles
<1>7. 1 \in 1 .. n /\ 2 \in 1 .. n /\ 3 \in 1 .. n
  BY <1>2, <1>4
<1>8. next(1) = 2 /\ next(2) = 3
  BY <1>2, <1>4
<1>9. next(3) \in 1 .. n /\ next(3) # 2 /\ next(3) # 3
  BY <1>2, <1>4
<1> HIDE DEF b, next
<1>10. b \in {c[1], c[2]} /\ b \in {c[2], c[3]} /\ b \in {c[3], c[next(3)]}
  BY <1>6, <1>7, <1>8
<1>11. c[1] # c[2] /\ c[2] # c[3] /\ c[1] # c[3] /\ c[2] # c[next(3)]
  BY <1>5, <1>7, <1>9
<1>12. QED
  BY <1>10, <1>11

\* The critical severity of circular invoicing, that of three companies or more,
\* is never given: the borrower's own invoices show only the two ends of a trade.
THEOREM CarouselsAreNeverSeen ==
  ReviewSpec => []("CIRCULAR_INVOICING" \in DOMAIN found => found["CIRCULAR_INVOICING"] = "high")
<1>1. ASSUME NEW s PROVE ~CarouselEscalates(s)
  <2> SUFFICES ASSUME CarouselEscalates(s) PROVE FALSE
    OBVIOUS
  <2>1. PICK c \in SimpleCycles(s) : Len(c) >= 3
    BY DEF CarouselEscalates, QualifyingCycles
  <2>2. PICK n \in 2 .. Cardinality(Nodes(s)) : c \in [1 .. n -> Nodes(s)]
    BY DEF SimpleCycles
  <2>3. Len(c) \in Nat
    <3>1. n \in Nat
      BY <2>2
    <3>2. QED
      BY <2>2, <3>1, ListOf
  <2>4. QED
    BY <2>1, <2>3, CyclesAreShort
<1>2. ReviewInv => ("CIRCULAR_INVOICING" \in DOMAIN found => found["CIRCULAR_INVOICING"] = "high")
  <2> SUFFICES ASSUME ReviewInv, "CIRCULAR_INVOICING" \in DOMAIN found
               PROVE  found["CIRCULAR_INVOICING"] = "high"
    OBVIOUS
  <2>1. found["CIRCULAR_INVOICING"] = SeverityIn(form, "CIRCULAR_INVOICING")
    BY RaisedIs DEF ReviewInv
  <2>2. SeverityIn(form, "CIRCULAR_INVOICING") = YamlSeverity("CIRCULAR_INVOICING")
    BY <1>1 DEF SeverityIn
  <2>3. YamlSeverity("CIRCULAR_INVOICING") = "high"
    BY DEF YamlSeverity
  <2>4. QED
    BY <2>1, <2>2, <2>3
<1>3. QED
  BY <1>2, FlagsAreOfTheForm, PTL

-----------------------------------------------------------------------------
\* The first few of a list.
LEMMA FirstOfIs ==
  ASSUME NEW S, NEW items \in Seq(S), NEW n \in Nat, NEW head, head = FirstOf(items, n)
  PROVE  /\ head \in Seq(S) /\ Len(head) <= n /\ Len(head) <= Len(items)
         /\ \A i \in DOMAIN items : i <= n => i \in DOMAIN head
         /\ \A i \in DOMAIN head : i \in DOMAIN items /\ i <= n /\ head[i] = items[i]
<1> DEFINE k == IF Len(items) < n THEN Len(items) ELSE n
<1>1. k \in 0 .. Len(items) /\ k <= n
  OBVIOUS
<1>2. head = SubSeq(items, 1, k)
  BY DEF FirstOf
<1>3. \A i \in DOMAIN items : i <= n => i <= k
  OBVIOUS
<1> HIDE DEF k
<1>4. Len(head) = k /\ head \in Seq(S) /\ \A i \in 1 .. k : head[i] = items[i]
  BY <1>1, <1>2
<1>5. QED
  BY <1>1, <1>3, <1>4

\* The stored form: the shares in another order, all else as it was sent.
LEMMA ShownIs ==
  ASSUME ReviewInv
  PROVE  /\ shown.asOf = form.asOf /\ shown.loan = form.loan
         /\ shown.annual = form.annual /\ shown.quarterly = form.quarterly
         /\ shown.months = form.months /\ shown.taxEvents = form.taxEvents
         /\ shown.suppliers = form.suppliers
         /\ shown.supplierShares = Sorted(form.supplierShares, Inns(form.supplierShares))
BY DEF ReviewInv, Form, shown, Stored

\* A flag is of some gravity.
LEMMA SeverityIs ==
  ASSUME NEW s, NEW id
  PROVE  Gravity(SeverityIn(s, id)) \in Nat
<1>1. SeverityIn(s, id) \in {"medium", "high", "critical"}
  BY DEF SeverityIn, YamlSeverity
<1>2. QED
  BY <1>1 DEF Gravity

\* The report goes through all the rules.
LEMMA RuleIdsAre ==
  /\ DOMAIN RuleIds = 1 .. 24
  /\ \A id \in RuleNames : \E i \in DOMAIN RuleIds : RuleIds[i] = id
<1>1. DOMAIN RuleIds = 1 .. 24
  BY DEF RuleIds
<1>2. \A id \in RuleNames : \E i \in 1 .. 24 : RuleIds[i] = id
  BY DEF RuleNames, RuleIds
<1>3. QED
  BY <1>1, <1>2

\* The cover leaves no flag off that is graver than one it shows.
LEMMA GravestOnCover ==
  ASSUME ReviewInv, NEW rule \in DOMAIN found, rule \notin ToSet(build_risks),
         NEW risk \in ToSet(build_risks)
  PROVE  Gravity(found[rule]) <= Gravity(found[risk])
<1> DEFINE raised == {i \in DOMAIN RuleIds : RuleIds[i] \in DOMAIN found}
           key == [i \in raised |-> 0 - Gravity(found[RuleIds[i]])]
           order == Ranked(raised, key)
           ids == [n \in DOMAIN order |-> RuleIds[order[n]]]
<1>1. \A id \in DOMAIN found : Gravity(found[id]) \in Nat /\ id \in RuleNames
  BY RaisedIs, SeverityIs DEF ReviewInv
<1>2. raised \in SUBSET Int /\ IsFiniteSet(raised)
  <2>1. IsFiniteSet(DOMAIN RuleIds) /\ DOMAIN RuleIds \in SUBSET Int
    <3>1. DOMAIN RuleIds = 1 .. 24
      BY RuleIdsAre
    <3>2. IsFiniteSet(1 .. 24)
      BY CountTo
    <3>3. QED
      BY <3>1, <3>2
  <2>2. QED
    BY <2>1, FS_Subset
<1>3. \A i \in raised : key[i] \in Int /\ key[i] = 0 - Gravity(found[RuleIds[i]])
  BY <1>1
<1>4. build_risks = FirstOf(ids, 3)
  BY DEF build_risks
<1>5. \A i \in raised : RuleIds[i] \in DOMAIN found
  OBVIOUS
<1>6. \E i \in raised : RuleIds[i] = rule
  BY <1>1, RuleIdsAre
<1> HIDE DEF raised, key
<1>7. /\ Cardinality(raised) \in Nat
      /\ DOMAIN order = 1 .. Cardinality(raised)
      /\ \A m \in DOMAIN order : order[m] \in raised
      /\ \A i \in raised : \E m \in DOMAIN order : order[m] = i
      /\ \A a, b \in DOMAIN order : a < b => Before(order[a], order[b], key)
  BY <1>2, <1>3, RankedIs
<1> HIDE DEF order
<1>8. ids \in Seq(DOMAIN found) /\ DOMAIN ids = DOMAIN order
        /\ \A n \in DOMAIN order : ids[n] = RuleIds[order[n]]
  <2>1. ids \in [1 .. Cardinality(raised) -> DOMAIN found]
    BY <1>5, <1>7
  <2>2. QED
    BY <1>7, <2>1, ListOf
<1> HIDE DEF ids
<1>9. /\ \A i \in DOMAIN ids : i <= 3 => i \in DOMAIN build_risks
      /\ \A i \in DOMAIN build_risks : i \in DOMAIN ids /\ i <= 3 /\ build_risks[i] = ids[i]
  BY <1>4, <1>8, FirstOfIs
<1>10. PICK k \in DOMAIN build_risks : build_risks[k] = risk
  BY DEF ToSet
<1>11. PICK m \in DOMAIN order : RuleIds[order[m]] = rule
  BY <1>6, <1>7
<1>12. k < m
  <2>1. m \notin DOMAIN build_risks
    BY <1>8, <1>9, <1>11 DEF ToSet
  <2>2. ~(m <= 3) /\ k <= 3 /\ k \in DOMAIN order
    BY <1>8, <1>9, <1>10, <1>11, <2>1
  <2>3. QED
    BY <1>7, <2>2
<1>13. k \in DOMAIN order /\ RuleIds[order[k]] = risk
  BY <1>8, <1>9, <1>10
<1>14. key[order[k]] <= key[order[m]]
  <2>1. Before(order[k], order[m], key)
    BY <1>7, <1>12, <1>13
  <2>2. order[k] \in raised /\ order[m] \in raised
    BY <1>7, <1>13
  <2>3. QED
    BY <1>3, <2>1, <2>2 DEF Before
<1>15. 0 - Gravity(found[risk]) <= 0 - Gravity(found[rule])
  BY <1>3, <1>7, <1>11, <1>13, <1>14
<1>16. risk \in DOMAIN found
  BY <1>5, <1>7, <1>13
<1>17. QED
  BY <1>1, <1>15, <1>16

\* Section E lists the late payments and counts the freezes.
LEMMA SectionE ==
  ASSUME ReviewInv
  PROVE  /\ compute_tax_summary.freezes > 0
              <=> \E i \in DOMAIN form.taxEvents : FreezeIsShown(form.taxEvents[i])
         /\ ToSet(compute_tax_summary.delays)
              = {form.taxEvents[i] : i \in {i \in DOMAIN form.taxEvents :
                                              DelayIsShown(form.taxEvents[i])}}
<1> DEFINE events == form.taxEvents
           frozen == {i \in DOMAIN events : FreezeIsShown(events[i])}
           places == {i \in DOMAIN events : DelayIsShown(events[i])}
           late == Kept(events, places)
           key == [i \in DOMAIN late |-> 0 - late[i].date]
<1>1. events \in Seq(TaxEvent) /\ shown.taxEvents = events
  BY ShownIs DEF ReviewInv, Form
<1>2. compute_tax_summary = [delays |-> Sorted(late, key), freezes |-> Cardinality(frozen)]
  BY <1>1 DEF compute_tax_summary
<1>3. Cardinality(frozen) > 0 <=> frozen # {}
  <2>1. IsFiniteSet(DOMAIN events)
    BY <1>1, PlacesOf
  <2>2. IsFiniteSet(frozen)
    BY <2>1, FS_Subset
  <2> HIDE DEF frozen
  <2>3. Cardinality(frozen) \in Nat /\ (Cardinality(frozen) = 0 <=> frozen = {})
    BY <2>2, FS_CardinalityType, FS_EmptySet
  <2>4. QED
    BY <2>3
<1>4. late \in Seq(TaxEvent) /\ ToSet(late) = {events[i] : i \in places}
  <2>1. places \in SUBSET (DOMAIN events)
    OBVIOUS
  <2> HIDE DEF places, events
  <2>2. late \in Seq(TaxEvent)
    BY <1>1, <2>1, KeptIs
  <2>3. QED
    BY <1>1, <2>1, <2>2, KeptHolds
<1> HIDE DEF late
<1>5. \A i \in DOMAIN late : key[i] \in Int
  <2>1. \A i \in DOMAIN late : late[i] \in TaxEvent
    BY <1>4
  <2>2. QED
    BY <2>1, EventFields
<1> HIDE DEF key
<1>6. ToSet(Sorted(late, key)) = ToSet(late)
  BY <1>4, <1>5, SortedHolds
<1>7. QED
  BY <1>2, <1>3, <1>4, <1>6

\* A freeze that raised its flag is counted, and none is counted that did not.
LEMMA FreezesAreShown ==
  ASSUME ReviewInv
  PROVE  Flagged("BANK_ACCOUNT_FROZEN_12M") <=> compute_tax_summary.freezes > 0
<1>1. Flagged("BANK_ACCOUNT_FROZEN_12M") <=> bank_account_frozen_12m(form)
  BY RaisedIs DEF Flagged, ReviewInv
<1>2. shown.asOf = form.asOf
  BY ShownIs
<1>3. bank_account_frozen_12m(form)
        <=> \E i \in DOMAIN form.taxEvents : FreezeIsShown(form.taxEvents[i])
  BY <1>2 DEF bank_account_frozen_12m, EventOfType, FreezeIsShown
<1>4. QED
  BY <1>1, <1>3, SectionE

\* A long delay of the last three years that raised its flag is listed.
LEMMA DelaysAreShown ==
  ASSUME ReviewInv,
         \A i \in DOMAIN form.taxEvents : form.taxEvents[i].date >= ThreeYears(form.asOf)
  PROVE  Flagged("TAX_PAYMENT_DELAYS")
           <=> \E e \in ToSet(compute_tax_summary.delays) : e.delay > 30
<1>1. Flagged("TAX_PAYMENT_DELAYS") <=> tax_payment_delays(form)
  BY RaisedIs DEF Flagged, ReviewInv
<1>2. shown.asOf = form.asOf
  BY ShownIs
<1>3. \A i \in DOMAIN form.taxEvents :
        form.taxEvents[i].date \in Int /\ form.taxEvents[i].delay \in Optional
  BY ItemsOf, EventFields DEF ReviewInv
<1>4. tax_payment_delays(form)
        <=> \E i \in DOMAIN form.taxEvents :
              DelayIsShown(form.taxEvents[i]) /\ form.taxEvents[i].delay > 30
  <2>1. \A i \in DOMAIN form.taxEvents :
          /\ form.taxEvents[i].type = "payment" /\ form.taxEvents[i].delay # Unknown
          /\ form.taxEvents[i].delay > 30
          <=> DelayIsShown(form.taxEvents[i]) /\ form.taxEvents[i].delay > 30
    BY <1>2, <1>3 DEF DelayIsShown, Optional
  <2>2. QED
    BY <2>1 DEF tax_payment_delays, EventOfType
<1>5. QED
  BY <1>1, <1>4, SectionE

\* The first of the partners that are shown has the largest share.
LEMMA LargestHeads ==
  ASSUME NEW directory \in Seq(Counterparty), NEW shares \in Seq(ShareEntry),
         \A i \in DOMAIN shares : \E k \in DOMAIN directory : directory[k].inn = shares[i].inn,
         top_shares(directory, shares) # <<>>
  PROVE  /\ top_shares(directory, shares)[1].share \in Int
         /\ \A i \in DOMAIN shares : shares[i].share <= top_shares(directory, shares)[1].share
<1> DEFINE CardsOf(inn) == {k \in DOMAIN directory : directory[k].inn = inn}
           row(i) == [inn |-> directory[Max(CardsOf(shares[i].inn))].inn,
                      share |-> shares[i].share,
                      isNew |-> months_since_registration(
                                  directory[Max(CardsOf(shares[i].inn))], shown.asOf) < 6]
           rows == [i \in DOMAIN shares |-> row(i)]
           S == {row(i) : i \in DOMAIN shares}
           key == [i \in DOMAIN rows |-> 0 - rows[i].share]
           order == Ranked(DOMAIN rows, key)
           sorted == Sorted(rows, key)
<1>1. top_shares(directory, shares) = FirstOf(sorted, 10)
  <2>1. {i \in DOMAIN shares : CardsOf(shares[i].inn) # {}} = DOMAIN shares
    OBVIOUS
  <2>2. Kept(shares, DOMAIN shares) = shares
    BY KeptAll
  <2>3. QED
    BY <2>1, <2>2 DEF top_shares
<1>2. rows \in Seq(S) /\ DOMAIN rows = DOMAIN shares
  <2>1. DOMAIN shares = 1 .. Len(shares) /\ Len(shares) \in Nat
    BY PlacesOf
  <2>2. rows \in [1 .. Len(shares) -> S]
    BY <2>1
  <2> HIDE DEF rows, S
  <2>3. QED
    BY <2>1, <2>2, ListOf
<1>3. \A i \in DOMAIN shares : rows[i].share = shares[i].share /\ shares[i].share \in Int
  <2>1. \A i \in DOMAIN shares : shares[i] \in ShareEntry
    OBVIOUS
  <2>2. QED
    BY <2>1, SharesAreNumbers
<1> HIDE DEF rows, S
<1>4. \A i \in DOMAIN rows : key[i] \in Int /\ key[i] = 0 - shares[i].share
  BY <1>2, <1>3
<1> HIDE DEF key
<1>5. /\ sorted \in Seq(S) /\ Len(sorted) = Len(rows)
      /\ \A n \in DOMAIN rows : order[n] \in DOMAIN rows /\ sorted[n] = rows[order[n]]
      /\ \A i \in DOMAIN rows : \E n \in DOMAIN rows : order[n] = i
      /\ \A a, b \in DOMAIN rows : a < b => Before(order[a], order[b], key)
  <2>1. rows \in Seq(S) /\ \A i \in DOMAIN rows : key[i] \in Int
    BY <1>2, <1>4
  <2>2. QED
    BY <2>1, SortedIs
<1> HIDE DEF sorted, order
<1> DEFINE top == FirstOf(sorted, 10)
<1>6. top \in Seq(S) /\ \A i \in DOMAIN top : i \in DOMAIN sorted /\ top[i] = sorted[i]
  <2>1. top = FirstOf(sorted, 10) /\ 10 \in Nat
    OBVIOUS
  <2> HIDE DEF top
  <2>2. QED
    BY <1>5, <2>1, FirstOfIs
<1>7. 1 \in DOMAIN top
  <2>1. top # <<>>
    BY <1>1
  <2> HIDE DEF top
  <2>2. QED
    BY <1>6, <2>1
<1> HIDE DEF top
<1>8. 1 \in DOMAIN rows /\ DOMAIN rows \in SUBSET Int /\ top[1] = rows[order[1]]
        /\ \A n \in DOMAIN rows : n = 1 \/ 1 < n
  <2>1. DOMAIN rows = 1 .. Len(rows) /\ DOMAIN sorted = 1 .. Len(rows) /\ Len(rows) \in Nat
    BY <1>2, <1>5
  <2>2. 1 \in DOMAIN sorted /\ top[1] = sorted[1]
    BY <1>6, <1>7
  <2>3. QED
    BY <1>5, <2>1, <2>2
<1>9. ASSUME NEW i \in DOMAIN shares PROVE shares[i].share <= top[1].share
  <2>1. PICK n \in DOMAIN rows : order[n] = i
    BY <1>2, <1>5
  <2>2. order[1] \in DOMAIN shares /\ top[1].share = shares[order[1]].share
    BY <1>2, <1>3, <1>5, <1>8
  <2>3. CASE n = 1
    BY <1>3, <2>1, <2>2, <2>3
  <2>4. CASE 1 < n
    <3>1. key[order[1]] <= key[i]
      <4>1. Before(order[1], i, key)
        BY <1>5, <1>8, <2>1, <2>4
      <4>2. key[order[1]] \in Int /\ key[i] \in Int
        BY <1>2, <1>4, <2>2
      <4>3. QED
        BY <4>1, <4>2 DEF Before
    <3>2. i \in DOMAIN rows /\ order[1] \in DOMAIN rows
      BY <1>2, <2>2
    <3>3. 0 - shares[order[1]].share <= 0 - shares[i].share
      BY <1>4, <3>1, <3>2
    <3>4. shares[order[1]].share \in Int /\ shares[i].share \in Int
      BY <1>3, <2>2
    <3>5. QED
      BY <2>2, <3>3, <3>4
  <2>5. QED
    BY <1>8, <2>3, <2>4
<1>10. top[1].share \in Int
  BY <1>2, <1>3, <1>5, <1>8
<1>11. QED
  BY <1>1, <1>9, <1>10 DEF top

\* The supplier that is too large heads section D.
LEMMA LargestSupplierHeads ==
  ASSUME ReviewInv, Flagged("SINGLE_SUPPLIER_CONCENTRATION"), compute_top_suppliers # <<>>,
         \A x \in ToSet(form.supplierShares) : \E cp \in ToSet(form.suppliers) : cp.inn = x.inn
  PROVE  compute_top_suppliers[1].share > 50
<1> DEFINE shares == form.supplierShares
           stored == shown.supplierShares
           key == Inns(shares)
<1>1. shares \in Seq(ShareEntry) /\ form.suppliers \in Seq(Counterparty)
  BY DEF ReviewInv, Form
<1>2. stored = Sorted(shares, key) /\ shown.suppliers = form.suppliers
  BY ShownIs
<1>3. \A i \in DOMAIN shares : key[i] \in Int /\ shares[i].share \in Int
  <2>1. \A i \in DOMAIN shares : shares[i] \in ShareEntry
    BY <1>1
  <2>2. QED
    BY <2>1, SharesAreNumbers DEF Inns
<1> HIDE DEF key, shares, stored
<1>4. stored \in Seq(ShareEntry) /\ ToSet(stored) = ToSet(shares)
  BY <1>1, <1>2, <1>3, SortedIs, SortedHolds
<1>5. \A i \in DOMAIN stored : \E k \in DOMAIN form.suppliers :
        form.suppliers[k].inn = stored[i].inn
  <2>1. \A x \in ToSet(stored) : \E cp \in ToSet(form.suppliers) : cp.inn = x.inn
    BY <1>4 DEF shares
  <2>2. QED
    BY <2>1 DEF ToSet
<1>6. /\ compute_top_suppliers[1].share \in Int
      /\ \A i \in DOMAIN stored : stored[i].share <= compute_top_suppliers[1].share
  <2>1. compute_top_suppliers = top_shares(form.suppliers, stored)
    BY <1>2 DEF compute_top_suppliers, stored
  <2>2. QED
    BY <1>1, <1>4, <1>5, <2>1, LargestHeads
<1>7. single_supplier_concentration(form)
  BY RaisedIs DEF Flagged, ReviewInv
<1>8. shares # <<>> /\ LargestShare(shares).share > 50
  <2>1. shares # <<>> /\ (LargestShare(shares).share > 50 \/ LargestShare(shares).share > 60)
    BY <1>7 DEF single_supplier_concentration, SupplierEscalates, shares
  <2>2. LargestShare(shares).share \in Int
    BY <1>1, <1>3, <2>1, LargestIs
  <2>3. QED
    BY <2>1, <2>2
<1>9. PICK i \in DOMAIN shares : LargestShare(shares) = shares[i]
  BY <1>1, <1>8, LargestIs
<1>10. PICK k \in DOMAIN stored : stored[k] = shares[i]
  BY <1>4 DEF ToSet
<1>11. stored[k].share > 50 /\ stored[k].share <= compute_top_suppliers[1].share
  BY <1>6, <1>8, <1>9, <1>10
<1>12. stored[k].share \in Int
  BY <1>3, <1>10
<1>13. QED
  BY <1>6, <1>11, <1>12

\* Cover, section D and section E of the report bear out the flags.
THEOREM ReportIsTrue == ReviewSpec => []ReportBearsOutFlags
<1>1. ReviewInv => ReportBearsOutFlags
  BY GravestOnCover, FreezesAreShown, DelaysAreShown, LargestSupplierHeads
     DEF ReportBearsOutFlags
<1>2. QED
  BY <1>1, FlagsAreOfTheForm, PTL

-----------------------------------------------------------------------------
\* Reports that start in the order in which they end.
InStep(A) ==
  \A i, j \in DOMAIN A : i # j =>
    /\ A[i].end # A[j].end
    /\ (A[i].end < A[j].end) <=> (A[i].start < A[j].start)

\* The report of the year before the last one, as each side finds it.
YearBefore(A, r) ==
  FromEnd(Sorted(A, Ends(A)), 2) = r /\ LatestFirst(A)[2] = r

\* Then the latest report is the same one, however it is looked for.
LEMMA LatestOfAll ==
  ASSUME NEW A \in Seq(FinancialReport), A # <<>>, InStep(A)
  PROVE  /\ Len(ByStart(A)) = Len(A) /\ Len(LatestFirst(A)) = Len(A)
         /\ LatestByEnd(A) \in FinancialReport
         /\ FromEnd(ByStart(A), 1) = LatestByEnd(A)
         /\ LatestFirst(A)[1] = LatestByEnd(A)
         /\ FromEnd(Sorted(A, Ends(A)), 1) = LatestByEnd(A)
         /\ Len(A) >= 2 => \E k \in DOMAIN A : YearBefore(A, A[k])
<1> DEFINE D == DOMAIN A
           ends == Ends(A)
           starts == Starts(A)
           minus == [i \in D |-> 0 - A[i].start]
           byEnd == Sorted(A, ends)
           byStart == Sorted(A, starts)
           latest == Sorted(A, minus)
<1>1. \A i \in D : A[i] \in FinancialReport /\ A[i].end \in Int /\ A[i].start \in Int
  <2>1. \A i \in D : A[i] \in FinancialReport
    BY PlacesOf
  <2>2. QED
    BY <2>1, ReportFields
<1>2. \A i \in D : /\ ends[i] = A[i].end /\ starts[i] = A[i].start
                   /\ minus[i] = 0 - starts[i]
  BY DEF Ends, Starts
<1> HIDE DEF D, ends, starts, minus
<1>3. \A i \in D : ends[i] \in Int /\ starts[i] \in Int
  BY <1>1, <1>2
<1>4. \A i, j \in D : i # j => ends[i] # ends[j] /\ (ends[i] < ends[j] <=> starts[i] < starts[j])
  BY <1>2 DEF InStep, D
<1>5. Distinct(D, ends) /\ Distinct(D, starts)
  <2>1. \A i, j \in D : i # j => starts[i] # starts[j]
    <3> SUFFICES ASSUME NEW i \in D, NEW j \in D, i # j PROVE starts[i] # starts[j]
      OBVIOUS
    <3>1. ends[i] < ends[j] \/ ends[j] < ends[i]
      BY <1>3, <1>4
    <3>2. QED
      BY <1>3, <1>4, <3>1
  <2>2. QED
    BY <1>4, <2>1 DEF Distinct
<1>6. \A i : Largest(i, D, starts) => Largest(i, D, ends)
  BY <1>4 DEF Largest
<1>7. \A i, k : SecondLargest(k, i, D, starts) => SecondLargest(k, i, D, ends)
  BY <1>4 DEF SecondLargest
<1> HIDE DEF byEnd, byStart, latest
<1>8. PICK i \in D :
        /\ Largest(i, D, ends) /\ FromEnd(byEnd, 1) = A[i]
        /\ Len(A) >= 2 => \E k \in D : SecondLargest(k, i, D, ends) /\ FromEnd(byEnd, 2) = A[k]
  <2>1. byEnd = Sorted(A, ends) /\ D = DOMAIN A
    BY DEF byEnd, D
  <2>2. QED
    BY <1>3, <1>5, <2>1, LastTwo DEF D
<1>9. PICK j \in D : Largest(j, D, starts) /\ FromEnd(byStart, 1) = A[j]
  <2>1. byStart = Sorted(A, starts) /\ D = DOMAIN A
    BY DEF byStart, D
  <2>2. QED
    BY <1>3, <1>5, <2>1, LastTwo DEF D
<1>10. Len(latest) = Len(A) /\ \E g \in D :
         /\ Largest(g, D, starts) /\ latest[1] = A[g]
         /\ Len(A) >= 2 => \E k \in D : SecondLargest(k, g, D, starts) /\ latest[2] = A[k]
  <2>1. latest = Sorted(A, minus) /\ D = DOMAIN A
    BY DEF latest, D
  <2>2. /\ \A x \in DOMAIN A : starts[x] \in Int
        /\ \A x \in DOMAIN A : minus[x] = 0 - starts[x]
        /\ Distinct(DOMAIN A, starts)
    BY <1>2, <1>3, <1>5, <2>1
  <2> HIDE DEF D
  <2>3. /\ Len(latest) = Len(A)
        /\ \E x \in DOMAIN A :
             /\ Largest(x, DOMAIN A, starts) /\ latest[1] = A[x]
             /\ Len(A) >= 2 => \E k \in DOMAIN A :
                  SecondLargest(k, x, DOMAIN A, starts) /\ latest[2] = A[k]
    BY <2>1, <2>2, FirstTwo
  <2>4. QED
    BY <2>1, <2>3
<1>11. PICK g \in D :
         /\ Largest(g, D, starts) /\ latest[1] = A[g]
         /\ Len(A) >= 2 => \E k \in D : SecondLargest(k, g, D, starts) /\ latest[2] = A[k]
  BY <1>10
<1>12. j = i /\ g = i
  BY <1>3, <1>6, <1>8, <1>9, <1>11, OneLargest
<1>13. LatestByEnd(A) = A[i]
  <2>1. PICK h \in DOMAIN A :
          /\ LatestByEnd(A) = A[h]
          /\ \A k \in DOMAIN A : \/ A[k].end < A[h].end
                                 \/ A[k].end = A[h].end /\ h <= k
    BY <1>1, LatestIs DEF D
  <2>2. ends[i] <= ends[h]
    BY <1>2, <1>3, <2>1 DEF D
  <2>3. i # h => ends[h] < ends[i]
    BY <1>8, <2>1 DEF Largest, D
  <2>4. i = h
    BY <1>3, <2>1, <2>2, <2>3 DEF D
  <2>5. QED
    BY <2>1, <2>4
<1>14. ASSUME Len(A) >= 2 PROVE \E k \in D : YearBefore(A, A[k])
  <2>1. PICK k \in D : SecondLargest(k, i, D, ends) /\ FromEnd(byEnd, 2) = A[k]
    BY <1>8, <1>14
  <2>2. PICK l \in D : SecondLargest(l, i, D, starts) /\ latest[2] = A[l]
    BY <1>11, <1>12, <1>14
  <2>3. k = l
    BY <1>3, <1>7, <2>1, <2>2, OneSecondLargest
  <2>4. YearBefore(A, A[k])
    BY <2>1, <2>2, <2>3 DEF YearBefore, LatestFirst, byEnd, ends, latest, minus, D
  <2>5. QED
    BY <2>4
<1>15. Len(byStart) = Len(A)
  BY <1>3, SortedIs DEF byStart, D
<1>16. /\ ByStart(A) = byStart /\ LatestFirst(A) = latest
       /\ Sorted(A, Ends(A)) = byEnd /\ D = DOMAIN A
  BY DEF ByStart, LatestFirst, byStart, byEnd, latest, ends, starts, minus, D
<1>17. QED
  BY <1>1, <1>8, <1>9, <1>10, <1>11, <1>12, <1>13, <1>14, <1>15, <1>16

\* The figures are made of the latest report, the same the rules look at.
LEMMA ScreenIs ==
  ASSUME ReviewInv, OneReportPerYear
  PROVE  /\ InStep(form.annual)
         /\ InSums(form.annual) = form.annual /\ InSums(form.months) = form.months
         /\ form.annual = <<>> => NthLatest(shown, 1) = Unknown
         /\ form.annual # <<>> => /\ NthLatest(shown, 1) = LatestByEnd(form.annual)
                                  /\ LatestByEnd(form.annual) \in FinancialReport
                                  /\ LatestByEnd(form.annual) # Unknown
<1> DEFINE A == form.annual
<1>1. A \in Seq(FinancialReport) /\ form.months \in Seq(MonthlyTurnover)
  BY DEF ReviewInv, Form
<1>2. InStep(A)
  BY DEF OneReportPerYear, InStep
<1>3. /\ {i \in DOMAIN A : A[i].currency = "UZS"} = DOMAIN A
      /\ {i \in DOMAIN form.months : form.months[i].currency = "UZS"} = DOMAIN form.months
  BY DEF OneReportPerYear
<1>4. InSums(A) = A /\ InSums(form.months) = form.months
  BY <1>1, <1>3, KeptAll DEF InSums
<1>5. AnnualInSums(shown) = ByStart(A)
  BY <1>4, ShownIs DEF AnnualInSums
<1> HIDE DEF A
<1>6. CASE A = <<>>
  <2>1. Len(ByStart(A)) = 0
    <3>1. DOMAIN A = {} /\ Len(A) = 0
      BY <1>6
    <3>2. Len(Sorted(A, Starts(A))) = Len(A)
      BY <1>1, <3>1, SortedIs
    <3>3. QED
      BY <3>1, <3>2 DEF ByStart
  <2>2. NthLatest(shown, 1) = Unknown
    BY <1>5, <2>1 DEF NthLatest
  <2>3. QED
    BY <1>2, <1>4, <1>6, <2>2 DEF A
<1>7. CASE A # <<>>
  <2>1. /\ Len(ByStart(A)) = Len(A) /\ FromEnd(ByStart(A), 1) = LatestByEnd(A)
        /\ LatestByEnd(A) \in FinancialReport
    BY <1>1, <1>2, <1>7, LatestOfAll
  <2>2. Len(A) >= 1
    BY <1>1, <1>7
  <2>3. NthLatest(shown, 1) = LatestByEnd(A)
    BY <1>5, <2>1, <2>2 DEF NthLatest
  <2>4. LatestByEnd(A) # Unknown
    BY <2>1, ReviewAssumption
  <2>5. QED
    BY <1>2, <1>4, <1>7, <2>1, <2>3, <2>4 DEF A
<1>8. QED
  BY <1>6, <1>7

\* A figure that can be computed is not None.
LEMMA FigureIsKnown ==
  ASSUME NEW a \in Int, NEW b \in Int, NEW tone \in {"good", "warn", "bad"}
  PROVE  Kpi(Ratio(a, b), tone) # Unknown /\ Ratio(a, b) # Unknown
<1>1. Ratio(a, b) \in Fraction
  BY DEF Ratio, Fraction
<1>2. Kpi(Ratio(a, b), tone) \in KpiValue
  BY <1>1 DEF Kpi, KpiValue
<1>3. QED
  BY <1>1, <1>2, NoneAssumption

\* A red current ratio is the flag of the working capital.
LEMMA RatioAgrees ==
  ASSUME ReviewInv, OneReportPerYear
  PROVE  Flagged("WC_INSUFFICIENT")
           <=> screen.current_ratio # Unknown /\ screen.current_ratio.tone = "bad"
<1> DEFINE A == form.annual
           r == LatestByEnd(A)
<1>1. Flagged("WC_INSUFFICIENT") <=> wc_insufficient(form)
  BY RaisedIs DEF Flagged, ReviewInv
<1>2. screen.current_ratio = compute_current_ratio(NthLatest(shown, 1))
  BY DEF screen, compute_kpis
<1>3. CASE A = <<>>
  <2>1. ~wc_insufficient(form)
    BY <1>3 DEF wc_insufficient, OfLatest
  <2>2. screen.current_ratio = Unknown
    BY <1>2, <1>3, ScreenIs DEF compute_current_ratio
  <2>3. QED
    BY <1>1, <2>1, <2>2
<1>4. CASE A # <<>>
  <2>1. r \in FinancialReport /\ r # Unknown /\ NthLatest(shown, 1) = r
    BY <1>4, ScreenIs
  <2> HIDE DEF r
  <2>2. wc_insufficient(form) <=> Known({r.ca, r.cl}) /\ r.cl > 0 /\ r.ca < r.cl
    BY <1>4 DEF wc_insufficient, OfLatest, r
  <2>3. screen.current_ratio = ByBalance({r.ca, r.cl}, r.ca, r.cl, <<3, 2>>, <<1, 1>>)
    BY <1>2, <2>1 DEF compute_current_ratio
  <2>4. CASE ~Known({r.ca, r.cl})
    BY <1>1, <2>2, <2>3, <2>4 DEF ByBalance
  <2>5. CASE Known({r.ca, r.cl})
    <3>1. r.ca \in Int /\ r.cl \in Int
      BY <2>1, <2>5, ReportFields DEF Known, Optional
    <3>2. CASE r.cl <= 0
      BY <1>1, <2>2, <2>3, <2>5, <3>1, <3>2 DEF ByBalance
    <3>3. CASE r.cl > 0
      <4> DEFINE tone == Rising(Ratio(r.ca, r.cl), <<3, 2>>, <<1, 1>>)
      <4>1. screen.current_ratio = Kpi(Ratio(r.ca, r.cl), tone)
        BY <2>3, <2>5, <3>1, <3>3 DEF ByBalance
      <4>2. tone \in {"good", "warn", "bad"} /\ (tone = "bad" <=> r.ca < r.cl)
        BY <3>1, <3>3 DEF Rising, Ratio, Above, AtLeastR
      <4> HIDE DEF tone
      <4>3. screen.current_ratio # Unknown
        BY <3>1, <4>1, <4>2, FigureIsKnown
      <4>4. screen.current_ratio.tone = tone
        BY <4>1 DEF Kpi
      <4>5. QED
        BY <1>1, <2>2, <2>5, <3>3, <4>2, <4>3, <4>4
    <3>4. QED
      BY <3>1, <3>2, <3>3
  <2>6. QED
    BY <2>4, <2>5
<1>5. QED
  BY <1>3, <1>4

\* The flag of the debt service never stands beside a good DSCR, and is never
\* missing beside a bad one.
LEMMA DscrAgrees ==
  ASSUME ReviewInv, OneReportPerYear
  PROVE  /\ Flagged("DSCR_LOW") => screen.dscr # Unknown /\ screen.dscr.tone # "good"
         /\ screen.dscr # Unknown /\ screen.dscr.tone = "bad" => Flagged("DSCR_LOW")
<1> DEFINE A == form.annual
           r == LatestByEnd(A)
           loan == form.loan
           up == DscrNumerator(r)
           service == DebtServiceTimesTerm(r, loan)
<1>1. Flagged("DSCR_LOW") <=> dscr_low(form)
  BY RaisedIs DEF Flagged, ReviewInv
<1>2. screen.dscr = compute_dscr(NthLatest(shown, 1), loan)
  BY ShownIs DEF screen, compute_kpis
<1>3. CASE A = <<>> \/ loan = Unknown
  <2>1. ~dscr_low(form)
    BY <1>3 DEF dscr_low, OfLatest
  <2>2. screen.dscr = Unknown
    BY <1>2, <1>3, ScreenIs DEF compute_dscr
  <2>3. QED
    BY <1>1, <2>1, <2>2
<1>4. CASE A # <<>> /\ loan # Unknown
  <2>1. r \in FinancialReport /\ r # Unknown /\ NthLatest(shown, 1) = r
    BY <1>4, ScreenIs
  <2>2. loan.amount \in Int /\ loan.term \in Int
    BY <1>4 DEF ReviewInv, Form, LoanRequest
  <2>3. dscr_low(form) <=>
          /\ loan.term > 0 /\ loan.amount > 0
          /\ r.interest # Unknown /\ up # Unknown /\ service > 0
          /\ 10 * up * loan.term < 13 * service
    BY <1>4 DEF dscr_low, OfLatest
  <2> DEFINE tone == Rising(Ratio(up * loan.term, service), <<3, 2>>, <<6, 5>>)
  <2>4. screen.dscr =
          IF loan.term <= 0 \/ loan.amount <= 0 \/ r.interest = Unknown THEN Unknown
          ELSE IF up = Unknown \/ service <= 0 THEN Unknown
          ELSE Kpi(Ratio(up * loan.term, service), tone)
    <3> HIDE DEF r
    <3>1. Unknown \notin {r, loan}
      BY <1>4, <2>1
    <3>2. QED
      BY <1>2, <2>1, <3>1 DEF compute_dscr
  <2> HIDE DEF r, up, service, loan
  <2>5. CASE loan.term <= 0 \/ loan.amount <= 0 \/ r.interest = Unknown \/ up = Unknown
    <3>1. screen.dscr = Unknown
      BY <2>4, <2>5
    <3>2. ~dscr_low(form)
      BY <2>2, <2>3, <2>5
    <3>3. QED
      BY <1>1, <3>1, <3>2
  <2>6. CASE ~(loan.term <= 0 \/ loan.amount <= 0 \/ r.interest = Unknown \/ up = Unknown)
    <3>1. up \in Int /\ r.interest \in Int
      BY <2>1, <2>6, NumeratorIs DEF up
    <3>2. service \in Int
      BY <2>2, <3>1 DEF service, DebtServiceTimesTerm
    <3> DEFINE paid == up * loan.term
    <3>3. paid \in Int /\ 10 * up * loan.term = 10 * paid
      BY <2>2, <3>1
    <3> HIDE DEF paid, tone
    <3>4. tone = Rising(Ratio(paid, service), <<3, 2>>, <<6, 5>>)
      BY DEF tone, paid
    <3>5. CASE service <= 0
      <4>1. screen.dscr = Unknown
        BY <2>4, <2>6, <3>5
      <4>2. ~dscr_low(form)
        BY <2>3, <3>2, <3>5
      <4>3. QED
        BY <1>1, <4>1, <4>2
    <3>6. CASE service > 0
      <4>1. screen.dscr = Kpi(Ratio(paid, service), tone)
        BY <2>4, <2>6, <3>2, <3>6 DEF paid
      <4>2. dscr_low(form) <=> 10 * paid < 13 * service
        BY <2>2, <2>3, <2>6, <3>3, <3>6
      <4>3. /\ tone \in {"good", "warn", "bad"}
            /\ 10 * paid < 13 * service => tone # "good"
            /\ tone = "bad" => 10 * paid < 13 * service
        BY <3>2, <3>3, <3>4, <3>6 DEF Rising, Ratio, Above, AtLeastR
      <4>4. screen.dscr # Unknown
        BY <3>2, <3>3, <4>1, <4>3, FigureIsKnown
      <4>5. screen.dscr.tone = tone
        BY <4>1 DEF Kpi
      <4>6. QED
        BY <1>1, <4>2, <4>3, <4>4, <4>5
    <3>7. QED
      BY <3>2, <3>5, <3>6
  <2>7. QED
    BY <2>5, <2>6
<1>5. QED
  BY <1>3, <1>4

\* A finite set of years has a longest run.
LEMMA LongestRun ==
  ASSUME NEW years \in SUBSET Int, IsFiniteSet(years)
  PROVE  /\ max_consecutive_run(years) \in 0 .. Cardinality(years)
         /\ Cardinality(years) \in Nat
         /\ \E y \in years \cup {0} : y .. (y + max_consecutive_run(years) - 1) \subseteq years
<1> DEFINE size == Cardinality(years)
           Is(n) == /\ n = 0 <=> years = {}
                    /\ \E y \in years \cup {0} : y .. (y + n - 1) \subseteq years
                    /\ \A y \in years : ~(y .. (y + n) \subseteq years)
           runs == {n \in 0 .. size : n > 0 /\ \E y \in years : y .. (y + n - 1) \subseteq years}
<1>1. size \in Nat
  BY FS_CardinalityType
<1>2. \E n \in 0 .. size : Is(n)
  <2>1. CASE years = {}
    <3>1. 0 .. (0 + 0 - 1) = {}
      OBVIOUS
    <3>2. Is(0)
      BY <2>1, <3>1
    <3>3. QED
      BY <1>1, <3>2
  <2>2. CASE years # {}
    <3>1. size # 0
      BY <2>2, FS_EmptySet
    <3>2. 1 \in runs
      <4>1. PICK y \in years : TRUE
        BY <2>2
      <4>2. y .. (y + 1 - 1) = {y}
        OBVIOUS
      <4>3. QED
        BY <1>1, <3>1, <4>2
    <3>3. runs \in SUBSET Int /\ IsFiniteSet(runs) /\ runs # {}
      <4>1. IsFiniteSet(0 .. size)
        BY <1>1, FS_Interval
      <4>2. runs \subseteq 0 .. size
        OBVIOUS
      <4>3. IsFiniteSet(runs)
        BY <4>1, <4>2, FS_Subset
      <4>4. QED
        BY <1>1, <3>2, <4>2, <4>3
    <3> DEFINE key == [n \in runs |-> n]
    <3>4. \A n \in runs : key[n] \in Int /\ key[n] = n
      BY <3>3
    <3> HIDE DEF runs, key
    <3>5. PICK n \in runs : \A m \in runs : key[m] < key[n] \/ (key[m] = key[n] /\ n <= m)
      BY <3>3, <3>4, FirstOfLargest
    <3>6. n \in 0 .. size /\ n > 0 /\ \E y \in years : y .. (y + n - 1) \subseteq years
      BY DEF runs
    <3>7. ASSUME NEW y \in years, y .. (y + n) \subseteq years PROVE FALSE
      <4>1. Cardinality(y .. (y + n)) = n + 1 /\ Cardinality(y .. (y + n)) <= size
        <5>1. Cardinality(y .. (y + n)) = (y + n) - y + 1
          <6>1. y \in Int /\ y + n \in Int /\ ~(y > y + n)
            BY <3>6
          <6>2. QED
            BY <6>1, FS_Interval
        <5>2. (y + n) - y + 1 = n + 1
          BY <3>6
        <5>3. Cardinality(y .. (y + n)) <= size
          BY <3>7, FS_Subset
        <5>4. QED
          BY <5>1, <5>2, <5>3
      <4>2. n + 1 \in runs
        <5>1. n + 1 \in 0 .. size /\ n + 1 > 0
          BY <1>1, <3>6, <4>1
        <5>2. y + (n + 1) - 1 = y + n
          BY <3>6
        <5>3. QED
          BY <3>7, <5>1, <5>2 DEF runs
      <4>3. key[n + 1] < key[n] \/ key[n + 1] = key[n]
        BY <3>5, <4>2
      <4>4. n + 1 < n \/ n + 1 = n
        BY <3>4, <4>2, <4>3
      <4>5. QED
        BY <3>6, <4>4
    <3>8. Is(n)
      BY <2>2, <3>6, <3>7
    <3>9. QED
      BY <3>6, <3>8
  <2>3. QED
    BY <2>1, <2>2
<1>3. max_consecutive_run(years) = CHOOSE n \in 0 .. size : Is(n)
  BY DEF max_consecutive_run
<1> DEFINE run == CHOOSE n \in 0 .. size : Is(n)
<1> HIDE DEF Is
<1>4. run \in 0 .. size /\ Is(run)
  BY <1>2
<1>5. \E y \in years \cup {0} : y .. (y + run - 1) \subseteq years
  BY <1>4 DEF Is
<1>6. QED
  BY <1>1, <1>3, <1>4, <1>5

\* The turnover of a year, where months do not make one: the latest annual
\* report, and the growth over the one before it.
LEMMA AnnualTurnover ==
  ASSUME ReviewInv, OneReportPerYear, Len(form.months) < YearLength
  PROVE  /\ form.annual = <<>> => screen.revenue_ltm = Unknown
         /\ form.annual # <<>> =>
              /\ LatestFirst(form.annual)[1] = LatestByEnd(form.annual)
              /\ screen.revenue_ltm.value = LatestFirst(form.annual)[1].revenue
              /\ screen.revenue_ltm.yoy =
                   Growth(LatestFirst(form.annual)[1].revenue,
                          IF Len(form.annual) >= 2 THEN LatestFirst(form.annual)[2].revenue
                                                   ELSE Unknown)
<1> DEFINE A == form.annual
           M == form.months
<1>1. A \in Seq(FinancialReport) /\ M \in Seq(MonthlyTurnover)
  BY DEF ReviewInv, Form
<1>2. InSums(A) = A /\ InSums(M) = M /\ InStep(A)
  BY ScreenIs
<1>3. shown.annual = A /\ shown.months = M
  BY ShownIs
<1> HIDE DEF A, M
<1>4. Len(LatestFirst(M)) = Len(M)
  <2> DEFINE key == [i \in DOMAIN M |-> 0 - M[i].start]
  <2>1. \A i \in DOMAIN M : key[i] \in Int
    BY ItemsOf DEF ReviewInv, MonthlyTurnover, M
  <2> HIDE DEF key
  <2>2. Len(Sorted(M, key)) = Len(M)
    BY <1>1, <2>1, SortedIs
  <2>3. QED
    BY <2>2 DEF LatestFirst, key
<1>5. ~(Len(LatestFirst(M)) >= YearLength)
  <2>1. Len(M) \in Nat /\ YearLength \in Nat
    BY <1>1, YearLengthAssumption
  <2>2. QED
    BY <1>4, <2>1 DEF M
<1>6. screen.revenue_ltm =
        IF LatestFirst(A) # <<>>
          THEN [value |-> LatestFirst(A)[1].revenue,
                yoy |-> Growth(LatestFirst(A)[1].revenue,
                               IF Len(LatestFirst(A)) >= 2 THEN LatestFirst(A)[2].revenue
                                                           ELSE Unknown)]
          ELSE Unknown
  BY <1>2, <1>3, <1>5 DEF screen, compute_kpis, compute_revenue_ltm
<1>7. CASE A = <<>>
  <2>1. LatestFirst(A) = <<>>
    BY <1>7 DEF LatestFirst, Sorted
  <2>2. QED
    BY <1>6, <1>7, <2>1 DEF A
<1>8. CASE A # <<>>
  <2>1. Len(LatestFirst(A)) = Len(A) /\ LatestFirst(A)[1] = LatestByEnd(A)
    BY <1>1, <1>2, <1>8, LatestOfAll
  <2>2. LatestFirst(A) # <<>>
    BY <1>1, <1>8, <2>1
  <2>3. QED
    BY <1>6, <1>8, <2>1, <2>2 DEF A
<1>9. QED
  BY <1>7, <1>8 DEF A

\* A strength on the cover is one that holds.
LEMMA StrengthsHold == "growth" \in ToSet(build_strengths) => GrowthIsStrength
<1> DEFINE candidate == <<"growth", "roe", "profit", "debt">>
           holds == [growth |-> GrowthIsStrength, roe |-> RoeIsStrength,
                     profit |-> ProfitIsStrength, debt |-> DebtIsStrength]
           places == {i \in DOMAIN candidate : holds[candidate[i]]}
           S == {candidate[i] : i \in DOMAIN candidate}
<1>1. build_strengths = FirstOf(Kept(candidate, places), 3)
  BY DEF build_strengths
<1>2. candidate \in Seq(S) /\ places \in SUBSET (DOMAIN candidate)
  OBVIOUS
<1>3. holds["growth"] = GrowthIsStrength
  OBVIOUS
<1>4. \A i \in places : holds[candidate[i]]
  OBVIOUS
<1> HIDE DEF candidate, holds, places, S
<1>5. Kept(candidate, places) \in Seq(S)
        /\ ToSet(Kept(candidate, places)) = {candidate[i] : i \in places}
  BY <1>2, KeptIs, KeptHolds
<1>6. ASSUME "growth" \in ToSet(build_strengths) PROVE GrowthIsStrength
  <2>1. PICK k \in DOMAIN build_strengths : build_strengths[k] = "growth"
    BY <1>6 DEF ToSet
  <2>2. k \in DOMAIN Kept(candidate, places) /\ Kept(candidate, places)[k] = "growth"
    BY <1>1, <1>5, <2>1, FirstOfIs
  <2>3. "growth" \in {candidate[i] : i \in places}
    BY <1>5, <2>2 DEF ToSet
  <2>4. QED
    BY <1>3, <1>4, <2>3
<1>7. QED
  BY <1>6

\* Half of the revenue lost is seen by the figure and is no strength.
LEMMA LossIsSeen ==
  ASSUME ReviewInv, OneReportPerYear, Len(form.months) < YearLength,
         Flagged("REVENUE_DROP_YOY_50")
  PROVE  /\ ~Above(screen.revenue_ltm.yoy, <<-50, 1>>)
         /\ "growth" \notin ToSet(build_strengths)
<1> DEFINE A == form.annual
           prev == FromEnd(Sorted(A, Ends(A)), 2)
           curr == FromEnd(Sorted(A, Ends(A)), 1)
<1>1. A \in Seq(FinancialReport) /\ InStep(A)
  BY ScreenIs DEF ReviewInv, Form
<1>2. /\ Len(Sorted(A, Ends(A))) >= 2
      /\ prev.revenue >= 200 /\ 2 * curr.revenue < prev.revenue
  BY RaisedIs DEF Flagged, ReviewInv, revenue_drop_yoy_50
<1>3. Len(A) >= 2 /\ A # <<>>
  <2>1. \A i \in DOMAIN A : Ends(A)[i] \in Int
    BY ItemsOf, ReportFields DEF Ends, ReviewInv
  <2>2. Len(Sorted(A, Ends(A))) = Len(A)
    BY <1>1, <2>1, SortedIs
  <2>3. QED
    BY <1>1, <1>2, <2>2
<1>4. PICK k \in DOMAIN A : prev = A[k] /\ LatestFirst(A)[2] = A[k]
  BY <1>1, <1>3, LatestOfAll DEF YearBefore
<1>5. curr = LatestByEnd(A) /\ LatestFirst(A)[1] = LatestByEnd(A)
        /\ LatestByEnd(A) \in FinancialReport
  BY <1>1, <1>3, LatestOfAll
<1> DEFINE now == curr.revenue
           before == prev.revenue
<1>6. now \in Int /\ before \in Int
  BY <1>1, <1>4, <1>5, ItemsOf, ReportFields DEF ReviewInv
<1>7. screen.revenue_ltm.yoy = Growth(now, before)
  BY <1>3, <1>4, <1>5, AnnualTurnover
<1> HIDE DEF now, before
<1>8. before >= 200 /\ 2 * now < before
  BY <1>2 DEF now, before
<1>9. screen.revenue_ltm.yoy = <<100 * (now - before), before>>
  <2>1. before # Unknown /\ before # 0
    BY <1>6, <1>8, ReviewAssumption
  <2>2. QED
    BY <1>7, <2>1 DEF Growth, Ratio
<1>10. ~Above(screen.revenue_ltm.yoy, <<-50, 1>>)
  BY <1>6, <1>8, <1>9 DEF Above
<1>11. ~GrowthIsStrength
  BY <1>6, <1>8, <1>9 DEF GrowthIsStrength
<1>12. QED
  BY <1>10, <1>11, StrengthsHold

\* Without revenue in any period no turnover is shown but a loss.
LEMMA NothingIsShown ==
  ASSUME ReviewInv, OneReportPerYear, Flagged("INSUFFICIENT_DATA"),
         screen.revenue_ltm # Unknown
  PROVE  screen.revenue_ltm.value <= 0
<1> DEFINE A == form.annual
           M == form.months
           key == [i \in DOMAIN M |-> 0 - M[i].start]
           sorted == Sorted(M, key)
           order == Ranked(DOMAIN M, key)
<1>1. /\ \A i \in DOMAIN A : A[i].revenue <= 0
      /\ \A i \in DOMAIN M : M[i].revenue <= 0
  BY RaisedIs DEF Flagged, ReviewInv, insufficient_data
<1>2. A \in Seq(FinancialReport) /\ M \in Seq(MonthlyTurnover)
        /\ shown.months = M /\ InSums(M) = M
  BY ScreenIs, ShownIs DEF ReviewInv, Form
<1>3. \A i \in DOMAIN M : M[i].revenue \in Int /\ key[i] \in Int
  BY ItemsOf DEF ReviewInv, MonthlyTurnover
<1> HIDE DEF key, A, M
<1>4. /\ Len(sorted) = Len(M) /\ sorted \in Seq(MonthlyTurnover)
      /\ \A i \in DOMAIN M : order[i] \in DOMAIN M /\ sorted[i] = M[order[i]]
  <2>1. M \in Seq(MonthlyTurnover) /\ \A i \in DOMAIN M : key[i] \in Int
    BY <1>2, <1>3
  <2>2. QED
    BY <2>1, SortedIs
<1> HIDE DEF order
<1>5. LatestFirst(M) = sorted
  BY DEF LatestFirst, key
<1> HIDE DEF sorted
<1>6. CASE Len(M) >= YearLength
  <2> DEFINE f == [i \in 1 .. YearLength |-> sorted[i].revenue]
  <2>1. YearLength \in Nat /\ \A i \in 1 .. YearLength : i \in DOMAIN M
    BY <1>2, <1>6, YearLengthAssumption
  <2>2. f \in [1 .. YearLength -> Int] /\ \A i \in 1 .. YearLength : f[i] <= 0
    BY <1>1, <1>3, <1>4, <2>1
  <2>3. IsFiniteSet(1 .. YearLength)
    BY <2>1, CountTo
  <2>4. SumFunction(f) <= 0
    <3> HIDE DEF f
    <3>1. QED
      BY <2>2, <2>3, LossesAdd
  <2>5. screen.revenue_ltm.value = RevenueOf(sorted, 1, YearLength)
    BY <1>2, <1>4, <1>5, <1>6 DEF screen, compute_kpis, compute_revenue_ltm
  <2>6. QED
    BY <2>4, <2>5 DEF RevenueOf
<1>7. CASE ~(Len(M) >= YearLength)
  <2>1. Len(form.months) < YearLength
    BY <1>2, <1>7, YearLengthAssumption DEF M
  <2>2. A # <<>>
    BY <2>1, AnnualTurnover DEF A
  <2>3. screen.revenue_ltm.value = LatestByEnd(A).revenue
    BY <2>1, <2>2, AnnualTurnover DEF A
  <2>4. PICK i \in DOMAIN A : LatestByEnd(A) = A[i]
    <3>1. \A i \in DOMAIN A : A[i].end \in Int
      BY ItemsOf, ReportFields DEF ReviewInv, A
    <3>2. QED
      BY <1>2, <2>2, <3>1, LatestIs
  <2>5. QED
    BY <1>1, <2>3, <2>4
<1>8. QED
  BY <1>6, <1>7

\* A report of each of two years.
LEMMA TwoYears ==
  ASSUME ReviewInv, form.quarterly = <<>>,
         "yoy_trend" \notin load_dossier_readiness(shown).missing
  PROVE  Len(form.annual) >= 2
<1> DEFINE A == form.annual
           ends == {YearOf(A[i].end) : i \in DOMAIN A}
           quarters == [i \in DOMAIN shown.quarterly |-> YearOf(shown.quarterly[i].end)]
           run == max_consecutive_run(ends)
<1>1. A \in Seq(FinancialReport)
  BY DEF ReviewInv, Form
<1>2. full_years(ends, quarters) = ends
  <2>1. DOMAIN quarters = {}
    BY ShownIs
  <2> HIDE DEF quarters, ends
  <2>2. {quarters[i] : i \in DOMAIN quarters} = {}
    BY <2>1
  <2>3. QED
    BY <2>2 DEF full_years
<1>3. ~(run < 2)
  <2> DEFINE sources == infer_parser_sources_from_snapshot(shown)
             hasForm1 == "form_1" \in sources
             hasTax == sources \cap {"esf_csv", "profit_tax"} # {}
  <2>1. load_dossier_readiness(shown).missing = missing_capabilities(run, hasForm1, hasTax)
    <3>1. shown.annual = A
      BY ShownIs
    <3> HIDE DEF ends, quarters, run, sources
    <3>2. load_dossier_readiness(shown) = assess_readiness(ends, quarters, sources)
      BY <3>1 DEF load_dossier_readiness, ends, quarters, sources
    <3>3. QED
      BY <1>2, <3>2 DEF assess_readiness, run
  <2> HIDE DEF run, hasForm1, hasTax
  <2>2. "yoy_trend" \notin missing_capabilities(run, hasForm1, hasTax)
    BY <2>1
  <2>3. QED
    BY <2>2 DEF missing_capabilities
<1>4. ends \in SUBSET Int /\ IsFiniteSet(ends)
  <2> DEFINE f == [i \in DOMAIN A |-> YearOf(A[i].end)]
  <2>1. \A i \in DOMAIN A : YearOf(A[i].end) \in Int
    <3>1. \A i \in DOMAIN A : A[i].end \in Int
      BY ItemsOf, ReportFields DEF ReviewInv
    <3>2. QED
      BY <3>1 DEF YearOf
  <2>2. IsFiniteSet(DOMAIN A)
    BY <1>1, PlacesOf
  <2>3. ends = {f[i] : i \in DOMAIN A}
    OBVIOUS
  <2> HIDE DEF f
  <2>4. IsFiniteSet({f[i] : i \in DOMAIN A})
    BY <2>2, ImageIsFinite
  <2>5. QED
    BY <2>1, <2>3, <2>4
<1>5. \A y \in ends : \E i \in DOMAIN A : YearOf(A[i].end) = y
  OBVIOUS
<1> HIDE DEF A, ends
<1>6. run \in Int /\ \E y \in ends \cup {0} : y .. (y + run - 1) \subseteq ends
  BY <1>4, LongestRun
<1> HIDE DEF run
<1>7. PICK y \in ends \cup {0} : y .. (y + run - 1) \subseteq ends
  BY <1>6
<1>8. y \in ends /\ y + 1 \in ends /\ y \in Int
  <2>1. y \in Int
    BY <1>4
  <2>2. y \in y .. (y + run - 1) /\ y + 1 \in y .. (y + run - 1)
    BY <1>3, <1>6, <2>1
  <2>3. QED
    BY <1>7, <2>1, <2>2
<1>9. PICK i \in DOMAIN A : YearOf(A[i].end) = y
  BY <1>5, <1>8
<1>10. PICK j \in DOMAIN A : YearOf(A[j].end) = y + 1
  BY <1>5, <1>8
<1>11. i # j
  BY <1>8, <1>9, <1>10
<1>12. QED
  BY <1>1, <1>11, PlacesOf DEF A

\* Growth that can be shown is shown.
LEMMA TrendIsShown ==
  ASSUME ReviewInv, OneReportPerYear, Len(form.months) < YearLength, form.quarterly = <<>>,
         "yoy_trend" \notin load_dossier_readiness(shown).missing,
         \A report \in ToSet(form.annual) : report.revenue > 0
  PROVE  screen.revenue_ltm.yoy # Unknown
<1> DEFINE A == form.annual
           now == LatestByEnd(A).revenue
           before == LatestFirst(A)[2].revenue
<1>1. A \in Seq(FinancialReport) /\ InStep(A)
  BY ScreenIs DEF ReviewInv, Form
<1>2. Len(A) >= 2 /\ A # <<>>
  BY <1>1, TwoYears
<1>3. screen.revenue_ltm.yoy = Growth(now, before)
  BY <1>2, AnnualTurnover
<1>4. now \in Int
  BY <1>1, <1>2, LatestOfAll, ReportFields
<1>5. before \in Int /\ before > 0
  <2>1. PICK k \in DOMAIN A : LatestFirst(A)[2] = A[k]
    BY <1>1, <1>2, LatestOfAll DEF YearBefore
  <2>2. A[k].revenue \in Int /\ A[k] \in ToSet(A)
    BY <1>1, ItemsOf, ReportFields DEF ReviewInv, ToSet
  <2>3. QED
    BY <2>1, <2>2
<1> HIDE DEF now, before
<1>6. Growth(now, before) = Ratio(100 * (now - before), before)
  <2>1. before # Unknown /\ before # 0
    BY <1>5, ReviewAssumption
  <2>2. QED
    BY <2>1 DEF Growth
<1>7. Ratio(100 * (now - before), before) # Unknown
  <2>1. 100 * (now - before) \in Int
    BY <1>4, <1>5
  <2>2. QED
    BY <1>5, <2>1, FigureIsKnown
<1>8. QED
  BY <1>3, <1>6, <1>7

\* The screen and the flags beside it tell one story.
THEOREM ScreenIsTrue == ReviewSpec => []ScreenAgreesWithFlags
<1>1. ReviewInv => ScreenAgreesWithFlags
  BY RatioAgrees, DscrAgrees, LossIsSeen, NothingIsShown, TrendIsShown
     DEF ScreenAgreesWithFlags
<1>2. QED
  BY <1>1, FlagsAreOfTheForm, PTL
=============================================================================
