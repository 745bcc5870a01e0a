--------------------------- MODULE FinancialRules ---------------------------
(***************************************************************************)
(* The red-flag rules that read the annual and quarterly reports and the   *)
(* loan asked for.  Amounts are millions of sums, fractions are compared   *)
(* by multiplication.  A rule is TRUE when it raises its flag.             *)
(***************************************************************************)
EXTENDS Integers, Sequences, FiniteSets

CONSTANT Unknown  \* None: a field nobody has filled

Known(fields) == Unknown \notin fields

\* The places of a list in the order of their keys, equal keys in their own.
Before(i, j, key) == key[i] < key[j] \/ (key[i] = key[j] /\ i < j)

Ranked(places, key) ==
  [n \in 1 .. Cardinality(places) |->
     CHOOSE i \in places : Cardinality({j \in places : Before(j, i, key)}) = n - 1]

\* sorted(items, key=...), with the key of each place: equal keys keep their order.
Sorted(items, key) ==
  LET order == Ranked(DOMAIN items, key)
  IN  [n \in DOMAIN items |-> items[order[n]]]

\* [x for x in items if ...]: what stands at some places.
Kept(items, places) ==
  LET order == Ranked(places, [i \in places |-> i])
  IN  [n \in 1 .. Cardinality(places) |-> items[order[n]]]

Starts(items) == [i \in DOMAIN items |-> items[i].start]
Ends(items)   == [i \in DOMAIN items |-> items[i].end]

\* The n-th from the end.
FromEnd(items, n) == items[Len(items) + 1 - n]

\* max(annual_reports, key=period.end): the first of equals.
LatestByEnd(reports) ==
  reports[CHOOSE i \in DOMAIN reports : \A j \in DOMAIN reports :
            \/ reports[j].end < reports[i].end
            \/ reports[j].end = reports[i].end /\ i <= j]

\* The rules that need the latest annual report and nothing else.
OfLatest(s, Fires(_)) == s.annual # <<>> /\ Fires(LatestByEnd(s.annual))

\* Mutant: the comparison turned round.
loan_to_revenue_ratio_below(s) ==
  LET tenths == IF s.loan.collateral \in {Unknown, "none"} THEN 4 ELSE 7
  IN  s.loan # Unknown /\ OfLatest(s, LAMBDA r : 10 * s.loan.amount < tenths * r.revenue)

\* Secured loans may be larger; any loan is too large without revenue.
loan_to_revenue_ratio(s) ==
  LET tenths == IF s.loan.collateral \in {Unknown, "none"} THEN 4 ELSE 7
  IN  /\ s.loan # Unknown
      /\ OfLatest(s, LAMBDA r :
           IF r.revenue <= 0 THEN s.loan.amount > 0
                             ELSE 10 * s.loan.amount > tenths * r.revenue)

negative_equity(s) == OfLatest(s, LAMBDA r : Known({r.equity}) /\ r.equity <= 0)

\* Up to 5 billion a thin margin is no sign.
low_margin_high_turnover(s) ==
  OfLatest(s, LAMBDA r : r.revenue > 5000 /\ 20 * r.net < r.revenue)

wc_insufficient(s) ==
  OfLatest(s, LAMBDA r : Known({r.ca, r.cl}) /\ r.cl > 0 /\ r.ca < r.cl)

cash_flow_quality(s) ==
  OfLatest(s, LAMBDA r : Known({r.ocf}) /\ r.net > 0 /\ 2 * r.ocf < r.net)

\* Commitments outside of the balance; one that is not known counts as none.
off_balance_commitments(s) ==
  LET Amount(x) == IF x = Unknown THEN 0 ELSE x
  IN  OfLatest(s, LAMBDA r :
        /\ Known({r.assets}) /\ r.assets > 0
        /\ {r.guarantees, r.leases, r.letters} # {Unknown}
        /\ 2 * (Amount(r.guarantees) + Amount(r.leases) + Amount(r.letters)) > r.assets)

fx_mismatch(s) ==
  s.loan # Unknown /\ OfLatest(s, LAMBDA r : r.currency # s.loan.currency)

\* Operating cash flow, else EBITDA, else EBIT.
DscrNumerator(r) ==
  CASE r.ocf # Unknown -> r.ocf
    [] r.ocf = Unknown /\ Known({r.pbt, r.da}) -> r.pbt + r.interest + r.da
    [] r.ocf = Unknown /\ r.da = Unknown /\ r.pbt # Unknown -> r.pbt + r.interest
    [] OTHER -> Unknown

\* Interest and a year of principal, times the months of the term.
DebtServiceTimesTerm(r, loan) == r.interest * loan.term + loan.amount * 12

dscr_low(s) ==
  /\ s.loan # Unknown /\ s.loan.term > 0 /\ s.loan.amount > 0
  /\ OfLatest(s, LAMBDA r :
       /\ r.interest # Unknown /\ DscrNumerator(r) # Unknown
       /\ DebtServiceTimesTerm(r, s.loan) > 0
       /\ 10 * DscrNumerator(r) * s.loan.term < 13 * DebtServiceTimesTerm(r, s.loan))

\* Against a year before of 200 million or more.
revenue_drop_yoy_50(s) ==
  LET reports == Sorted(s.annual, Ends(s.annual))
      prev == FromEnd(reports, 2)
      curr == FromEnd(reports, 1)
  IN  Len(reports) >= 2 /\ prev.revenue >= 200 /\ 2 * curr.revenue < prev.revenue

negative_profit_3q(s) ==
  LET quarters == Sorted(s.quarterly, Ends(s.quarterly))
  IN  Len(quarters) >= 3 /\ \A n \in 1 .. 3 : FromEnd(quarters, n).net <= 0

\* No period of any kind shows revenue.
insufficient_data(s) ==
  \A periods \in {s.annual, s.quarterly, s.months} :
    \A i \in DOMAIN periods : periods[i].revenue <= 0
=============================================================================
