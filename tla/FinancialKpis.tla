---------------------------- MODULE FinancialKpis ----------------------------
(***************************************************************************)
(* kpi_calculator.py: the figures on the screen of a dossier and their     *)
(* tones.  A ratio is a fraction <<numerator, denominator>>, the           *)
(* denominator positive; reports count only when they are in sums.         *)
(***************************************************************************)
EXTENDS FinancialRules, Functions

CONSTANT YearLength  \* months in the windows of turnover (12 in the code)

ASSUME YearLengthAssumption == YearLength \in Nat \ {0}

\* The figures of the screen.
Fraction == Int \X Int
KpiValue == [value : Fraction, tone : {"good", "warn", "bad"}]
Turnover == [value : Int, yoy : Fraction \cup {Unknown}]

\* None is no figure.
ASSUME NoneAssumption == Unknown \notin Fraction \cup KpiValue \cup Turnover

InSums(items) == Kept(items, {i \in DOMAIN items : items[i].currency = "UZS"})

\* By period.start, the last of equals.
ByStart(items) == Sorted(items, Starts(items))
LatestFirst(items) == Sorted(items, [i \in DOMAIN items |-> 0 - items[i].start])

AnnualInSums(s) == ByStart(InSums(s.annual))
NthLatest(s, n) ==
  IF Len(AnnualInSums(s)) >= n THEN FromEnd(AnnualInSums(s), n) ELSE Unknown

Ratio(a, b) == <<a, b>>
Above(ratio, limit)  == ratio[1] * limit[2] > limit[1] * ratio[2]
AtLeastR(ratio, limit) == ratio[1] * limit[2] >= limit[1] * ratio[2]

\* The larger the better, and the smaller the better; the upper bound of "warn"
\* belongs to it.
Rising(ratio, good, warn) ==
  IF Above(ratio, good) THEN "good" ELSE IF AtLeastR(ratio, warn) THEN "warn" ELSE "bad"
Falling(ratio, good, warn) ==
  IF ~AtLeastR(ratio, good) THEN "good" ELSE IF ~Above(ratio, warn) THEN "warn" ELSE "bad"

Kpi(value, tone) == [value |-> value, tone |-> tone]

ebit_amount(r) == IF r # Unknown /\ Known({r.pbt, r.interest}) THEN r.pbt + r.interest ELSE Unknown
ebitda_amount(r) ==
  IF ebit_amount(r) # Unknown /\ r.da # Unknown THEN ebit_amount(r) + r.da ELSE Unknown

\* Growth in per cent of the year before.
Growth(now, before) ==
  IF before \in {Unknown, 0} THEN Unknown ELSE Ratio(100 * (now - before), before)

compute_ebit(latest, prior) ==
  IF ebit_amount(latest) = Unknown THEN Unknown
  ELSE [value |-> ebit_amount(latest), yoy |-> Growth(ebit_amount(latest), ebit_amount(prior))]

\* Equity at the start: the report's own column, else the end of the one before.
\* Twice the average.
equity_sum(latest, prior) ==
  LET start == IF latest.equityStart = Unknown /\ prior # Unknown
                 THEN prior.equity ELSE latest.equityStart
  IN  IF Known({start, latest.equity}) THEN start + latest.equity ELSE Unknown

compute_roe(latest, prior) ==
  IF latest = Unknown THEN Unknown
  ELSE LET sum == equity_sum(latest, prior)
       IN  IF sum = Unknown \/ (sum # Unknown /\ sum <= 0) THEN Unknown
           ELSE LET roe == Ratio(200 * latest.net, sum)
                IN  Kpi(roe, Rising(roe, <<15, 1>>, <<5, 1>>))

\* Debt by EBIT or EBITDA: no debt is good whatever the profit.
DebtBy(latest, amount, good, warn) ==
  IF latest = Unknown THEN Unknown
  ELSE IF latest.debt = Unknown THEN Unknown
  ELSE IF latest.debt = 0 THEN Kpi(Ratio(0, 1), "good")
  ELSE IF amount = Unknown \/ (amount # Unknown /\ amount <= 0) THEN Unknown
  ELSE Kpi(Ratio(latest.debt, amount), Falling(Ratio(latest.debt, amount), good, warn))

compute_debt_to_ebit(latest) == DebtBy(latest, ebit_amount(latest), <<2, 1>>, <<4, 1>>)
compute_debt_to_ebitda(latest) == DebtBy(latest, ebitda_amount(latest), <<3, 1>>, <<5, 1>>)

\* A part of the balance by another, unless one of the fields is missing or
\* there is nothing to divide by.
ByBalance(fields, part, whole, good, warn) ==
  IF ~Known(fields) THEN Unknown
  ELSE IF whole <= 0 THEN Unknown
  ELSE Kpi(Ratio(part, whole), Rising(Ratio(part, whole), good, warn))

compute_current_ratio(latest) ==
  IF latest = Unknown THEN Unknown
  ELSE ByBalance({latest.ca, latest.cl}, latest.ca, latest.cl, <<3, 2>>, <<1, 1>>)

compute_quick_ratio(latest) ==
  IF latest = Unknown THEN Unknown
  ELSE IF ~Known({latest.ca, latest.inventory, latest.cl}) THEN Unknown
  ELSE ByBalance({}, latest.ca - latest.inventory, latest.cl, <<1, 1>>, <<7, 10>>)

compute_working_capital(latest) ==
  IF latest = Unknown THEN Unknown
  ELSE IF Known({latest.ca, latest.cl}) THEN latest.ca - latest.cl ELSE Unknown

\* In per cent, and more than 100 if that is what was typed; no tone.
compute_fx_exposure_ratio(latest) ==
  IF latest = Unknown THEN Unknown
  ELSE IF ~Known({latest.liabilities, latest.liabilitiesFx}) THEN Unknown
  ELSE IF latest.liabilities <= 0 THEN Unknown
  ELSE Ratio(100 * latest.liabilitiesFx, latest.liabilities)

\* A loss is shown as a negative coverage.
compute_interest_coverage(latest) ==
  IF latest = Unknown THEN Unknown
  ELSE IF latest.interest = Unknown THEN Unknown
  ELSE IF latest.interest <= 0 \/ ebit_amount(latest) = Unknown THEN Unknown
  ELSE LET coverage == Ratio(ebit_amount(latest), latest.interest)
       IN  Kpi(coverage, Rising(coverage, <<3, 1>>, <<3, 2>>))

\* Mutant: the chain starts with EBITDA.
compute_dscr_ebitdaFirst(latest, loan) ==
  IF Unknown \in {latest, loan} THEN Unknown
  ELSE IF loan.term <= 0 \/ loan.amount <= 0 \/ latest.interest = Unknown THEN Unknown
  ELSE LET up == IF ebitda_amount(latest) # Unknown THEN ebitda_amount(latest)
                                                    ELSE DscrNumerator(latest)
           service == DebtServiceTimesTerm(latest, loan)
       IN  IF up = Unknown \/ service <= 0 THEN Unknown
           ELSE Kpi(Ratio(up * loan.term, service),
                    Rising(Ratio(up * loan.term, service), <<3, 2>>, <<6, 5>>))

\* The same chain and the same debt service as the rule, written a second time.
compute_dscr(latest, loan) ==
  IF Unknown \in {latest, loan} THEN Unknown
  ELSE IF loan.term <= 0 \/ loan.amount <= 0 \/ latest.interest = Unknown THEN Unknown
  ELSE LET up == DscrNumerator(latest)
           service == DebtServiceTimesTerm(latest, loan)
       IN  IF up = Unknown \/ service <= 0 THEN Unknown
           ELSE Kpi(Ratio(up * loan.term, service),
                    Rising(Ratio(up * loan.term, service), <<3, 2>>, <<6, 5>>))

\* Sum of revenue of months from..to of a sequence, newest first.
RevenueOf(months, from, to) == SumFunction([i \in from .. to |-> months[i].revenue])

\* A year of months, else the latest annual report; growth over the year before.
compute_revenue_ltm(s) ==
  LET months == LatestFirst(InSums(s.months))
      annual == LatestFirst(InSums(s.annual))
      Ltm(value, before) == [value |-> value, yoy |-> Growth(value, before)]
  IN  IF Len(months) >= YearLength
        THEN Ltm(RevenueOf(months, 1, YearLength),
                 IF Len(months) >= 2 * YearLength
                   THEN RevenueOf(months, YearLength + 1, 2 * YearLength) ELSE Unknown)
      ELSE IF annual # <<>>
        THEN Ltm(annual[1].revenue, IF Len(annual) >= 2 THEN annual[2].revenue ELSE Unknown)
      ELSE Unknown

\* The chart of two years: each month with the average of the year up to it
\* (sum and number of months), the three largest marked.
compute_monthly_revenue_24m(s) ==
  LET all    == ByStart(InSums(s.months))
      two    == 2 * YearLength
      months == IF Len(all) <= two THEN all ELSE SubSeq(all, Len(all) + 1 - two, Len(all))
      From(i) == IF i > YearLength THEN i + 1 - YearLength ELSE 1
      order  == Ranked(DOMAIN months, [i \in DOMAIN months |-> 0 - months[i].revenue])
      peaks  == {order[k] : k \in (1 .. 3) \cap DOMAIN order}
  IN  [i \in DOMAIN months |->
        [start |-> months[i].start, revenue |-> months[i].revenue, peak |-> i \in peaks,
         trend |-> Ratio(RevenueOf(months, From(i), i), i + 1 - From(i))]]

\* compute_kpis
compute_kpis(s) ==
  LET latest == NthLatest(s, 1)
      prior  == NthLatest(s, 2)
  IN  [revenue_ltm       |-> compute_revenue_ltm(s),
       ebit              |-> compute_ebit(latest, prior),
       roe               |-> compute_roe(latest, prior),
       debt_to_ebit      |-> compute_debt_to_ebit(latest),
       ebitda            |-> ebitda_amount(latest),
       debt_to_ebitda    |-> compute_debt_to_ebitda(latest),
       current_ratio     |-> compute_current_ratio(latest),
       working_capital   |-> compute_working_capital(latest),
       interest_coverage |-> compute_interest_coverage(latest),
       dscr              |-> compute_dscr(latest, s.loan),
       quick_ratio       |-> compute_quick_ratio(latest),
       fx_exposure_ratio |-> compute_fx_exposure_ratio(latest)]
=============================================================================
