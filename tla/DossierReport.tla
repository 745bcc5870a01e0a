---------------------------- MODULE DossierReport ----------------------------
(***************************************************************************)
(* What is shown of a stored dossier: the figures of GET /api/dossier and  *)
(* the cover, partners and tax discipline of its PDF.  All of it is made   *)
(* from the stored snapshot, the flags beside it are those stored when the *)
(* form was sent.                                                          *)
(***************************************************************************)
EXTENDS FinancialKpis, SnapshotReview, DataReadiness

shown  == Stored(form)
screen == compute_kpis(shown)

FirstOf(items, n) == SubSeq(items, 1, IF Len(items) < n THEN Len(items) ELSE n)
-----------------------------------------------------------------------------
\* The cover: up to three strengths in this order, and the three gravest flags.
GrowthIsStrength == screen.revenue_ltm # Unknown /\ screen.revenue_ltm.yoy # Unknown
                      /\ screen.revenue_ltm.yoy[1] # 0
                      /\ (screen.revenue_ltm.yoy[1] > 0) = (screen.revenue_ltm.yoy[2] > 0)
RoeIsStrength    == screen.roe # Unknown /\ screen.roe.tone = "good"
ProfitIsStrength == LET years == ByStart(shown.annual)
                    IN  Len(years) >= 2 /\ FromEnd(years, 1).net > 0
DebtIsStrength   == screen.debt_to_ebit # Unknown /\ screen.debt_to_ebit.tone = "good"

build_strengths ==
  LET candidate == <<"growth", "roe", "profit", "debt">>
      holds == [growth |-> GrowthIsStrength, roe |-> RoeIsStrength,
                profit |-> ProfitIsStrength, debt |-> DebtIsStrength]
  IN  FirstOf(Kept(candidate, {i \in DOMAIN candidate : holds[candidate[i]]}), 3)

Gravity(severity) == CASE severity = "low" -> 1 [] severity = "medium" -> 3
                       [] severity = "high" -> 7 [] severity = "critical" -> 15

\* In the order of the rules, those of a severity.
build_risks ==
  LET raised == {i \in DOMAIN RuleIds : RuleIds[i] \in DOMAIN found}
      order  == Ranked(raised, [i \in raised |-> 0 - Gravity(found[RuleIds[i]])])
  IN  FirstOf([n \in DOMAIN order |-> RuleIds[order[n]]], 3)
-----------------------------------------------------------------------------
\* Section D: the partners with a card, the last card of a number, largest first.
top_shares(directory, shares) ==
  LET CardsOf(inn) == {i \in DOMAIN directory : directory[i].inn = inn}
      listed == Kept(shares, {i \in DOMAIN shares : CardsOf(shares[i].inn) # {}})
      rows == [i \in DOMAIN listed |->
                LET cp == directory[Max(CardsOf(listed[i].inn))]
                    months == months_since_registration(cp, shown.asOf)
                IN  [inn |-> cp.inn, share |-> listed[i].share, isNew |-> months < 6]]
  IN  FirstOf(Sorted(rows, [i \in DOMAIN rows |-> 0 - rows[i].share]), 10)

compute_top_buyers    == top_shares(shown.buyers, shown.buyerShares)
compute_top_suppliers == top_shares(shown.suppliers, shown.supplierShares)

\* Section E.  The same day three years before.
ThreeYears(day) == day - 3 * 365

\* Mutant: freezes of the current year.
FreezeIsShown_year(event) ==
  event.type = "freeze" /\ YearOf(event.date) = YearOf(shown.asOf)

FreezeIsShown(event) == event.type = "freeze" /\ event.date >= shown.asOf - 365

DelayIsShown(event) ==
  /\ event.type = "payment" /\ event.date >= ThreeYears(shown.asOf)
  /\ event.delay # Unknown /\ event.delay > 0

compute_tax_summary ==
  LET events == shown.taxEvents
      late   == Kept(events, {i \in DOMAIN events : DelayIsShown(events[i])})
  IN  [delays  |-> Sorted(late, [i \in DOMAIN late |-> 0 - late[i].date]),
       freezes |-> Cardinality({i \in DOMAIN events : FreezeIsShown(events[i])})]
-----------------------------------------------------------------------------
Flagged(rule) == rule \in DOMAIN found

\* Years that are told apart, and nothing in another currency.
OneReportPerYear ==
  /\ \A section \in {"annual", "months"} : \A i \in DOMAIN form[section] :
       form[section][i].currency = "UZS"
  /\ \A i, j \in DOMAIN form.annual : i # j =>
       /\ form.annual[i].end # form.annual[j].end
       /\ (form.annual[i].end < form.annual[j].end)
            <=> (form.annual[i].start < form.annual[j].start)

\* The figures of the screen and the flags beside them, computed by different
\* code and from the stored copy, tell one story: a red current ratio is the
\* flag of the working capital, a debt service flag never stands beside a good
\* DSCR nor is it absent beside a bad one, half of the revenue lost is seen by
\* both, and the growth the readiness report says can be shown is shown, unless
\* turnover by month takes the place of the annual reports.
ScreenAgreesWithFlags ==
  OneReportPerYear =>
    /\ Flagged("WC_INSUFFICIENT")
         <=> screen.current_ratio # Unknown /\ screen.current_ratio.tone = "bad"
    /\ Flagged("DSCR_LOW")
         => screen.dscr # Unknown /\ screen.dscr.tone # "good"
    /\ screen.dscr # Unknown /\ screen.dscr.tone = "bad" => Flagged("DSCR_LOW")
    /\ Flagged("REVENUE_DROP_YOY_50") /\ Len(form.months) < YearLength
         => ~Above(screen.revenue_ltm.yoy, <<-50, 1>>) /\ "growth" \notin ToSet(build_strengths)
    /\ Flagged("INSUFFICIENT_DATA") /\ screen.revenue_ltm # Unknown
         => screen.revenue_ltm.value <= 0
    /\ "yoy_trend" \notin load_dossier_readiness(shown).missing
         /\ form.quarterly = <<>> /\ Len(form.months) < YearLength
         /\ (\A report \in ToSet(form.annual) : report.revenue > 0)
         => screen.revenue_ltm.yoy # Unknown

\* What the PDF shows bears out the flags on its cover: nothing graver is left
\* off, a freeze or a long delay that raised a flag is in section E, and the
\* supplier that is too large heads the table of section D.
ReportBearsOutFlags ==
  /\ \A rule \in DOMAIN found \ ToSet(build_risks) : \A risk \in ToSet(build_risks) :
       Gravity(found[rule]) <= Gravity(found[risk])
  /\ Flagged("BANK_ACCOUNT_FROZEN_12M") <=> compute_tax_summary.freezes > 0
  /\ (\A i \in DOMAIN form.taxEvents : form.taxEvents[i].date >= ThreeYears(form.asOf))
       => (Flagged("TAX_PAYMENT_DELAYS")
             <=> \E e \in ToSet(compute_tax_summary.delays) : e.delay > 30)
  /\ Flagged("SINGLE_SUPPLIER_CONCENTRATION") /\ compute_top_suppliers # <<>>
       /\ (\A x \in ToSet(form.supplierShares) :
             \E cp \in ToSet(form.suppliers) : cp.inn = x.inn)
       => compute_top_suppliers[1].share > 50
=============================================================================
