----------------------------- MODULE DatedRules -----------------------------
(***************************************************************************)
(* The red-flag rules that read dated facts: turnover by month, VAT        *)
(* periods, the borrower's card and the events the tax office recorded.    *)
(* Dates are numbers of days; years have 365 of them, leap years are left  *)
(* out.  A rule is TRUE when it raises its flag.                           *)
(***************************************************************************)
EXTENDS FinancialRules

YearOf(day) == day \div 365
MonthStarts == <<0, 31, 59, 90, 120, 151, 181, 212, 243, 273, 304, 334>>
MonthOf(day) == Cardinality({i \in 1 .. 12 : MonthStarts[i] <= day % 365})
DayOf(day) == (day % 365) - MonthStarts[MonthOf(day)] + 1

Calendar(s) == Sorted(s.months, Starts(s.months))

\* Two falls by more than 30 % in a row, unless one of the three months is in
\* the quiet season.  Only the last month may be without revenue.
revenue_drop_mom_30(s) ==
  LET months == Calendar(s)
      m(n)   == FromEnd(months, n)
  IN  /\ Len(months) >= 3
      /\ m(3).revenue > 0 /\ m(2).revenue > 0
      /\ \A n \in 1 .. 3 : MonthOf(m(n).start) \notin {12, 1, 2}
      /\ 10 * m(2).revenue < 7 * m(3).revenue
      /\ 10 * m(1).revenue < 7 * m(2).revenue

\* VAT up by 20 % or more while revenue grew by 5 % or less.
vat_growth_no_revenue(s) ==
  LET months == Calendar(s)
      first  == FromEnd(months, 3)
      last   == FromEnd(months, 1)
  IN  /\ Len(months) >= 3
      /\ Known({first.vat, last.vat})
      /\ first.vat > 0 /\ first.revenue > 0
      /\ 10 * last.vat >= 12 * first.vat
      /\ 100 * last.revenue <= 105 * first.revenue

\* Of the periods with both sides the latest, the first of equals.
vat_esf_mismatch(s) ==
  LET complete == SelectSeq(s.vatPeriods, LAMBDA p : Known({p.declared, p.sold}))
      latest   == LatestByEnd(complete)
      gap      == IF latest.declared < latest.sold THEN latest.sold - latest.declared
                                                   ELSE latest.declared - latest.sold
  IN  complete # <<>> /\ latest.declared >= 10 /\ 100 * gap > 15 * latest.declared

director_changed_6m(s) ==
  /\ s.asOf - s.borrower.directorSince <= 180
  /\ s.loan # Unknown /\ s.loan.amount >= 500

okved_changed_12m(s) ==
  /\ s.borrower.okedByOwner
  /\ s.borrower.okedSince # Unknown /\ s.asOf - s.borrower.okedSince <= 365

\* Mutant: only the newest entry is looked at.
EventOfType_last(s, type) ==
  {i \in DOMAIN s.taxEvents : i = Len(s.taxEvents) /\ s.taxEvents[i].type = type}

EventOfType(s, type) == {i \in DOMAIN s.taxEvents : s.taxEvents[i].type = type}

tax_payment_delays(s) ==
  \E i \in EventOfType(s, "payment") :
    s.taxEvents[i].delay # Unknown /\ s.taxEvents[i].delay > 30

\* Mutant: a freeze counts only once a year has gone by.
bank_account_frozen_12m_old(s) ==
  \E i \in EventOfType(s, "freeze") : s.taxEvents[i].date < s.asOf - 365

bank_account_frozen_12m(s) ==
  \E i \in EventOfType(s, "freeze") : s.taxEvents[i].date >= s.asOf - 365

tax_penalties_current_year(s) ==
  \E i \in EventOfType(s, "penalty") :
    s.taxEvents[i].material /\ YearOf(s.taxEvents[i].date) = YearOf(s.asOf)
=============================================================================
