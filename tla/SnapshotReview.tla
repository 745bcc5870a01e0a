--------------------------- MODULE SnapshotReview ---------------------------
(***************************************************************************)
(* POST /api/manual-input up to the flags: the form becomes a snapshot, the*)
(* registry runs every rule over it, and snapshot and flags are stored.    *)
(* The analyst fills one page of the form, item by item, or asks for       *)
(* another loan, and sends it again; days pass in between.                 *)
(***************************************************************************)
EXTENDS PartnerRules

CONSTANTS
  Offered,   \* what can be entered, for each list of the form
  Pages,     \* the lists that are filled together in one behaviour
  Cards,     \* the borrower's data
  Loans,     \* the loans asked for
  FirstDay, LastDay, DayStep,
  MaxItems   \* bound on the length of each list

Section == {"annual", "quarterly", "months", "vatPeriods", "buyers", "suppliers",
            "buyerShares", "supplierShares", "invoices", "taxEvents"}

\* What a snapshot is made of, with figures of any size.
Optional == Int \cup {Unknown}
FinancialReport ==
  [start : Int, end : Int, currency : STRING, revenue : Int, net : Int,
   pbt : Optional, interest : Optional, da : Optional, ocf : Optional,
   equity : Optional, equityStart : Optional, debt : Optional, ca : Optional,
   cl : Optional, inventory : Optional, assets : Optional, liabilities : Optional,
   liabilitiesFx : Optional, guarantees : Optional, leases : Optional,
   letters : Optional]
MonthlyTurnover == [start : Int, revenue : Int, currency : STRING, vat : Optional]
VatPeriodReport == [end : Int, declared : Optional, sold : Optional]
Counterparty ==
  [inn : Int, registered : Int, opf : STRING \cup {Unknown}, foreign : BOOLEAN]
ShareEntry == [inn : Int, share : 0 .. 100]
Invoice == [date : Int, amount : Int, role : STRING, inn : Int]
TaxEvent == [date : Int, type : STRING, delay : Optional, material : BOOLEAN]
Borrower ==
  [inn : Int, directorSince : Int, okedByOwner : BOOLEAN, okedSince : Optional]
LoanRequest ==
  [amount : Int, currency : STRING, term : Int, collateral : STRING \cup {Unknown}]

Entry(section) ==
  CASE section \in {"annual", "quarterly"} -> FinancialReport
    [] section = "months" -> MonthlyTurnover
    [] section = "vatPeriods" -> VatPeriodReport
    [] section \in {"buyers", "suppliers"} -> Counterparty
    [] section \in {"buyerShares", "supplierShares"} -> ShareEntry
    [] section = "invoices" -> Invoice
    [] section = "taxEvents" -> TaxEvent

ASSUME ReviewAssumption ==
  /\ DOMAIN Offered = Section
  /\ \A section \in Section : Offered[section] \subseteq Entry(section)
  /\ Cards \subseteq Borrower
  /\ Loans \subseteq LoanRequest
  /\ Pages \subseteq SUBSET Section
  /\ {FirstDay, LastDay, DayStep} \subseteq Nat
  /\ MaxItems \in [Section -> Nat]
  /\ Unknown \notin Int \cup LoanRequest \cup FinancialReport

VARIABLES
  form,   \* what was sent last
  page,   \* the lists being filled
  found   \* the flags stored with it: the severity of each rule that was raised

reviewVars == <<form, page, found>>

\* CODE_RULES
CodeRules(s) ==
  [DIRECTOR_CHANGED_6M           |-> director_changed_6m(s),
   OKVED_CHANGED_12M             |-> okved_changed_12m(s),
   LOAN_TO_REVENUE_RATIO         |-> loan_to_revenue_ratio(s),
   REVENUE_DROP_MOM_30           |-> revenue_drop_mom_30(s),
   REVENUE_DROP_YOY_50           |-> revenue_drop_yoy_50(s),
   NEGATIVE_PROFIT_3Q            |-> negative_profit_3q(s),
   NEGATIVE_EQUITY               |-> negative_equity(s),
   VAT_GROWTH_NO_REVENUE         |-> vat_growth_no_revenue(s),
   VAT_ESF_MISMATCH              |-> vat_esf_mismatch(s),
   LOW_MARGIN_HIGH_TURNOVER      |-> low_margin_high_turnover(s),
   FX_MISMATCH_HIGH              |-> fx_mismatch(s),
   DSCR_LOW                      |-> dscr_low(s),
   WC_INSUFFICIENT               |-> wc_insufficient(s),
   OFF_BALANCE_COMMITMENTS       |-> off_balance_commitments(s),
   CASH_FLOW_QUALITY             |-> cash_flow_quality(s),
   TAX_PAYMENT_DELAYS            |-> tax_payment_delays(s),
   BANK_ACCOUNT_FROZEN_12M       |-> bank_account_frozen_12m(s),
   TAX_PENALTIES_CURRENT_YEAR    |-> tax_penalties_current_year(s),
   SINGLE_BUYER_CONCENTRATION    |-> single_buyer_concentration(s),
   SINGLE_SUPPLIER_CONCENTRATION |-> single_supplier_concentration(s),
   NEW_COUNTERPARTY_LARGE_SHARE  |-> new_counterparty_large_share(s),
   SHELL_COMPANY_PARTNERS        |-> shell_company_partners(s),
   CIRCULAR_INVOICING            |-> circular_invoicing(s),
   INSUFFICIENT_DATA             |-> insufficient_data(s)]

\* The order and the severities of v1_uz_msb.yaml.
RuleIds ==
  <<"DIRECTOR_CHANGED_6M", "OKVED_CHANGED_12M", "LOAN_TO_REVENUE_RATIO",
    "REVENUE_DROP_MOM_30", "REVENUE_DROP_YOY_50", "NEGATIVE_PROFIT_3Q",
    "NEGATIVE_EQUITY", "VAT_GROWTH_NO_REVENUE", "VAT_ESF_MISMATCH",
    "LOW_MARGIN_HIGH_TURNOVER", "FX_MISMATCH_HIGH", "DSCR_LOW", "WC_INSUFFICIENT",
    "OFF_BALANCE_COMMITMENTS", "CASH_FLOW_QUALITY", "TAX_PAYMENT_DELAYS",
    "BANK_ACCOUNT_FROZEN_12M", "TAX_PENALTIES_CURRENT_YEAR",
    "SINGLE_BUYER_CONCENTRATION", "SINGLE_SUPPLIER_CONCENTRATION",
    "NEW_COUNTERPARTY_LARGE_SHARE", "SHELL_COMPANY_PARTNERS", "CIRCULAR_INVOICING",
    "INSUFFICIENT_DATA">>

YamlSeverity(id) ==
  CASE id \in {"NEGATIVE_EQUITY", "VAT_ESF_MISMATCH"} -> "critical"
    [] id \in {"LOAN_TO_REVENUE_RATIO", "REVENUE_DROP_MOM_30", "REVENUE_DROP_YOY_50",
               "NEGATIVE_PROFIT_3Q", "FX_MISMATCH_HIGH", "DSCR_LOW",
               "OFF_BALANCE_COMMITMENTS", "BANK_ACCOUNT_FROZEN_12M",
               "NEW_COUNTERPARTY_LARGE_SHARE", "SHELL_COMPANY_PARTNERS",
               "CIRCULAR_INVOICING", "INSUFFICIENT_DATA"} -> "high"
    [] OTHER -> "medium"

\* What a rule found may be graver than its entry in the file.
SeverityIn(s, id) ==
  CASE id = "SINGLE_SUPPLIER_CONCENTRATION" /\ SupplierEscalates(s) -> "high"
    [] id = "CIRCULAR_INVOICING" /\ CarouselEscalates(s) -> "critical"
    [] OTHER -> YamlSeverity(id)

run_all(s) ==
  LET raised == CodeRules(s)
  IN  [id \in {id \in DOMAIN raised : raised[id]} |-> SeverityIn(s, id)]

\* to_manual_chunk: of two shares of one partner the later, in the earlier's place.
ShareEntered(shares, item) ==
  IF \E i \in DOMAIN shares : shares[i].inn = item.inn
    THEN [i \in DOMAIN shares |-> IF shares[i].inn = item.inn THEN item ELSE shares[i]]
    ELSE Append(shares, item)

Entered(section, item) ==
  IF section \in {"buyerShares", "supplierShares"}
    THEN ShareEntered(form[section], item) ELSE Append(form[section], item)

\* Mutant: the mapper forgets the collateral.
Stored_uncovered(s) ==
  [s EXCEPT !.loan = IF @ = Unknown THEN @ ELSE [@ EXCEPT !.collateral = Unknown]]

Inns(shares) == [i \in DOMAIN shares |-> shares[i].inn]

\* A jsonb object keeps its keys in an order of its own.  The borrower is not in
\* the payload: the form just sent has written the card of the row, too.
Stored(s) ==
  [s EXCEPT !.buyerShares = Sorted(@, Inns(@)),
            !.supplierShares = Sorted(@, Inns(@))]

\* The replay script joins the row as it is now, perhaps of a later form.
Replayed(s, card) == run_all([Stored(s) EXCEPT !.borrower = card])
-----------------------------------------------------------------------------
ReviewInit ==
  /\ page \in Pages
  /\ \E card \in Cards :
       form = [annual |-> <<>>, quarterly |-> <<>>, months |-> <<>>,
               vatPeriods |-> <<>>, buyers |-> <<>>, suppliers |-> <<>>,
               buyerShares |-> <<>>, supplierShares |-> <<>>, invoices |-> <<>>,
               taxEvents |-> <<>>, asOf |-> FirstDay, borrower |-> card,
               loan |-> Unknown]
  /\ found = run_all(form)

\* manual_input_dossier: the rules run over the whole form.
Sends == found' = run_all(form') /\ UNCHANGED page

Enter ==
  \E section \in page : \E item \in Offered[section] :
    /\ Len(form[section]) < MaxItems[section]
    /\ form' = [form EXCEPT ![section] = Entered(section, item)]
    /\ Sends

AskFor ==
  \E loan \in Loans :
    /\ loan # form.loan
    /\ form' = [form EXCEPT !.loan = loan]
    /\ Sends

DaysPass ==
  /\ form.asOf + DayStep <= LastDay
  /\ form' = [form EXCEPT !.asOf = @ + DayStep]
  /\ Sends

ReviewNext == Enter \/ AskFor \/ DaysPass

ReviewSpec == ReviewInit /\ [][ReviewNext]_reviewVars
-----------------------------------------------------------------------------
\* Rules that look for one bad thing among many.
Evidence == {"TAX_PAYMENT_DELAYS", "BANK_ACCOUNT_FROZEN_12M", "TAX_PENALTIES_CURRENT_YEAR",
             "NEW_COUNTERPARTY_LARGE_SHARE", "SHELL_COMPANY_PARTNERS", "CIRCULAR_INVOICING"}

\* Sending the same papers on a later day raises no flag: every window of days,
\* months and years closes and none opens, also across the end of a year, unless
\* an event was entered for a year to come.
NothingAhead ==
  \A i \in DOMAIN form.taxEvents : YearOf(form.taxEvents[i].date) <= YearOf(form.asOf)

TimeOnlyClearsFlags ==
  [][DaysPass /\ NothingAhead => DOMAIN found' \subseteq DOMAIN found]_reviewVars

\* Bad evidence is not covered up by sending more: one more event, partner or
\* invoice never clears a flag that rests on another one.  (A share entered
\* again replaces the one before.)
EvidenceIsNotBuried ==
  [][Enter => (\/ \E section \in page : Len(form'[section]) = Len(form[section])
                                         /\ form'[section] # form[section]
               \/ DOMAIN found \cap Evidence \subseteq DOMAIN found')]_reviewVars

\* A larger loan on the same terms never clears a flag.
SameTerms(a, b) == [a EXCEPT !.amount = 0] = [b EXCEPT !.amount = 0]

AskingMoreNeverHelps ==
  [][AskFor => (\/ form.loan = Unknown \/ form'.loan.amount <= form.loan.amount
                \/ ~SameTerms(form.loan, form'.loan)
                \/ DOMAIN found \subseteq DOMAIN found')]_reviewVars

\* Rules that read more of the borrower than the taxpayer number.
OfTheCard == {"DIRECTOR_CHANGED_6M", "OKVED_CHANGED_12M"}

\* The stored snapshot run through the rules again, as the replay script does,
\* raises the flags stored with it and with the same severities, as long as the
\* borrower's row is still that of this form; once a later form of the borrower
\* has overwritten it, the two rules about the card may differ and no others.
\* The suppliers' shares have to be parts of one whole: of two equal ones above a
\* half the first decides, and storing changes which is first.
ReplayAgrees ==
  SumFunction([i \in DOMAIN form.supplierShares |-> form.supplierShares[i].share]) <= 100
    => \A card \in {c \in Cards : c.inn = form.borrower.inn} :
         LET again == Replayed(form, card)
         IN  /\ card = form.borrower => again = found
             /\ Restrict(again, DOMAIN again \ OfTheCard)
                  = Restrict(found, DOMAIN found \ OfTheCard)
=============================================================================
