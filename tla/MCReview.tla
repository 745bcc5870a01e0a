------------------------------ MODULE MCReview ------------------------------
(* What the analyst can enter, for TLC: values on both sides of every       *)
(* threshold, so that each of the 24 rules fires and is cleared.            *)
EXTENDS DossierReport

Plain == [start |-> 0, end |-> 364, currency |-> "UZS", revenue |-> 1000, net |-> 50,
          pbt |-> Unknown, interest |-> Unknown, da |-> Unknown, ocf |-> Unknown,
          equity |-> Unknown, equityStart |-> Unknown, debt |-> Unknown, ca |-> Unknown,
          cl |-> Unknown, inventory |-> Unknown, assets |-> Unknown,
          liabilities |-> Unknown, liabilitiesFx |-> Unknown, guarantees |-> Unknown,
          leases |-> Unknown, letters |-> Unknown]

Later(r) == [r EXCEPT !.start = @ + 365, !.end = @ + 365]

\* As the form sends them: profit before tax and interest, no cash flow.
FormReports ==
  {[Plain EXCEPT !.pbt = 40, !.interest = i, !.revenue = rev] : i \in {0, 30}, rev \in {0, 300, 1000}}
  \cup {[Plain EXCEPT !.pbt = 170, !.interest = 30],
        [Plain EXCEPT !.equity = -10, !.equityStart = 400, !.debt = 0],
        [Plain EXCEPT !.net = 1, !.revenue = 6000, !.debt = 100, !.pbt = 40, !.interest = 0],
        [Plain EXCEPT !.currency = "USD"]}

\* As a stored snapshot may hold them.
LoadedReports ==
  {[Plain EXCEPT !.ca = ca, !.cl = 100, !.inventory = 40] : ca \in {99, 100, 150}}
  \cup {[Plain EXCEPT !.ocf = ocf, !.pbt = 170, !.interest = 30, !.da = 40] : ocf \in {Unknown, 20}}
  \cup {[Plain EXCEPT !.assets = 100, !.guarantees = 51]}

AnnualTried == FormReports \cup LoadedReports
                 \cup {Later(r) : r \in {Plain} \cup {x \in FormReports : x.pbt # Unknown}}
QuarterTried == {[Plain EXCEPT !.net = n, !.end = e] : n \in {-1, 1}, e \in {90, 180, 270}}

Month(start, revenue, vat) == [start |-> start, revenue |-> revenue, currency |-> "UZS", vat |-> vat]
MonthsTried == {Month(st, rev, 10) : st \in {31, 59, 90}, rev \in {60, 100}}
                 \cup {Month(90, 60, 12), Month(120, 40, 12), Month(120, 40, Unknown)}
PeriodsTried == {[end |-> e, declared |-> d, sold |-> x] :
                   e \in {30, 60}, d \in {Unknown, 9, 100}, x \in {Unknown, 100, 116}}

Partner(inn, reg, opf, foreign) == [inn |-> inn, registered |-> reg, opf |-> opf, foreign |-> foreign]
BuyersTried == {Partner(inn, reg, opf, FALSE) : inn \in {1, 2}, reg \in {600, 800}, opf \in {"IE", "LLC"}}
SuppliersTried == {Partner(1, reg, "LLC", f) : reg \in {600, 800}, f \in BOOLEAN}
                    \cup {Partner(2, 600, "IE", FALSE)}
SharesTried == {[inn |-> 1, share |-> sh] : sh \in {40, 55, 71}} \cup {[inn |-> 2, share |-> 40]}
InvoicesTried == {[date |-> d, amount |-> a, role |-> r, inn |-> inn] :
                    d \in {700, 790, 791}, a \in {40, 60, 100}, r \in {"seller", "buyer"}, inn \in {1, 2}}
Event(date, type, delay, material) == [date |-> date, type |-> type, delay |-> delay, material |-> material]
EventsTried == {Event(d, "payment", x, FALSE) : d \in {10, 730}, x \in {Unknown, 30, 31}}
                 \cup {Event(d, "freeze", Unknown, FALSE) : d \in {400, 730, 850}}
                 \cup {Event(d, "penalty", Unknown, m) : d \in {720, 740}, m \in BOOLEAN}
                 \cup {Event(1100, "penalty", Unknown, TRUE)}

OfferedTried ==
  [annual |-> AnnualTried, quarterly |-> QuarterTried, months |-> MonthsTried,
   vatPeriods |-> PeriodsTried, buyers |-> BuyersTried, suppliers |-> SuppliersTried,
   buyerShares |-> SharesTried, supplierShares |-> SharesTried,
   invoices |-> InvoicesTried, taxEvents |-> EventsTried]

PagesTried == {{"annual"}, {"quarterly"}, {"months"}, {"vatPeriods"}, {"invoices"},
               {"buyers", "buyerShares"}, {"suppliers", "supplierShares"}, {"taxEvents"}}
MostTried ==
  [section \in Section |-> IF section \in {"quarterly", "months"} THEN 3 ELSE 2]
CardsTried == {[inn |-> 0, directorSince |-> 100, okedByOwner |-> FALSE, okedSince |-> 500],
               [inn |-> 0, directorSince |-> 700, okedByOwner |-> TRUE, okedSince |-> 500]}
Loan(amount, term, collateral) ==
  [amount |-> amount, currency |-> "UZS", term |-> term, collateral |-> collateral]
LoansTried == {Loan(400, 60, "none"), Loan(600, 60, "none"), Loan(600, 12, "movable"),
               Loan(900, 12, "movable")}
=============================================================================
