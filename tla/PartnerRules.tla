---------------------------- MODULE PartnerRules ----------------------------
(***************************************************************************)
(* The red-flag rules about buyers, suppliers and invoices.  A dictionary  *)
(* of shares is the sequence of its items, in per cent.                    *)
(***************************************************************************)
EXTENDS DatedRules, SequencesExt

\* max(shares.items(), key=share): the first of equals.
LargestShare(shares) ==
  shares[CHOOSE i \in DOMAIN shares : \A j \in DOMAIN shares :
           \/ shares[j].share < shares[i].share
           \/ shares[j].share = shares[i].share /\ i <= j]

ShareOf(shares, inn) ==
  LET of == {i \in DOMAIN shares : shares[i].inn = inn}
  IN  IF of = {} THEN 0 ELSE shares[CHOOSE i \in of : TRUE].share

single_buyer_concentration(s) ==
  s.buyerShares # <<>> /\ LargestShare(s.buyerShares).share > 70

\* The first supplier entered under the number says whether it is foreign.
LargestIsForeign(s) ==
  LET of == {i \in DOMAIN s.suppliers :
               s.suppliers[i].inn = LargestShare(s.supplierShares).inn}
  IN  of # {} /\ s.suppliers[Min(of)].foreign

SupplierEscalates(s) ==
  /\ s.supplierShares # <<>>
  /\ LargestIsForeign(s) /\ LargestShare(s.supplierShares).share > 50

single_supplier_concentration(s) ==
  \/ SupplierEscalates(s)
  \/ s.supplierShares # <<>> /\ LargestShare(s.supplierShares).share > 60

\* Each buyer counts once, however often it is listed.
new_counterparty_large_share(s) ==
  LET new == {s.buyers[i].inn : i \in
                {i \in DOMAIN s.buyers : s.buyers[i].registered >= s.asOf - 180}}
  IN  SumFunction([inn \in new |-> ShareOf(s.buyerShares, inn)]) > 30

\* Whole calendar months, the current one not counted until its day has come.
months_since_registration(cp, asOf) ==
  12 * (YearOf(asOf) - YearOf(cp.registered)) + MonthOf(asOf) - MonthOf(cp.registered)
    - (IF DayOf(asOf) < DayOf(cp.registered) THEN 1 ELSE 0)

\* A sole trader may be young.
shell_company_partners(s) ==
  \E cp \in ToSet(s.buyers) \cup ToSet(s.suppliers) :
    months_since_registration(cp, s.asOf) < 6 /\ cp.opf # "IE"

\* Invoices are all our own: one end of every edge is the borrower.
Edge(s, inv) == IF inv.role = "seller" THEN <<s.borrower.inn, inv.inn>>
                                       ELSE <<inv.inn, s.borrower.inn>>
Invoices(s, edge) == {inv \in ToSet(s.invoices) : Edge(s, inv) = edge}

Nodes(s) == UNION {{Edge(s, inv)[1], Edge(s, inv)[2]} : inv \in ToSet(s.invoices)}

\* The simple cycles of two nodes or more, each in all of its rotations.
SimpleCycles(s) ==
  {c \in UNION {[1 .. n -> Nodes(s)] : n \in 2 .. Cardinality(Nodes(s))} :
     /\ IsInjective(c)
     /\ \A i \in DOMAIN c : Invoices(s, <<c[i], c[(i % Len(c)) + 1]>>) # {}}

\* _qualifying_combo_total: an invoice of every edge, all within 90 days and
\* together 100 million or more.
Qualifies(s, c) ==
  \E combo \in [DOMAIN c -> ToSet(s.invoices)] :
    /\ \A i \in DOMAIN c : combo[i] \in Invoices(s, <<c[i], c[(i % Len(c)) + 1]>>)
    /\ \A i, j \in DOMAIN c : combo[i].date - combo[j].date <= 90
    /\ SumFunction([i \in DOMAIN c |-> combo[i].amount]) >= 100

QualifyingCycles(s) == {c \in SimpleCycles(s) : Qualifies(s, c)}

circular_invoicing(s) == QualifyingCycles(s) # {}
CarouselEscalates(s)  == \E c \in QualifyingCycles(s) : Len(c) >= 3
=============================================================================
