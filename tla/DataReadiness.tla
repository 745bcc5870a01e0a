---------------------------- MODULE DataReadiness ----------------------------
(***************************************************************************)
(* assess_readiness: how much of what an analysis needs is there.  It is   *)
(* asked of a draft, from the years the form shows and the trail of the    *)
(* parsed files, and of a stored dossier, from its snapshot alone.         *)
(***************************************************************************)
EXTENDS DatedRules

\* _full_years: an annual report, or four quarterly ones.  Each report by the
\* year it ends in.
full_years(annual, quarterly) ==
  annual \cup {y \in {quarterly[i] : i \in DOMAIN quarterly} :
                 Cardinality({i \in DOMAIN quarterly : quarterly[i] = y}) >= 4}

any_years(annual, quarterly) == annual \cup {quarterly[i] : i \in DOMAIN quarterly}

\* The longest run of years without a gap.
max_consecutive_run(years) ==
  CHOOSE n \in 0 .. Cardinality(years) :
    /\ n = 0 <=> years = {}
    /\ \E y \in years \cup {0} : y .. (y + n - 1) \subseteq years
    /\ \A y \in years : ~(y .. (y + n) \subseteq years)

classify_level(run, hasForm1, hasTax) ==
  CASE run >= 3 /\ hasForm1 /\ hasTax -> "comprehensive"
    [] run >= 2 /\ ~(run >= 3 /\ hasForm1 /\ hasTax) -> "standard"
    [] run = 1 -> "minimal"
    [] run = 0 -> "insufficient"

missing_capabilities(run, hasForm1, hasTax) ==
  (IF run < 2 THEN {"yoy_trend"} ELSE {}) \cup (IF run < 3 THEN {"cagr"} ELSE {})
    \cup (IF hasForm1 THEN {} ELSE {"balance_ratios"})
    \cup (IF hasTax THEN {} ELSE {"tax_burden"})

\* In per cent.
confidence_score(fullYears, hasForm1, hasTax) ==
  LET score == 25 * fullYears + (IF hasForm1 THEN 15 ELSE 0) + (IF hasTax THEN 10 ELSE 0)
  IN  IF score > 100 THEN 100 ELSE score

assess_readiness(annual, quarterly, sources) ==
  LET full     == full_years(annual, quarterly)
      run      == max_consecutive_run(full)
      hasForm1 == "form_1" \in sources
      hasTax   == sources \cap {"esf_csv", "profit_tax"} # {}
  IN  [level   |-> classify_level(run, hasForm1, hasTax),
       covered |-> any_years(annual, quarterly),
       full    |-> full,
       missing |-> missing_capabilities(run, hasForm1, hasTax),
       sources |-> sources,
       score   |-> confidence_score(Cardinality(full), hasForm1, hasTax)]

\* A trail names fields; the fields a source is known by.  A field no prefix of
\* the table fits, as taxes_paid, profit_before_tax and interest_expense, tells
\* of none.
SourceOfField(name) ==
  CASE name \in {"assets_total", "liabilities_total", "equity", "total_debt"} -> {"form_1"}
    [] name \in {"revenue", "net_profit"} -> {"form_2"}
    [] name = "vat_declared" -> {"vat_declaration"}
    [] OTHER -> {}

source_trail_to_parser_sources(names) == UNION {SourceOfField(name) : name \in names}

\* assess_draft_readiness: four reports for a full year, one for a partial.
assess_draft_readiness(annualYears, fullQuarters, partialQuarters, names) ==
  LET synthetic == {<<y, q>> : y \in fullQuarters, q \in 1 .. 4}
                     \cup {<<y, 1>> : y \in partialQuarters}
      reports == [r \in synthetic |-> r[1]]
  IN  assess_readiness(annualYears, reports, source_trail_to_parser_sources(names))

HasBalance(r) ==
  {r.equity, r.equityStart, r.debt, r.ca, r.cl, r.inventory, r.assets, r.liabilities,
   r.liabilitiesFx} # {Unknown}

\* infer_parser_sources_from_snapshot: what the stored fields tell of their
\* origin; a profit tax leaves nothing to be told by.
infer_parser_sources_from_snapshot(s) ==
  LET reports == {s.annual[i] : i \in DOMAIN s.annual}
                   \cup {s.quarterly[i] : i \in DOMAIN s.quarterly}
      periods == {s.vatPeriods[i] : i \in DOMAIN s.vatPeriods}
  IN  {"manual"}
        \cup (IF \E r \in reports : HasBalance(r) THEN {"form_1"} ELSE {})
        \cup (IF \E r \in reports : r.pbt # Unknown \/ r.interest # Unknown
                THEN {"form_2"} ELSE {})
        \cup (IF \E p \in periods : p.declared # Unknown THEN {"vat_declaration"} ELSE {})
        \cup (IF s.invoices # <<>> \/ \E p \in periods : p.sold # Unknown
                THEN {"esf_csv"} ELSE {})

\* LoadDossierReadiness.
load_dossier_readiness(s) ==
  assess_readiness({YearOf(s.annual[i].end) : i \in DOMAIN s.annual},
                   [i \in DOMAIN s.quarterly |-> YearOf(s.quarterly[i].end)],
                   infer_parser_sources_from_snapshot(s))
-----------------------------------------------------------------------------
Level == <<"insufficient", "minimal", "standard", "comprehensive">>

\* One readiness is at least another.
NoWorse(a, b) ==
  /\ \E i, j \in DOMAIN Level : Level[i] = a.level /\ Level[j] = b.level /\ i >= j
  /\ a.missing \subseteq b.missing
  /\ a.score >= b.score
=============================================================================
