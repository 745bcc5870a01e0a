----------------------------- MODULE FileIntake -----------------------------
(***************************************************************************)
(* POST /api/manual-input/parse-files and the dropzone that calls it: the  *)
(* forms of my3.soliq.uz in the list are read in the order they were       *)
(* dropped, the numbers found are merged into the form, and the trail says *)
(* which file each came from.  The list may be changed and sent again.     *)
(*                                                                         *)
(* A cell holds a number, nothing that is read as a number (Junk), or is   *)
(* empty or crossed out (Unknown).                                         *)
(***************************************************************************)
EXTENDS DataReadiness, SequencesExt

CONSTANTS
  Junk,      \* a cell with something else than a number
  Folders,   \* sets of files an analyst has at hand
  MaxFiles,  \* bound on the list (10 in the code)
  Typed      \* what the analyst types into a field: key and value

Cell == Int \cup {Junk, Unknown}

\* Cells and files are told apart from None; years and quarters are numbers if
\* they can be read.
ASSUME IntakeAssumption ==
  /\ Junk # Unknown /\ Junk \notin Int /\ Unknown \notin Int
  /\ MaxFiles \in Nat
  /\ \A S \in Folders : \A f \in S :
       f # Unknown /\ f.year \in Cell /\ f.quarter \in Cell

VARIABLES
  folder,  \* the files at hand
  files,   \* the list of the dropzone
  filled,  \* the fields of the form that hold a value
  parsed,  \* parsedValues: what the parser put there
  trail    \* sourceTrail: the file and the column a field was taken from

intakeVars == <<folder, files, filled, parsed, trail>>

KnownYears == {2023, 2024, 2025}
BalanceField == {"assets_total", "liabilities_total", "equity", "total_debt"}

\* detect_format: the signs of a form in the order they are looked for.
detect_format(f) ==
  LET order == <<"ilova", "form_1", "form_2", "profit_tax", "vat">>
      seen  == SelectSeq(order, LAMBDA sign : sign \in f.signs)
  IN  IF seen = <<>> THEN "unknown" ELSE Head(seen)

Number(cell) == IF cell = Junk THEN Unknown ELSE cell

\* parse_unit_multiplier: thousands unless the cell says something else.
Multiplier(unit) ==
  CASE unit = "million" -> 1000000 [] unit = "sum" -> 1 [] OTHER -> 1000

Money(cell, unit) ==
  IF Number(cell) = Unknown THEN Unknown ELSE cell * Multiplier(unit)

\* Income and expense: a column that cannot be read counts as nothing, unless
\* both are empty.
SignedMoney(pair, unit) ==
  LET Amount(cell) == IF Number(cell) = Unknown THEN 0 ELSE cell
  IN  IF pair = <<Unknown, Unknown>> THEN Unknown
      ELSE (Amount(pair[1]) - Amount(pair[2])) * Multiplier(unit)

\* The lines of debt that can be read, if there is one.
aggregate_debt(cells, unit) ==
  LET read == SelectSeq(cells, LAMBDA cell : Number(cell) # Unknown)
  IN  IF read = <<>> THEN Unknown
      ELSE FoldLeft(LAMBDA sum, cell : sum + cell, 0, read) * Multiplier(unit)

parse_form2(f, column) ==
  LET row == f.cells[column]
  IN  [revenue           |-> Money(row.revenue, f.unit),
       interest_expense  |-> Money(row.interest_expense, f.unit),
       net_profit        |-> SignedMoney(row.net_profit, f.unit),
       profit_before_tax |-> SignedMoney(row.profit_before_tax, f.unit)]

parse_form1(f, column) ==
  LET row == f.cells[column]
  IN  [assets_total      |-> Money(row.assets_total, f.unit),
       liabilities_total |-> Money(row.liabilities_total, f.unit),
       equity            |-> Money(row.equity, f.unit),
       total_debt        |-> aggregate_debt(row.debt, f.unit)]

\* check_balance_equation: more than half a per cent apart.
balance_mismatch(row) ==
  LET gap == row.assets_total - row.equity - row.liabilities_total
  IN  /\ Known({row.assets_total, row.equity, row.liabilities_total})
      /\ 200 * (IF gap < 0 THEN 0 - gap ELSE gap)
           > (IF row.assets_total < 0 THEN 0 - row.assets_total ELSE row.assets_total)

\* The header.  A quarter that cannot be read is none.
Year(f)    == Number(f.year)
Quarter(f) == Number(f.quarter)
-----------------------------------------------------------------------------
\* What has been read so far: values, the rank of each, where it came from,
\* the files a warning names (that of a single cell is left out), and the
\* balance sheet that is ahead.
Empty == <<>>
NothingRead == [value |-> Empty, tier |-> Empty, from |-> Empty, told |-> {}, balance |-> Unknown]

Tell(read, f) == [read EXCEPT !.told = @ \cup {f.name}]

\* The entries of both, those of the first where both have one.
Over(new, old) ==
  [k \in DOMAIN new \cup DOMAIN old |-> IF k \in DOMAIN new THEN new[k] ELSE old[k]]

Prior   == 0
Current == 1

\* Mutant: everything is said to be the year's own column.
Offer_current(key, value, tier, f, column) ==
  [key |-> key, value |-> value, tier |-> tier, from |-> [file |-> f.name, column |-> "current"]]

Offer(key, value, tier, f, column) ==
  [key |-> key, value |-> value, tier |-> tier, from |-> [file |-> f.name, column |-> column]]

\* Mutant: the last file wins.
Taken_last(read, offer) ==
  offer.key \in DOMAIN read.value => offer.tier >= read.tier[offer.key]

\* A number of higher rank replaces one of a lower.
Taken(read, offer) ==
  offer.key \in DOMAIN read.value => offer.tier > read.tier[offer.key]

\* _set_with_tier_priority: of the same rank the first stays, with a warning.
\* _set_once is the same with one rank.
set_with_tier_priority(read, f, offers) ==
  LET taken == {o \in offers : o.value # Unknown /\ Taken(read, o)}
      Of(key) == CHOOSE o \in taken : o.key = key
      keys  == {o.key : o \in taken}
      told  == \E o \in offers : /\ o.value # Unknown /\ o \notin taken
                                 /\ o.tier = read.tier[o.key]
  IN  [value   |-> Over([k \in keys |-> Of(k).value], read.value),
       tier    |-> Over([k \in keys |-> Of(k).tier], read.tier),
       from    |-> Over([k \in keys |-> Of(k).from], read.from),
       told    |-> read.told \cup (IF told THEN {f.name} ELSE {}),
       balance |-> read.balance]

\* Only the whole year: the fourth quarter, or no quarter.
WholeYear(f) == Year(f) # Unknown /\ Quarter(f) \in {Unknown, 4}

merge_form2(read, f) ==
  IF ~WholeYear(f) THEN Tell(read, f)
  ELSE LET now    == parse_form2(f, "current")
           before == parse_form2(f, "prior")
       IN  set_with_tier_priority(read, f,
             {Offer(<<x, Year(f)>>, now[x], Current, f, "current") : x \in DOMAIN now}
             \cup {Offer(<<x, Year(f) - 1>>, before[x], Prior, f, "prior") : x \in DOMAIN before})

merge_vat_declaration(read, f) ==
  IF Year(f) = Unknown \/ Number(f.cells.charged) = Unknown THEN Tell(read, f)
  ELSE set_with_tier_priority(read, f,
         {Offer(<<"vat_declared", Year(f)>>, f.cells.charged, Current, f, "current")})

merge_profit_tax(read, f) ==
  IF ~WholeYear(f) \/ Number(f.cells.total) = Unknown THEN Tell(read, f)
  ELSE set_with_tier_priority(read, f,
         {Offer(<<"taxes_paid", Year(f)>>, f.cells.total, Current, f, "current")})

\* (year, quarter) as one number; what cannot be read is the least.
form1_period_key(f) ==
  5 * (IF Year(f) = Unknown THEN -1 ELSE Year(f))
    + (IF Quarter(f) = Unknown THEN 0 ELSE Quarter(f))

\* The newest balance sheet, the first of equals.
consider_form1(read, f) ==
  IF read.balance = Unknown THEN [read EXCEPT !.balance = f]
  ELSE IF form1_period_key(f) > form1_period_key(read.balance)
    THEN [read EXCEPT !.balance = f]
  ELSE Tell(read, f)

\* All of the one sheet and nothing of the others.
apply_form1(read) ==
  IF read.balance = Unknown THEN read
  ELSE LET f == read.balance
           rows == [c \in {"end", "start"} |-> parse_form1(f, c)]
           merged == set_with_tier_priority(read, f,
             {Offer(<<x, c>>, rows[c][x], Current, f, c) : x \in BalanceField, c \in {"end", "start"}})
       IN  IF \E c \in {"end", "start"} : balance_mismatch(rows[c])
             THEN Tell(merged, f) ELSE merged

\* One file of the batch: a file that does not open is told of, a registry says
\* nothing of the year.
ReadFile(read, f) ==
  LET format == IF f.opens THEN detect_format(f) ELSE "unknown"
  IN  CASE format = "form_2"     -> merge_form2(read, f)
        [] format = "vat"        -> merge_vat_declaration(read, f)
        [] format = "form_1"     -> consider_form1(read, f)
        [] format = "profit_tax" -> merge_profit_tax(read, f)
        [] format = "ilova"      -> read
        [] OTHER                 -> Tell(read, f)

\* What has been read after each file of the batch.
Readings(batch) ==
  LET read[n \in 0 .. Len(batch)] ==
        IF n = 0 THEN NothingRead ELSE ReadFile(read[n - 1], batch[n])
  IN  read

\* ParseManualInputFilesUseCase.execute
execute(batch) == apply_form1(Readings(batch)[Len(batch)])
-----------------------------------------------------------------------------
\* The fields of the form a parsed number is put into; a tax has none.
HasField(key) ==
  \/ key[1] \in {"revenue", "net_profit"} /\ key[2] \in KnownYears
  \/ key[1] \in {"profit_before_tax", "interest_expense"} /\ key[2] \in {2024, 2025}
  \/ key = <<"vat_declared", 2025>>
  \/ key[1] \in BalanceField

\* Only the fields of the form can be typed into.
ASSUME TypedAssumption == \A entry \in Typed : HasField(entry.key)

\* A loss is put into the form as nothing.
normalizeDigits(value) == IF value < 0 THEN 0 ELSE value

IntakeInit ==
  /\ folder \in Folders
  /\ files = <<>>
  /\ filled = Empty /\ parsed = Empty /\ trail = Empty

AddFile ==
  /\ Len(files) < MaxFiles
  /\ \E f \in folder \ ToSet(files) : files' = Append(files, f)
  /\ UNCHANGED <<folder, filled, parsed, trail>>

RemoveFile ==
  /\ \E i \in DOMAIN files : files' = RemoveAt(files, i)
  /\ UNCHANGED <<folder, filled, parsed, trail>>

\* Mutant: the trail of this upload only.
Merged_replaced(new, old) == new

\* { ...prev, ...patch }
Merged(new, old) == Over(new, old)

\* Send the list, and merge the answer into what is there.
ParseFiles ==
  /\ files # <<>>
  /\ LET read == execute(files)
         put  == [k \in {k \in DOMAIN read.value : HasField(k)} |-> normalizeDigits(read.value[k])]
     IN  /\ filled' = Over(put, filled)
         /\ parsed' = Merged(put, parsed)
         /\ trail'  = Merged(read.from, trail)
  /\ UNCHANGED <<folder, files>>

\* The analyst types over a field.
Type ==
  /\ \E entry \in Typed : filled' = Over([k \in {entry.key} |-> entry.value], filled)
  /\ UNCHANGED <<folder, files, parsed, trail>>

IntakeNext == AddFile \/ RemoveFile \/ ParseFiles \/ Type

IntakeSpec == IntakeInit /\ [][IntakeNext]_intakeVars
-----------------------------------------------------------------------------
\* What a file says in a column of a field.
Says(f, key, column) ==
  CASE detect_format(f) = "form_2"     -> parse_form2(f, column)[key[1]]
    [] detect_format(f) = "form_1"     -> parse_form1(f, column)[key[1]]
    [] detect_format(f) = "vat"        -> f.cells.charged
    [] detect_format(f) = "profit_tax" -> f.cells.total

\* A field filled by the parser is marked, and holds what a file of the name on
\* the mark says in the column on the mark, until the analyst types over it:
\* after any number of uploads, removals and corrections.
MarkedFieldsAreTrue ==
  \A key \in DOMAIN parsed :
    /\ key \in DOMAIN trail /\ key \in DOMAIN filled
    /\ \/ filled[key] = parsed[key]
       \/ \E entry \in Typed : entry.key = key /\ entry.value = filled[key]
    /\ \E f \in folder :
         /\ f.name = trail[key].file
         /\ parsed[key] = normalizeDigits(Says(f, key, trail[key].column))

IsA(f, format) == f.opens /\ detect_format(f) = format

\* A report of results gives the year's own column, or the comparison column.
Gives(f, field, year, column) ==
  /\ IsA(f, "form_2") /\ WholeYear(f)
  /\ Year(f) = (IF column = "current" THEN year ELSE year + 1)
  /\ parse_form2(f, column)[field] # Unknown

Shows(read, key, f, column) ==
  /\ key \in DOMAIN read.value
  /\ read.value[key] = Says(f, key, column) /\ read.from[key].file = f.name

\* The first of the files that give it is shown, a warning names the others.
FirstIsShown(read, field, year, column) ==
  \A i \in DOMAIN files : Gives(files[i], field, year, column) =>
    IF \E j \in 1 .. i - 1 : Gives(files[j], field, year, column)
    THEN files[i].name \in read.told
    ELSE Shows(read, <<field, year>>, files[i], column)

\* In whatever order the files were dropped, a year's own report is shown before
\* the comparison column of the next one's, of two reports of one year the first
\* with a warning for the other, and the balance is the newest sheet's as a whole.
OwnReportIsShown ==
  LET read == execute(files)
      sheets == {f \in ToSet(files) : IsA(f, "form_1")}
      balance == {key \in DOMAIN read.value : key[1] \in BalanceField}
  IN  /\ \A field \in {"revenue", "net_profit"}, year \in KnownYears :
           /\ FirstIsShown(read, field, year, "current")
           /\ (\A i \in DOMAIN files : ~Gives(files[i], field, year, "current"))
                => FirstIsShown(read, field, year, "prior")
      /\ balance # {} =>
           \E f \in sheets :
             /\ \A key \in balance : Shows(read, key, f, key[2])
             /\ \A other \in sheets : form1_period_key(other) <= form1_period_key(f)

\* The years of the form that show revenue.
Years == {key[2] : key \in {k \in DOMAIN filled : k[1] = "revenue" /\ filled[k] > 0}}

\* Cells of quarters, which only the analyst fills and no file touches, are left
\* empty: the form then has years and a trail.
readiness == assess_draft_readiness(Years, {}, {}, {key[1] : key \in DOMAIN trail})

\* Sending more or other files never makes the draft look less ready, also when
\* a newer balance sheet says less than the one before; unless a report says that
\* a year had no revenue.
ReadinessNeverFalls ==
  [][ParseFiles /\ Years \subseteq Years' => NoWorse(readiness', readiness)]_intakeVars
=============================================================================
