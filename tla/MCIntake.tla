------------------------------ MODULE MCIntake ------------------------------
(* Folders of files for TLC: reports of years that follow each other, twice *)
(* the same year, a half year, torn headers, sheets of one and of two dates.*)
EXTENDS FileIntake

Results(name, year, quarter, now, before, profit) ==
  [name |-> name, opens |-> TRUE, signs |-> {"form_2"}, unit |-> "thousand",
   year |-> year, quarter |-> quarter,
   cells |-> [current |-> [revenue |-> now, interest_expense |-> Unknown,
                           net_profit |-> profit, profit_before_tax |-> <<now, Unknown>>],
              prior   |-> [revenue |-> before, interest_expense |-> 1,
                           net_profit |-> <<Unknown, Unknown>>,
                           profit_before_tax |-> <<Unknown, Junk>>]]]

Sheet(name, year, quarter, assets, debt) ==
  LET row(n) == [assets_total |-> assets, liabilities_total |-> 40, equity |-> n, debt |-> debt]
  IN  [name |-> name, opens |-> TRUE, signs |-> {"form_1"}, unit |-> "million",
       year |-> year, quarter |-> quarter, cells |-> [end |-> row(60), start |-> row(Junk)]]

Other(name, sign, year, cells) ==
  [name |-> name, opens |-> TRUE, signs |-> {sign}, unit |-> "sum",
   year |-> year, quarter |-> Unknown, cells |-> cells]

Own24   == Results("own24", 2024, 4, 10, 9, <<3, Unknown>>)
Again24 == Results("again24", 2024, Unknown, 12, Unknown, <<Unknown, 2>>)
Own25   == Results("own25", 2025, 4, 20, 11, <<Unknown, 5>>)
Own23   == Results("own23", 2023, 4, 8, 7, <<1, 1>>)
Half25  == Results("half25", 2025, 2, 15, 11, <<1, 1>>)
Torn25  == Results("torn25", 2025, Junk, 16, 11, <<Junk, 1>>)
NoYear  == Results("noyear", Junk, 4, 15, 11, <<1, 1>>)
Idle25  == Results("idle25", 2025, 4, 0, 11, <<Unknown, 5>>)
Sheet24 == Sheet("sheet24", 2024, 4, 100, <<1, 2, Unknown, Unknown, 3>>)
Sheet25 == Sheet("sheet25", 2025, 2, Junk, <<Unknown, Junk>>)
Copy25  == Sheet("copy25", 2025, 2, 110, <<5>>)
Torn    == Sheet("torn", Junk, Junk, 90, <<>>)
Vat25   == Other("vat25", "vat", 2025, [charged |-> 5])
Vat25b  == Other("vat25b", "vat", 2025, [charged |-> 6])
Tax25   == Other("tax25", "profit_tax", 2025, [total |-> 4])
Ilova   == Other("ilova", "ilova", 2025, <<>>)
Broken  == [Other("broken", "vat", 2025, <<>>) EXCEPT !.opens = FALSE]

FoldersTried == {{Own24, Again24, Own25, Own23}, {Own24, Own25, Half25, Torn25},
                 {Sheet24, Sheet25, Copy25, Torn}, {Own25, NoYear, Sheet24, Sheet25},
                 {Vat25, Vat25b, Tax25, Broken}, {Own23, Own25, Ilova, Tax25},
                 {Own24, Own25, Idle25, Sheet25}}
TypedValues == {[key |-> <<"revenue", 2024>>, value |-> 12000]}
=============================================================================
