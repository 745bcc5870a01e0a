---------------------------- MODULE UsdRateProofs ----------------------------
(***************************************************************************)
(* Theorems about UsdRate, for any number of calls, days and rates.        *)
(***************************************************************************)
EXTENDS UsdRate, TLAPS

\* The rates issued before keep their place and their date.
LEMMA AppendKeepsRates ==
  ASSUME NEW r \in Seq(Date), NEW d \in Date
  PROVE  /\ Append(r, d) \in Seq(Date)
         /\ Len(Append(r, d)) = Len(r) + 1 /\ Len(r) \in Nat
         /\ \A k \in 1 .. Len(r) : Append(r, d)[k] = r[k]
  OBVIOUS

LEMMA InitRate == RateInit => RateInv
<1> SUFFICES ASSUME RateInit PROVE RateInv
  OBVIOUS
<1> USE RateAssumption DEF RateAssumption, RateInit
<1>1. RateTypeOK
  <2>1. rates \in Seq(Date) /\ Len(rates) = 0
    OBVIOUS
  <2>2. QED
    BY <2>1 DEF RateTypeOK, Date, Underway
<1>2. FetchedIsKnown /\ InsertsAreApart
  BY DEF FetchedIsKnown, InsertsAreApart
<1>3. RatesKeepTheirDate
  BY DEF RatesKeepTheirDate, Stored
<1>4. QED
  BY <1>1, <1>2, <1>3 DEF RateInv

\* Of what a call can do before its commit: the table stays, and only a save
\* puts it among the calls with a row to commit.
LEMMA QuietStep ==
  ASSUME RateInv, UNCHANGED <<rates, table, fetched, inserted>>, RateTypeOK',
         \A c \in Reader : stage'[c] = "save" => stage[c] = "save",
         \A c \in Reader : stage'[c] = "commit" => stage[c] = "commit" \/ ~inserted[c]
  PROVE  RateInv'
<1>1. FetchedIsKnown'
  BY DEF RateInv, FetchedIsKnown
<1>2. InsertsAreApart'
  BY DEF RateInv, InsertsAreApart, RowDate, Stored
<1>3. RatesKeepTheirDate'
  BY DEF RateInv, RatesKeepTheirDate, Stored
<1>4. QED
  BY <1>1, <1>2, <1>3 DEF RateInv

\* A call that has not saved has inserted nothing.
NothingYet ==
  \A c \in Reader : stage[c] \in {"new", "today", "fetch", "save", "latest"} => ~inserted[c]

StrongInv == RateInv /\ NothingYet

LEMMA NothingYetStep ==
  ASSUME RateInv, NothingYet, [RateNext]_rateVars
  PROVE  NothingYet'
<1> USE DEF NothingYet, RateInv, RateTypeOK
<1>1. CASE NextDay \/ BankIssues
  BY <1>1 DEF NextDay, BankIssues, readerVars
<1>2. ASSUME NEW c \in Reader, BeginQuote(c) \/ ReadToday(c) \/ ReadLatest(c)
      PROVE  NothingYet'
  BY <1>2 DEF BeginQuote, ReadToday, ReadLatest, Ready, GoOn
<1>3. ASSUME NEW c \in Reader,
             Fetch(c) \/ FetchFails(c) \/ CommitRate(c) \/ ReaderFails(c)
      PROVE  NothingYet'
  BY <1>3 DEF Fetch, FetchFails, CommitRate, ReaderFails, GoOn
<1>4. ASSUME NEW c \in Reader, Save(c) PROVE NothingYet'
  BY <1>4 DEF Save, Ready
<1>5. CASE UNCHANGED rateVars
  BY <1>5 DEF rateVars, readerVars
<1>6. QED
  BY <1>1, <1>2, <1>3, <1>4, <1>5 DEF RateNext

LEMMA RateStep ==
  ASSUME StrongInv, [RateNext]_rateVars
  PROVE  RateInv'
<1> USE RateAssumption DEF RateAssumption
<1>1. CASE NextDay
  <2>1. RateTypeOK'
    BY <1>1 DEF StrongInv, RateInv, RateTypeOK, NextDay, readerVars
  <2>2. QED
    BY <1>1, <2>1, QuietStep DEF NextDay, readerVars, StrongInv
<1>2. CASE BankIssues
  <2>1. PICK d \in Date : rates' = Append(rates, d)
    BY <1>2 DEF BankIssues, Date, StrongInv, RateInv, RateTypeOK
  <2>2. /\ rates' \in Seq(Date) /\ Len(rates') = Len(rates) + 1 /\ Len(rates) \in Nat
        /\ \A k \in 1 .. Len(rates) : rates'[k] = rates[k]
    BY <2>1, AppendKeepsRates DEF StrongInv, RateInv, RateTypeOK
  <2>3. RateTypeOK'
    BY <1>2, <2>2 DEF StrongInv, RateInv, RateTypeOK, BankIssues, readerVars
  <2>4. FetchedIsKnown'
    BY <1>2 DEF StrongInv, RateInv, FetchedIsKnown, BankIssues, readerVars
  <2>5. \A c \in Reader : fetched[c] # 0 => RowDate(c)' = RowDate(c)
    BY <1>2, <2>2 DEF StrongInv, RateInv, RateTypeOK, RowDate, BankIssues, readerVars
  <2>6. Stored' = Stored
    BY <1>2 DEF Stored, BankIssues
  <2>7. InsertsAreApart'
    BY <1>2, <2>5, <2>6 DEF StrongInv, RateInv, InsertsAreApart, BankIssues, readerVars
  <2>8. RatesKeepTheirDate'
    <3>1. \A e \in Stored : table[e] \in 1 .. Len(rates) /\ rates[table[e]] = e
      BY <2>2 DEF StrongInv, RateInv, RateTypeOK, RatesKeepTheirDate, Stored
    <3>2. table' = table
      BY <1>2 DEF BankIssues
    <3>3. \A e \in Stored : rates'[table'[e]] = e
      BY <2>2, <3>1, <3>2
    <3>4. QED
      BY <2>6, <3>3 DEF RatesKeepTheirDate
  <2>9. QED
    BY <2>3, <2>4, <2>7, <2>8 DEF RateInv
<1>3. ASSUME NEW c \in Reader, BeginQuote(c) PROVE RateInv'
  <2>1. RateTypeOK'
    <3>1. Stored \in SUBSET Date
      BY DEF Stored
    <3>2. Answer("env", 0, day) \in Answers
      BY DEF StrongInv, RateInv, RateTypeOK, Answer, Answers, Date
    <3>3. QED
      BY <1>3, <3>1, <3>2 DEF StrongInv, RateInv, RateTypeOK, BeginQuote, Ready, GoOn, world, Underway
  <2>2. QED
    BY <1>3, <2>1, QuietStep DEF BeginQuote, Ready, GoOn, world, StrongInv, NothingYet,
       RateInv, RateTypeOK
<1>4. ASSUME NEW c \in Reader, ReadToday(c) PROVE RateInv'
  <2>1. RateTypeOK'
    <3>1. today[c] \in Date /\ table[today[c]] \in Nat
      BY DEF StrongInv, RateInv, RateTypeOK, Date
    <3>2. Answer("stored", table[today[c]], today[c]) \in Answers
      BY <3>1 DEF Answer, Answers
    <3>3. QED
      BY <1>4, <3>2 DEF StrongInv, RateInv, RateTypeOK, ReadToday, Ready, GoOn, world, Underway
  <2>2. QED
    BY <1>4, <2>1, QuietStep DEF ReadToday, Ready, GoOn, world, StrongInv, NothingYet,
       RateInv, RateTypeOK
<1>5. ASSUME NEW c \in Reader, Fetch(c) PROVE RateInv'
  <2>1. Len(rates) \in Nat \ {0}
    BY <1>5 DEF StrongInv, RateInv, RateTypeOK, Fetch
  <2>2. RateTypeOK'
    BY <1>5, <2>1 DEF StrongInv, RateInv, RateTypeOK, Fetch, GoOn, world, Underway
  <2>3. FetchedIsKnown'
    BY <1>5, <2>1 DEF StrongInv, RateInv, RateTypeOK, FetchedIsKnown, Fetch, GoOn
  <2>4. InsertsAreApart' /\ RatesKeepTheirDate'
    BY <1>5 DEF StrongInv, RateInv, RateTypeOK, InsertsAreApart, RatesKeepTheirDate, RowDate,
       Stored, Fetch, GoOn, world
  <2>5. QED
    BY <2>2, <2>3, <2>4 DEF RateInv
<1>6. ASSUME NEW c \in Reader, FetchFails(c) \/ ReaderFails(c) PROVE RateInv'
  <2>1. RateTypeOK'
    BY <1>6 DEF StrongInv, RateInv, RateTypeOK, FetchFails, ReaderFails, GoOn, world, Underway
  <2>2. QED
    BY <1>6, <2>1, QuietStep DEF FetchFails, ReaderFails, GoOn, world, StrongInv, RateInv, RateTypeOK
<1>7. ASSUME NEW c \in Reader, Save(c) PROVE RateInv'
  <2>1. fetched[c] \in 1 .. Len(rates) /\ Len(rates) \in Nat /\ rates[fetched[c]] \in Date
    BY <1>7 DEF StrongInv, RateInv, RateTypeOK, FetchedIsKnown, Save
  <2>2. RateTypeOK'
    <3>1. Answer("cbu_live", fetched[c], rates[fetched[c]]) \in Answers
      BY <2>1 DEF Answer, Answers
    <3>2. Inserts(c) \in BOOLEAN
      BY DEF Inserts
    <3>3. QED
      BY <1>7, <3>1, <3>2 DEF StrongInv, RateInv, RateTypeOK, Save, Ready, world, Underway
  <2>3. FetchedIsKnown' /\ RatesKeepTheirDate'
    BY <1>7 DEF StrongInv, RateInv, RateTypeOK, FetchedIsKnown, RatesKeepTheirDate, Stored,
       Save, Ready, world
  <2>4. /\ \A q \in Reader : RowDate(q)' = RowDate(q)
        /\ Stored' = Stored
        /\ \A q \in Reader \ {c} : stage'[q] = stage[q] /\ inserted'[q] = inserted[q]
        /\ inserted'[c] => RowDate(c) \notin Stored
        /\ ~Pending(RowDate(c)) /\ fetched' = fetched
    BY <1>7 DEF StrongInv, RateInv, RateTypeOK, RowDate, Stored, Save, Ready, Inserts, world
  <2>5. InsertsAreApart'
    BY <2>1, <2>4 DEF StrongInv, RateInv, InsertsAreApart, Pending
  <2>6. QED
    BY <2>2, <2>3, <2>5 DEF RateInv
<1>8. ASSUME NEW c \in Reader, ReadLatest(c) PROVE RateInv'
  <2>1. RateTypeOK'
    <3>1. \A d \in Date : Answer("db_cached", table[d], d) \in Answers
      BY DEF StrongInv, RateInv, RateTypeOK, Answer, Answers
    <3>2. Answer("manual", 0, 0) \in Answers /\ Answer("error", 0, 0) \in Answers
      BY DEF Answer, Answers, Date
    <3>3. \E a \in Answers : stage' = [stage EXCEPT ![c] = "commit"]
                             /\ quote' = [quote EXCEPT ![c] = a]
      BY <1>8, <3>1, <3>2 DEF ReadLatest, Ready
    <3>4. QED
      BY <1>8, <3>3 DEF StrongInv, RateInv, RateTypeOK, ReadLatest, world, Underway
  <2>2. /\ stage' = [stage EXCEPT ![c] = "commit"] /\ stage[c] = "latest"
        /\ UNCHANGED <<rates, table, fetched, inserted>>
    BY <1>8 DEF ReadLatest, Ready, world
  <2>3. QED
    BY <2>1, <2>2, QuietStep DEF StrongInv, NothingYet, RateInv, RateTypeOK
<1>9. ASSUME NEW c \in Reader, CommitRate(c) PROVE RateInv'
  <2>1. inserted[c] => fetched[c] \in 1 .. Len(rates) /\ RowDate(c) \in Date
    BY <1>9 DEF StrongInv, RateInv, RateTypeOK, InsertsAreApart, RowDate, CommitRate
  <2>2. RateTypeOK'
    BY <1>9, <2>1 DEF StrongInv, RateInv, RateTypeOK, CommitRate, GoOn, world, Underway
  <2>3. FetchedIsKnown'
    BY <1>9 DEF StrongInv, RateInv, RateTypeOK, FetchedIsKnown, CommitRate, GoOn
  <2>4. RatesKeepTheirDate'
    BY <1>9, <2>1 DEF StrongInv, RateInv, RateTypeOK, RatesKeepTheirDate, Stored, RowDate,
       CommitRate, world
  <2>5. /\ \A q \in Reader : RowDate(q)' = RowDate(q)
        /\ \A q \in Reader : stage'[q] = "commit" => q # c /\ stage[q] = "commit"
        /\ UNCHANGED <<inserted, fetched>>
        /\ Stored' \subseteq Stored \cup (IF inserted[c] THEN {RowDate(c)} ELSE {})
    BY <1>9 DEF StrongInv, RateInv, RateTypeOK, RowDate, Stored, CommitRate, GoOn, world
  <2>6. stage[c] = "commit"
    BY <1>9 DEF CommitRate
  <2>7. InsertsAreApart'
    BY <2>5, <2>6 DEF StrongInv, RateInv, InsertsAreApart
  <2>8. QED
    BY <2>2, <2>3, <2>4, <2>7 DEF RateInv
<1>10. CASE UNCHANGED rateVars
  <2>1. RateTypeOK'
    BY <1>10 DEF rateVars, world, readerVars, StrongInv, RateInv, RateTypeOK
  <2>2. QED
    BY <1>10, <2>1, QuietStep DEF rateVars, world, readerVars, StrongInv
<1>11. QED
  BY <1>1, <1>2, <1>3, <1>4, <1>5, <1>6, <1>7, <1>8, <1>9, <1>10 DEF RateNext

LEMMA RateInvariant == RateSpec => []StrongInv
<1>1. RateInit => StrongInv
  BY InitRate DEF StrongInv, NothingYet, RateInit
<1>2. StrongInv /\ [RateNext]_rateVars => StrongInv'
  BY RateStep, NothingYetStep DEF StrongInv
<1>3. QED
  BY <1>1, <1>2, PTL DEF RateSpec

\* UsdRate: types, and every stored rate under the date it was issued for.
THEOREM RatesAreStoredByDate == RateSpec => [](RateTypeOK /\ RatesKeepTheirDate)
<1>1. StrongInv => RateTypeOK /\ RatesKeepTheirDate
  BY DEF StrongInv, RateInv
<1>2. QED
  BY <1>1, RateInvariant, PTL

\* UsdRate: however many calls fetch and store at once, a committed row is
\* never written again.
THEOREM FirstRateStays == RateSpec => StoredRateIsFinal
<1>1. StrongInv /\ [RateNext]_rateVars
        => [\A d \in Date : table[d] # 0 => table'[d] = table[d]]_rateVars
  <2> SUFFICES ASSUME StrongInv, [RateNext]_rateVars, NEW d \in Date, table[d] # 0
               PROVE  table'[d] = table[d]
    OBVIOUS
  <2>1. CASE table' = table
    BY <2>1
  <2>2. ASSUME NEW c \in Reader, CommitRate(c) PROVE table'[d] = table[d]
    BY <2>2 DEF CommitRate, StrongInv, RateInv, RateTypeOK, InsertsAreApart, Stored
  <2>3. QED
    BY <2>1, <2>2 DEF RateNext, NextDay, BankIssues, BeginQuote, ReadToday, Fetch, FetchFails,
       Save, ReadLatest, ReaderFails, rateVars
<1>2. QED
  BY <1>1, RateInvariant, PTL DEF RateSpec, StoredRateIsFinal
-----------------------------------------------------------------------------
(* What is answered.                                                       *)

\* The bank's dates do not go back.
RatesAdvance ==
  \A j, k \in 1 .. Len(rates) : j <= k => rates[j] <= rates[k]

\* Rows do not go away.
KnownAreRows == \A c \in Reader : known[c] \subseteq Stored

PastTheEnvironment ==
  \A c \in Reader : stage[c] \in {"today", "fetch", "save", "latest"} => env # "valid"

\* The bank answers with the last rate issued, and every row is of a rate
\* issued before.
FetchedIsNotOlder ==
  \A c \in Reader : stage[c] = "save" => \A d \in known[c] : d <= RowDate(c)

AnswersMatchRows ==
  \A c \in Reader : stage[c] \in {"commit", "done"} =>
    /\ quote[c] \in Answers
    /\ quote[c].source \in {"stored", "db_cached"}
         => quote[c].asof \in Stored /\ quote[c].rate = table[quote[c].asof]

InsertsAreAnswered ==
  \A c \in Reader : inserted[c] =>
    /\ fetched[c] # 0
    /\ stage[c] \in {"commit", "done"} => quote[c].asof = RowDate(c) /\ quote[c].rate = fetched[c]
    /\ stage[c] = "done" => table[RowDate(c)] = fetched[c]

AnswerInv ==
  /\ StrongInv
  /\ RatesAdvance
  /\ KnownAreRows
  /\ PastTheEnvironment
  /\ FetchedIsNotOlder
  /\ AnswersMatchRows
  /\ InsertsAreAnswered
  /\ AnswerIsNotOlder

\* A committed row is never written again.
LEMMA RowsStay ==
  ASSUME StrongInv, [RateNext]_rateVars
  PROVE  \A d \in Stored : d \in Stored' /\ table'[d] = table[d]
<1> SUFFICES ASSUME NEW d \in Date, table[d] # 0
             PROVE  table'[d] = table[d]
  BY DEF Stored
<1>1. CASE table' = table
  BY <1>1
<1>2. ASSUME NEW c \in Reader, CommitRate(c) PROVE table'[d] = table[d]
  BY <1>2 DEF CommitRate, StrongInv, RateInv, RateTypeOK, InsertsAreApart, Stored
<1>3. QED
  BY <1>1, <1>2 DEF RateNext, NextDay, BankIssues, BeginQuote, ReadToday, Fetch, FetchFails,
     Save, ReadLatest, ReaderFails, rateVars

\* The rates issued keep their dates, and go on advancing.
LEMMA RatesStay ==
  ASSUME StrongInv, RatesAdvance, [RateNext]_rateVars
  PROVE  /\ RatesAdvance'
         /\ \A k \in 1 .. Len(rates) : k \in 1 .. Len(rates') /\ rates'[k] = rates[k]
<1> USE DEF StrongInv, RateInv, RateTypeOK
<1>1. CASE rates' = rates
  BY <1>1 DEF RatesAdvance
<1>2. CASE BankIssues
  <2>1. PICK d \in Date : /\ rates' = Append(rates, d)
                          /\ \A k \in 1 .. Len(rates) : rates[k] <= d
    <3>1. day - 1 .. day + 1 \subseteq Date
      BY RateAssumption DEF Date, RateAssumption
    <3>2. QED
      BY <1>2, <3>1 DEF BankIssues
  <2>2. /\ Len(rates') = Len(rates) + 1 /\ Len(rates) \in Nat
        /\ \A k \in 1 .. Len(rates) : rates'[k] = rates[k] /\ rates[k] \in Date
        /\ rates'[Len(rates) + 1] = d
    BY <2>1
  <2>3. RatesAdvance'
    BY <2>1, <2>2 DEF RatesAdvance, Date
  <2>4. QED
    BY <2>2, <2>3
<1>3. QED
  BY <1>1, <1>2 DEF RateNext, NextDay, BeginQuote, ReadToday, Fetch, FetchFails,
     Save, ReadLatest, CommitRate, ReaderFails, rateVars, world

\* What a call fetched stays of its date.
LEMMA RowDateStays ==
  ASSUME StrongInv, RatesAdvance, [RateNext]_rateVars,
         NEW c \in Reader, fetched[c] # 0, fetched'[c] = fetched[c]
  PROVE  RowDate(c)' = RowDate(c) /\ RowDate(c) \in Date
<1>1. fetched[c] \in 1 .. Len(rates)
  BY DEF StrongInv, RateInv, RateTypeOK
<1>2. QED
  BY <1>1, RatesStay DEF RowDate, StrongInv, RateInv, RateTypeOK

LEMMA KnownStep ==
  ASSUME StrongInv, KnownAreRows, [RateNext]_rateVars
  PROVE  KnownAreRows'
<1>1. ASSUME NEW c \in Reader, BeginQuote(c) PROVE KnownAreRows'
  BY <1>1 DEF KnownAreRows, BeginQuote, Stored, StrongInv, RateInv, RateTypeOK
<1>2. CASE known' = known
  BY <1>2, RowsStay DEF KnownAreRows
<1>3. QED
  BY <1>1, <1>2 DEF RateNext, NextDay, BankIssues, ReadToday, Fetch, FetchFails,
     Save, ReadLatest, CommitRate, ReaderFails, rateVars, readerVars

LEMMA EnvironmentStep ==
  ASSUME StrongInv, PastTheEnvironment, [RateNext]_rateVars
  PROVE  PastTheEnvironment'
<1> USE DEF PastTheEnvironment, StrongInv, RateInv, RateTypeOK, world, readerVars
<1>1. CASE NextDay \/ BankIssues \/ UNCHANGED rateVars
  BY <1>1 DEF NextDay, BankIssues, rateVars
<1>2. ASSUME NEW c \in Reader,
             BeginQuote(c) \/ ReadToday(c) \/ Fetch(c) \/ FetchFails(c)
      PROVE  PastTheEnvironment'
  BY <1>2 DEF BeginQuote, ReadToday, Fetch, FetchFails, Ready, GoOn
<1>3. ASSUME NEW c \in Reader,
             Save(c) \/ ReadLatest(c) \/ CommitRate(c) \/ ReaderFails(c)
      PROVE  PastTheEnvironment'
  BY <1>3 DEF Save, ReadLatest, CommitRate, ReaderFails, Ready, GoOn
<1>4. QED
  BY <1>1, <1>2, <1>3 DEF RateNext

\* Every row is of a rate the bank has issued, so its date is not after that of
\* the last one.
LEMMA RowsAreNotNewer ==
  ASSUME StrongInv, RatesAdvance, NEW d \in Stored
  PROVE  rates # <<>> /\ d <= rates[Len(rates)]
<1>1. table[d] \in 1 .. Len(rates) /\ Len(rates) \in Nat /\ rates[table[d]] = d
  BY DEF StrongInv, RateInv, RateTypeOK, RatesKeepTheirDate, Stored
<1>2. QED
  BY <1>1 DEF RatesAdvance

LEMMA FetchedStep ==
  ASSUME StrongInv, RatesAdvance, KnownAreRows, FetchedIsNotOlder, [RateNext]_rateVars
  PROVE  FetchedIsNotOlder'
<1> USE DEF StrongInv, RateInv, RateTypeOK
<1>1. ASSUME NEW c \in Reader, Fetch(c) PROVE FetchedIsNotOlder'
  <2>1. \A d \in known[c] : d <= rates[Len(rates)]
    BY RowsAreNotNewer DEF KnownAreRows
  <2>2. QED
    BY <1>1, <2>1 DEF FetchedIsNotOlder, RowDate, Fetch, GoOn, world
<1>2. CASE /\ fetched' = fetched
           /\ \A c \in Reader : stage'[c] = "save" => stage[c] = "save" /\ known'[c] = known[c]
  <2>1. \A c \in Reader : stage[c] = "save" => RowDate(c)' = RowDate(c)
    BY <1>2, RowDateStays DEF FetchedIsKnown
  <2>2. QED
    BY <1>2, <2>1 DEF FetchedIsNotOlder
<1>3. ASSUME NEW c \in Reader, BeginQuote(c) PROVE FetchedIsNotOlder'
  BY <1>3, <1>2 DEF BeginQuote, Ready, GoOn
<1>4. ASSUME NEW c \in Reader,
             ReadToday(c) \/ FetchFails(c) \/ Save(c) \/ ReadLatest(c) \/ CommitRate(c) \/ ReaderFails(c)
      PROVE  FetchedIsNotOlder'
  BY <1>4, <1>2 DEF ReadToday, FetchFails, Save, ReadLatest, CommitRate, ReaderFails, Ready, GoOn
<1>5. CASE NextDay \/ BankIssues \/ UNCHANGED rateVars
  BY <1>5, <1>2 DEF NextDay, BankIssues, rateVars, readerVars
<1>6. QED
  BY <1>1, <1>3, <1>4, <1>5 DEF RateNext

\* An answer given by this step is as the table and the rates have it.
GivenAnswer(c) ==
  /\ quote'[c] \in Answers
  /\ quote'[c].source \in {"stored", "db_cached"}
       => /\ quote'[c].asof \in Stored /\ quote'[c].rate = table[quote'[c].asof]
          /\ \A d \in known'[c] : d <= today'[c] => d <= quote'[c].asof
  /\ quote'[c].source = "cbu_live" => \A d \in known'[c] : d <= quote'[c].asof
  /\ quote'[c].source \in {"manual", "error"} => known'[c] = {}
  /\ quote'[c].source = "error" => ~file' \/ env' = "invalid"
  /\ inserted'[c] => /\ fetched[c] # 0
                     /\ quote'[c].asof = RowDate(c) /\ quote'[c].rate = fetched[c]

LEMMA GivenStep ==
  ASSUME AnswerInv, NEW c \in Reader,
         \/ (BeginQuote(c) /\ env = "valid")
         \/ (ReadToday(c) /\ stage'[c] = "commit")
         \/ Save(c) \/ ReadLatest(c)
  PROVE  GivenAnswer(c)
<1> USE DEF AnswerInv, StrongInv, RateInv, RateTypeOK, world
<1>1. CASE BeginQuote(c) /\ env = "valid"
  <2>1. quote'[c] = Answer("env", 0, day) /\ day \in Date /\ inserted'[c] = FALSE
    BY <1>1, RateAssumption DEF RateAssumption, BeginQuote, Ready, Date, NothingYet
  <2>2. QED
    BY <2>1 DEF GivenAnswer, Answer, Answers
<1>2. CASE ReadToday(c) /\ stage'[c] = "commit"
  <2>1. /\ today[c] \in Stored /\ today[c] \in Date /\ table[today[c]] \in Nat
        /\ quote'[c] = Answer("stored", table[today[c]], today[c])
        /\ today'[c] = today[c] /\ inserted'[c] = FALSE
    BY <1>2 DEF ReadToday, Ready, GoOn, NothingYet, Stored
  <2>2. QED
    BY <2>1 DEF GivenAnswer, Answer, Answers
<1>3. CASE Save(c)
  <2>1. fetched[c] \in 1 .. Len(rates) /\ RowDate(c) \in Date
    BY <1>3 DEF FetchedIsKnown, Save, RowDate
  <2>2. /\ quote'[c] = Answer("cbu_live", fetched[c], RowDate(c))
        /\ \A d \in known'[c] : d <= RowDate(c)
    BY <1>3 DEF Save, Ready, RowDate, FetchedIsNotOlder
  <2>3. QED
    BY <2>1, <2>2 DEF GivenAnswer, Answer, Answers
<1>4. CASE ReadLatest(c)
  <2>0. inserted'[c] = FALSE /\ known'[c] = known[c] /\ known[c] \subseteq Stored
    BY <1>4 DEF ReadLatest, NothingYet, KnownAreRows
  <2>1. ASSUME NEW d \in Date, NewestRow(d), Ready(c, "db_cached", table[d], d)
        PROVE  GivenAnswer(c)
    <3>1. quote'[c] = Answer("db_cached", table[d], d) /\ table[d] \in Nat
      BY <2>1 DEF Ready
    <3>2. QED
      BY <2>0, <2>1, <3>1 DEF GivenAnswer, Answer, Answers, NewestRow
  <2>2. CASE Stored = {} /\ Ready(c, "manual", 0, 0)
    <3>1. quote'[c] = Answer("manual", 0, 0) /\ 0 \in Date
      BY <2>2, RateAssumption DEF Ready, Date, RateAssumption
    <3>2. QED
      BY <2>0, <2>2, <3>1 DEF GivenAnswer, Answer, Answers
  <2>3. CASE Stored = {} /\ ~(file /\ env = "unset") /\ Ready(c, "error", 0, 0)
    <3>1. quote'[c] = Answer("error", 0, 0) /\ 0 \in Date
      BY <2>3, RateAssumption DEF Ready, Date, RateAssumption
    <3>2. ~file' \/ env' = "invalid"
      BY <1>4, <2>3 DEF ReadLatest, PastTheEnvironment
    <3>3. QED
      BY <2>0, <2>3, <3>1, <3>2 DEF GivenAnswer, Answer, Answers
  <2>4. QED
    BY <1>4, <2>1, <2>2, <2>3 DEF ReadLatest
<1>5. QED
  BY <1>1, <1>2, <1>3, <1>4

\* Of each call, after any step: it has not answered, or it has just answered,
\* or its answer is the one it had.
NotAnswered(q) ==
  /\ stage'[q] \notin {"commit", "done"} /\ inserted'[q] = inserted[q]
  /\ inserted[q] => fetched'[q] = fetched[q]

JustAnswered(q) == stage'[q] = "commit" /\ GivenAnswer(q) /\ fetched'[q] = fetched[q]

AnsweredBefore(q) ==
  /\ stage[q] \in {"commit", "done"} /\ (stage'[q] = "commit" => stage[q] = "commit")
  /\ UNCHANGED <<quote[q], known[q], today[q], fetched[q], inserted[q]>>
  /\ stage'[q] = "done" /\ stage[q] = "commit" /\ inserted[q]
       => table'[RowDate(q)] = fetched[q]

LEMMA EachAnswer ==
  ASSUME AnswerInv, [RateNext]_rateVars, NEW q \in Reader
  PROVE  NotAnswered(q) \/ JustAnswered(q) \/ AnsweredBefore(q)
<1> USE DEF AnswerInv, StrongInv, RateInv, RateTypeOK, world, readerVars,
            NotAnswered, JustAnswered, AnsweredBefore
<1>1. CASE NextDay \/ BankIssues \/ UNCHANGED rateVars
  BY <1>1 DEF NextDay, BankIssues, rateVars
<1>2. ASSUME NEW c \in Reader, BeginQuote(c) PROVE c # q \/ env = "valid" \/ stage'[q] = "today"
  BY <1>2 DEF BeginQuote, GoOn
<1>3. ASSUME NEW c \in Reader, BeginQuote(c) \/ ReadToday(c) \/ Save(c) \/ ReadLatest(c), c # q
      PROVE  UNCHANGED <<stage[q], quote[q], known[q], today[q], fetched[q], inserted[q]>>
  BY <1>3 DEF BeginQuote, ReadToday, Save, ReadLatest, Ready, GoOn
<1>4. CASE BeginQuote(q) \/ ReadToday(q) \/ Save(q) \/ ReadLatest(q)
  <2>1. CASE stage'[q] = "commit"
    <3>1. BeginQuote(q) => env = "valid"
      BY <2>1, <1>2
    <3>2. fetched'[q] = fetched[q]
      BY <1>4 DEF BeginQuote, ReadToday, Save, ReadLatest
    <3>3. QED
      BY <1>4, <2>1, <3>1, <3>2, GivenStep
  <2>2. CASE stage'[q] # "commit"
    BY <1>4, <2>2 DEF BeginQuote, ReadToday, Save, ReadLatest, Ready, GoOn
  <2>3. QED
    BY <2>1, <2>2
<1>5. ASSUME NEW c \in Reader, Fetch(c) \/ FetchFails(c) \/ ReaderFails(c)
      PROVE  \/ /\ stage'[q] \notin {"commit", "done"} /\ inserted'[q] = inserted[q]
                /\ inserted[q] => fetched'[q] = fetched[q]
             \/ UNCHANGED <<stage[q], quote[q], known[q], today[q], fetched[q], inserted[q]>>
  BY <1>5 DEF Fetch, FetchFails, ReaderFails, GoOn, NothingYet
<1>6. ASSUME NEW c \in Reader, CommitRate(c), c # q
      PROVE  UNCHANGED <<stage[q], quote[q], known[q], today[q], fetched[q], inserted[q]>>
  BY <1>6 DEF CommitRate, GoOn
<1>7. CASE CommitRate(q)
  <2>1. inserted[q] => RowDate(q) \in Date
    BY <1>7 DEF CommitRate, InsertsAreApart, RowDate
  <2>2. QED
    BY <1>7, <2>1 DEF CommitRate, GoOn
<1>8. CASE UNCHANGED <<stage[q], quote[q], known[q], today[q], fetched[q], inserted[q]>>
  BY <1>8
<1>9. QED
  BY <1>1, <1>3, <1>4, <1>5, <1>6, <1>7, <1>8 DEF RateNext

LEMMA AnswerStep ==
  ASSUME AnswerInv, [RateNext]_rateVars
  PROVE  AnswerInv'
<1>1. StrongInv' /\ RatesAdvance' /\ KnownAreRows' /\ PastTheEnvironment' /\ FetchedIsNotOlder'
  BY RateStep, NothingYetStep, RatesStay, KnownStep, EnvironmentStep, FetchedStep
     DEF AnswerInv, StrongInv
<1>2. \A d \in Stored : d \in Stored' /\ table'[d] = table[d]
  BY RowsStay DEF AnswerInv
<1>3. \A q \in Reader : fetched[q] # 0 /\ fetched'[q] = fetched[q]
         => RowDate(q)' = RowDate(q) /\ RowDate(q) \in Date
  BY RowDateStays DEF AnswerInv
<1>4. file' = file /\ env' = env
  BY DEF RateNext, NextDay, BankIssues, BeginQuote, ReadToday, Fetch, FetchFails, Save, ReadLatest,
         CommitRate, ReaderFails, rateVars, world
<1>5. AnswersMatchRows'
  BY <1>2, EachAnswer DEF AnswersMatchRows, AnswerInv, GivenAnswer,
     NotAnswered, JustAnswered, AnsweredBefore
<1>6. InsertsAreAnswered'
  <2> SUFFICES ASSUME NEW q \in Reader, inserted'[q]
               PROVE  /\ fetched'[q] # 0
                      /\ stage'[q] \in {"commit", "done"}
                           => quote'[q].asof = RowDate(q)' /\ quote'[q].rate = fetched'[q]
                      /\ stage'[q] = "done" => table'[RowDate(q)'] = fetched'[q]
    BY DEF InsertsAreAnswered
  <2>1. CASE NotAnswered(q)
    BY <2>1 DEF NotAnswered, AnswerInv, InsertsAreAnswered
  <2>2. CASE JustAnswered(q)
    BY <2>2, <1>3 DEF JustAnswered, GivenAnswer
  <2>3. CASE AnsweredBefore(q)
    <3>1. /\ inserted[q] /\ fetched[q] # 0 /\ RowDate(q)' = RowDate(q) /\ RowDate(q) \in Date
          /\ quote[q].asof = RowDate(q) /\ quote[q].rate = fetched[q]
      BY <2>3, <1>3 DEF AnsweredBefore, AnswerInv, InsertsAreAnswered
    <3>2. stage[q] = "done" => table'[RowDate(q)] = fetched[q]
      BY <3>1, <1>2 DEF AnswerInv, InsertsAreAnswered, Stored
    <3>3. QED
      BY <2>3, <3>1, <3>2 DEF AnsweredBefore
  <2>4. QED
    BY <2>1, <2>2, <2>3, EachAnswer
<1>7. AnswerIsNotOlder'
  BY <1>4, EachAnswer DEF AnswerIsNotOlder, AnswerInv, GivenAnswer,
     NotAnswered, JustAnswered, AnsweredBefore
<1>8. QED
  BY <1>1, <1>5, <1>6, <1>7 DEF AnswerInv

LEMMA AnswerInvariant == RateSpec => []AnswerInv
<1>1. RateInit => AnswerInv
  <2> SUFFICES ASSUME RateInit PROVE AnswerInv
    OBVIOUS
  <2>1. StrongInv
    BY InitRate DEF StrongInv, NothingYet, RateInit
  <2>2. QED
    BY <2>1 DEF RateInit, AnswerInv, RatesAdvance, KnownAreRows, PastTheEnvironment,
       FetchedIsNotOlder, AnswersMatchRows, InsertsAreAnswered, AnswerIsNotOlder
<1>2. AnswerInv /\ [RateNext]_rateVars => AnswerInv'
  BY AnswerStep
<1>3. QED
  BY <1>1, <1>2, PTL DEF RateSpec

\* Two calls that answered from the table, or put their answer there, agree on
\* the rate of a date, however many overlapped and whenever the bank issued a
\* second one.
THEOREM OneRatePerDate == RateSpec => []StoredAnswersAgree
<1>1. AnswerInv => StoredAnswersAgree
  BY DEF AnswerInv, AnswersMatchRows, InsertsAreAnswered, StoredAnswersAgree
<1>2. QED
  BY <1>1, AnswerInvariant, PTL

\* No call answers with a rate older than a row it could have had when it
\* began, and the file and the error are answers of last resort.
THEOREM AnswersAreFresh == RateSpec => []AnswerIsNotOlder
<1>1. AnswerInv => AnswerIsNotOlder
  BY DEF AnswerInv
<1>2. QED
  BY <1>1, AnswerInvariant, PTL
=============================================================================
