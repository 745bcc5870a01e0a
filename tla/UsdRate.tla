------------------------------- MODULE UsdRate -------------------------------
(***************************************************************************)
(* GET /api/system/usd-rate: the rate of the US dollar, from the first of  *)
(* these that has one: the environment, today's row of usd_uzs_rates, the  *)
(* central bank (whose answer is stored), the newest row, a file.  Calls   *)
(* overlap, each in a READ COMMITTED transaction that commits after the    *)
(* response.                                                               *)
(***************************************************************************)
EXTENDS Integers, Sequences

CONSTANTS
  Reader,    \* calls of the endpoint
  LastDay,   \* bound: the clock stops here
  MaxRates,  \* bound: rates the bank issues
  NoQuote    \* no answer yet

ASSUME RateAssumption == LastDay \in Nat \ {0} /\ MaxRates \in Nat

\* Banks issue rates for the day before up to the day after.
Date == 0 .. LastDay + 1

VARIABLES
  day,       \* the UTC date
  env,       \* USD_UZS_RATE: "unset", "valid" or not a number, "invalid"
  file,      \* the file of last resort is there
  rates,     \* dates of the rates issued by the bank, in order of issue
  table,     \* committed rows: for each date the rate stored, 0 if none
  stage,     \* next step of each call
  today,     \* date each call goes by
  known,     \* dates that had a row when the call began
  fetched,   \* rate the bank answered the call
  inserted,  \* the call's INSERT has made a row
  quote      \* what the call answers

world == <<day, env, file, rates>>
readerVars == <<stage, today, known, fetched, inserted, quote>>
rateVars == <<world, table, readerVars>>

Underway == {"today", "fetch", "save", "latest", "commit"}

\* "stored" is today's row, whose own source the code passes on; rate 0 is one
\* the bank did not issue.
Answer(source, rate, asof) == [source |-> source, rate |-> rate, asof |-> asof]
Answers == [source : {"env", "stored", "cbu_live", "db_cached", "manual", "error"},
            rate : Nat, asof : Date]
Stored == {d \in Date : table[d] # 0}

RateInit ==
  /\ day = 1 /\ rates = <<>>
  /\ env \in {"unset", "valid", "invalid"} /\ file \in BOOLEAN
  /\ table = [d \in Date |-> 0]
  /\ stage = [c \in Reader |-> "new"]
  /\ today = [c \in Reader |-> 1]
  /\ known = [c \in Reader |-> {}]
  /\ fetched = [c \in Reader |-> 0]
  /\ inserted = [c \in Reader |-> FALSE]
  /\ quote = [c \in Reader |-> NoQuote]

NextDay ==
  /\ day < LastDay
  /\ day' = day + 1
  /\ UNCHANGED <<env, file, rates, table, readerVars>>

\* The bank issues a rate, perhaps a second one for the same date; its dates
\* do not go back.
BankIssues ==
  /\ Len(rates) < MaxRates
  /\ \E d \in day - 1 .. day + 1 :
       /\ \A k \in 1 .. Len(rates) : rates[k] <= d
       /\ rates' = Append(rates, d)
  /\ UNCHANGED <<day, env, file, table, readerVars>>

\* The call goes on to the commit with its answer.
Ready(c, source, rate, asof) ==
  /\ stage' = [stage EXCEPT ![c] = "commit"]
  /\ quote' = [quote EXCEPT ![c] = Answer(source, rate, asof)]

GoOn(c, to) == stage' = [stage EXCEPT ![c] = to] /\ UNCHANGED quote

\* _try_env_override: what is not a number is passed over.
BeginQuote(c) ==
  /\ stage[c] = "new"
  /\ today' = [today EXCEPT ![c] = day]
  /\ known' = [known EXCEPT ![c] = Stored]
  /\ \/ env = "valid" /\ Ready(c, "env", 0, day)
     \/ env # "valid" /\ GoOn(c, "today")
  /\ UNCHANGED <<world, table, fetched, inserted>>

ReadToday(c) ==
  /\ stage[c] = "today"
  /\ \/ today[c] \in Stored /\ Ready(c, "stored", table[today[c]], today[c])
     \/ today[c] \notin Stored /\ GoOn(c, "fetch")
  /\ UNCHANGED <<world, table, today, known, fetched, inserted>>

\* fetch_usd_rate: one of three attempts is answered, with the last rate issued.
Fetch(c) ==
  /\ stage[c] = "fetch" /\ rates # <<>>
  /\ fetched' = [fetched EXCEPT ![c] = Len(rates)]
  /\ GoOn(c, "save")
  /\ UNCHANGED <<world, table, today, known, inserted>>

\* All three attempts fail.
FetchFails(c) ==
  /\ stage[c] = "fetch"
  /\ GoOn(c, "latest")
  /\ UNCHANGED <<world, table, today, known, fetched, inserted>>

\* Mutant: the row is stored under today's date.
RowDate_today(c) == today[c]
RowDate(c) == rates[fetched[c]]

\* The row exists in a transaction that has not ended.
Pending(d) == \E q \in Reader : stage[q] = "commit" /\ inserted[q] /\ RowDate(q) = d

\* Mutant: ON CONFLICT DO UPDATE.
Inserts_update(c) == TRUE

\* ON CONFLICT (date) DO NOTHING.
Inserts(c) == RowDate(c) \notin Stored

\* The INSERT waits for a transaction that has inserted the same date.  The
\* answer is the rate fetched, whatever the table holds.
Save(c) ==
  /\ stage[c] = "save" /\ ~Pending(RowDate(c))
  /\ inserted' = [inserted EXCEPT ![c] = Inserts(c)]
  /\ Ready(c, "cbu_live", fetched[c], rates[fetched[c]])
  /\ UNCHANGED <<world, table, today, known, fetched>>

\* ORDER BY date DESC LIMIT 1
NewestRow(d) == d \in Stored /\ \A e \in Stored : e <= d

\* The newest row, else the file.  Reading the file looks at the environment
\* again, and there a value that is not a number is an error.
ReadLatest(c) ==
  /\ stage[c] = "latest"
  /\ \/ \E d \in Date : NewestRow(d) /\ Ready(c, "db_cached", table[d], d)
     \/ Stored = {} /\ file /\ env = "unset" /\ Ready(c, "manual", 0, 0)
     \/ Stored = {} /\ ~(file /\ env = "unset") /\ Ready(c, "error", 0, 0)
  /\ UNCHANGED <<world, table, today, known, fetched, inserted>>

\* After the response.
CommitRate(c) ==
  /\ stage[c] = "commit"
  /\ GoOn(c, "done")
  /\ table' = IF inserted[c] THEN [table EXCEPT ![RowDate(c)] = fetched[c]]
                             ELSE table
  /\ UNCHANGED <<world, today, known, fetched, inserted>>

\* The worker or its connection dies, before or after the response.
ReaderFails(c) ==
  /\ stage[c] \in Underway
  /\ GoOn(c, "failed")
  /\ UNCHANGED <<world, table, today, known, fetched, inserted>>

RateNext ==
  \/ NextDay \/ BankIssues
  \/ \E c \in Reader :
       \/ BeginQuote(c) \/ ReadToday(c) \/ Fetch(c) \/ FetchFails(c) \/ Save(c)
       \/ ReadLatest(c) \/ CommitRate(c) \/ ReaderFails(c)

RateSpec == RateInit /\ [][RateNext]_rateVars
-----------------------------------------------------------------------------
\* The type invariant: rates are numbered by their place in the order of issue.
RateTypeOK ==
  /\ day \in 1 .. LastDay
  /\ env \in {"unset", "valid", "invalid"} /\ file \in BOOLEAN
  /\ rates \in Seq(Date)
  /\ table \in [Date -> 0 .. Len(rates)]
  /\ stage \in [Reader -> {"new", "done", "failed"} \cup Underway]
  /\ today \in [Reader -> 1 .. LastDay]
  /\ known \in [Reader -> SUBSET Date]
  /\ fetched \in [Reader -> 0 .. Len(rates)]
  /\ inserted \in [Reader -> BOOLEAN]
  /\ quote \in [Reader -> Answers \cup {NoQuote}]

\* However calls overlap, a committed row is never written again: the first
\* rate stored for a date is the rate of that date.
StoredRateIsFinal ==
  [][\A d \in Date : table[d] # 0 => table'[d] = table[d]]_rateVars

\* A rate is stored under the date it was issued for, although the row is
\* looked up by the date of the clock, and midnight may pass in between.
RatesKeepTheirDate == \A d \in Stored : rates[table[d]] = d

\* Two answers read from the table for one date are the same rate, and so are
\* the answer that put the row there and those that read it.
StoredAnswersAgree ==
  \A c, q \in Reader :
    /\ stage[c] = "done" /\ (quote[c].source \in {"stored", "db_cached"} \/ inserted[c])
    /\ stage[q] = "done" /\ (quote[q].source \in {"stored", "db_cached"} \/ inserted[q])
    /\ quote[c].asof = quote[q].asof
    => quote[c].rate = quote[q].rate

\* Whichever source answers, no row the table had when the call began, up to
\* the call's date, is newer than the answer.  The file answers only if the
\* table was empty, and an error only if there was no file to read either, or
\* a variable in the environment that spoils the reading of it.
AnswerIsNotOlder ==
  \A c \in Reader : stage[c] = "commit" =>
    /\ quote[c].source \in {"stored", "cbu_live", "db_cached"}
         => \A d \in known[c] : d <= today[c] => d <= quote[c].asof
    /\ quote[c].source \in {"manual", "error"} => known[c] = {}
    /\ quote[c].source = "error" => ~file \/ env = "invalid"

\* Why StoredRateIsFinal holds: rows inserted and not committed are of
\* different dates, and of dates that have no row.
InsertsAreApart ==
  \A c \in Reader : stage[c] = "commit" /\ inserted[c] =>
    /\ fetched[c] # 0
    /\ RowDate(c) \notin Stored
    /\ \A q \in Reader : q # c /\ stage[q] = "commit" /\ inserted[q] => RowDate(q) # RowDate(c)

FetchedIsKnown == \A c \in Reader : stage[c] = "save" => fetched[c] # 0

RateInv ==
  /\ RateTypeOK
  /\ FetchedIsKnown
  /\ InsertsAreApart
  /\ RatesKeepTheirDate
=============================================================================
