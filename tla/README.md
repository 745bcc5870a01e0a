# Credit assistant: specifications

TLA+ models of the parts of the credit assistant (`src/`) where a wrong order of
steps, a stale copy, a crash, a late migration or an unlucky combination of figures
would do harm.  TLC checks each on small instances; TLAPS proves theorems about most of
them for instances of any size.

    tlc -workers 2 -config MCCalendar_quiet.cfg MCCalendar
    tlapm DossierRegistryProofs.tla

`PROJECT.json` lists the components, the runs, the source lines behind every
definition, the hazards, and the theorems.

## 1. The system

A bank (or a borrower, in stateless mode) fills a form about a borrower, FastAPI
handlers assemble a snapshot, rules raise flags, a score is computed, the dossier
is filed under a case identifier `CA-<year>-<number>`, and is later viewed,
searched and printed.  PostgreSQL holds all lasting state, Redis the denylist of
refresh tokens.  Every HTTP call has one transaction: `get_session`
(`infrastructure/persistence/database.py:84`) opens it before the handler and
commits it **after the response was sent**; an `HTTPException` on the way rolls it
back.  Isolation is READ COMMITTED.  ORM objects are loaded once and written back
by column at the flush.  These four facts are behind most of what is modelled.

| Component | State | Operations | What is hard | What makes it correct |
|---|---|---|---|---|
| Dossiers and case ids (`shared/dossier.py`, `case_id_allocator.py`, dossier and borrower repositories) | `borrowers`, `borrower_snapshots`, `dossiers`, the sequence `dossier_case_seq`, advisory locks by year | `POST /api/manual-input` | one sequence for all years, reset under a lock that is per year; rollbacks; the response before the commit | identifiers are unique, start at one each year, grow in the order dossiers are filed; the newest dossier shows its own borrower |
| Views, search, history | none of their own | GET by id, search by taxpayer number, pages | they read rows that later calls overwrite | a dossier shows what was assessed |
| Analyst account (`bank/auth.py`, `bank/mfa.py`, `bank/admin.py`) | one `analysts` row: secret, `enrolled_at`, code hashes, password hash; `audit_log` | login, enroll start and verify, challenge by TOTP or code, disable, reset, change password | copies loaded before others commit; failures that roll their own audit row back | a second factor that is on can be answered; codes work once; every change is audited |
| LDAP and break-glass login (`ldap_authn_adapter.py`, `break_glass_authn_adapter.py`) | the same table, one row per address as typed | login, seeding tool | a list compared without letter case beside a table with it; lookup and upsert apart | local administrators stay local; a login brings role and row up to date |
| Refresh rotation (`bank/auth.py`, Redis denylist, JWT service) | keys in Redis with a TTL; tokens are stateless | refresh, logout | check, read and `SET NX` apart; Redis down, restarted, empty; whole seconds against fractions | a token is exchanged once; a logged-out token is dead |
| Scoring and confidence (`scoring_service.py`, `confidence_layer.py`) | none | `score(flags, snapshot)` | three corrections on top of each other | no approval for lack of data; more flags are never milder |
| Red-flag rules (`domain/rules`, `v1_uz_msb.yaml`) | none; YAML read at start | `run_all(snapshot)`, replay | windows in days, months and years, dual severities, a stored copy rebuilt field by field | evidence is not buried, waiting opens no window, a larger loan clears no flag, replay agrees |
| KPI, readiness, PDF data (`kpi_calculator.py`, `readiness_service.py`, `pdf_data_aggregator.py`) | none | pure functions of a snapshot | the same ratio written twice, with other ways of choosing the latest report | screen, report and flags tell one story |
| File intake (`soliq_xltx`, `parse_manual_input_files.py`, the dropzone of the form) | the form's fields and their marks, in the browser | add, remove, send files; type over a field | several files for one year, own and comparison columns, torn cells, merges on both sides | a mark names where the value is from; a year's own report wins; more files never look like less |
| Drafts | `drafts` row with an expiry | POST, PUT, GET | the clock read twice; UPDATE by column over a stale copy | shown no longer than promised; a PUT is lost only when overtaken |
| GNK certificates | certificate rows | upload, latest | the time is read before the insert, the commit comes after the response | the newest shown never goes back |
| USD rate | `usd_uzs_rates`, one row per date | environment, today, central bank, latest, bootstrap | concurrent fetches, dates that differ | a stored rate is final; an answer is not older than need be |
| Uptime collector and health | `system_uptime_day`, one row per day | a tick a minute, GET health | compared with a row read earlier; writing "down" to a database that is down | a fault is never forgotten, though it may be made smaller; the loop outlives failed ticks |
| PII encryption | sealed columns, key lists of the processes | write, rotate: add key, downgrade, upgrade, drop key | workers write while a migration rewrites what it read | every row opens at each step |
| Catalogs and brand, app assembly, metrics, scripts, pages of the web UI, layout of the PDF | files, configuration | rendering, wiring | — | — |

How they interact: the dossier handler calls the rules and the score, then the
borrower, snapshot and dossier repositories and the allocator, all in one
transaction; login, challenge and change of password call the account row, the
audit log and the token service; refresh and logout call the token service, the
account row and Redis.  Intake and form run in the browser and meet the handlers only
through the form that is sent; screen and PDF read what the dossier handler stored.
Drafts, certificates, rate, uptime and key rotation share the database with the rest
but no row.  There are no message queues; the only background task is the uptime
collector.

## 2. Modules

| Module | Models | Extends / instances |
|---|---|---|
| `CaseRegister` | abstract: dossiers filed one at a time under ever higher identifiers, with the borrower's card | |
| `DossierRegistry` | the transaction of `POST /api/manual-input` with the allocator | instances `CaseRegister` |
| `MfaLifecycle` | abstract: propose, confirm, spend a code, turn off | |
| `AnalystAccount` | every endpoint that reads and writes one analyst's row | instances `MfaLifecycle` |
| `LdapLogin` | login against a directory, the break-glass list, the seeding tool | |
| `RefreshRotation` | refresh, logout, Redis, the clock | |
| `ConfidenceLayer` | coverage and tier of a snapshot | |
| `ScoringService` | flags to score and recommendation | extends `ConfidenceLayer` |
| `FinancialRules`, `DatedRules`, `PartnerRules` | the 24 red-flag rules, by what they read | each extends the one before |
| `SnapshotReview` | form to snapshot to flags, in the order and with the severities of the YAML; the stored copy | extends `PartnerRules` |
| `FinancialKpis` | figures and tones of the dossier screen | extends `FinancialRules` |
| `DataReadiness` | readiness of a draft and of a stored dossier | extends `DatedRules` |
| `DossierReport` | screen, cover, partners and tax section made of the stored snapshot | extends `FinancialKpis`, `SnapshotReview`, `DataReadiness` |
| `FileIntake` | reading and merging Soliq files, the dropzone, the trail | extends `DataReadiness` |
| `UsdRate` | the exchange rate: environment, table, central bank, file | |
| `DraftStore`, `GnkCertificates` | drafts; certificates | |
| `SystemUptime` | collector, health calls, a database that stops | |
| `PiiKeys` | sealed values and the rotation of their key | |
| `MC…` | small instances, symmetry sets, what can be entered; compositions (below) | extend their components |
| `ListProofs` | lemmas about lists: ranking, sorting, filtering, sums over sets of any size | extends `FinancialRules` |
| `AssessmentProofs` | theorems about scoring, rules, screen and report | extends `ScoringService`, `DossierReport`, `ListProofs` |
| `AnalystAccountProofs` | theorems about the account and the directory logins | extends `AnalystAccount`, `LdapLogin` |
| `StoredRecordsProofs` | theorems about drafts, certificates, keys, uptime | extends the four |
| other `…Proofs` | theorems | extend their component (`FileIntakeProofs` also `ListProofs`) |

`DossierReport` and `FileIntake` compose components that interact: rules, figures,
readiness and storage of one snapshot; parser, form and readiness.  `MCCalendar`,
`MCAccounts`, `MCServices` and `MCAssessment` put components that share no state into
one run: a variable `subject` chosen at the start says which of them moves, the others
rest in an initial state, so that a run is the sum of its subjects and not their product.

### DossierRegistry

A request goes through `persist`, `clock`, `lock`, `rollover`, `restart`,
`nextval`, `insert`, `respond`, `commit`: one action per statement of the handler
or of `allocate`.  Locks are not variables.  Row lock, advisory lock, the lock
`nextval` keeps and the exclusive one of `ALTER SEQUENCE` all live to the end of
the transaction, so who holds what follows from `pc` (`HoldsRow`, `HoldsYear`,
`Numbered`, `seqOwner`).  A rollback brings a restarted sequence back (`seqSaved`)
but no numbers taken by `nextval`.  The unique index is `KeyPending` and `KeyTaken`.
The migration that created the sequence is `Init`.  `lateRestart` is history: a straggler,
a call whose year is over, has restarted the sequence and committed.  `Fail`
is the death of a worker or connection at any step.  Scoring, the snapshot's contents and encryption do not
matter here and are left out; a dossier carries the request that filed it, which
stands for everything in its form.

### AnalystAccount

A call loads the row into `got`, decides (`Accepts`), computes what it wants
(`Wanted`), and at the commit the row gets the columns in which the two differ
(`Column`): the unit of work of SQLAlchemy.  `enrolled_at` is named by the verify
that set it, a secret by the start that generated it, so that "of the same
enrollment" can be said.  `start` answers before its flush, the other endpoints flush
first.  What a user can send is what the user has seen (`Devices`, `Printed`): codes
and secrets of answered calls.  A TOTP code is possession of the secret; its time
steps, bcrypt and rate limits are left out.  Accounts are password accounts: LDAP
ones have no password and belong to the LDAP component.

### RefreshRotation

Time in half seconds, because the code truncates: `int()` of the TTL and the whole
seconds the JWT library compares.  A refresh names the token it issues.  `is_denied`,
the reading of the analyst, `SET NX EX` and the response are separate steps;
`DenyFails` is the client's exception with the command executed or not.
`RedisStarts` keeps the data or loses it (`lost`).  A client presents any token it
was answered, at any time and twice at once.

### LdapLogin

A call is `search`, `verify`, `load`, `store`, or `local` for an address on the list.
An address is a person and a letter case, because the list is compared in lower case
(`OnList`) and the table as typed.  The directory's answers are chosen anew at every
step: groups, passwords and outages change at any time.  `load` and `store` are the two
statements of `upsert_from_ldap`; the INSERT meets the unique index, the UPDATE writes
the columns that differ from the copy (`BroughtUpToDate`).  The seeding tool runs at any
time.  `changed` records the calls in whose time another one wrote the row.

### UsdRate

A call goes through `today`, `fetch`, `save` or `latest`, `commit`.  A rate is the
number of its issue by the bank, so that two rates of one date are told apart; the bank
issues for the day before up to the day after, never for an earlier date than it has.
The INSERT waits for one of the same date that has not ended (`Pending`), and does
nothing when it finds a row (`Inserts`).  The answer is the rate fetched, whatever the
table holds.  `known` records what the table held when the call began, for
`AnswerIsNotOlder`.

### DraftStore, GnkCertificates, SystemUptime, PiiKeys

**Drafts.**  A PUT is load, flush, answer, commit; the flush takes the row's lock and
reads the clock, the answer reads it again (`Promised`), the UPDATE has the payload only
when it differs from the copy (`PayloadWritten`).  `promise` is the latest expiry any
client of the draft was told.  Whoever lost its connection leaves nothing.

**Certificates.**  `ReceiveUpload` has the refusals in the order of the handler and reads
the clock; insert, response and commit follow.  `ShowLatest` is the GET, any of those of
the same instant.

**Uptime.**  A probe is `Measure`, `ReadRow`, `WriteRow`, `EndProbe`, for the collector
and for health calls alike; `Talks` is a transaction that has not lost its database, and
an error in any step is swallowed (`Abandon`).  The status is one of a failed `SELECT 1`,
a failed import of the PDF engine (which is tried again until it succeeds once) or
neither.  PostgreSQL stops and starts, the server stops and starts, the date changes.

**Keys.**  A value is its text and the keys it is sealed with; `Opens` is
`decrypt` with a list of keys.  A migration reads all rows (`copy`) and writes later,
while workers write with the keys they were started with.  `Later` is the number of
migrations after the encrypting one, `Down` the number the operator takes back.

### SnapshotReview and its rules, FinancialKpis, DossierReport

A state is the form sent last and the flags stored with it.  `Enter` adds an item to one
list of the page that is being filled, `AskFor` changes the loan, `DaysPass` sends the
same papers later; each runs the registry over the whole form.  Every rule is one
operator of its YAML identifier, TRUE when it raises the flag; amounts are in millions
and fractions are compared by multiplication, so that thresholds are exact where the code
has `Decimal`; shares are whole percents.  Days are numbers in years of 365 days.  `Stored` is the round trip through
`snapshot_mapper`: jsonb has an order of keys of its own.  `compute_kpis`,
`build_strengths`, `build_risks`, `top_shares` and `compute_tax_summary` are functions of
the stored copy, `load_dossier_readiness` too.

Python's `sorted`, a comprehension with a condition and `sum` are `Sorted`, `Kept` and
the library's `SumFunction`.  `Ranked` says which place stands at which rank: that with as
many places before it, equal keys in the order of the list, so that `sorted` is stable as
in Python.  `found` maps the identifier of each rule that was raised to its severity; the
order of the YAML comes back in `build_risks`, the one place where it decides something.

### FileIntake

The list of files is changed and sent in any order.  `Readings` is what has been read after
each file (`ReadFile`), `execute` the end of it with the balance sheet put in; values have
a rank (`Prior`, `Current`), the balance sheet is taken whole from the newest
file.  `Over` is the update of a dictionary, in the parser and in the browser.  A cell is a
number, junk or empty.  The form's cells of quarters are left out: no file fills them.
`filled`, `parsed` and `trail` are the three maps the browser merges separately; `normalizeDigits` is what a field does to a number.

### ScoringService

`Coverage`, `Tier`, `TotalWeight`, `Recommend`, `Blinded`, `Penalised`, `Floored`
are the functions of the code; a state is what has been sent so far and its
assessment, and the steps send more.  Which flags a form raises is left open: any
number of any severity, independently of the documents, which is more than the rules
can do.  Integer division rounds as Python's `//` on naturals.

## 3. Runs

| Run | Instance | Shows |
|---|---|---|
| `quiet` | dossiers: 3 requests, 2 borrowers, 3 years, up to 1 migrated dossier, no call under way past its reading of the clock at a year change; uptime: the collector and a health call over 2 dates | `AllocatedIdIsFresh`, the refinement `ImplementsRegister`; `OnlyStaleOkDeescalates`, `HealthIsAnswered`, `FaultIsRecorded` |
| `rollover` | 3 requests, 2 borrowers, 3 years, 2 migrated dossiers of one borrower, the year changes at any time, fairness | `OnlyStragglersCollide`; `NewestCaseShowsItsBorrower`, which rests on the row lock as soon as two years allocate at once; `EveryRequestEnds`: no deadlock between the four kinds of lock |
| `collision` | 2 requests, 2 years, any time | **violated** `AllocatedIdIsFresh` |
| `serial` | 4 calls of the second-factor endpoints, one after another, crashes; 2 overlapping directory logins, 3 addresses | `EnrollmentIsWhole`, `CodeSpentOnce`, the refinement `ImplementsLifecycle`; `BreakGlassStaysLocal`, `LoginBringsRowUpToDate` |
| `lockout` | 3 overlapping calls | **violated** `EnrolledHasSecret` |
| `twice` | 3 overlapping calls | **violated** `BackupCodeOnce` |
| `unaudited` | any endpoint | **violated** `FailedLoginIsAudited` |
| `escalation` | the collector and a health call on 1 date | **violated** `StatusOnlyEscalates` |
| `services` | account: 3 calls of any endpoint, 2 passwords, freely interleaved; refresh: 3 calls, 1 login, tokens of 2 seconds, 2.5 seconds of clock, Redis may fail; rate: 3 calls, 2 days, 2 rates; drafts: 2 PUTs, 2 payloads, time to live 2 of 4 days; certificates: 3 uploads of a borrower; keys: 2 workers, 2 values, 6 migrations taken back of which 5 came later | `EnrollmentIsAudited`, `OnlyPasswordCallsChangeThePassword`, `OnlyVerifyTurnsOn`, `TurningOffIsAudited`; `DeniedOncePerLife`, `LoggedOutTokenIsDead`; `StoredAnswersAgree`, `AnswerIsNotOlder`, `StoredRateIsFinal`; `ShownOnlyAsPromised`, `PutIsKeptUnlessOvertaken`; `LatestNeverGoesBack`; `RowsStayReadable` |
| `keys` | the rotation as the runbook writes it: 1 migration taken back | **violated** `RowsStayReadable` |
| `scoring` | scoring: numbers of flags and documents on both sides of every threshold; review: one page of the form at a time, values on both sides of every threshold, 4 loans, 3 days; intake: 7 folders of Soliq files, lists of up to 3 | `NeverApprovedBlind`, `RecommendationFitsScore`, `RejectStands`, `MoreFlagsNeverMilder`, `MoreDataNeverLowersCoverage`; `ReplayAgrees`, `TimeOnlyClearsFlags`, `EvidenceIsNotBuried`, `AskingMoreNeverHelps`, `ScreenAgreesWithFlags`, `ReportBearsOutFlags`; `MarkedFieldsAreTrue`, `OwnReportIsShown`, `ReadinessNeverFalls` |
| `blind` | as scoring | **violated** `InsufficientDataIsReviewed` |

**Why the bounds are enough.**  Dossiers: a collision needs a straggler, a call that
restarts the sequence, and numbers in use from the old year; the third request lets a
rollback of a restart meet a call that waits for it, and the third year lets a year
without dossiers be skipped.  In `rollover` two migrated dossiers
give the old year numbers that are in use: two calls are enough for a collision, and
three for a straggler that restarts the sequence of a year that is over.  Account:
overlaps that matter are pairs (a copy loaded before another call commits); the third call sets up or observes, and the fourth, in
`serial`, allows start, verify, challenge, reset in a row.  Directory: a race is of two
logins of one address with the seeding tool as a third writer; the addresses are a listed
one in both letter cases and one that is not listed.  Rotation: the shortest
contests are two calls on one token; the third logs out or uses the successor, and a
life of two seconds has a first second, a tail and an end, for a token that is
refreshed in its first half second too.  Rates: two calls
fetch at once and a third reads what they leave.  Drafts, certificates: what can go wrong
takes a pair of overlapping writers; the third upload gives GET something newer, and the
clock of a draft runs past two lives.  Uptime: collector and one health call are the two
writers of a row, two dates are a midnight.  Keys: a row of either kind, sealed or not,
and a worker with the old list beside one with the new.  Scoring: counts run up to
the most the configured rules can raise, so that the clamp at 100 is reached, and on
both sides of each threshold of the coverage.  Review: a rule reads one list, or one list
and the loan or the card, so one page at a time meets every rule; values stand on both
sides of each threshold, two items (three for months and quarters) are what the rules
compare.  Each of the 24 flags is raised in some states of the run and absent from others.  Months in the windows
of turnover are 2 instead of 12 (`YearLength`); two windows follow each other then within
the three months a behaviour can enter.  Intake: three files are a contest
of two and one that decides it; the folders hold years that follow each other, one year
twice, a half year, torn headers and sheets.

**No deadlock check.**  Every instance has finitely many calls, and stops when all
have been made; `CHECK_DEADLOCK FALSE` is for that.  That nobody waits for ever on a
lock is `EveryRequestEnds`.

**Symmetry** permutes calls, in runs that check no liveness.

**Fairness.**  Dossiers (`Fairness`, in `rollover`): weak fairness of `Step(r)` for each
request, no fairness for clients, the clock or failures.  A handler that has begun is
run by the event loop, and PostgreSQL grants a lock once it is free: a step that stays
possible is taken.  Weak fairness is enough because calls are finitely many; with an
endless stream of them, it would have to be PostgreSQL's queue that keeps a waiter from
starving.  Uptime (`UptimeFairness`, in `quiet`): weak fairness of the collector's next
tick, because the loop sleeps a minute and goes on; strong fairness of a probe's step,
because PostgreSQL queues the transactions that wait for a key or a row, so that one that
could go on again and again does, although others overtake it.  None for the endpoint's
clients, stops and starts, the engine or the date: `FaultIsRecorded` therefore says what
follows when the server and the database stay up and the engine stays away.

**Mutants.**  Each property of a passing run is broken by a definition, beside the
one it replaces and commented as a mutant, that errs as the code plausibly could: MIN
for MAX, a lock that outlives the commit, SET without NX, a forgotten assignment, the
last file instead of the first, a threshold turned round.

## 4. Proofs

| Module | Theorem | Establishes |
|---|---|---|
| `DossierRegistryProofs` | `TypeCorrect` | types, for any number of calls, borrowers and years |
| | `FreshCaseIds` | with no straggler at the new year, no identifier in use is ever given out |
| | `RegistryImplementsRegister` | with no straggler, the refinement `ImplementsRegister` |
| | `StragglersAlone` | with stragglers: only they collide, until one restarts the sequence |
| | `NewestCaseAndCardAgree` | with stragglers: the newest dossier shows its own borrower, until then |
| `AnalystAccountProofs` | `TypeCorrect` | types, whatever overlaps |
| | `PasswordIsNeverOverwritten` | only a change of password changes the password |
| | `OffStaysOff` | only a verify turns the second factor on |
| | `EnrollmentLeavesATrace`, `TurningOffLeavesATrace` | whatever overlaps: an enrollment is in the audit log, and so is its end |
| | `EnrollmentIsSound` | without overlap: `EnrollmentIsWhole`, a secret, the proved one, and its codes |
| | `BackupCodesAreSpentOnce` | without overlap: a code is accepted once |
| | `AccountImplementsLifecycle` | without overlap, the refinement `ImplementsLifecycle` |
| | `LdapCorrect`, `BreakGlassIsLocal`, `LoginsUpdateTheRow` | directory logins: types and invariant; `BreakGlassStaysLocal`, `LoginBringsRowUpToDate` |
| `RefreshRotationProofs` | `TypeCorrect` | types |
| | `OneDenialPerToken` | one denial per token, but for keys lost and the last second |
| | `LogoutIsFinal` | a token that was logged out is not exchanged afterwards, with the same exceptions |
| `UsdRateProofs` | `FirstRateStays` | a committed rate is never written again |
| | `RatesAreStoredByDate` | types, and every rate under the date it was issued for |
| | `OneRatePerDate` | answers from the table agree on the rate of a date |
| | `AnswersAreFresh` | an answer is no older than what the table held when the call began |
| `AssessmentProofs` | `TypeCorrect`, `BlindIsNeverApproved`, `FlagsAreNotExcused`, `ScoreAndRecommendationAgree`, `FlagsNeverHelp`, `MoreDataNeverHurts` | scoring: its properties, for any number of flags and documents |
| | `FlagsAreOfTheForm` | types of the form, and that the flags beside it are its own |
| | `TimeClearsFlags` | `TimeOnlyClearsFlags`: waiting raises no flag |
| | `MoreIsAskedForInVain` | `AskingMoreNeverHelps`: a larger loan clears no flag |
| | `EvidenceStays` | `EvidenceIsNotBuried`: one more item clears no flag that rests on another |
| | `ReplayIsTheSame` | `ReplayAgrees`: the stored copy raises the same flags, as gravely; with the card of a later form, all but those two that are about the card |
| | `CarouselsAreNeverSeen` | no flag of circular invoicing is ever critical |
| | `ReportIsTrue` | `ReportBearsOutFlags`: cover, tax section and suppliers |
| | `ScreenIsTrue` | `ScreenAgreesWithFlags`: figures, tones, strengths and readiness |
| `FileIntakeProofs` | `MarksAreTrue` | `MarkedFieldsAreTrue`, for any files in any number and order |
| | `OwnReportComesFirst` | `OwnReportIsShown`, the merge of a whole batch |
| | `MoreFilesAreNoWorse` | `ReadinessNeverFalls`, with what readiness is made of |
| `StoredRecordsProofs` | `DraftsExpireAsTold`, `OnlyOvertakenPutsAreLost` | drafts, for any number of PUTs, overlapping as they like, and any time to live |
| | `NewestStaysNewest` | certificates, for any number of uploads and borrowers |
| | `RotationKeepsRowsReadable` | keys, for any number of rows and workers |
| | `UptimeCorrect`, `DeescalationNeedsStaleOk` | uptime: types and invariant; whatever number of probes overlap, the status of a day gets better in one way alone, from down to degraded by a prober that read ok |

Assumptions: only those named `…Assumption` in the modules, on the constants (bounds
are naturals, `None` is no call, a cell is a number or one of two marks, what can be typed
has a field, what can be entered is of the type of its list, and Python's `None`, the
constant `Unknown`, is no number, no entry and no figure).  `FreshCaseIds` and `RegistryImplementsRegister` also have `QuietRollover`
as their hypothesis; `EnrollmentIsSound`, `BackupCodesAreSpentOnce` and
`AccountImplementsLifecycle` have `~Overlap`, and `RotationKeepsRowsReadable` has
`Down > Later`: without them the runs `collision`, `lockout`, `twice` and `keys` show the
statement is false.

**FreshCaseIds.**  That the number drawn is not in use is not inductive.
`AllocationInv` says why it holds: calls past the clock read this year, so they
contend for *one* advisory lock (`OneAllocates`); the sequence, or during a restart the
value a rollback would restore, is not below any number of the newest year
(`SequenceCoversNewestYear`); a restart is under way only for a year with no dossier
(`RestartOnlyForNewYear`); hence a number drawn is above all of its year
(`NumberIsNewest`).  The first conjunct is the one the new year breaks.

**RegistryImplementsRegister.**  `RegisterInv` adds what the register says of the first
number of a year: a restarted sequence is at its start until its owner draws
(`RestartIsFresh`), so the first number of a new year is one (`FirstOfYearIsOne`).  Then a
commit is the register's `File`, and every other step leaves dossiers and cards alone.

**StragglersAlone, NewestCaseAndCardAgree.**  `RolloverInv` does without the quiet new
year.  Locks are per year (`LockPerYear`) and per borrower (`RowPerBorrower`), numbers are
drawn by the owner of a restarted sequence alone (`OwnerDrawsAlone`).  Until a late restart
the sequence covers the numbers of the latest year that has dossiers
(`SequenceCoversLatest`), a number drawn for the year in progress is above all of it
(`DrawnIsAbove`), and the card of a borrower is that of the newest dossier, or of the call
that holds the row (`CardIsOfNewest`).

**EnrollmentIsSound.**  `AccountInv` adds that one call is active (`Alone`), its copy
is the row (`CopyIsCurrent`), what it accepted is so on its copy (`AcceptedOnCopy`), and
that the verify that names an enrollment committed (`EnrolledByVerify`).

**EnrollmentLeavesATrace, TurningOffLeavesATrace.**  `AuditInv`: what a call has to
record it has recorded before it answers (`Recorded`), what it accepted held on the copy it
loaded, and the verify that names an enrollment committed.  A commit writes row and audit
together (`CommitStep`).

**BackupCodesAreSpentOnce, AccountImplementsLifecycle.**  `LifeInv` adds to `AccountInv`
that a code carried by a challenge was printed by a call that ended (`CodesOfTheEnded`), that
a code spent is in no later row (`SpentAreGone`), and that a secret names a start that
committed (`SecretByStart`).  Load, decide, answer, write and commit of a call are then one
step of the lifecycle, at the commit (`LifeCommit`), and steps that change nothing.

**PasswordIsNeverOverwritten, OffStaysOff** need no invariant but types: they are about
`Column`, which leaves alone what a call did not change.

**OneDenialPerToken.**  `RotationInv`: calls hold issued tokens and have issued none
themselves yet (`CallsHoldTokens`); a denied token's key is there, unless lost, until
the second before `exp` (`KeyOutlivesCalls`), so a second `SET NX` fails.

**LogoutIsFinal** is one denial per token, read for a logout and a refresh, and that only
a refresh issues (`OnlyRefreshIssues`).

**FirstRateStays.**  `RateInv`: rows inserted and not committed are of different dates,
none of which has a row (`InsertsAreApart`), because an INSERT waits and then looks; a
call that has not saved has inserted nothing (`NothingYet`).

**OneRatePerDate, AnswersAreFresh.**  `AnswerInv`: an answer read from the table is a row
(`AnswersMatchRows`), as is one whose INSERT was not passed over (`InsertsAreAnswered`), and
rows do not change.  What the table held when the call began it still holds
(`KnownAreRows`), and what was fetched after a miss is no older than that
(`FetchedIsNotOlder`), because the bank never issues for an earlier date than it has.

**Scoring.**  The result is a function of what was sent (`ScoringInv`); the theorems
then are about that function, with lemmas on each correction (`WeightIsHarsher`,
`AdjustedIsHarsher`, `GradedGrows`, `CoverageGrows`).  `FlagsAreNotExcused` is about forms
with revenue: the flags of a form without any may weigh a reject and are answered REVIEW, as
the policy wants, except at tier medium (section 5, `blind`).  Its score is never below the
weight all the same.

**FileIntake.**  The merge is a recursion over the batch.  The induction over it is over
a set, for no prover here takes an induction theorem with a predicate: a set of numbers that
is not empty has a least one (`LeastNumber` of `ListProofs`, from the well-foundedness of strict inclusion
of finite sets), so a set that has 0 and, with a number, the next has them all (`UpTo`); by
the same the recursive function unfolds (`ReadingsUnfold`).  `Shown` says of n files that
each key holds the offer of highest rank, the first of equals, and that the others of that
rank are told of (`First`); `Ahead` that the sheet kept is the newest.  A file is its offers
(`OffersOf`), which do not depend on what was read before (`ReadFileGrows`), so one step
suffices (`ShownStep`, `AheadStep`).  `Answer` is what that comes to when the sheet is put in,
over nothing, because no offer is for a balance.  The state then needs `FilesInv`,
`MarkedInv` (a field the parser filled has a field in the form, so that a later upload that
leaves it out leaves the mark too) and `FilledInv`.

**DeescalationNeedsStaleOk.**  A probe compares its status with the row it *read* and
replaces the one it meets, which another prober may have made worse since: the escalation
the repository promises does not hold (section 5), and the theorem says how far it fails.
The status written is worse than the one read (`EndWritesStatus`), so it is degraded or
down unless no row was read; that then there is still none is `ProbersKnow`, which rests on
`OneWritesEachDay`: of the transactions past their write, one at most is for each date.  So
ok comes back by no copy, and what is above degraded and below nothing is down
(`EndDeescalatesOnOkAlone`).

**LdapLogin.**  Only addresses that are not on the list get past `SubmitLogin`
(`DirectoryIsForOthers`); the copy of a login nothing overtook is the row
(`LoginCopyIsCurrent`), and rows do not go away (`RowsStay`), so that an UPDATE meets one.
Nothing assigns source and password, so no stale copy writes them; role and activity are
written unless the copy had them as wanted (`RowBroughtUpToDate`), and only in a row that was
changed meanwhile are they then something else.  That case is in the property: a login that
found the role as the directory gives it does not correct one it was overtaken by.

**StoredRecords.**  `ExpiryIsTold`: what is stored or will be was told, or will be before
the commit.  `LoadedIsCurrent`: the payload a current PUT has loaded is still that of the
row, so leaving the column out is the same as writing it (`CommitKeepsPayload`); a PUT that
was overtaken writes its payload too, unless it sends what it had loaded.  `ShownIsStored`: what GET has
shown is a row of that borrower, and rows only come.  `SealsOfPhase`: in a migration each
row is as it was read or was written since, with the new key; that workers write with no
other is `KeysOfPhase`, for the migration starts when all of them were restarted.

**Lists.**  Rules, figures and report sort, filter and add up lists of any length, and what
is proved about them rests on `ListProofs`.  `RankedIs`: ranking a finite set by a key is a
bijection along which the key never goes down.  From it `SortedIs` and `KeptIs` say what a
sorted and a filtered list hold and in which order, `LastTwo` and `FirstTwo` what stands at
the ends.  `SumUnfolds`: the library's fold over a set is an item plus the fold over the
others, in whatever order it takes them; that the fold it chooses exists at all is
`FoldExists`, layer by layer in the size of the set (`UpTo` again).

**FlagsAreOfTheForm.**  `ReviewInv`: form and page have their types, a dictionary of shares
has no key twice, `found` is the registry run over the form.  Every other theorem about
flags is then about two forms, or about a form and its copy.

**TimeClearsFlags, MoreIsAskedForInVain, EvidenceStays.**  `RaisedIs` takes the registry
apart into its 24 rules, `NoMoreRaised` puts them together again; `ReadsReports`,
`ReadsDates` and `ReadsPartners` say which parts of a form a rule reads, so that only those
are left which read what the step changed.  The windows close (`LaterDay`, with the
calendar in `MonthsGoOn` and `AgeGrows`).  Ratios of the loan are monotone (`LargerLoan`, where
the sign of the revenue and the term matter).  And one more item keeps partners and events
(`MoreItems`), shares (`ShareOfGrows`) and simple cycles of invoices (`CyclesStay`; the bound
on their length only grows, `NodesAreFew`).

**ReplayIsTheSame.**  Sorting the keys moves shares and changes none (`StoredShares`).  The
rule about suppliers finds the same largest one, because two with more than half each make
more than a whole (`TwoOfSum`); this is the hypothesis of the property.  The payload holds no
borrower: the replay joins the row as it is, so `Replayed` takes any card of the same taxpayer
number.  With the card of the form everything agrees; with another the two rules that read it
(`OfTheCard`) may not, and all others do, for what they read is the number (`OtherCardRaises`).

**CarouselsAreNeverSeen.**  Every edge touches the borrower (`EdgesTouchBorrower`), so a
simple cycle has two nodes (`CyclesAreShort`), and the critical severity asks for three.

**ReportIsTrue.**  The cover has the first three by gravity (`GravestOnCover`); section E
filters and sorts what the rules look for (`SectionE`); a supplier above a half stands before
all others, whatever the order of equals (`LargestHeads`).

**ScreenIsTrue.**  The screen takes the last by start of the reports in sums, a rule the
first of those that end last.  With one report per year and nothing in another currency
they are the same, and so are the second ones (`LatestOfAll`).  Then figure and flag are
fractions of the same fields (`RatioAgrees`, `DscrAgrees`, `LossIsSeen`); turnover by month is
a sum of nothing positive (`LossesAdd`, `NothingIsShown`); and readiness, which counts a run of
consecutive years (`LongestRun`), promises no growth without two reports (`TwoYears`,
`TrendIsShown`).

Only model-checked: `EveryRequestEnds`, `HealthIsAnswered`, `FaultIsRecorded`, which are
liveness, out of this prover's reach.  Every other property of a passing run is the statement
of a theorem.

**What proving changed.**  Three properties TLC had found true on smaller instances could
not be proved because they were false, and larger instances showed it:
`OnlyStragglersCollide` with four calls and three years, `NewestCaseShowsItsBorrower` with
four calls and two (a straggler may itself restart the sequence, or draw less than the
number of an earlier dossier of its year), and `ReadinessNeverFalls` with a second report of
a year that says it had no revenue.  They now say what is true.  `rollover` and `scoring`
have the case each guard names; four calls are more than the liveness of `rollover` leaves
room for, and what they could do beyond three rests on the theorems, which hold for any
number of calls.  `MarkedFieldsAreTrue` no longer takes the names in the list to
be different.

Two properties of the review were true on the instance and false in general.
`TimeOnlyClearsFlags`: a penalty dated in a year to come becomes one of the current year when
that year begins (`tax_penalties_current_year.py` compares years alone, and nothing refuses
such a date); `NothingAhead` is the guard.  `ScreenAgreesWithFlags`: readiness looks at
annual reports, turnover at the months where there are twelve, so that growth may be
promised and not shown; the claim is now about forms with fewer months.  `ReplayAgrees` lost
a hypothesis it did not need, that the buyers' shares are parts of one whole.  And the model
of lists changed: `SortSeq`, `SelectSeq` and folds with a lambda take operators, which no
prover here instantiates, so sorting and filtering are now functions of places and keys; and
`None` had to be said to be no figure (`NoneAssumption`).

## 5. Where code and documentation disagree

Shown by runs:

* `collision` — the migration calls the unique constraint a second line of defence;
  around the new year it is the only one, and the call it stops is answered 500.
* `lockout` — a verify that overlaps a reset leaves `enrolled_at` without a secret: the
  account is asked for a factor that cannot be given.
* `twice` — two challenges at once accept one backup code.
* `unaudited` — the `login_failed` row is rolled back by the exception that follows it.
* `escalation` — two probers that both read ok: one commits down, the other overwrites it
  by degraded.  Repository and collector promise that the status of a day only escalates
  (`system_uptime_repository.py:3-5,22`, `uptime_collector.py:21-24`); the comparison is
  with the row as it was read.  `OnlyStaleOkDeescalates` says what is left.
* `blind` — with coverage in the medium tier, INSUFFICIENT_DATA alone is answered
  REJECT: the tier resolves the recommendation again, from 55.

* `keys` — the runbook's `alembic downgrade -1` no longer reaches the encrypting
  migration, five later ones came since: nothing is sealed again, and the rows of the old
  key cannot be opened once it is dropped.

Seen while modelling, not run:

* `dossier_repository.py:77` rebuilds an old dossier around the borrower's row as it is
  now, though snapshots are called immutable (`models/borrower_snapshot.py:23`).
  `NewestCaseShowsItsBorrower` says what is left of it.  The replay
  (`verify_adr0024_baseline.py:60-71`) joins the same row: for an older dossier the rules
  about a change of director or activity may answer otherwise than they did.
* A dossier answered 200 is not yet committed: a GET may answer 404, and a failed commit
  leaves an acknowledged dossier that never existed.
* The search orders by `created_at`, the start of the transaction
  (`dossier_repository.py:153`): the "last" dossier may have the lower number.
* `enroll_start` on an enrolled account turns the second factor off with no audit row
  (`mfa.py:77`); `TurningOffIsAudited` has it as its exception.  When it overlaps a verify
  of the secret before, the new secret ends up enrolled unproved.
* A refresh token may be exchanged twice in its last second, when the truncated TTL has
  ended and the token has not (`redis_refresh_token_denylist.py:31`): `InTail`.
* A refresh that passed `SET NX` before a logout issues a successor that survives it.
* `confidence_layer.py:18-20` describes other formulas (recommendation unchanged,
  `raw + 15`, `raw + 25`) than `scoring_service.py:117-134` computes, and a score of 50
  with REVIEW at tier low may become a lower one with REJECT at tier medium.
* Two concurrent calls for the exchange rate may answer with different rates of one date
  (`usd_rate_service.py:95`), where the repository says they answer with the same
  (`usd_rate_repository.py:7-9`).  A USD_UZS_RATE that is not a number is passed over by
  the service but spoils the reading of the file (`exchange_rates.py:62-69`): with an empty
  table and no bank the call fails although the file has a rate.
* `dependencies.py:69-71` speaks of a 503 when Redis is down; the exception is a 500.
* The health endpoint and the collector cannot record "down" unless the failed probe had
  no connection at all: otherwise it has spoilt the transaction that would write it.
* Fields the rules need and the form never sends: operating cash flow, depreciation,
  current assets and liabilities, guarantees, leases, letters of credit.  WC_INSUFFICIENT,
  CASH_FLOW_QUALITY and OFF_BALANCE_COMMITMENTS cannot be raised through the API, nor the
  ratios that need them be shown; the run has them as a stored snapshot may hold them.
* `build_borrower_snapshot.py:10-11` says of two reports of one year the last wins;
  the rules take the first of the same end (`max`), the figures the last of the same start
  (`sorted(...)[-1]`).  `ScreenAgreesWithFlags` asks for one report per year.
* The formulas in the YAML say more than 500 million, 10 million, 200 million; the code
  says at least.  The critical severity of CIRCULAR_INVOICING needs a circle of three
  (`circular_invoicing.py:10`), and all invoices are the borrower's own: by
  `CarouselsAreNeverSeen` it never occurs.  The window of TAX_PAYMENT_DELAYS is
  everything ever recorded, section E shows three years.
* `pdf_data_aggregator.py:94` raises on 29 February, and penalties in two currencies
  cannot be summed: the report is answered 500.
* Intake: no parser writes a field that counts as invoices (`esf_`), and `taxes_paid`
  fits no prefix (`assess_draft_readiness.py:46`), so a draft made from files is never
  comprehensive; a stored dossier forgets its profit tax
  (`load_dossier_readiness.py:85`).  A quarter that cannot be read counts as none, so a
  half year may be taken for a year.  A loss is put into the form as nothing.  A year's
  own column wins over a comparison column only within one upload.  A newer balance sheet
  that says less leaves the older one's cells in the form.
* `ldap3_client.py:118` takes a directory that does not answer at the password check for
  a wrong password, whereas at the search it is an error.  A login makes a deactivated
  account active again, as its comment says.
* A PUT revives an expired draft; `purge_expired` has no caller.  A rotation's migration
  overwrites what was edited between its read and its write.
* `cleanup_test_data.py:117` deletes dossiers: with the newest gone, MAX(year) falls back.

## 6. Not modelled, and the plan

Not modelled: layout, wording and languages (PDF, i18n, web pages), constant catalogs,
wiring and metrics, the decoding of spreadsheets, cryptography, the operator scripts apart
from seeding and rotation.  These are pure input and output, third-party code, or run by
hand on a stopped system.  Partly modelled: history pages, statistics and the export of
the audit log (read-only queries); the null denylist of the stateless mode; rows of VAT
registries, the CSV of invoices and the older upload of a single file; the BFF's cookies.

Left, in this order:

1. The CSV of invoices and the VAT registry as further formats of `FileIntake`.
2. The BFF's refresh of cookies, composed with `RefreshRotation`: two tabs that refresh at
   once.
3. Deletion of dossiers by the operator script, as an action of `DossierRegistry`.
