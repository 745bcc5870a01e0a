--------------------------- MODULE DossierRegistry ---------------------------
(***************************************************************************)
(* POST /api/manual-input: the transaction that files a dossier, from the  *)
(* upsert of the borrower to the commit that follows the response, and the *)
(* case-id allocator inside it (a PostgreSQL sequence shared by all years, *)
(* an advisory lock per year, a RESTART when the year changes).            *)
(*                                                                         *)
(* The database is READ COMMITTED PostgreSQL.  Locks are not variables:    *)
(* who holds which one follows from how far each transaction has got,      *)
(* because every lock here lives until the end of its transaction.         *)
(***************************************************************************)
EXTENDS Integers

CONSTANTS
  Request,        \* calls of POST /api/manual-input
  Inn,            \* borrowers, by taxpayer number
  FirstYear,      \* UTC year in which the service starts
  LastYear,       \* bound: the clock stops here
  MaxBackfill,    \* bound: dossiers the migration may have numbered
  QuietRollover,  \* TRUE: no call is under way when the year changes
  None            \* a value that is no request

ASSUME RegistryAssumption ==
  /\ FirstYear \in Nat /\ LastYear \in Nat /\ FirstYear <= LastYear
  /\ MaxBackfill \in Nat
  /\ QuietRollover \in BOOLEAN
  /\ None \notin Request

Year == FirstYear .. LastYear

VARIABLES
  clock,        \* the UTC year now
  seq,          \* dossier_case_seq: the number handed out last
  seqOwner,     \* the transaction that restarted it and has not ended
  seqSaved,     \* what a rollback of that restart brings back
  lateRestart,  \* history: a restart was committed for a year that was over
  borrowerRow,  \* committed borrowers row: the request that wrote it
  dossiers,     \* committed dossiers, each with its snapshot
  pc,           \* next step of each request
  inn,          \* borrower named in the form
  year,         \* year the handler read from the clock
  num,          \* number the sequence gave
  response      \* what the client has been answered

seqVars == <<seq, seqOwner, seqSaved, lateRestart>>
tables  == <<borrowerRow, dossiers>>
vars == <<clock, seqVars, tables, pc, inn, year, num, response>>

\* Steps at which a transaction holds the lock on its borrower's row, has
\* read the clock, holds the advisory lock of its year, holds the sequence.
Numbered   == {"insert", "respond", "commit"}
AfterLock  == {"rollover", "restart", "nextval"} \cup Numbered
AfterClock == {"lock"} \cup AfterLock
AfterRow   == {"clock"} \cup AfterClock
Active     == {"persist"} \cup AfterRow

HoldsRow(r, i)  == pc[r] \in AfterRow /\ inn[r] = i

\* Mutant: a session lock (pg_advisory_lock), which the commit does not release.
HoldsYear_session(r, y) ==
  year[r] = y /\ (pc[r] \in AfterLock \/ (pc[r] = "done" /\ response[r] = "ok"))
HoldsYear(r, y) == pc[r] \in AfterLock /\ year[r] = y

Dossier == [owner : Request \cup {None}, inn : Inn, year : Year, num : Nat]

\* The row request r inserts.
Row(r) == [owner |-> r, inn |-> inn[r], year |-> year[r], num |-> num[r]]

SameCase(d, e) == d.year = e.year /\ d.num = e.num

\* The year r read from the clock is over, and dossiers carry a later one.
Straggler(r) == \E d \in dossiers : d.year > year[r]

-----------------------------------------------------------------------------
\* The migration numbers the dossiers it finds 1, 2, ... in order of
\* created_at and sets the sequence to go on from there.
Backfill(k, i) ==
  {[owner |-> None, inn |-> i, year |-> FirstYear, num |-> n] : n \in 1 .. k}

Init ==
  /\ clock = FirstYear
  /\ \E k \in 0 .. MaxBackfill, i \in Inn :
       /\ dossiers = Backfill(k, i)
       /\ seq = k
  /\ seqOwner = None /\ seqSaved = 0 /\ lateRestart = FALSE
  /\ borrowerRow = [i \in Inn |-> None]
  /\ pc = [r \in Request |-> "new"]
  /\ inn \in [Request -> Inn]
  /\ year = [r \in Request |-> FirstYear]
  /\ num = [r \in Request |-> 0]
  /\ response = [r \in Request |-> "none"]

Goto(r, from, to) == pc[r] = from /\ pc' = [pc EXCEPT ![r] = to]

\* The UTC year changes.
Tick ==
  /\ clock < LastYear
  /\ QuietRollover => \A r \in Request : pc[r] \notin AfterClock
  /\ clock' = clock + 1
  /\ UNCHANGED <<seqVars, tables, pc, inn, year, num, response>>

\* get_session: BEGIN.
Begin(r) ==
  /\ Goto(r, "new", "persist")
  /\ UNCHANGED <<clock, seqVars, tables, inn, year, num, response>>

\* Mutant: INSERT ... ON CONFLICT DO NOTHING, which waits for nobody.
PersistBorrower_unlocked(r) ==
  /\ Goto(r, "persist", "clock")
  /\ UNCHANGED <<clock, seqVars, tables, inn, year, num, response>>

\* Upsert of the borrower, then the snapshot.  The upsert waits for the
\* transaction that wrote the same borrower to end.
PersistBorrower(r) ==
  /\ \A q \in Request : ~HoldsRow(q, inn[r])
  /\ Goto(r, "persist", "clock")
  /\ UNCHANGED <<clock, seqVars, tables, inn, year, num, response>>

\* datetime.now(UTC), the argument of allocate.
ReadClock(r) ==
  /\ Goto(r, "clock", "lock")
  /\ year' = [year EXCEPT ![r] = clock]
  /\ UNCHANGED <<clock, seqVars, tables, inn, num, response>>

\* pg_advisory_xact_lock(year)
LockYear(r) ==
  /\ \A q \in Request : ~HoldsYear(q, year[r])
  /\ Goto(r, "lock", "rollover")
  /\ UNCHANGED <<clock, seqVars, tables, inn, year, num, response>>

\* Mutants: MIN(year) for MAX(year); an off-by-one in the comparison.
YearRollsOver_min(y)  == \E d \in dossiers : d.year < y
YearRollsOver_late(y) == dossiers # {} /\ \A d \in dossiers : d.year < y - 1

\* MAX(year) over the committed dossiers, and the rollover test.
YearRollsOver(y) == dossiers # {} /\ \A d \in dossiers : d.year < y

ReadMaxYear(r) ==
  /\ Goto(r, "rollover",
          IF YearRollsOver(year[r]) THEN "restart" ELSE "nextval")
  /\ UNCHANGED <<clock, seqVars, tables, inn, year, num, response>>

\* ALTER SEQUENCE ... RESTART waits for every transaction that has called
\* nextval; until it ends, nextval of the others waits for it.
RestartSequence(r) ==
  /\ \A q \in Request : pc[q] \notin Numbered
  /\ seqOwner = None
  /\ Goto(r, "restart", "nextval")
  /\ seqOwner' = r
  /\ seqSaved' = seq
  /\ seq' = 0
  /\ UNCHANGED <<clock, lateRestart, tables, inn, year, num, response>>

NextVal(r) ==
  /\ seqOwner \in {None, r}
  /\ Goto(r, "nextval", "insert")
  /\ seq' = seq + 1
  /\ num' = [num EXCEPT ![r] = seq + 1]
  /\ UNCHANGED <<clock, seqOwner, seqSaved, lateRestart, tables, inn, year,
                 response>>

\* The unique index on case_id: an insert of a key that another transaction
\* has inserted waits for that transaction to end.
KeyPending(r) == \E q \in Request :
  q # r /\ pc[q] \in {"respond", "commit"} /\ SameCase(Row(q), Row(r))
KeyTaken(r) == \E d \in dossiers : SameCase(d, Row(r))

\* INSERT of the dossier, then of the generate_dossier audit row.
InsertDossier(r) ==
  /\ ~KeyPending(r) /\ ~KeyTaken(r)
  /\ Goto(r, "insert", "respond")
  /\ UNCHANGED <<clock, seqVars, tables, inn, year, num, response>>

\* The end of a transaction releases its locks; a rollback brings back the
\* sequence it restarted, but not the numbers it took from it.
EndTransaction(r) ==
  /\ pc' = [pc EXCEPT ![r] = "done"]
  /\ seqOwner' = IF seqOwner = r THEN None ELSE seqOwner
  /\ UNCHANGED <<clock, inn, year, num>>

Rollback(r) ==
  /\ EndTransaction(r)
  /\ seq' = IF seqOwner = r THEN seqSaved ELSE seq
  /\ response' = [response EXCEPT ![r] = IF @ = "ok" THEN @ ELSE "error"]
  /\ UNCHANGED <<seqSaved, lateRestart, tables>>

\* IntegrityError: the client is answered 500.
DuplicateCaseId(r) ==
  /\ pc[r] = "insert" /\ ~KeyPending(r) /\ KeyTaken(r)
  /\ Rollback(r)

\* The worker or its connection dies, before or after the response.
Fail(r) == pc[r] \in Active /\ Rollback(r)

\* The response leaves before get_session resumes.
Respond(r) ==
  /\ Goto(r, "respond", "commit")
  /\ response' = [response EXCEPT ![r] = "ok"]
  /\ UNCHANGED <<clock, seqVars, tables, inn, year, num>>

Commit(r) ==
  /\ pc[r] = "commit"
  /\ EndTransaction(r)
  /\ dossiers' = dossiers \cup {Row(r)}
  /\ borrowerRow' = [borrowerRow EXCEPT ![inn[r]] = r]
  /\ lateRestart' = (lateRestart \/ (seqOwner = r /\ Straggler(r)))
  /\ UNCHANGED <<seq, seqSaved, response>>

\* What the event loop and PostgreSQL carry on with by themselves.
Step(r) ==
  \/ PersistBorrower(r) \/ ReadClock(r) \/ LockYear(r) \/ ReadMaxYear(r)
  \/ RestartSequence(r) \/ NextVal(r) \/ InsertDossier(r)
  \/ DuplicateCaseId(r) \/ Respond(r) \/ Commit(r)

Next == Tick \/ \E r \in Request : Begin(r) \/ Step(r) \/ Fail(r)

Fairness == \A r \in Request : WF_vars(Step(r))

Spec == Init /\ [][Next]_vars
-----------------------------------------------------------------------------
\* What is read back: get_view_by_id joins the dossier with the borrower's
\* row as it is now.
BorrowerShown(d) == borrowerRow[d.inn]
-----------------------------------------------------------------------------
\* The type invariant: a request owns the sequence or nobody does, and every
\* dossier carries a year of the service and a natural number.
TypeOK ==
  /\ clock \in Year
  /\ seq \in Nat /\ seqSaved \in Nat /\ seqOwner \in Request \cup {None}
  /\ lateRestart \in BOOLEAN
  /\ borrowerRow \in [Inn -> Request \cup {None}]
  /\ dossiers \subseteq Dossier
  /\ pc \in [Request -> {"new", "done"} \cup Active]
  /\ inn \in [Request -> Inn]
  /\ year \in [Request -> Year] /\ num \in [Request -> Nat]
  /\ response \in [Request -> {"none", "ok", "error"}]

\* The docstring of the migration: the sequence alone rules collisions out,
\* the unique constraint is a second line of defence.  It holds as long as
\* no call straddles the new year, and fails when one does.
AllocatedIdIsFresh ==
  \A r \in Request : pc[r] = "insert" => ~KeyTaken(r)

\* Why AllocatedIdIsFresh holds when nobody straddles the new year.  The
\* calls that have read the clock read this year, one of them at most is past
\* the advisory lock, and the sequence (or, during a restart, the value a
\* rollback would bring back) is not below any number of the newest year.
ReadThisYear == \A r \in Request : pc[r] \in AfterClock => year[r] = clock

OneAllocates ==
  \A r, q \in Request : pc[r] \in AfterLock /\ pc[q] \in AfterLock => r = q

RestarterIsActive ==
  seqOwner # None => pc[seqOwner] \in {"nextval"} \cup Numbered

SequenceFloor == IF seqOwner = None THEN seq ELSE seqSaved

SequenceCoversNewestYear ==
  \A d \in dossiers :
    /\ d.year <= clock
    /\ (\A e \in dossiers : e.year <= d.year) => d.num <= SequenceFloor

RestartOnlyForNewYear ==
  /\ \A r \in Request : pc[r] = "restart" \/ seqOwner = r
                         => \A d \in dossiers : d.year < year[r]
  /\ \A r \in Request : pc[r] = "nextval" /\ seqOwner # r
                         => dossiers = {} \/ \E d \in dossiers : d.year >= year[r]

NumberIsNewest ==
  \A r \in Request : pc[r] \in Numbered
    => /\ num[r] <= seq
       /\ \A d \in dossiers : d.year = year[r] => d.num < num[r]

AllocationInv ==
  /\ TypeOK
  /\ ReadThisYear
  /\ OneAllocates
  /\ RestarterIsActive
  /\ SequenceCoversNewestYear
  /\ RestartOnlyForNewYear
  /\ NumberIsNewest

\* Only stragglers can be given a number already used: the year in progress is
\* never hurt by the restart, until a straggler restarts the sequence, which
\* takes a year that saw no dossier before its very end.
OnlyStragglersCollide ==
  ~lateRestart =>
    \A r \in Request : pc[r] = "insert" /\ KeyTaken(r) => Straggler(r)

Register == INSTANCE CaseRegister WITH
  Filer    <- Request,
  register <- {[owner |-> d.owner, inn |-> d.inn, year |-> d.year,
                num |-> d.num] : d \in dossiers},
  card     <- borrowerRow

\* Committed dossiers are filed one at a time, each with an identifier above
\* all identifiers before it, together with its borrower's card; in a year the
\* registry rolled over to numbering starts at one, also when transactions that
\* restarted the sequence were rolled back.
ImplementsRegister == Register!RegisterSpec

\* The dossier with the borrower's highest case identifier shows the borrower
\* it was assessed with (older ones show the borrower as the newest left it):
\* the upsert takes the row before the number is drawn and keeps it until the
\* commit.  In a year that is over a straggler may have drawn less than the
\* number of an earlier dossier.
NewestCaseShowsItsBorrower ==
  ~lateRestart =>
    \A d \in dossiers :
      /\ \A e \in dossiers : e.year <= d.year
      /\ \A e \in dossiers : e.inn = d.inn => e = d \/ Register!Above(d, e)
      => BorrowerShown(d) = d.owner

\* Every call that begins ends: the row, the advisory lock and the sequence
\* are always taken in this order, so nobody waits for ever.
EveryRequestEnds ==
  \A r \in Request : pc[r] = "persist" ~> pc[r] = "done"
=============================================================================
