----------------------- MODULE DossierRegistryProofs -----------------------
(***************************************************************************)
(* Theorems about DossierRegistry, for any set of requests and borrowers,  *)
(* any years and any backfill.                                             *)
(***************************************************************************)
EXTENDS DossierRegistry, TLAPS

\* The initial states and the steps keep every variable in its type.
LEMMA TypeStep == (Init => TypeOK) /\ (TypeOK /\ [Next]_vars => TypeOK')
<1> USE RegistryAssumption DEF RegistryAssumption
<1> USE DEF TypeOK, Active, AfterRow, AfterClock, AfterLock, Numbered, Year,
            Dossier
<1>1. Init => TypeOK
  <2> SUFFICES ASSUME Init PROVE TypeOK
    OBVIOUS
  <2>1. PICK k \in 0 .. MaxBackfill, i \in Inn :
          dossiers = Backfill(k, i) /\ seq = k
    BY DEF Init
  <2>2. dossiers \subseteq Dossier
    <3> SUFFICES ASSUME NEW n \in 1 .. k
                 PROVE [owner |-> None, inn |-> i, year |-> FirstYear, num |-> n] \in Dossier
      BY <2>1 DEF Backfill
    <3>1. FirstYear \in Year /\ n \in Nat
      OBVIOUS
    <3>2. QED
      BY <3>1
  <2>3. lateRestart \in BOOLEAN
    BY DEF Init
  <2>4. QED
    BY <2>1, <2>2, <2>3 DEF Init
<1>2. TypeOK /\ [Next]_vars => TypeOK'
  <2> SUFFICES ASSUME TypeOK, [Next]_vars PROVE TypeOK'
    OBVIOUS
  <2> USE DEF seqVars, tables, Goto
  <2>1. CASE Tick
    BY <2>1 DEF Tick
  <2>2. ASSUME NEW r \in Request, Begin(r) PROVE TypeOK'
    BY <2>2 DEF Begin
  <2>3. ASSUME NEW r \in Request, PersistBorrower(r) PROVE TypeOK'
    BY <2>3 DEF PersistBorrower
  <2>4. ASSUME NEW r \in Request, ReadClock(r) PROVE TypeOK'
    BY <2>4 DEF ReadClock
  <2>5. ASSUME NEW r \in Request, LockYear(r) PROVE TypeOK'
    BY <2>5 DEF LockYear
  <2>6. ASSUME NEW r \in Request, ReadMaxYear(r) PROVE TypeOK'
    BY <2>6 DEF ReadMaxYear
  <2>7. ASSUME NEW r \in Request, RestartSequence(r) PROVE TypeOK'
    BY <2>7 DEF RestartSequence
  <2>8. ASSUME NEW r \in Request, NextVal(r) PROVE TypeOK'
    BY <2>8 DEF NextVal
  <2>9. ASSUME NEW r \in Request, InsertDossier(r) PROVE TypeOK'
    BY <2>9 DEF InsertDossier
  <2>10. ASSUME NEW r \in Request, Rollback(r) PROVE TypeOK'
    BY <2>10 DEF Rollback, EndTransaction
  <2>11. ASSUME NEW r \in Request, Respond(r) PROVE TypeOK'
    BY <2>11 DEF Respond
  <2>12. ASSUME NEW r \in Request, Commit(r) PROVE TypeOK'
    <3>1. Row(r) \in Dossier
      BY DEF Row
    <3>2. dossiers' \subseteq Dossier
      BY <2>12, <3>1 DEF Commit
    <3>3. borrowerRow' \in [Inn -> Request \cup {None}]
      BY <2>12 DEF Commit
    <3>4. QED
      BY <2>12, <3>2, <3>3 DEF Commit, EndTransaction
  <2>13. CASE UNCHANGED vars
    BY <2>13 DEF vars
  <2>14. QED
    BY <2>1, <2>2, <2>3, <2>4, <2>5, <2>6, <2>7, <2>8, <2>9, <2>10, <2>11,
       <2>12, <2>13 DEF Next, Step, DuplicateCaseId, Fail
<1>3. QED
  BY <1>1, <1>2

\* The type invariant: in particular a case identifier is a year of the
\* service and a natural number, and only a request owns the sequence.
THEOREM TypeCorrect == Spec => []TypeOK
  BY TypeStep, PTL DEF Spec

-----------------------------------------------------------------------------
\* When no call straddles the new year, every step of the allocator keeps the
\* sequence ahead of the numbers of the newest year.
LEMMA AllocationStep ==
  ASSUME QuietRollover
  PROVE  AllocationInv /\ [Next]_vars => AllocationInv'
<1> SUFFICES ASSUME AllocationInv, [Next]_vars PROVE AllocationInv'
  OBVIOUS
<1> USE RegistryAssumption DEF RegistryAssumption
<1>0. TypeOK /\ TypeOK'
  BY TypeStep DEF AllocationInv
<1> USE <1>0
<1> USE DEF TypeOK, Active, AfterRow, AfterClock, AfterLock, Numbered, Year,
            Dossier, Goto, seqVars, tables,
            AllocationInv, ReadThisYear, OneAllocates, RestarterIsActive,
            SequenceFloor, SequenceCoversNewestYear, RestartOnlyForNewYear,
            NumberIsNewest
<1>1. CASE Tick
  BY <1>1 DEF Tick
<1>2. ASSUME NEW r \in Request, Begin(r) PROVE AllocationInv'
  BY <1>2 DEF Begin
<1>3. ASSUME NEW r \in Request, PersistBorrower(r) PROVE AllocationInv'
  BY <1>3 DEF PersistBorrower
<1>4. ASSUME NEW r \in Request, ReadClock(r) PROVE AllocationInv'
  BY <1>4 DEF ReadClock
<1>5. ASSUME NEW r \in Request, LockYear(r) PROVE AllocationInv'
  BY <1>5 DEF LockYear, HoldsYear
<1>6. ASSUME NEW r \in Request, ReadMaxYear(r) PROVE AllocationInv'
  BY <1>6 DEF ReadMaxYear, YearRollsOver
<1>7. ASSUME NEW r \in Request, RestartSequence(r) PROVE AllocationInv'
  BY <1>7 DEF RestartSequence
<1>8. ASSUME NEW r \in Request, NextVal(r) PROVE AllocationInv'
  BY <1>8 DEF NextVal
<1>9. ASSUME NEW r \in Request, InsertDossier(r) PROVE AllocationInv'
  BY <1>9 DEF InsertDossier
<1>10. ASSUME NEW r \in Request, Rollback(r), pc[r] \in Active
       PROVE  AllocationInv'
  BY <1>10 DEF Rollback, EndTransaction
<1>11. ASSUME NEW r \in Request, Respond(r) PROVE AllocationInv'
  BY <1>11 DEF Respond
<1>12. ASSUME NEW r \in Request, Commit(r) PROVE AllocationInv'
  <2>1. /\ ReadThisYear' /\ OneAllocates' /\ RestarterIsActive'
    BY <1>12 DEF Commit, EndTransaction
  <2>2. /\ dossiers' = dossiers \cup {Row(r)}
        /\ Row(r).year = clock /\ Row(r).num = num[r] /\ num[r] \in Nat
    BY <1>12 DEF Commit, EndTransaction, Row
  <2>3. /\ SequenceFloor' = seq' /\ seq' = seq /\ num[r] <= seq
        /\ seqOwner' = None /\ clock' = clock
    BY <1>12 DEF Commit, EndTransaction
  <2>4. \A d \in dossiers : d.year = clock => d.num < num[r]
    BY <1>12 DEF Commit
  <2>5. SequenceCoversNewestYear'
    <3> SUFFICES ASSUME NEW d \in dossiers'
                 PROVE  /\ d.year <= clock
                        /\ (\A e \in dossiers' : e.year <= d.year)
                              => d.num <= seq
      BY <2>3
    <3>1. CASE d = Row(r)
      BY <3>1, <2>2, <2>3
    <3>2. CASE d \in dossiers
      BY <3>2, <2>2, <2>3, <2>4
    <3>3. QED
      BY <3>1, <3>2, <2>2
  <2>6. \A q \in Request : pc'[q] \notin AfterLock
    BY <1>12 DEF Commit, EndTransaction
  <2>7. RestartOnlyForNewYear' /\ NumberIsNewest'
    BY <2>3, <2>6
  <2>8. QED
    BY <2>1, <2>5, <2>7
<1>13. CASE UNCHANGED vars
  BY <1>13 DEF vars
<1>14. QED
  BY <1>1, <1>2, <1>3, <1>4, <1>5, <1>6, <1>7, <1>8, <1>9, <1>10, <1>11,
     <1>12, <1>13 DEF Next, Step, DuplicateCaseId, Fail

LEMMA AllocationInit == Init => AllocationInv
<1> SUFFICES ASSUME Init PROVE AllocationInv
  OBVIOUS
<1>1. TypeOK
  BY TypeStep
<1>2. PICK k \in 0 .. MaxBackfill, i \in Inn :
        dossiers = Backfill(k, i) /\ seq = k
  BY DEF Init
<1>3. \A d \in dossiers : d.year = FirstYear /\ d.num <= k
  BY <1>2 DEF Backfill
<1>4. SequenceCoversNewestYear
  BY <1>1, <1>2, <1>3, RegistryAssumption
     DEF Init, SequenceCoversNewestYear, SequenceFloor
<1>5. QED
  BY <1>1, <1>4, RegistryAssumption
     DEF Init, AllocationInv, ReadThisYear, OneAllocates, RestarterIsActive,
         RestartOnlyForNewYear, NumberIsNewest, AfterClock, AfterLock, Numbered

\* The sequence alone rules collisions out: while no call is under way when
\* the year changes, the number drawn for a year is used by no dossier of it.
THEOREM FreshCaseIds ==
  ASSUME QuietRollover
  PROVE  Spec => []AllocatedIdIsFresh
<1>1. AllocationInv => AllocatedIdIsFresh
  BY DEF AllocationInv, NumberIsNewest, AllocatedIdIsFresh, KeyTaken, SameCase,
         Row, Numbered, TypeOK, Dossier
<1>2. QED
  BY <1>1, AllocationInit, AllocationStep, PTL DEF Spec
-----------------------------------------------------------------------------
(* The refinement.                                                         *)

\* A restart is for whoever draws next: the number one.
RestartIsFresh ==
  \A r \in Request : seqOwner = r /\ pc[r] = "nextval" => seq = 0

FirstOfYearIsOne ==
  \A r \in Request : pc[r] \in Numbered =>
    dossiers = {} \/ (\E d \in dossiers : d.year >= year[r]) \/ num[r] = 1

RegisterInv == AllocationInv /\ RestartIsFresh /\ FirstOfYearIsOne

LEMMA RegisterStep ==
  ASSUME QuietRollover, RegisterInv, [Next]_vars
  PROVE  RegisterInv'
<1>0. AllocationInv /\ AllocationInv'
  BY AllocationStep DEF RegisterInv
<1> USE <1>0, RegistryAssumption
    DEF RegistryAssumption, TypeOK, Active, AfterRow, AfterClock, AfterLock, Numbered,
        Goto, seqVars, tables, AllocationInv, RegisterInv, RestartIsFresh, FirstOfYearIsOne
<1>1. CASE Tick
  BY <1>1 DEF Tick
<1>2. ASSUME NEW r \in Request,
             Begin(r) \/ PersistBorrower(r) \/ ReadClock(r) \/ LockYear(r)
      PROVE  RegisterInv'
  BY <1>2 DEF Begin, PersistBorrower, ReadClock, LockYear
<1>3. ASSUME NEW r \in Request, ReadMaxYear(r) PROVE RegisterInv'
  BY <1>3 DEF ReadMaxYear, RestartOnlyForNewYear, RestarterIsActive
<1>4. ASSUME NEW r \in Request, RestartSequence(r) PROVE RegisterInv'
  BY <1>4 DEF RestartSequence
<1>5. ASSUME NEW r \in Request, NextVal(r) PROVE RegisterInv'
  BY <1>5 DEF NextVal, RestartOnlyForNewYear
<1>6. ASSUME NEW r \in Request, InsertDossier(r) \/ Respond(r) PROVE RegisterInv'
  BY <1>6 DEF InsertDossier, Respond
<1>7. ASSUME NEW r \in Request, Rollback(r), pc[r] \in Active PROVE RegisterInv'
  BY <1>7 DEF Rollback, EndTransaction
<1>8. ASSUME NEW r \in Request, Commit(r) PROVE RegisterInv'
  <2>1. \A q \in Request : pc'[q] \notin AfterLock
    BY <1>8 DEF Commit, EndTransaction, OneAllocates
  <2>2. QED
    BY <2>1
<1>9. CASE UNCHANGED vars
  BY <1>9 DEF vars
<1>10. QED
  BY <1>1, <1>2, <1>3, <1>4, <1>5, <1>6, <1>7, <1>8, <1>9
     DEF Next, Step, DuplicateCaseId, Fail

\* Dossiers are filed by commits, one at a time.
LEMMA CommitFiles ==
  ASSUME RegisterInv, NEW r \in Request, Commit(r), NEW i \in Inn, inn[r] = i
  PROVE  Register!File(r, i)
<1> DEFINE R == {[owner |-> d.owner, inn |-> d.inn, year |-> d.year, num |-> d.num] : d \in dossiers}
<1> USE DEF TypeOK, AllocationInv, RegisterInv
<1>1. R = dossiers
  BY DEF Dossier
<1>2. /\ Row(r) \in Dossier /\ dossiers' = dossiers \cup {Row(r)} /\ dossiers' \subseteq Dossier
      /\ borrowerRow' = [borrowerRow EXCEPT ![inn[r]] = r]
  BY <1>1 DEF Commit, Row, Dossier
<1>3. R' = dossiers'
  BY <1>2 DEF Dossier
<1>4. \A e \in dossiers : Register!Above(Row(r), e)
  <2> SUFFICES ASSUME NEW e \in dossiers PROVE Register!Above(Row(r), e)
    OBVIOUS
  <2>1. e.year <= clock /\ year[r] = clock /\ (e.year = year[r] => e.num < num[r])
    BY DEF Commit, SequenceCoversNewestYear, ReadThisYear, NumberIsNewest, AfterClock, AfterLock,
           Numbered
  <2>2. e.year \in Nat /\ e.num \in Nat /\ num[r] \in Nat /\ clock \in Nat
    BY RegistryAssumption DEF RegistryAssumption, Dossier, Year
  <2>3. QED
    BY <2>1, <2>2 DEF Register!Above, Row
<1>5. Row(r) \notin dossiers
  <2> SUFFICES ASSUME Row(r) \in dossiers PROVE FALSE
    OBVIOUS
  <2>1. num[r] < num[r] /\ num[r] \in Nat
    BY DEF Commit, NumberIsNewest, Numbered, Row
  <2>2. QED
    BY <2>1
<1>6. dossiers # {} /\ (\A e \in dossiers : e.year < year[r]) => num[r] = 1
  <2> SUFFICES ASSUME NEW e \in dossiers, \A d \in dossiers : d.year < year[r]
               PROVE  num[r] = 1
    OBVIOUS
  <2>1. \A d \in dossiers : d.year \in Nat /\ year[r] \in Nat
    BY RegistryAssumption DEF RegistryAssumption, Dossier, Year
  <2>2. QED
    BY <2>1 DEF Commit, FirstOfYearIsOne, Numbered
<1>7. /\ Row(r) \in R' \ R /\ Row(r).owner = r /\ Row(r).inn = inn[r]
      /\ Row(r).year = year[r] /\ Row(r).num = num[r] /\ year[r] \in Year /\ num[r] \in Nat
  BY <1>1, <1>2, <1>3, <1>5 DEF Row
<1>8. QED
  BY <1>1, <1>2, <1>3, <1>4, <1>6, <1>7 DEF Register!File

\* While no call is under way at the turn of the year, the registry files
\* dossiers one at a time, each above all those before it, numbers each year
\* from one, and files with each dossier its borrower's card: transactions,
\* locks, the sequence, rollbacks and crashes cannot be told from outside.
THEOREM RegistryImplementsRegister ==
  ASSUME QuietRollover
  PROVE  Spec => ImplementsRegister
<1>1. Init => RegisterInv
  BY AllocationInit DEF RegisterInv, Init, RestartIsFresh, FirstOfYearIsOne, Numbered
<1>2. RegisterInv /\ [Next]_vars => RegisterInv'
  BY RegisterStep
<1>3. Init => Register!RegisterInit
  <2> SUFFICES ASSUME Init PROVE Register!RegisterInit
    OBVIOUS
  <2>1. PICK k \in 0 .. MaxBackfill, i \in Inn : dossiers = Backfill(k, i)
    BY DEF Init
  <2>2. QED
    BY <2>1 DEF Backfill, Register!RegisterInit, Register!Above
<1>4. RegisterInv /\ [Next]_vars => [Register!RegisterNext]_Register!regVars
  <2> SUFFICES ASSUME RegisterInv, [Next]_vars
               PROVE  [Register!RegisterNext]_Register!regVars
    OBVIOUS
  <2>1. ASSUME NEW r \in Request, Commit(r) PROVE Register!RegisterNext
    <3>1. PICK i \in Inn : inn[r] = i
      BY DEF RegisterInv, AllocationInv, TypeOK
    <3>2. QED
      BY <2>1, <3>1, CommitFiles DEF Register!RegisterNext
  <2>2. CASE UNCHANGED <<dossiers, borrowerRow>>
    BY <2>2 DEF Register!regVars
  <2>3. QED
    BY <2>1, <2>2 DEF Next, Step, Tick, Begin, PersistBorrower, ReadClock, LockYear, ReadMaxYear,
       RestartSequence, NextVal, InsertDossier, DuplicateCaseId, Rollback, Fail, Respond,
       tables, vars
<1>5. QED
  BY <1>1, <1>2, <1>3, <1>4, PTL DEF Spec, ImplementsRegister, Register!RegisterSpec
-----------------------------------------------------------------------------
(* The turn of the year with calls under way: several years allocate, each *)
(* under its own advisory lock, from the one sequence.                     *)

LockPerYear ==
  \A r, q \in Request :
    pc[r] \in AfterLock /\ pc[q] \in AfterLock /\ year[r] = year[q] => r = q

RowPerBorrower ==
  \A r, q \in Request :
    pc[r] \in AfterRow /\ pc[q] \in AfterRow /\ inn[r] = inn[q] => r = q

\* Who restarted the sequence is the only one with a number of it.
OwnerDrawsAlone ==
  seqOwner # None => /\ pc[seqOwner] \in {"nextval"} \cup Numbered
                     /\ \A r \in Request : pc[r] \in Numbered => r = seqOwner

ClockIsAhead ==
  /\ \A r \in Request : pc[r] \in AfterClock => year[r] <= clock
  /\ \A d \in dossiers : d.year <= clock

\* No dossier is of a later year than y.
Latest(y) == \A d \in dossiers : d.year <= y

SequenceCoversLatest ==
  ~lateRestart => \A d \in dossiers : Latest(d.year) => d.num <= SequenceFloor

\* A restart is for a year that has no dossier: the lock keeps others out.
RestartOfEmptyYear ==
  \A r \in Request : pc[r] = "restart" \/ seqOwner = r
    => \A d \in dossiers : d.year # year[r]

DrawnIsAbove ==
  \A r \in Request : pc[r] \in Numbered =>
    /\ num[r] <= seq
    /\ ~lateRestart /\ Latest(year[r]) => \A d \in dossiers : d.year = year[r] => d.num < num[r]

\* A call reads the clock when the calls before it on its borrower have ended.
YearsFollowCommits ==
  \A r \in Request : pc[r] \in AfterClock
    => \A d \in dossiers : d.inn = inn[r] => d.year <= year[r]

\* The card is that of a dossier of the borrower above all others of the year.
CardIsOfNewest ==
  ~lateRestart =>
    \A d \in dossiers : Latest(d.year) =>
      \/ d.owner = borrowerRow[d.inn]
      \/ \E e \in dossiers : /\ e.inn = d.inn /\ e.owner = borrowerRow[d.inn]
                             /\ Register!Above(e, d)

RolloverInv ==
  /\ TypeOK
  /\ LockPerYear
  /\ RowPerBorrower
  /\ OwnerDrawsAlone
  /\ ClockIsAhead
  /\ SequenceCoversLatest
  /\ RestartOfEmptyYear
  /\ DrawnIsAbove
  /\ YearsFollowCommits
  /\ CardIsOfNewest

LEMMA RolloverInit == Init => RolloverInv
<1> SUFFICES ASSUME Init PROVE RolloverInv
  OBVIOUS
<1>1. TypeOK
  BY TypeStep
<1>2. PICK k \in 0 .. MaxBackfill, i \in Inn : dossiers = Backfill(k, i) /\ seq = k
  BY DEF Init
<1>3. \A d \in dossiers : d.year = FirstYear /\ d.num <= k /\ d.owner = None /\ d.inn \in Inn
  BY <1>2 DEF Backfill
<1>4. SequenceCoversLatest /\ CardIsOfNewest
  BY <1>2, <1>3 DEF Init, SequenceCoversLatest, SequenceFloor, CardIsOfNewest
<1>5. ClockIsAhead
  BY <1>3, RegistryAssumption DEF Init, ClockIsAhead, RegistryAssumption, AfterClock,
     AfterLock, Numbered
<1>6. QED
  BY <1>1, <1>4, <1>5, RegistryAssumption
     DEF Init, RolloverInv, LockPerYear, RowPerBorrower, OwnerDrawsAlone, RestartOfEmptyYear,
         DrawnIsAbove, YearsFollowCommits, RegistryAssumption, AfterRow, AfterClock, AfterLock,
         Numbered

\* The locks, and the clock.
LEMMA LockStep ==
  ASSUME RolloverInv, [Next]_vars
  PROVE  LockPerYear' /\ RowPerBorrower' /\ OwnerDrawsAlone' /\ ClockIsAhead'
<1> DEFINE Locks == LockPerYear /\ RowPerBorrower /\ OwnerDrawsAlone /\ ClockIsAhead
<1> SUFFICES Locks'
  OBVIOUS
<1>0. TypeOK /\ TypeOK' /\ Locks
  BY TypeStep DEF RolloverInv
<1> USE <1>0, RegistryAssumption
    DEF RegistryAssumption, TypeOK, Active, AfterRow, AfterClock, AfterLock, Numbered, Year,
        Dossier, Goto, seqVars, tables, LockPerYear, RowPerBorrower, OwnerDrawsAlone, ClockIsAhead
<1>1. CASE Tick
  BY <1>1 DEF Tick
<1>2. ASSUME NEW r \in Request, Begin(r) PROVE Locks'
  BY <1>2 DEF Begin
<1>3. ASSUME NEW r \in Request, PersistBorrower(r) PROVE Locks'
  BY <1>3 DEF PersistBorrower, HoldsRow
<1>4. ASSUME NEW r \in Request, ReadClock(r) PROVE Locks'
  BY <1>4 DEF ReadClock
<1>5. ASSUME NEW r \in Request, LockYear(r) PROVE Locks'
  BY <1>5 DEF LockYear, HoldsYear
<1>6. ASSUME NEW r \in Request, ReadMaxYear(r) PROVE Locks'
  BY <1>6 DEF ReadMaxYear
<1>7. ASSUME NEW r \in Request, RestartSequence(r) PROVE Locks'
  BY <1>7 DEF RestartSequence
<1>8. ASSUME NEW r \in Request, NextVal(r) PROVE Locks'
  BY <1>8 DEF NextVal
<1>9. ASSUME NEW r \in Request, InsertDossier(r) \/ Respond(r) PROVE Locks'
  BY <1>9 DEF InsertDossier, Respond
<1>10. ASSUME NEW r \in Request, Rollback(r), pc[r] \in Active PROVE Locks'
  BY <1>10 DEF Rollback, EndTransaction
<1>11. ASSUME NEW r \in Request, Commit(r) PROVE Locks'
  BY <1>11 DEF Commit, EndTransaction, Row
<1>12. CASE UNCHANGED vars
  BY <1>12 DEF vars
<1>13. QED
  BY <1>1, <1>2, <1>3, <1>4, <1>5, <1>6, <1>7, <1>8, <1>9, <1>10, <1>11, <1>12
     DEF Next, Step, DuplicateCaseId, Fail


\* Every step but a commit: the registry stays, and so does the floor unless a
\* number above it is drawn.
LEMMA DrawStep ==
  ASSUME RolloverInv, [Next]_vars, ~\E r \in Request : Commit(r)
  PROVE  RolloverInv'
<1>0. TypeOK /\ TypeOK' /\ OwnerDrawsAlone
  BY TypeStep DEF RolloverInv
<1> USE <1>0, RegistryAssumption
    DEF RegistryAssumption, TypeOK, Active, AfterRow, AfterClock, AfterLock, Numbered, Year,
        Dossier, Goto, seqVars, tables
<1>a. UNCHANGED <<lateRestart, dossiers, borrowerRow, inn>>
  BY DEF Next, Step, Tick, Begin, PersistBorrower, ReadClock, LockYear, ReadMaxYear,
         RestartSequence, NextVal, InsertDossier, DuplicateCaseId, Rollback, EndTransaction, Fail,
         Respond, vars
<1>b. CardIsOfNewest'
  BY <1>a DEF RolloverInv, CardIsOfNewest, Latest, Register!Above
<1> DEFINE Draws == /\ SequenceCoversLatest /\ RestartOfEmptyYear /\ DrawnIsAbove
                    /\ YearsFollowCommits
<1>c. Draws
  BY DEF RolloverInv
<1> USE <1>a, <1>c
    DEF SequenceCoversLatest, SequenceFloor, RestartOfEmptyYear, DrawnIsAbove, YearsFollowCommits,
        OwnerDrawsAlone, Latest
<1>1. ASSUME Tick PROVE Draws'
  BY <1>1 DEF Tick
<1>2. ASSUME NEW r \in Request, Begin(r) PROVE Draws'
  BY <1>2 DEF Begin
<1>3. ASSUME NEW r \in Request, PersistBorrower(r) PROVE Draws'
  BY <1>3 DEF PersistBorrower, HoldsRow
<1>4. ASSUME NEW r \in Request, ReadClock(r) PROVE Draws'
  BY <1>4 DEF ReadClock, RolloverInv, ClockIsAhead
<1>5. ASSUME NEW r \in Request, LockYear(r) PROVE Draws'
  BY <1>5 DEF LockYear, HoldsYear
<1>6. ASSUME NEW r \in Request, ReadMaxYear(r) PROVE Draws'
  BY <1>6 DEF ReadMaxYear, YearRollsOver
<1>7. ASSUME NEW r \in Request, RestartSequence(r) PROVE Draws'
  BY <1>7 DEF RestartSequence
<1>8. ASSUME NEW r \in Request, NextVal(r) PROVE Draws'
  BY <1>8 DEF NextVal
<1>9. ASSUME NEW r \in Request, InsertDossier(r) \/ Respond(r) PROVE Draws'
  BY <1>9 DEF InsertDossier, Respond
<1>10. ASSUME NEW r \in Request, Rollback(r), pc[r] \in Active PROVE Draws'
  BY <1>10 DEF Rollback, EndTransaction
<1>11. ASSUME UNCHANGED vars PROVE Draws'
  BY <1>11 DEF vars
<1>12. Draws'
  BY <1>1, <1>2, <1>3, <1>4, <1>5, <1>6, <1>7, <1>8, <1>9, <1>10, <1>11
     DEF Next, Step, DuplicateCaseId, Fail
<1>13. QED
  BY <1>b, <1>12, LockStep DEF RolloverInv

\* A commit: its number is above those of its year, if that is the latest.
LEMMA CommitStep ==
  ASSUME RolloverInv, NEW r \in Request, Commit(r)
  PROVE  RolloverInv'
<1>0. /\ TypeOK /\ TypeOK' /\ LockPerYear' /\ RowPerBorrower' /\ OwnerDrawsAlone' /\ ClockIsAhead'
  BY TypeStep, LockStep DEF RolloverInv, Next, Step
<1> USE <1>0, RegistryAssumption DEF RegistryAssumption, TypeOK
<1>1. /\ dossiers' = dossiers \cup {Row(r)}
      /\ Row(r).owner = r /\ Row(r).inn = inn[r] /\ Row(r).year = year[r] /\ Row(r).num = num[r]
      /\ pc[r] \in Numbered /\ pc[r] \notin {"restart", "nextval"} /\ inn[r] \in Inn
      /\ UNCHANGED <<clock, inn, year, num, seq>>
      /\ pc' = [pc EXCEPT ![r] = "done"]
      /\ borrowerRow' = [borrowerRow EXCEPT ![inn[r]] = r]
      /\ lateRestart' = (lateRestart \/ (seqOwner = r /\ Straggler(r)))
  BY DEF Commit, EndTransaction, Row, Numbered
<1>2. /\ \A d \in dossiers' : d.year \in Nat /\ d.num \in Nat /\ d.inn \in Inn
      /\ \A q \in Request : year[q] \in Nat /\ num[q] \in Nat
      /\ dossiers \subseteq dossiers' /\ seq \in Nat /\ seqSaved \in Nat
  BY <1>1 DEF Dossier, Year
<1>3. seqOwner \in {None, r} /\ seqOwner' = None /\ SequenceFloor' = seq
  BY <1>1 DEF RolloverInv, OwnerDrawsAlone, Commit, EndTransaction, SequenceFloor
<1>4. \A q \in Request \ {r} : pc[q] \in AfterLock => year[q] # year[r]
  BY <1>1 DEF RolloverInv, LockPerYear, AfterLock
<1>5. \A d \in dossiers : Latest(d.year)' => Latest(d.year) /\ year[r] <= d.year
  BY <1>1 DEF Latest
<1>6. Latest(year[r])' => Latest(year[r])
  BY <1>1 DEF Latest
<1>7. SequenceCoversLatest'
  <2> SUFFICES ASSUME ~lateRestart', NEW d \in dossiers', Latest(d.year)'
               PROVE  d.num <= seq
    BY <1>1, <1>3 DEF SequenceCoversLatest, Latest
  <2>1. CASE d = Row(r)
    BY <1>1, <2>1 DEF RolloverInv, DrawnIsAbove
  <2>2. CASE d \in dossiers /\ seqOwner = None
    BY <1>1, <1>5, <2>2 DEF RolloverInv, SequenceCoversLatest, SequenceFloor
  <2>3. CASE d \in dossiers /\ seqOwner = r
    <3>1. d.year # year[r] /\ year[r] <= d.year
      BY <1>5, <2>3 DEF RolloverInv, RestartOfEmptyYear
    <3>2. Straggler(r)
      BY <1>2, <2>3, <3>1 DEF Straggler
    <3>3. QED
      BY <1>1, <2>3, <3>2
  <2>4. QED
    BY <1>1, <1>3, <2>1, <2>2, <2>3
<1>8. RestartOfEmptyYear'
  <2> SUFFICES ASSUME NEW q \in Request, pc'[q] = "restart", NEW d \in dossiers'
               PROVE  d.year # year[q]
    BY <1>1, <1>3 DEF RestartOfEmptyYear
  <2>1. q # r /\ pc[q] = "restart"
    BY <1>1
  <2>2. QED
    BY <1>1, <1>4, <2>1 DEF RolloverInv, RestartOfEmptyYear, AfterLock
<1>9. DrawnIsAbove'
  <2> SUFFICES ASSUME NEW q \in Request, pc'[q] \in Numbered
               PROVE  /\ num[q] <= seq
                      /\ ~lateRestart' /\ Latest(year[q])'
                           => \A d \in dossiers' : d.year = year[q] => d.num < num[q]
    BY <1>1 DEF DrawnIsAbove, Latest
  <2>1. q # r /\ pc[q] \in Numbered /\ pc[q] \in AfterLock
    BY <1>1 DEF Numbered, AfterLock
  <2>2. Latest(year[q])' => Latest(year[q])
    BY <1>1 DEF Latest
  <2>3. QED
    BY <1>1, <1>4, <2>1, <2>2 DEF RolloverInv, DrawnIsAbove
<1>10. YearsFollowCommits'
  <2> SUFFICES ASSUME NEW q \in Request, pc'[q] \in AfterClock,
                      NEW d \in dossiers', d.inn = inn[q]
               PROVE  d.year <= year[q]
    BY <1>1 DEF YearsFollowCommits
  <2>1. q # r /\ pc[q] \in AfterClock
    BY <1>1 DEF AfterClock, AfterLock, Numbered
  <2>2. inn[q] # inn[r]
    BY <1>1, <2>1 DEF RolloverInv, RowPerBorrower, AfterRow, AfterClock, AfterLock
  <2>3. QED
    BY <1>1, <2>1, <2>2 DEF RolloverInv, YearsFollowCommits
<1>11. CardIsOfNewest'
  <2> SUFFICES ASSUME ~lateRestart', NEW d \in dossiers', Latest(d.year)'
               PROVE  \/ d.owner = borrowerRow'[d.inn]
                      \/ \E e \in dossiers' : /\ e.inn = d.inn /\ e.owner = borrowerRow'[d.inn]
                                              /\ Register!Above(e, d)
    BY DEF CardIsOfNewest, Latest, Register!Above
  <2>1. CASE d = Row(r)
    BY <1>1, <2>1
  <2>2. CASE d \in dossiers /\ d.inn # inn[r]
    <3>1. borrowerRow'[d.inn] = borrowerRow[d.inn]
      BY <1>1, <1>2, <2>2
    <3>2. \/ d.owner = borrowerRow[d.inn]
          \/ \E e \in dossiers : /\ e.inn = d.inn /\ e.owner = borrowerRow[d.inn]
                                 /\ Register!Above(e, d)
      BY <1>1, <1>5, <2>2 DEF RolloverInv, CardIsOfNewest
    <3>3. \A e \in dossiers : e \in dossiers'
      BY <1>1
    <3>4. QED
      BY <3>1, <3>2, <3>3
  <2>3. CASE d \in dossiers /\ d.inn = inn[r]
    <3>1. d.year <= year[r] /\ year[r] <= d.year
      BY <1>1, <1>5, <2>3 DEF RolloverInv, YearsFollowCommits, AfterClock, AfterLock
    <3>2. d.year = year[r]
      <4>1. d.year \in Nat /\ year[r] \in Nat
        BY <1>2
      <4>2. QED
        BY <3>1, <4>1
    <3>3. d.num < num[r]
      BY <1>1, <1>5, <2>3, <3>2 DEF RolloverInv, DrawnIsAbove
    <3>4. Register!Above(Row(r), d)
      BY <1>1, <1>2, <3>2, <3>3 DEF Register!Above
    <3>5. QED
      BY <1>1, <2>3, <3>4
  <2>4. QED
    BY <1>1, <2>1, <2>2, <2>3
<1>12. QED
  BY <1>0, <1>7, <1>8, <1>9, <1>10, <1>11 DEF RolloverInv

LEMMA RolloverInvariant == Spec => []RolloverInv
<1>1. RolloverInv /\ [Next]_vars => RolloverInv'
  BY DrawStep, CommitStep
<1>2. QED
  BY <1>1, RolloverInit, PTL DEF Spec

\* Whenever the year changes, and whatever is under way: a call that is given
\* a number in use read the clock in a year that is over, as long as no such
\* call has restarted the sequence.
THEOREM StragglersAlone == Spec => []OnlyStragglersCollide
<1>1. RolloverInv => OnlyStragglersCollide
  <2> SUFFICES ASSUME RolloverInv, ~lateRestart, NEW r \in Request, pc[r] = "insert",
                      NEW d \in dossiers, SameCase(d, Row(r)), ~Straggler(r)
               PROVE  FALSE
    BY DEF OnlyStragglersCollide, KeyTaken
  <2>1. d.year = year[r] /\ d.num = num[r]
    BY DEF SameCase, Row
  <2>2. d.year \in Nat /\ d.num \in Nat /\ \A e \in dossiers : e.year \in Nat /\ year[r] \in Nat
    BY RegistryAssumption DEF RegistryAssumption, RolloverInv, TypeOK, Dossier, Year
  <2>3. Latest(year[r])
    BY <2>2 DEF Straggler, Latest
  <2>4. d.num < num[r]
    BY <2>1, <2>3 DEF RolloverInv, DrawnIsAbove, Numbered
  <2>5. QED
    BY <2>1, <2>2, <2>4
<1>2. QED
  BY <1>1, RolloverInvariant, PTL

\* In the year in progress the highest case identifier of a borrower and the
\* borrower's card come from the same call, also with other years allocating.
THEOREM NewestCaseAndCardAgree == Spec => []NewestCaseShowsItsBorrower
<1>1. RolloverInv => NewestCaseShowsItsBorrower
  <2> SUFFICES ASSUME RolloverInv, ~lateRestart, NEW d \in dossiers,
                      \A e \in dossiers : e.year <= d.year,
                      \A e \in dossiers : e.inn = d.inn => e = d \/ Register!Above(d, e)
               PROVE  borrowerRow[d.inn] = d.owner
    BY DEF NewestCaseShowsItsBorrower, BorrowerShown
  <2>1. \A e \in dossiers : e.year \in Nat /\ e.num \in Nat
    BY RegistryAssumption DEF RegistryAssumption, RolloverInv, TypeOK, Dossier, Year
  <2>2. SUFFICES ASSUME NEW e \in dossiers, e.inn = d.inn, e.owner = borrowerRow[d.inn],
                        Register!Above(e, d)
                 PROVE  borrowerRow[d.inn] = d.owner
    BY DEF RolloverInv, CardIsOfNewest, Latest
  <2>3. e = d
    BY <2>1, <2>2 DEF Register!Above
  <2>4. QED
    BY <2>2, <2>3
<1>2. QED
  BY <1>1, RolloverInvariant, PTL
=============================================================================
