------------------------ MODULE AnalystAccountProofs ------------------------
(***************************************************************************)
(* Theorems about AnalystAccount, for any calls, endpoints, passwords and  *)
(* number of backup codes, and about what directory logins leave in the    *)
(* table of analysts (LdapLogin), for any number of calls and addresses.   *)
(***************************************************************************)
EXTENDS AnalystAccount, LdapLogin, TLAPS

\* What the handlers assign to a row, and what the UPDATE leaves, is a row.
LEMMA UpdatedType ==
  ASSUME TypeOK, AcceptedOnCopy, NEW r \in Decided
  PROVE  Wanted(r) \in Row /\ Updated(r) \in Row
<1> USE AccountAssumption DEF AccountAssumption
<1>1. /\ got[r] \in Row /\ form[r] \in Form /\ row \in Row
      /\ r \in Request /\ r \in Origin /\ CodesOf(r) \in SUBSET Code
  BY DEF TypeOK, Decided, Origin, Code, CodesOf
<1>2. ASSUME form[r].kind = "backup"
      PROVE  got[r].codes \in SUBSET Code
  <2>1. got[r].codes # None
    BY <1>2 DEF AcceptedOnCopy, Accepts
  <2>2. got[r].codes \in (SUBSET Code) \cup {None}
    BY <1>1 DEF Row
  <2>3. QED
    BY <2>1, <2>2
<1>3. Wanted(r) \in Row
  <2>0. NoMfa(got[r]) \in Row
    BY <1>1 DEF NoMfa, Row
  <2>1. CASE form[r].kind = "start"
    <3>1. Wanted(r) = [NoMfa(got[r]) EXCEPT !.secret = r]
      BY <2>1 DEF Wanted
    <3>2. QED
      BY <2>0, <3>1, <1>1 DEF Row
  <2>2. CASE form[r].kind = "verify"
    BY <2>2, <1>1 DEF Wanted, Row
  <2>3. CASE form[r].kind = "backup"
    <3>1. got[r].codes \ {form[r].code} \in SUBSET Code
      BY <2>3, <1>2
    <3>2. QED
      BY <2>3, <1>1, <3>1 DEF Wanted, Consumed, Row
  <2>4. CASE form[r].kind = "password"
    <3>1. form[r].chosen \in Password
      BY <2>4, <1>1 DEF TypeOK
    <3>2. QED
      BY <2>4, <1>1, <3>1 DEF Wanted, Row
  <2>5. CASE form[r].kind \in {"disable", "reset"}
    BY <2>5, <2>0 DEF Wanted
  <2>6. CASE form[r].kind \in {"login", "totp", "none"}
    BY <2>6, <1>1 DEF Wanted
  <2>7. QED
    BY <2>1, <2>2, <2>3, <2>4, <2>5, <2>6, <1>1 DEF Form, Endpoint
<1>4. Updated(r) \in Row
  BY <1>1, <1>3 DEF Updated, Column, Row
<1>5. QED
  BY <1>3, <1>4
\* What a client can send has the type of a form.
LEMMA FormsType ==
  ASSUME NEW k \in Kind, NEW f \in FormsOf(k)
  PROVE  /\ f \in Form /\ f.kind = k
         /\ f.kind = "password" => f.chosen \in Password
<1>1. Devices \subseteq Origin
  BY DEF Devices, Origin
<1>2. Printed \subseteq Code
  BY DEF Printed, Code, Origin, CodesOf
<1>3. k \in Endpoint
  BY AccountAssumption DEF AccountAssumption
<1>4. QED
  BY <1>1, <1>2, <1>3 DEF FormsOf, Form

\* The types are kept, and a call past its decision was accepted on its copy.
LEMMA TypeStep ==
  /\ Init => TypeOK /\ AcceptedOnCopy
  /\ TypeOK /\ AcceptedOnCopy /\ [Next]_vars => TypeOK' /\ AcceptedOnCopy'
<1> USE AccountAssumption DEF AccountAssumption
<1>1. Init => TypeOK /\ AcceptedOnCopy
  <2> SUFFICES ASSUME Init PROVE TypeOK /\ AcceptedOnCopy
    OBVIOUS
  <2>1. row \in Row
    <3>1. Old \in Origin /\ CodesOf(Old) \in SUBSET Code
      BY DEF Origin, Code, CodesOf
    <3>2. QED
      BY <3>1 DEF Init, Row
  <2>2. NoForm \in Form /\ NoForm.kind # "password"
    BY DEF NoForm, Form
  <2>3. QED
    BY <2>1, <2>2 DEF Init, TypeOK, AcceptedOnCopy, Decided
<1>2. TypeOK /\ AcceptedOnCopy /\ [Next]_vars => TypeOK' /\ AcceptedOnCopy'
  <2> SUFFICES ASSUME TypeOK, AcceptedOnCopy, [Next]_vars
               PROVE  TypeOK' /\ AcceptedOnCopy'
    OBVIOUS
  <2> USE DEF Goto, Active, Ended, Decided
  <2>1. ASSUME NEW r \in Request, Begin(r) PROVE TypeOK' /\ AcceptedOnCopy'
    <3>1. PICK k \in Kind : \E f \in FormsOf(k) : form' = [form EXCEPT ![r] = f]
      BY <2>1 DEF Begin
    <3>2. PICK f \in FormsOf(k) : form' = [form EXCEPT ![r] = f]
      BY <3>1
    <3>3. f \in Form /\ (f.kind = "password" => f.chosen \in Password)
      BY FormsType
    <3>4. /\ form' \in [Request -> Form]
          /\ \A q \in Request : form'[q].kind = "password" => form'[q].chosen \in Password
      BY <3>2, <3>3 DEF TypeOK
    <3>5. TypeOK'
      BY <2>1, <3>4 DEF Begin, TypeOK
    <3>6. AcceptedOnCopy'
      BY <2>1, <3>2 DEF Begin, AcceptedOnCopy, TypeOK
    <3>8. QED
      BY <3>5, <3>6
  <2>2. ASSUME NEW r \in Request, Authenticate(r) PROVE TypeOK' /\ AcceptedOnCopy'
    BY <2>2 DEF Authenticate, TypeOK, AcceptedOnCopy
  <2>3. ASSUME NEW r \in Request, Load(r) PROVE TypeOK' /\ AcceptedOnCopy'
    BY <2>3 DEF Load, TypeOK, AcceptedOnCopy
  <2>4. ASSUME NEW r \in Request, Reject(r) PROVE TypeOK' /\ AcceptedOnCopy'
    <3>1. FailureOf(form[r].kind) \subseteq Event
      BY DEF FailureOf, Event
    <3>2. QED
      BY <2>4, <3>1 DEF Reject, Insert, TypeOK, AcceptedOnCopy
  <2>5. ASSUME NEW r \in Request, Flush(r) PROVE TypeOK' /\ AcceptedOnCopy'
    <3>1. EventOf(form[r].kind) \subseteq Event
      BY DEF EventOf, Event
    <3>2. QED
      BY <2>5, <3>1 DEF Flush, Insert, TypeOK, AcceptedOnCopy
  <2>6. ASSUME NEW r \in Request, Respond(r) PROVE TypeOK' /\ AcceptedOnCopy'
    BY <2>6 DEF Respond, TypeOK, AcceptedOnCopy
  <2>7. ASSUME NEW r \in Request, Commit(r) PROVE TypeOK' /\ AcceptedOnCopy'
    <3>1. Updated(r) \in Row
      BY <2>7, UpdatedType DEF Commit
    <3>2. QED
      BY <2>7, <3>1 DEF Commit, TypeOK, AcceptedOnCopy
  <2>8. ASSUME NEW r \in Request, Refuse(r) \/ Fail(r)
        PROVE  TypeOK' /\ AcceptedOnCopy'
    BY <2>8 DEF Refuse, Fail, Rollback, TypeOK, AcceptedOnCopy
  <2>9. CASE UNCHANGED vars
    BY <2>9 DEF vars, TypeOK, AcceptedOnCopy
  <2>10. QED
    BY <2>1, <2>2, <2>3, <2>4, <2>5, <2>6, <2>7, <2>8, <2>9 DEF Next
<1>3. QED
  BY <1>1, <1>2

\* The type invariant holds of every behaviour: no handler takes a code out of
\* a set of codes that is not there.
THEOREM TypeCorrect == Spec => []TypeOK
  BY TypeStep, PTL DEF Spec
-----------------------------------------------------------------------------
\* Only a commit writes the row.
LEMMA CommitWritesRow ==
  ASSUME [Next]_vars, row' # row
  PROVE  \E r \in Request : Commit(r)
  BY DEF Next, vars, Begin, Authenticate, Load, Reject, Flush, Respond, Refuse,
         Fail, Rollback

\* The columns an UPDATE can change, by the endpoint that makes it.
LEMMA Footprint ==
  ASSUME TypeOK, AcceptedOnCopy, NEW r \in Decided
  PROVE  /\ Updated(r).password # row.password => form[r].kind = "password"
         /\ \/ Updated(r).enrolled = row.enrolled
            \/ Updated(r).enrolled = r /\ form[r].kind = "verify"
            \/ Updated(r).enrolled = None /\ form[r].kind \in {"start", "disable", "reset"}
<1>1. /\ got[r] \in Row /\ form[r] \in Form
  BY DEF TypeOK, Decided
<1>2. ASSUME form[r].kind # "password" PROVE Wanted(r).password = got[r].password
  BY <1>1, <1>2 DEF Wanted, NoMfa, Row
<1>3. \/ Wanted(r).enrolled = got[r].enrolled
      \/ Wanted(r).enrolled = r /\ form[r].kind = "verify"
      \/ Wanted(r).enrolled = None /\ form[r].kind \in {"start", "disable", "reset"}
  BY <1>1 DEF Wanted, NoMfa, Row
<1>4. QED
  BY <1>2, <1>3 DEF Updated, Column

\* No call writes a stale copy of the password back over a change of password,
\* however the calls overlap.
THEOREM PasswordIsNeverOverwritten == Spec => OnlyPasswordCallsChangeThePassword
<1>1. TypeOK /\ AcceptedOnCopy /\ [Next]_vars
        => [row'.password # row.password
              => \E r \in Request : Commits(r) /\ form[r].kind = "password"]_vars
  <2> SUFFICES ASSUME TypeOK, AcceptedOnCopy, [Next]_vars,
                      row'.password # row.password
               PROVE  \E r \in Request : Commits(r) /\ form[r].kind = "password"
    OBVIOUS
  <2>1. PICK r \in Request : Commit(r)
    BY CommitWritesRow
  <2>2. r \in Decided /\ Commits(r) /\ row' = Updated(r)
    BY <2>1 DEF Commit, Goto, Commits, Decided, TypeOK
  <2>3. QED
    BY <2>2, Footprint
<1>2. QED
  BY <1>1, TypeStep, PTL DEF Spec, OnlyPasswordCallsChangeThePassword

\* A reset or a disable is undone by a verify alone, however the calls overlap.
THEOREM OffStaysOff == Spec => OnlyVerifyTurnsOn
<1>1. TypeOK /\ AcceptedOnCopy /\ [Next]_vars
        => [row'.enrolled \notin {None, row.enrolled}
              => \E r \in Request : Commits(r) /\ form[r].kind = "verify"]_vars
  <2> SUFFICES ASSUME TypeOK, AcceptedOnCopy, [Next]_vars,
                      row'.enrolled \notin {None, row.enrolled}
               PROVE  \E r \in Request : Commits(r) /\ form[r].kind = "verify"
    OBVIOUS
  <2>1. PICK r \in Request : Commit(r)
    BY CommitWritesRow
  <2>2. r \in Decided /\ Commits(r) /\ row' = Updated(r)
    BY <2>1 DEF Commit, Goto, Commits, Decided, TypeOK
  <2>3. QED
    BY <2>2, Footprint
<1>2. QED
  BY <1>1, TypeStep, PTL DEF Spec, OnlyVerifyTurnsOn

-----------------------------------------------------------------------------
\* When the copy is the row, the UPDATE installs what the handler assigned.
LEMMA CopyUpdated ==
  ASSUME TypeOK, AcceptedOnCopy, NEW r \in Decided, got[r] = row
  PROVE  Updated(r) = Wanted(r)
  BY UpdatedType DEF Updated, Column, Row

\* The second-factor columns after each kind of call, seen from the copy.
LEMMA WantedColumns ==
  ASSUME TypeOK, AcceptedOnCopy, NEW r \in Decided
  PROVE  LET w == Wanted(r)
             g == got[r]
         IN  \/ w.enrolled = None /\ w.codes = None
             \/ /\ form[r].kind = "verify" /\ g.secret # None
                /\ w.secret = g.secret /\ w.secret = form[r].device
                /\ w.enrolled = r /\ w.codes = CodesOf(r)
             \/ /\ w.secret = g.secret /\ w.enrolled = g.enrolled
                /\ w.codes = g.codes \/ (g.codes # None /\ w.codes \subseteq g.codes)
<1>1. got[r] \in Row /\ form[r] \in Form
  BY DEF TypeOK, Decided
<1>2. CASE form[r].kind \in {"start", "disable", "reset"}
  BY <1>1, <1>2 DEF Wanted, NoMfa, Row
<1>3. CASE form[r].kind = "verify"
  BY <1>1, <1>3 DEF Wanted, Row, AcceptedOnCopy, Accepts
<1>4. CASE form[r].kind = "backup"
  <2>1. got[r].codes # None
    BY <1>4 DEF AcceptedOnCopy, Accepts
  <2>2. QED
    BY <1>1, <1>4, <2>1 DEF Wanted, Consumed, Row
<1>5. CASE form[r].kind \notin {"start", "disable", "reset", "verify", "backup"}
  BY <1>1, <1>5 DEF Wanted, Row
<1>6. QED
  BY <1>2, <1>3, <1>4, <1>5
\* A step that leaves the row and the calls committed alone keeps the row
\* sound: what a call was sent does not change once it has begun.
LEMMA RowStep ==
  ASSUME AccountInv, row' = row,
         \A q \in Request : pc[q] = "committed"
            => pc'[q] = "committed" /\ form'[q] = form[q]
  PROVE  EnrolledByVerify' /\ EnrollmentIsWhole'
<1>1. row.enrolled \in Request \cup {Old, None}
  BY DEF AccountInv, TypeOK, Row, Origin
<1>2. Old \notin Request /\ None \notin Request
  BY AccountAssumption DEF AccountAssumption, Origin
<1>3. row.enrolled \in Request
        => /\ pc[row.enrolled] = "committed" /\ pc'[row.enrolled] = "committed"
           /\ form'[row.enrolled] = form[row.enrolled]
  BY DEF AccountInv, EnrolledByVerify
<1>4. QED
  BY <1>1, <1>2, <1>3
     DEF AccountInv, EnrolledByVerify, EnrollmentIsWhole, EnrolledHasSecret, EnrolledSecretVerified,
         CodesBelongToEnrollment, ProvedBy, CodesOf

\* When calls do not overlap, every step keeps the row sound.
LEMMA AccountStep ==
  ASSUME ~Overlap
  PROVE  AccountInv /\ [Next]_vars => AccountInv'
<1> SUFFICES ASSUME AccountInv, [Next]_vars PROVE AccountInv'
  OBVIOUS
<1>0. /\ TypeOK /\ AcceptedOnCopy /\ TypeOK' /\ AcceptedOnCopy'
  BY TypeStep DEF AccountInv
<1>a. ASSUME NEW r \in Request,
             \/ Begin(r) \/ Authenticate(r) \/ Load(r) \/ Reject(r) \/ Flush(r)
             \/ Respond(r) \/ Refuse(r) \/ Fail(r)
      PROVE  AccountInv'
  <2>1. Alone' /\ CopyIsCurrent'
    <3> USE <1>0, ~Overlap DEF TypeOK, AccountInv, Alone, CopyIsCurrent, Active,
                             Ended, Decided, Goto
    <3>1. CASE Begin(r)
      BY <3>1 DEF Begin
    <3>2. CASE Authenticate(r)
      BY <3>2 DEF Authenticate
    <3>3. CASE Load(r)
      BY <3>3 DEF Load
    <3>4. CASE Reject(r)
      BY <3>4 DEF Reject
    <3>5. CASE Flush(r)
      BY <3>5 DEF Flush
    <3>6. CASE Respond(r)
      BY <3>6 DEF Respond
    <3>7. CASE Refuse(r) \/ Fail(r)
      BY <3>7 DEF Refuse, Fail, Rollback
    <3>8. QED
      BY <1>a, <3>1, <3>2, <3>3, <3>4, <3>5, <3>6, <3>7
  <2>2. row' = row
    BY <1>a DEF Begin, Authenticate, Load, Reject, Flush, Respond, Refuse, Fail,
                Rollback
  <2>3. \A q \in Request : pc[q] = "committed"
           => pc'[q] = "committed" /\ form'[q] = form[q]
    BY <1>a, <1>0 DEF TypeOK, Begin, Authenticate, Load, Reject, Flush, Respond,
                      Refuse, Fail, Rollback, Goto, Active
  <2>4. QED
    BY <1>0, <2>1, <2>2, <2>3, RowStep DEF AccountInv
<1>b. ASSUME NEW r \in Request, Commit(r) PROVE AccountInv'
  <2>1. /\ r \in Decided /\ got[r] = row /\ row' = Updated(r)
        /\ form' = form /\ got' = got /\ pc' = [pc EXCEPT ![r] = "committed"]
    BY <1>b DEF Commit, Goto, Decided, AccountInv, CopyIsCurrent
  <2>2. row' = Wanted(r)
    BY <2>1, <1>0, CopyUpdated
  <2>3. \A q \in Request : pc'[q] \notin Active
    BY <2>1, <1>0 DEF AccountInv, Alone, TypeOK, Active, Ended, Decided
  <2>4. Alone' /\ CopyIsCurrent'
    BY <2>3 DEF Alone, CopyIsCurrent, Decided, Active
  <2>5. /\ row.enrolled \in Request \cup {Old, None}
        /\ Old \notin Request /\ None \notin Request
        /\ pc'[r] = "committed"
        /\ \A q \in Request : pc[q] = "committed" => pc'[q] = "committed"
    BY <2>1, <1>0, AccountAssumption DEF AccountAssumption, TypeOK, Row, Origin, Decided
  <2>6. EnrolledByVerify' /\ EnrollmentIsWhole'
    <3> USE <2>1, <2>2, <2>5 DEF AccountInv, EnrolledByVerify, EnrollmentIsWhole, EnrolledHasSecret,
            EnrolledSecretVerified, CodesBelongToEnrollment, ProvedBy
    <3>1. CASE row'.enrolled = None /\ row'.codes = None
      BY <3>1
    <3>2. CASE /\ form[r].kind = "verify" /\ row.secret # None
               /\ row'.secret = row.secret /\ row'.secret = form[r].device
               /\ row'.enrolled = r /\ row'.codes = CodesOf(r)
      BY <3>2 DEF CodesOf
    <3>3. CASE /\ row'.secret = row.secret /\ row'.enrolled = row.enrolled
               /\ row'.codes = row.codes
                    \/ (row.codes # None /\ row'.codes \subseteq row.codes)
      BY <3>3 DEF CodesOf
    <3>4. QED
      BY <3>1, <3>2, <3>3, <1>0, WantedColumns
  <2>7. QED
    BY <1>0, <2>4, <2>6 DEF AccountInv
<1>c. CASE UNCHANGED vars
  BY <1>c, <1>0, RowStep DEF vars, AccountInv, Alone, CopyIsCurrent, Decided
<1>d. QED
  BY <1>a, <1>b, <1>c DEF Next

\* The row as the model finds it.
LEMMA AccountInit == Init => AccountInv
<1> SUFFICES ASSUME Init PROVE AccountInv
  OBVIOUS
<1>1. None \notin Request /\ Old \notin Request /\ Old # None
  BY AccountAssumption DEF AccountAssumption, Origin
<1>2. TypeOK /\ AcceptedOnCopy
  BY TypeStep
<1>3. Alone /\ CopyIsCurrent
  BY DEF Init, Alone, CopyIsCurrent, Active, Decided
<1>4. \/ row.enrolled = None /\ row.codes = None
      \/ row.enrolled = Old /\ row.secret = Old /\ row.codes = CodesOf(Old)
  BY DEF Init
<1>5. QED
  BY <1>1, <1>2, <1>3, <1>4
     DEF AccountInv, EnrolledByVerify, EnrollmentIsWhole, EnrolledHasSecret,
         EnrolledSecretVerified, CodesBelongToEnrollment, ProvedBy

\* When calls on an account do not overlap, an analyst whose second factor is
\* on can always pass it: there is a secret, the one the analyst's device has
\* shown to hold, and the backup codes are those handed out with it.
THEOREM EnrollmentIsSound ==
  ASSUME ~Overlap
  PROVE  Spec => []EnrollmentIsWhole
<1>1. AccountInv => EnrollmentIsWhole
  BY DEF AccountInv
<1>2. QED
  BY <1>1, AccountInit, AccountStep, PTL DEF Spec
-----------------------------------------------------------------------------
(* The audit log, whatever overlaps.                                       *)

\* What a call has to record it has recorded before its response.
Recorded ==
  \A r \in Request : pc[r] \in {"respond", "commit", "committed"}
    => \A e \in EventOf(form[r].kind) : [by |-> r, event |-> e] \in audit

AuditInv == TypeOK /\ AcceptedOnCopy /\ EnrolledByVerify /\ Recorded

\* What a commit does to the row and to who has committed.
LEMMA CommitStep ==
  ASSUME TypeOK, AcceptedOnCopy, NEW r \in Request, Commit(r)
  PROVE  /\ r \in Decided /\ Commits(r) /\ row' = Updated(r)
         /\ pc' = [pc EXCEPT ![r] = "committed"]
         /\ form' = form /\ got' = got /\ audit' = audit
  BY DEF Commit, Goto, Commits, Decided, TypeOK

\* A call that has committed stays so, with what it was sent.
LEMMA CommittedStay ==
  ASSUME TypeOK, [Next]_vars, NEW q \in Request, pc[q] = "committed"
  PROVE  pc'[q] = "committed" /\ form'[q] = form[q]
  BY DEF TypeOK, Next, vars, Begin, Authenticate, Load, Reject, Flush, Respond,
         Commit, Refuse, Fail, Rollback, Goto, Active

\* An enrollment is named by a verify that committed, whatever overlaps.
LEMMA EnrolledStep ==
  ASSUME TypeOK, AcceptedOnCopy, EnrolledByVerify, [Next]_vars
  PROVE  EnrolledByVerify'
<1>1. CASE row' = row
  BY <1>1, CommittedStay DEF EnrolledByVerify
<1>2. CASE row' # row
  <2>1. PICK r \in Request : Commit(r)
    BY <1>2, CommitWritesRow
  <2>2. /\ r \in Decided /\ row' = Updated(r) /\ form' = form
        /\ pc' = [pc EXCEPT ![r] = "committed"] /\ None \notin Request
    BY <2>1, CommitStep, AccountAssumption DEF AccountAssumption, Origin
  <2>3. \/ row'.enrolled = row.enrolled
        \/ row'.enrolled = r /\ form[r].kind = "verify"
        \/ row'.enrolled = None
    BY <2>2, Footprint
  <2>4. QED
    BY <2>2, <2>3, CommittedStay DEF EnrolledByVerify, TypeOK
<1>3. QED
  BY <1>1, <1>2

\* A flush inserts the audit row of its call, and a rollback removes those of
\* its own call alone.
LEMMA RecordedStep ==
  ASSUME TypeOK, Recorded, [Next]_vars
  PROVE  Recorded'
<1> USE DEF Recorded, TypeOK, Goto
<1>1. ASSUME NEW r \in Request, Begin(r) PROVE Recorded'
  <2>1. PICK k \in Kind : \E f \in FormsOf(k) : form' = [form EXCEPT ![r] = f]
    BY <1>1 DEF Begin
  <2>2. PICK f \in FormsOf(k) : form' = [form EXCEPT ![r] = f]
    BY <2>1
  <2>3. QED
    BY <1>1, <2>2 DEF Begin
<1>2. ASSUME NEW r \in Request, Authenticate(r) \/ Load(r) PROVE Recorded'
  BY <1>2 DEF Authenticate, Load
<1>3. ASSUME NEW r \in Request, Reject(r) PROVE Recorded'
  BY <1>3 DEF Reject, Insert
<1>4. ASSUME NEW r \in Request, Flush(r) PROVE Recorded'
  <2>1. /\ pc' = [pc EXCEPT ![r] = IF form[r].kind = "start" THEN "commit" ELSE "respond"]
        /\ form' = form
        /\ audit' = audit \cup {[by |-> r, event |-> e] : e \in EventOf(form[r].kind)}
    BY <1>4 DEF Flush, Insert
  <2>2. \A e \in EventOf(form[r].kind) : [by |-> r, event |-> e] \in audit'
    BY <2>1
  <2>3. QED
    BY <2>1, <2>2
<1>5. ASSUME NEW r \in Request, Respond(r) \/ Commit(r) PROVE Recorded'
  BY <1>5 DEF Respond, Commit
<1>6. ASSUME NEW r \in Request, Refuse(r) \/ Fail(r) PROVE Recorded'
  <2>1. /\ pc' = [pc EXCEPT ![r] = "rolledBack"] /\ form' = form
        /\ audit' = {a \in audit : a.by # r}
    BY <1>6 DEF Refuse, Fail, Rollback
  <2>2. QED
    BY <2>1
<1>7. CASE UNCHANGED vars
  BY <1>7 DEF vars
<1>8. QED
  BY <1>1, <1>2, <1>3, <1>4, <1>5, <1>6, <1>7 DEF Next

\* However calls overlap and fail, AuditInv holds.
LEMMA AuditStep ==
  /\ Init => AuditInv
  /\ AuditInv /\ [Next]_vars => AuditInv'
<1>1. Init => AuditInv
  <2> SUFFICES ASSUME Init PROVE EnrolledByVerify /\ Recorded
    BY TypeStep DEF AuditInv
  <2>1. None \notin Request /\ Old \notin Request
    BY AccountAssumption DEF AccountAssumption, Origin
  <2>2. QED
    BY <2>1 DEF Init, EnrolledByVerify, Recorded
<1>2. AuditInv /\ [Next]_vars => AuditInv'
  BY TypeStep, EnrolledStep, RecordedStep DEF AuditInv
<1>3. QED
  BY <1>1, <1>2

\* An enrollment in force has its mfa_enrolled row in the audit log, however
\* the calls overlap and fail: the row of the table and the row of the log are
\* committed together or not at all.
THEOREM EnrollmentLeavesATrace == Spec => []EnrollmentIsAudited
<1>1. AuditInv => EnrollmentIsAudited
  BY DEF AuditInv, EnrolledByVerify, Recorded, EnrollmentIsAudited, EventOf
<1>2. QED
  BY <1>1, AuditStep, PTL DEF Spec

\* Nothing turns the second factor off without a trace, except a new enrollment.
THEOREM TurningOffLeavesATrace == Spec => TurningOffIsAudited
<1>1. AuditInv /\ [Next]_vars
        => [row.enrolled # None /\ row'.enrolled = None
              => \E r \in Request : Commits(r) /\
                   \/ form[r].kind = "start"
                   \/ \E a \in audit : a.by = r /\ a.event \in {"mfa_disabled", "mfa_admin_reset"}]_vars
  <2> SUFFICES ASSUME AuditInv, [Next]_vars, row.enrolled # None, row'.enrolled = None
               PROVE  \E r \in Request : Commits(r) /\
                        \/ form[r].kind = "start"
                        \/ \E a \in audit : a.by = r
                             /\ a.event \in {"mfa_disabled", "mfa_admin_reset"}
    OBVIOUS
  <2>1. PICK r \in Request : Commit(r)
    BY CommitWritesRow
  <2>2. r \in Decided /\ Commits(r) /\ row' = Updated(r) /\ None \notin Request
    BY <2>1, CommitStep, AccountAssumption DEF AuditInv, AccountAssumption, Origin
  <2>3. form[r].kind \in {"start", "disable", "reset"}
    BY <2>2, Footprint DEF AuditInv
  <2>4. \A e \in EventOf(form[r].kind) : [by |-> r, event |-> e] \in audit
    BY <2>1 DEF AuditInv, Recorded, Commit, Goto
  <2>5. CASE form[r].kind = "start"
    BY <2>2, <2>5
  <2>6. CASE form[r].kind \in {"disable", "reset"}
    <3>1. \E e \in {"mfa_disabled", "mfa_admin_reset"} : e \in EventOf(form[r].kind)
      BY <2>6 DEF EventOf
    <3>2. PICK e \in {"mfa_disabled", "mfa_admin_reset"} : [by |-> r, event |-> e] \in audit
      BY <3>1, <2>4
    <3>3. [by |-> r, event |-> e].by = r /\ [by |-> r, event |-> e].event = e
      OBVIOUS
    <3>4. QED
      BY <2>2, <3>2, <3>3
  <2>7. QED
    BY <2>3, <2>5, <2>6
<1>2. QED
  BY <1>1, AuditStep, PTL DEF Spec, TurningOffIsAudited
-----------------------------------------------------------------------------
(* The life of an enrollment, when calls do not overlap.                   *)

\* A secret names the call that proposed it, which has committed.
SecretByStart == row.secret \in Request => pc[row.secret] = "committed"

\* Who has been answered has begun, and only a challenge by code carries one:
\* a code printed by a call that has ended.
AnsweredHaveBegun == \A r \in Request : response[r] = "ok" => pc[r] # "new"

CodesOfTheEnded ==
  \A r \in Request :
    IF form[r].kind = "backup"
    THEN \E o \in Origin : /\ form[r].code \in CodesOf(o)
                           /\ o = Old \/ pc[o] \in Ended
    ELSE form[r].code = None

\* A code that was spent does not come back.
SpentAreGone ==
  \A r \in Request : pc[r] = "committed" /\ form[r].kind = "backup"
    => row.codes = None \/ form[r].code \notin row.codes

LifeInv ==
  /\ AccountInv
  /\ SecretByStart
  /\ AnsweredHaveBegun
  /\ CodesOfTheEnded
  /\ SpentAreGone
  /\ CodeSpentOnce

\* The codes of two calls have nothing in common.
LEMMA CodesApart ==
  ASSUME NEW o \in Origin, NEW p \in Origin, NEW c \in CodesOf(o), c \in CodesOf(p)
  PROVE  o = p
  BY DEF CodesOf

\* What an endpoint's form carries when calls do not overlap: a code, if any,
\* was printed by a call that has ended.
LEMMA BeginStep ==
  ASSUME LifeInv, ~Overlap, NEW r \in Request, Begin(r)
  PROVE  CodesOfTheEnded'
<1>1. PICK k \in Kind : \E f \in FormsOf(k) : form' = [form EXCEPT ![r] = f]
  BY DEF Begin
<1>2. PICK f \in FormsOf(k) : form' = [form EXCEPT ![r] = f]
  BY <1>1
<1>3. /\ \A q \in Request : pc[q] \notin Active
      /\ \A q \in Request : pc[q] \in Ended => pc'[q] = pc[q]
      /\ TypeOK
  BY DEF Begin, Goto, LifeInv, AccountInv, TypeOK, Ended
<1>4. \A o \in Request : response[o] = "ok" => pc[o] \in Ended
  BY <1>3 DEF LifeInv, AnsweredHaveBegun, TypeOK
<1>5. IF f.kind = "backup"
      THEN \E o \in Origin : f.code \in CodesOf(o) /\ (o = Old \/ pc[o] \in Ended)
      ELSE f.code = None
  <2>1. CASE k = "backup"
    <3>1. f.code \in Printed /\ f.kind = "backup"
      BY <2>1, <1>2 DEF FormsOf
    <3>2. PICK o \in {Old} \cup {q \in Request : form[q].kind = "verify" /\ response[q] = "ok"} :
                 f.code \in CodesOf(o)
      BY <3>1 DEF Printed
    <3>3. QED
      BY <3>1, <3>2, <1>4 DEF Origin
  <2>2. CASE k # "backup"
    BY <2>2, <1>2 DEF FormsOf
  <2>3. QED
    BY <2>1, <2>2
<1>6. QED
  BY <1>2, <1>3, <1>5 DEF LifeInv, CodesOfTheEnded, TypeOK, Origin

\* The steps that write no row keep what is said of secrets and codes.
LEMMA LifeQuiet ==
  ASSUME LifeInv, ~Overlap, NEW r \in Request,
         \/ Begin(r) \/ Authenticate(r) \/ Load(r) \/ Reject(r) \/ Flush(r)
         \/ Respond(r) \/ Refuse(r) \/ Fail(r)
  PROVE  /\ SecretByStart' /\ AnsweredHaveBegun' /\ CodesOfTheEnded'
         /\ SpentAreGone' /\ CodeSpentOnce'
<1>1. /\ TypeOK /\ row' = row
      /\ \A q \in Request : pc'[q] = "committed" <=> pc[q] = "committed"
      /\ \A q \in Request : pc[q] # "new" => form'[q] = form[q] /\ pc'[q] # "new"
      /\ \A q \in Request : pc[q] \in Ended => pc'[q] \in Ended
      /\ \A q \in Request : response'[q] = "ok" => response[q] = "ok" \/ pc'[q] # "new"
  BY DEF LifeInv, AccountInv, TypeOK, Begin, Authenticate, Load, Reject, Flush,
         Respond, Refuse, Fail, Rollback, Goto, Active, Ended
<1>2. SecretByStart'
  BY <1>1 DEF LifeInv, SecretByStart
<1>3. AnsweredHaveBegun'
  BY <1>1 DEF LifeInv, AnsweredHaveBegun
<1>4. CodesOfTheEnded'
  <2>1. CASE Begin(r)
    BY <2>1, BeginStep
  <2>2. CASE form' = form
    BY <2>2, <1>1 DEF LifeInv, CodesOfTheEnded, Origin
  <2>3. QED
    BY <2>1, <2>2 DEF Authenticate, Load, Reject, Flush, Respond, Refuse, Fail, Rollback
<1>5. SpentAreGone'
  BY <1>1 DEF LifeInv, SpentAreGone
<1>6. CodeSpentOnce'
  BY <1>1 DEF LifeInv, CodeSpentOnce, SpentOnce
<1>7. QED
  BY <1>2, <1>3, <1>4, <1>5, <1>6

\* What a commit makes of the row, when the copy it works on is the row.
LEMMA LifeCommit ==
  ASSUME LifeInv, NEW r \in Request, Commit(r)
  PROVE  /\ r \in Decided /\ got[r] = row /\ row' = Wanted(r) /\ pc[r] = "commit"
         /\ form' = form /\ pc' = [pc EXCEPT ![r] = "committed"] /\ response' = response
         /\ form[r].kind = "login" \/ Accepts(form[r], row)
         /\ TypeOK /\ row \in Row /\ form[r] \in Form
<1>1. /\ TypeOK /\ AcceptedOnCopy /\ CopyIsCurrent
  BY DEF LifeInv, AccountInv
<1>2. /\ r \in Decided /\ row' = Updated(r) /\ pc[r] = "commit"
      /\ form' = form /\ pc' = [pc EXCEPT ![r] = "committed"] /\ response' = response
  BY <1>1, CommitStep DEF Commit, Goto
<1>3. got[r] = row
  BY <1>1, <1>2 DEF CopyIsCurrent
<1>4. row' = Wanted(r)
  BY <1>1, <1>2, <1>3, CopyUpdated
<1>5. QED
  BY <1>1, <1>2, <1>3, <1>4 DEF AcceptedOnCopy, TypeOK

\* A commit keeps them too: the codes it leaves are those the row had, less the
\* one spent, or those of the call itself, which nobody can have used.
LEMMA LifeWrite ==
  ASSUME LifeInv, NEW r \in Request, Commit(r)
  PROVE  /\ SecretByStart' /\ AnsweredHaveBegun' /\ CodesOfTheEnded'
         /\ SpentAreGone' /\ CodeSpentOnce'
<1>0. /\ r \in Decided /\ got[r] = row /\ row' = Wanted(r) /\ pc[r] = "commit"
      /\ form' = form /\ pc' = [pc EXCEPT ![r] = "committed"] /\ response' = response
      /\ form[r].kind = "login" \/ Accepts(form[r], row)
      /\ TypeOK /\ row \in Row /\ form[r] \in Form
  BY LifeCommit
<1>1. /\ \A q \in Request : pc'[q] = "committed" <=> pc[q] = "committed" \/ q = r
      /\ \A q \in Request : pc[q] # "new" => pc'[q] # "new"
      /\ \A q \in Request : pc[q] \in Ended => pc'[q] \in Ended
      /\ pc[r] \notin Ended /\ r \in Origin
  BY <1>0 DEF TypeOK, Ended, Origin
<1>2. SecretByStart'
  <2>1. row'.secret \in {row.secret, None, r} /\ None \notin Request
    BY <1>0, AccountAssumption DEF Wanted, NoMfa, Row, AccountAssumption, Origin
  <2>2. QED
    BY <2>1, <1>1 DEF LifeInv, SecretByStart
<1>3. AnsweredHaveBegun'
  BY <1>0, <1>1 DEF LifeInv, AnsweredHaveBegun
<1>4. CodesOfTheEnded'
  BY <1>0, <1>1 DEF LifeInv, CodesOfTheEnded, Origin
<1>5. ASSUME NEW q \in Request, pc[q] = "committed", form[q].kind = "backup",
             row'.codes # None
      PROVE  form[q].code \notin row'.codes
  <2>1. row.codes = None \/ form[q].code \notin row.codes
    BY <1>5 DEF LifeInv, SpentAreGone
  <2>2. PICK o \in Origin : form[q].code \in CodesOf(o) /\ (o = Old \/ pc[o] \in Ended)
    BY <1>5 DEF LifeInv, CodesOfTheEnded
  <2>3. o # r
    BY <2>2, <1>1, AccountAssumption DEF AccountAssumption
  <2>4. form[q].code \notin CodesOf(r)
    BY <2>2, <2>3, <1>1, CodesApart
  <2>5. \/ row'.codes = CodesOf(r)
        \/ row.codes # None /\ row'.codes \subseteq row.codes
    BY <1>0, <1>5, WantedColumns DEF LifeInv, AccountInv
  <2>6. QED
    BY <2>1, <2>4, <2>5
<1>6. ASSUME form[r].kind = "backup"
      PROVE  /\ row.codes # None /\ form[r].code \in row.codes
             /\ row'.codes = row.codes \ {form[r].code}
  BY <1>0, <1>6 DEF Accepts, Wanted, Consumed, Row
<1>7. SpentAreGone'
  BY <1>0, <1>1, <1>5, <1>6 DEF SpentAreGone
<1>8. CodeSpentOnce'
  <2> SUFFICES ASSUME NEW p \in Request, NEW q \in Request,
                      pc'[p] = "committed", pc'[q] = "committed",
                      form[p].kind = "backup", form[p].code = form[q].code
               PROVE  p = q
    BY <1>0 DEF CodeSpentOnce, SpentOnce
  <2>1. form[q].kind = "backup"
    <3>1. form[p].code \in Code
      BY DEF LifeInv, CodesOfTheEnded, CodesOf, Code
    <3>2. QED
      BY <3>1, AccountAssumption DEF LifeInv, CodesOfTheEnded, AccountAssumption
  <2>2. CASE pc[p] = "committed" /\ pc[q] = "committed"
    BY <2>2 DEF LifeInv, CodeSpentOnce, SpentOnce
  <2>3. CASE p = r /\ pc[q] = "committed"
    BY <2>1, <2>3, <1>6 DEF LifeInv, SpentAreGone
  <2>4. CASE q = r /\ pc[p] = "committed"
    BY <2>1, <2>4, <1>6 DEF LifeInv, SpentAreGone
  <2>5. QED
    BY <1>1, <2>2, <2>3, <2>4
<1>9. QED
  BY <1>2, <1>3, <1>4, <1>7, <1>8

\* When calls do not overlap, LifeInv is inductive.
LEMMA LifeStep ==
  ASSUME ~Overlap
  PROVE  /\ Init => LifeInv
         /\ LifeInv /\ [Next]_vars => LifeInv'
<1>1. Init => LifeInv
  <2> SUFFICES ASSUME Init PROVE LifeInv
    OBVIOUS
  <2>1. None \notin Request /\ Old \notin Request
    BY AccountAssumption DEF AccountAssumption, Origin
  <2>2. SecretByStart
    BY <2>1 DEF Init, SecretByStart
  <2>3. AnsweredHaveBegun /\ CodesOfTheEnded /\ SpentAreGone /\ CodeSpentOnce
    BY DEF Init, AnsweredHaveBegun, CodesOfTheEnded, SpentAreGone, CodeSpentOnce, SpentOnce, NoForm
  <2>4. QED
    BY <2>2, <2>3, AccountInit DEF LifeInv
<1>2. ASSUME LifeInv, [Next]_vars PROVE LifeInv'
  <2>1. AccountInv'
    BY <1>2, AccountStep DEF LifeInv
  <2>2. CASE UNCHANGED vars
    BY <2>1, <2>2, <1>2
       DEF vars, LifeInv, SecretByStart, AnsweredHaveBegun, CodesOfTheEnded, SpentAreGone,
           CodeSpentOnce, SpentOnce
  <2>3. QED
    BY <2>1, <2>2, <1>2, LifeQuiet, LifeWrite DEF LifeInv, Next
<1>3. QED
  BY <1>1, <1>2

\* When calls on an account do not overlap, a backup code opens one session:
\* of the calls that took place, no two used the same code.
THEOREM BackupCodesAreSpentOnce ==
  ASSUME ~Overlap
  PROVE  Spec => []CodeSpentOnce
<1>1. LifeInv => CodeSpentOnce
  BY DEF LifeInv
<1>2. QED
  BY <1>1, LifeStep, PTL DEF Spec
-----------------------------------------------------------------------------
(* The row goes through the life of an enrollment.                         *)

\* The calls whose codes have been issued.
Issuers == {Old} \cup {r \in Request : form[r].kind = "verify" /\ pc[r] = "committed"}

\* The account as found is off or on.
LEMMA LifecycleInit == Init => Lifecycle!LifecycleInit
<1> SUFFICES ASSUME Init PROVE Lifecycle!LifecycleInit
  OBVIOUS
<1>1. /\ Old # None /\ Old \in Origin /\ CodesOf(Old) # None
      /\ <<Old, 1>> \in CodesOf(Old) /\ CodesOf(Old) \subseteq Code
  BY AccountAssumption DEF AccountAssumption, Origin, Code, CodesOf
<1>2. Issuers = {Old} /\ UNION {CodesOf(o) : o \in Issuers} = CodesOf(Old)
  BY DEF Init, Issuers
<1>3. \/ row.secret = None /\ row.enrolled = None /\ row.codes = None
      \/ row.secret = Old /\ row.enrolled = Old /\ row.codes = CodesOf(Old)
  BY DEF Init
<1>4. QED
  BY <1>1, <1>2, <1>3 DEF Lifecycle!LifecycleInit, Issuers

\* A step that leaves the row alone issues no codes.
LEMMA LifecycleQuiet ==
  ASSUME LifeInv, NEW r \in Request,
         \/ Begin(r) \/ Authenticate(r) \/ Load(r) \/ Reject(r) \/ Flush(r)
         \/ Respond(r) \/ Refuse(r) \/ Fail(r)
  PROVE  UNCHANGED Lifecycle!lifecycleVars
<1>1. /\ row' = row
      /\ \A q \in Request : pc'[q] = "committed" <=> pc[q] = "committed"
      /\ \A q \in Request : pc[q] = "committed" => form'[q] = form[q]
  BY DEF LifeInv, AccountInv, TypeOK, Begin, Authenticate, Load, Reject, Flush,
         Respond, Refuse, Fail, Rollback, Goto, Active
<1>2. Issuers' = Issuers
  BY <1>1 DEF Issuers
<1>3. QED
  BY <1>1, <1>2 DEF Lifecycle!lifecycleVars, Issuers

\* A commit is one step in the life of an enrollment, or none.
LEMMA LifecycleCommit ==
  ASSUME LifeInv, NEW r \in Request, Commit(r)
  PROVE  Lifecycle!LifecycleNext \/ UNCHANGED Lifecycle!lifecycleVars
<1>0. /\ r \in Decided /\ got[r] = row /\ row' = Wanted(r) /\ pc[r] = "commit"
      /\ form' = form /\ pc' = [pc EXCEPT ![r] = "committed"] /\ response' = response
      /\ form[r].kind = "login" \/ Accepts(form[r], row)
      /\ TypeOK /\ row \in Row /\ form[r] \in Form
  BY LifeCommit
<1>1. /\ None \notin Request /\ Old \notin Request /\ r \in Origin
      /\ <<r, 1>> \in CodesOf(r) /\ CodesOf(r) \subseteq Code /\ CodesOf(r) # None
  BY AccountAssumption DEF AccountAssumption, Origin, Code, CodesOf
<1> DEFINE Phase == IF row.enrolled # None THEN "on"
                    ELSE IF row.secret # None THEN "proposed" ELSE "off"
           Codes == IF row.codes = None THEN {} ELSE row.codes
           Issued == UNION {CodesOf(o) : o \in Issuers}
<1>2. Issuers' = Issuers \cup (IF form[r].kind = "verify" THEN {r} ELSE {})
  BY <1>0 DEF Issuers, TypeOK
<1>3. CASE form[r].kind = "start"
  <2>1. /\ row'.secret = r /\ row'.enrolled = None /\ row'.codes = None
    BY <1>0, <1>3 DEF Wanted, NoMfa, Row
  <2>2. row.secret # r
    BY <1>0 DEF LifeInv, SecretByStart
  <2>3. Phase' = "proposed" /\ Codes' = {} /\ Issued' = Issued
    BY <2>1, <1>1, <1>2, <1>3
  <2>4. Lifecycle!Propose
    BY <2>1, <2>2, <2>3, <1>1 DEF Lifecycle!Propose, Issuers
  <2>5. QED
    BY <2>4 DEF Lifecycle!LifecycleNext
<1>4. CASE form[r].kind = "verify"
  <2>1. /\ row.secret # None /\ row'.secret = row.secret
        /\ row'.enrolled = r /\ row'.codes = CodesOf(r)
    BY <1>0, <1>4 DEF Wanted, Row, Accepts
  <2>2. r \notin Issuers /\ Issuers \subseteq Origin
    BY <1>0, <1>1 DEF Issuers, Origin
  <2>3. CodesOf(r) \subseteq Code \ Issued
    BY <1>1, <2>2, CodesApart
  <2>4. Issued' = Issued \cup CodesOf(r)
    <3>1. Issuers' = Issuers \cup {r}
      BY <1>2, <1>4
    <3>2. QED
      BY <3>1
  <2>5. Phase \in {"proposed", "on"} /\ Phase' = "on" /\ Codes' = CodesOf(r)
    BY <2>1, <1>1
  <2>6. Lifecycle!Confirm
    BY <1>1, <2>1, <2>3, <2>4, <2>5 DEF Lifecycle!Confirm, Issuers
  <2>7. QED
    BY <2>6 DEF Lifecycle!LifecycleNext
<1>5. CASE form[r].kind = "backup"
  <2>1. /\ row.enrolled # None /\ row.codes # None /\ form[r].code \in row.codes
        /\ row'.secret = row.secret /\ row'.enrolled = row.enrolled
        /\ row'.codes = row.codes \ {form[r].code}
    BY <1>0, <1>5 DEF Wanted, Consumed, Row, Accepts, Enrolled
  <2>2. row'.codes # None
    <3>1. row'.codes \in SUBSET Code
      BY <1>0, <2>1 DEF Row
    <3>2. QED
      BY <3>1, AccountAssumption DEF AccountAssumption
  <2>3. Phase = "on" /\ Phase' = "on" /\ Codes' = Codes \ {form[r].code} /\ Issued' = Issued
    BY <2>1, <2>2, <1>2, <1>5
  <2>4. Lifecycle!Spend
    BY <2>1, <2>3 DEF Lifecycle!Spend, Issuers
  <2>5. QED
    BY <2>4 DEF Lifecycle!LifecycleNext
<1>6. CASE form[r].kind \in {"disable", "reset"}
  <2>1. row'.secret = None /\ row'.enrolled = None /\ row'.codes = None
    BY <1>0, <1>6 DEF Wanted, NoMfa, Row
  <2>2. Phase' = "off" /\ Codes' = {} /\ Issued' = Issued
    BY <2>1, <1>2, <1>6
  <2>3. Lifecycle!TurnOff
    BY <2>1, <2>2 DEF Lifecycle!TurnOff, Issuers
  <2>4. QED
    BY <2>3 DEF Lifecycle!LifecycleNext
<1>7. CASE form[r].kind \in {"login", "totp", "password", "none"}
  <2>1. /\ row'.secret = row.secret /\ row'.enrolled = row.enrolled
        /\ row'.codes = row.codes
    BY <1>0, <1>7 DEF Wanted, Row
  <2>2. Phase' = Phase /\ Codes' = Codes /\ Issued' = Issued
    BY <2>1, <1>2, <1>7
  <2>3. QED
    BY <2>1, <2>2 DEF Lifecycle!lifecycleVars, Issuers
<1>8. QED
  BY <1>0, <1>3, <1>4, <1>5, <1>6, <1>7 DEF Form, Endpoint

\* When calls on an account do not overlap, and whichever of them die on the
\* way, the row goes through the life of an enrollment and no other: proposed,
\* confirmed by its own device, its codes spent one by one, turned off.
THEOREM AccountImplementsLifecycle ==
  ASSUME ~Overlap
  PROVE  Spec => ImplementsLifecycle
<1>1. LifeInv /\ [Next]_vars => [Lifecycle!LifecycleNext]_(Lifecycle!lifecycleVars)
  <2> SUFFICES ASSUME LifeInv, [Next]_vars
               PROVE  Lifecycle!LifecycleNext \/ UNCHANGED Lifecycle!lifecycleVars
    OBVIOUS
  <2>1. CASE UNCHANGED vars
    BY <2>1 DEF vars, Lifecycle!lifecycleVars
  <2>2. QED
    BY <2>1, LifecycleQuiet, LifecycleCommit DEF Next
<1>2. QED
  BY <1>1, LifecycleInit, LifeStep, PTL DEF Spec, ImplementsLifecycle, Lifecycle!LifecycleSpec
-----------------------------------------------------------------------------
Steps == {"new", "local", "search", "verify", "load", "store",
          "break_glass", "refused", "error", "ldap"}

LdapTypeOK ==
  /\ accounts \in [Email -> AccountRow \cup {NoAccount}]
  /\ login \in [Login -> [step : Steps, email : Email, role : Role \cup {"none"},
                          copy : AccountRow \cup {NoAccount}]]
  /\ \A l \in Login : login[l].step \in {"verify", "load", "store"} => login[l].role \in Role
  /\ changed \subseteq Login

\* Only addresses that are not on the list reach the directory.
DirectoryIsForOthers ==
  \A l \in Login :
    login[l].step \in {"search", "verify", "load", "store"} => ~OnList(login[l].email)

\* The copy of a call that nothing overtook is the row.
LoginCopyIsCurrent ==
  \A l \in Login \ changed :
    login[l].step = "store" => login[l].copy = accounts[login[l].email]

\* Rows do not go away: one that was read is still there.
RowsStay ==
  \A l \in Login :
    login[l].step = "store" /\ login[l].copy # NoAccount => accounts[login[l].email] # NoAccount

LdapInv == LdapTypeOK /\ DirectoryIsForOthers /\ BreakGlassStaysLocal /\ LoginCopyIsCurrent /\ RowsStay

LEMMA FinishChangesOne ==
  ASSUME LdapTypeOK, NEW l \in Login, NEW how \in {"break_glass", "refused", "error", "ldap"},
         Finish(l, how)
  PROVE  /\ login' \in [Login -> [step : Steps, email : Email, role : Role \cup {"none"},
                                  copy : AccountRow \cup {NoAccount}]]
         /\ login'[l].step = how /\ login'[l].email = login[l].email
         /\ \A k \in Login \ {l} : login'[k] = login[k]
  BY DEF LdapTypeOK, Finish, AtStep, Steps

\* A step that ends a call and leaves the table alone keeps the invariant.
LEMMA EndingKeepsInv ==
  ASSUME LdapInv, NEW l \in Login, NEW how \in {"break_glass", "refused", "error", "ldap"},
         Finish(l, how), UNCHANGED <<accounts, changed>>
  PROVE  LdapInv'
  <1>t. LdapTypeOK
    BY DEF LdapInv
  <1>1. LdapTypeOK'
    BY <1>t, FinishChangesOne DEF LdapTypeOK
  <1>2. DirectoryIsForOthers'
    BY <1>t, FinishChangesOne DEF LdapInv, DirectoryIsForOthers, OnList
  <1>3. BreakGlassStaysLocal'
    BY DEF LdapInv, BreakGlassStaysLocal
  <1>4. LoginCopyIsCurrent' /\ RowsStay'
    BY <1>t, FinishChangesOne DEF LdapInv, LoginCopyIsCurrent, RowsStay
  <1> QED BY <1>1, <1>2, <1>3, <1>4 DEF LdapInv

LEMMA LdapInitInv == LdapInit => LdapInv
  <1> SUFFICES ASSUME LdapInit PROVE LdapInv
    OBVIOUS
  <1>1. PICK e \in Email : login = [l \in Login |-> AtStep("new", e, "none", NoAccount)]
    BY DEF LdapInit
  <1>2. LdapTypeOK
    BY <1>1 DEF LdapInit, LdapTypeOK, AtStep, Steps
  <1>3. DirectoryIsForOthers /\ LoginCopyIsCurrent /\ RowsStay
    BY <1>1 DEF DirectoryIsForOthers, LoginCopyIsCurrent, RowsStay, AtStep
  <1>4. BreakGlassStaysLocal
    BY DEF LdapInit, BreakGlassStaysLocal
  <1> QED BY <1>2, <1>3, <1>4 DEF LdapInv

\* What a login writes is a row, and one that was there keeps its source.
LEMMA RowBroughtUpToDate ==
  ASSUME LdapTypeOK, NEW l \in Login, login[l].step = "store", NEW entry \in AccountRow,
         login[l].copy \in AccountRow
  PROVE  /\ BroughtUpToDate(entry, l) \in AccountRow
         /\ BroughtUpToDate(entry, l).source = entry.source
         /\ BroughtUpToDate(entry, l).password = entry.password
         /\ \/ BroughtUpToDate(entry, l).role = login[l].role
            \/ login[l].copy.role = login[l].role /\ entry # login[l].copy
         /\ \/ BroughtUpToDate(entry, l).active
            \/ login[l].copy.active /\ entry # login[l].copy
  BY DEF LdapTypeOK, BroughtUpToDate, Account, AccountRow

LEMMA SeedKeepsInv ==
  ASSUME LdapInv, NEW e \in Email, NEW role \in Role, NEW active \in BOOLEAN,
         SeedAnalyst(e, role, active)
  PROVE  LdapInv'
  <1>t. LdapTypeOK
    BY DEF LdapInv
  <1>1. /\ accounts' \in [Email -> AccountRow \cup {NoAccount}]
        /\ accounts'[e].source = IF accounts[e] = NoAccount THEN "seeded" ELSE accounts[e].source
        /\ \A d \in Email \ {e} : accounts'[d] = accounts[d]
        /\ login' = login /\ changed' = changed \cup {l \in Login : login[l].email = e}
    BY <1>t DEF SeedAnalyst, LdapTypeOK, Account, AccountRow
  <1>2. LdapTypeOK'
    BY <1>t, <1>1 DEF LdapTypeOK
  <1>3. DirectoryIsForOthers'
    BY <1>1 DEF LdapInv, DirectoryIsForOthers, OnList
  <1>4. BreakGlassStaysLocal'
    BY <1>1 DEF LdapInv, BreakGlassStaysLocal
  <1>5. LoginCopyIsCurrent'
    BY <1>t, <1>1 DEF LdapInv, LoginCopyIsCurrent, LdapTypeOK
  <1>6. accounts'[e] # NoAccount
    <2>1. accounts'[e] \in AccountRow
      BY <1>t DEF SeedAnalyst, LdapTypeOK, Account, AccountRow
    <2> QED BY <2>1, LdapAssumption
  <1>7. RowsStay'
    BY <1>t, <1>1, <1>6 DEF LdapInv, RowsStay, LdapTypeOK
  <1> QED BY <1>2, <1>3, <1>4, <1>5, <1>7 DEF LdapInv

LEMMA StoreKeepsInv ==
  ASSUME LdapInv, NEW l \in Login, StoreAccount(l)
  PROVE  LdapInv'
  <1>t. LdapTypeOK
    BY DEF LdapInv
  <1> DEFINE e == login[l].email
             missing == login[l].copy = NoAccount
  <1>0. login[l].step = "store" /\ e \in Email /\ ~OnList(e)
    BY <1>t DEF StoreAccount, LdapInv, LdapTypeOK, DirectoryIsForOthers
  <1>1. CASE Finish(l, "error") /\ UNCHANGED <<accounts, changed>>
    BY <1>1, EndingKeepsInv
  <1>2. CASE /\ missing => accounts[e] = NoAccount
             /\ accounts' = [accounts EXCEPT ![e] =
                  IF missing THEN Account("ldap", FALSE, login[l].role, TRUE) ELSE BroughtUpToDate(@, l)]
             /\ changed' = changed \cup {k \in Login \ {l} : login[k].email = e}
             /\ Finish(l, "ldap")
    <2>1. accounts'[e] \in AccountRow
      <3>1. CASE missing
        BY <1>0, <1>2, <1>t, <3>1 DEF LdapTypeOK, Account, AccountRow
      <3>2. CASE ~missing
        <4>1. accounts[e] \in AccountRow /\ login[l].copy \in AccountRow
          BY <1>0, <1>t, <3>2 DEF LdapInv, RowsStay, LdapTypeOK
        <4> QED BY <1>0, <1>2, <1>t, <3>2, <4>1, RowBroughtUpToDate DEF LdapTypeOK
      <3> QED BY <3>1, <3>2
    <2>2. LdapTypeOK'
      BY <1>t, <1>0, <1>2, <2>1, FinishChangesOne DEF LdapTypeOK
    <2>3. DirectoryIsForOthers'
      BY <1>t, <1>2, FinishChangesOne DEF LdapInv, DirectoryIsForOthers, OnList
    <2>4. BreakGlassStaysLocal'
      BY <1>t, <1>0, <1>2 DEF LdapInv, BreakGlassStaysLocal, OnList, LdapTypeOK
    <2>5. LoginCopyIsCurrent'
      <3> SUFFICES ASSUME NEW k \in Login, k \notin changed', login'[k].step = "store"
                   PROVE  login'[k].copy = accounts'[login'[k].email]
        BY DEF LoginCopyIsCurrent
      <3>1. k # l /\ login'[k] = login[k]
        BY <1>t, <1>2, FinishChangesOne
      <3>2. k \notin changed /\ login[k].email # e
        BY <1>2, <3>1
      <3> QED BY <1>t, <1>2, <3>1, <3>2 DEF LdapInv, LoginCopyIsCurrent, LdapTypeOK
    <2>6. RowsStay'
      BY <1>t, <1>2, <2>1, FinishChangesOne, LdapAssumption DEF LdapInv, RowsStay, LdapTypeOK
    <2> QED BY <2>2, <2>3, <2>4, <2>5, <2>6 DEF LdapInv
  <1> QED BY <1>1, <1>2 DEF StoreAccount

LEMMA LdapStepInv == LdapInv /\ [LdapNext]_ldapVars => LdapInv'
  <1> SUFFICES ASSUME LdapInv, [LdapNext]_ldapVars PROVE LdapInv'
    OBVIOUS
  <1>t. LdapTypeOK
    BY DEF LdapInv
  <1>1. ASSUME NEW e \in Email, NEW role \in Role, NEW active \in BOOLEAN, SeedAnalyst(e, role, active)
        PROVE  LdapInv'
    BY <1>1, SeedKeepsInv
  <1>2. ASSUME NEW l \in Login, NEW e \in Email, SubmitLogin(l, e) PROVE LdapInv'
    <2>1. LdapTypeOK'
      BY <1>t, <1>2 DEF SubmitLogin, AtStep, LdapTypeOK, Steps
    <2>2. DirectoryIsForOthers'
      BY <1>t, <1>2 DEF SubmitLogin, AtStep, LdapInv, LdapTypeOK, DirectoryIsForOthers, OnList
    <2>3. LoginCopyIsCurrent' /\ RowsStay' /\ BreakGlassStaysLocal'
      BY <1>t, <1>2
      DEF SubmitLogin, AtStep, LdapInv, LdapTypeOK, LoginCopyIsCurrent, RowsStay, BreakGlassStaysLocal
    <2> QED BY <2>1, <2>2, <2>3 DEF LdapInv
  <1>3. ASSUME NEW l \in Login, NEW correct \in BOOLEAN, CheckLocal(l, correct) PROVE LdapInv'
    BY <1>3, EndingKeepsInv DEF CheckLocal
  <1>4. ASSUME NEW l \in Login, NEW answers \in BOOLEAN, NEW groups \in SUBSET Role,
               SearchUser(l, answers, groups)
        PROVE  LdapInv'
    <2>1. CASE login' = [login EXCEPT ![l].step = "verify", ![l].role = RoleOf(groups)]
      <3>1. RoleOf(groups) \in Role
        BY DEF RoleOf, Role
      <3>2. LdapTypeOK'
        BY <1>t, <1>4, <2>1, <3>1 DEF SearchUser, LdapTypeOK, Steps
      <3>3. DirectoryIsForOthers'
        BY <1>t, <1>4, <2>1 DEF SearchUser, LdapInv, LdapTypeOK, DirectoryIsForOthers, OnList
      <3>4. LoginCopyIsCurrent' /\ RowsStay'
        BY <1>t, <1>4, <2>1 DEF SearchUser, LdapInv, LdapTypeOK, LoginCopyIsCurrent, RowsStay
      <3>5. BreakGlassStaysLocal'
        BY <1>4 DEF SearchUser, LdapInv, BreakGlassStaysLocal
      <3> QED BY <3>2, <3>3, <3>4, <3>5 DEF LdapInv
    <2>2. CASE Finish(l, "error") \/ Finish(l, "refused")
      BY <1>4, <2>2, EndingKeepsInv DEF SearchUser
    <2> QED BY <1>4, <2>1, <2>2 DEF SearchUser
  <1>5. ASSUME NEW l \in Login, NEW answers \in BOOLEAN, NEW correct \in BOOLEAN,
               VerifyPassword(l, answers, correct)
        PROVE  LdapInv'
    <2>1. CASE login' = [login EXCEPT ![l].step = "load"]
      <3>1. LdapTypeOK'
        BY <1>t, <1>5, <2>1 DEF VerifyPassword, LdapTypeOK, Steps
      <3>2. DirectoryIsForOthers' /\ LoginCopyIsCurrent' /\ RowsStay' /\ BreakGlassStaysLocal'
        BY <1>t, <1>5, <2>1
        DEF VerifyPassword, LdapInv, LdapTypeOK, DirectoryIsForOthers, OnList, LoginCopyIsCurrent,
            RowsStay, BreakGlassStaysLocal
      <3> QED BY <3>1, <3>2 DEF LdapInv
    <2>2. CASE Finish(l, "refused")
      BY <1>5, <2>2, EndingKeepsInv DEF VerifyPassword
    <2> QED BY <1>5, <2>1, <2>2 DEF VerifyPassword
  <1>6. ASSUME NEW l \in Login, LoadAccount(l) PROVE LdapInv'
    <2>1. LdapTypeOK'
      BY <1>t, <1>6 DEF LoadAccount, LdapTypeOK, Steps
    <2>2. DirectoryIsForOthers'
      BY <1>t, <1>6 DEF LoadAccount, LdapInv, LdapTypeOK, DirectoryIsForOthers, OnList
    <2>3. LoginCopyIsCurrent' /\ RowsStay'
      BY <1>t, <1>6 DEF LoadAccount, LdapInv, LdapTypeOK, LoginCopyIsCurrent, RowsStay
    <2>4. BreakGlassStaysLocal'
      BY <1>6 DEF LoadAccount, LdapInv, BreakGlassStaysLocal
    <2> QED BY <2>1, <2>2, <2>3, <2>4 DEF LdapInv
  <1>7. ASSUME NEW l \in Login, StoreAccount(l) PROVE LdapInv'
    BY <1>7, StoreKeepsInv
  <1>8. CASE UNCHANGED ldapVars
    BY <1>8 DEF ldapVars, LdapInv, LdapTypeOK, DirectoryIsForOthers, OnList, LoginCopyIsCurrent,
       RowsStay, BreakGlassStaysLocal
  <1> QED BY <1>1, <1>2, <1>3, <1>4, <1>5, <1>6, <1>7, <1>8 DEF LdapNext

\* LdapLogin: types, and what else the calls and the table have to do with
\* each other.
THEOREM LdapCorrect == LdapSpec => []LdapInv
  BY LdapInitInv, LdapStepInv, PTL DEF LdapSpec

\* LdapLogin: no address on the break-glass list, in whatever letter case it
\* is typed, ever gets a row from the directory.
THEOREM BreakGlassIsLocal == LdapSpec => []BreakGlassStaysLocal
  <1>1. LdapInv => BreakGlassStaysLocal
    BY DEF LdapInv
  <1> QED BY <1>1, LdapCorrect, PTL

\* LdapLogin: whatever overlaps, source and password of the row stay, and it ends
\* with the role of the directory and active, but for a column that already was so
\* when it was looked up and was changed meanwhile.
THEOREM LoginsUpdateTheRow == LdapSpec => LoginBringsRowUpToDate
  <1>1. LdapInv /\ [LdapNext]_ldapVars => [LoginsUpdate]_ldapVars
    <2> SUFFICES ASSUME LdapInv, LdapNext, NEW l \in Login,
                        login[l].step = "store", login'[l].step = "ldap"
                 PROVE  LET e    == login[l].email
                            copy == login[l].copy
                        IN  /\ accounts[e] # NoAccount =>
                                 /\ accounts'[e].source = accounts[e].source
                                 /\ accounts'[e].password = accounts[e].password
                            /\ \/ accounts'[e].role = login[l].role
                               \/ l \in changed /\ copy.role = login[l].role
                            /\ \/ accounts'[e].active
                               \/ l \in changed /\ copy.active
      BY DEF LoginsUpdate, ldapVars
    <2>t. LdapTypeOK /\ login[l].copy \in AccountRow \cup {NoAccount} /\ login[l].email \in Email
      BY DEF LdapInv, LdapTypeOK
    <2>1. ASSUME ~StoreAccount(l) PROVE FALSE
      <3>1. ASSUME NEW k \in Login \ {l},
                   \/ \E e \in Email : SubmitLogin(k, e)
                   \/ \E correct \in BOOLEAN : CheckLocal(k, correct)
                   \/ \E answers \in BOOLEAN, groups \in SUBSET Role : SearchUser(k, answers, groups)
                   \/ \E answers, correct \in BOOLEAN : VerifyPassword(k, answers, correct)
                   \/ LoadAccount(k) \/ StoreAccount(k)
            PROVE  login'[l] = login[l]
        BY <2>t, <3>1 DEF LdapTypeOK, SubmitLogin, CheckLocal, SearchUser, VerifyPassword,
           LoadAccount, StoreAccount, Finish
      <3>2. login'[l] = login[l]
        BY <2>1, <2>t, <3>1 DEF LdapNext, SeedAnalyst, SubmitLogin, CheckLocal, SearchUser,
           VerifyPassword, LoadAccount
      <3> QED BY <3>2
    <2>2. StoreAccount(l)
      BY <2>1
    <2>3. /\ login[l].copy = NoAccount => accounts[login[l].email] = NoAccount
          /\ accounts' = [accounts EXCEPT ![login[l].email] =
               IF login[l].copy = NoAccount THEN Account("ldap", FALSE, login[l].role, TRUE)
                                            ELSE BroughtUpToDate(@, l)]
      BY <2>2, <2>t, FinishChangesOne DEF StoreAccount
    <2>4. l \notin changed => login[l].copy = accounts[login[l].email]
      BY DEF LdapInv, LoginCopyIsCurrent
    <2>5. CASE login[l].copy = NoAccount
      BY <2>3, <2>5, <2>t DEF LdapTypeOK, Account
    <2>6. CASE login[l].copy # NoAccount
      <3>1. accounts[login[l].email] \in AccountRow
        BY <2>6, <2>t DEF LdapInv, LdapTypeOK, RowsStay
      <3> QED BY <2>3, <2>4, <2>6, <2>t, <3>1, RowBroughtUpToDate DEF LdapTypeOK
    <2> QED BY <2>5, <2>6
  <1> QED BY <1>1, LdapCorrect, PTL DEF LdapSpec, LoginBringsRowUpToDate
=============================================================================
