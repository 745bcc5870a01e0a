--------------------------- MODULE AnalystAccount ---------------------------
(***************************************************************************)
(* One row of the analysts table and the calls that read and write it:     *)
(* login, the four second-factor endpoints, the administrator's reset and  *)
(* the change of password.  Every call works in a transaction of its own   *)
(* (READ COMMITTED) on an object loaded once from the row; at the flush    *)
(* SQLAlchemy writes the columns whose value differs from the loaded one,  *)
(* without comparing the row with what was loaded.                         *)
(***************************************************************************)
EXTENDS Naturals

CONSTANTS
  Request,   \* calls; a call also names the secret or the codes it generates
  Kind,      \* the endpoints called
  Password,  \* passwords in use
  NCodes,    \* backup codes in a set (10 in the code)
  Overlap,   \* FALSE: calls on the account are made one after another
  Old,       \* the enrollment made before the model starts
  None       \* NULL

Endpoint == {"login", "start", "verify", "totp", "backup", "disable", "reset",
             "password"}

\* What names an enrollment, a secret, a set of codes; codes are numbered.
Origin == Request \cup {Old}
Code   == Origin \X (1 .. NCodes)
CodesOf(o) == {o} \X (1 .. NCodes)

ASSUME AccountAssumption ==
  /\ Kind \subseteq Endpoint
  /\ NCodes \in Nat \ {0}
  /\ Overlap \in BOOLEAN
  /\ Old \notin Request
  /\ None \notin Origin /\ None \notin Code /\ None \notin Password
  /\ \A C \in SUBSET Code : C # None

Row == [secret : Origin \cup {None}, enrolled : Origin \cup {None},
        codes : (SUBSET Code) \cup {None}, password : Password]

Form == [kind : Endpoint \cup {"none"}, device : Origin \cup {None},
         code : Code \cup {None}, typed : Password \cup {None},
         chosen : Password \cup {None}]

VARIABLES
  row,       \* the committed row; enrolled_at is named by the call it is of
  form,      \* what each call was sent
  pc,        \* next step of each call
  got,       \* the row as each call loaded it
  audit,     \* audit_log rows inserted, those of open transactions too
  response   \* what the client has been answered

vars == <<row, form, pc, got, audit, response>>

Active == {"auth", "load", "flush", "answer", "respond", "raise", "commit"}
Ended  == {"committed", "rolledBack"}
-----------------------------------------------------------------------------
(* What a user can send. *)

\* Who a call belongs to answers with a secret, then holds it in a device;
\* a printed backup code is one of a verify that was answered.
Devices == {Old} \cup
  {r \in Request : form[r].kind = "start" /\ response[r] = "ok"}
Printed == UNION {CodesOf(o) : o \in {Old} \cup
  {r \in Request : form[r].kind = "verify" /\ response[r] = "ok"}}

\* The fields an endpoint has no use for are left empty.
FormsOf(k) ==
  [kind   : {k},
   device : IF k \in {"verify", "totp", "disable"} THEN Devices ELSE {None},
   code   : IF k = "backup" THEN Printed ELSE {None},
   typed  : IF k \in {"login", "disable", "password"} THEN Password ELSE {None},
   chosen : IF k = "password" THEN Password ELSE {None}]

NoForm == [kind |-> "none", device |-> None, code |-> None, typed |-> None,
           chosen |-> None]
-----------------------------------------------------------------------------
(* What a call decides from the row it loaded. *)

Enrolled(g) == g.secret # None /\ g.enrolled # None

Accepts(f, g) ==
  \/ f.kind \in {"start", "reset"}
  \/ f.kind = "verify" /\ g.secret # None /\ f.device = g.secret
  \/ f.kind \in {"totp", "disable"} /\ Enrolled(g) /\ f.device = g.secret
  \/ f.kind = "backup" /\ Enrolled(g) /\ g.codes # None /\ f.code \in g.codes
  \/ f.kind = "password" /\ f.chosen # g.password

\* Mutants: an assignment forgotten.
NoMfa_enrolled(g) == [g EXCEPT !.secret = None, !.codes = None]
NoMfa_codes(g)    == [g EXCEPT !.secret = None, !.enrolled = None]

\* The object after the handler's assignments.
NoMfa(g) == [g EXCEPT !.secret = None, !.enrolled = None, !.codes = None]

\* Mutant: the list is changed in place, which SQLAlchemy does not notice.
Consumed_inPlace(g, c) == g.codes
Consumed(g, c) == g.codes \ {c}

Wanted(r) ==
  LET g == got[r]
  IN  CASE form[r].kind = "start"    -> [NoMfa(g) EXCEPT !.secret = r]
        [] form[r].kind = "verify"   -> [g EXCEPT !.enrolled = r,
                                                  !.codes = CodesOf(r)]
        [] form[r].kind = "backup"   -> [g EXCEPT !.codes = Consumed(g, form[r].code)]
        [] form[r].kind \in {"disable", "reset"} -> NoMfa(g)
        [] form[r].kind = "password" -> [g EXCEPT !.password = form[r].chosen]
        [] OTHER                     -> g

\* Mutant: the UPDATE sets every column.
Column_all(loaded, wanted, stored) == wanted

\* The row after the UPDATE: columns that differ from what was loaded.
Column(loaded, wanted, stored) == IF wanted = loaded THEN stored ELSE wanted

Updated(r) ==
  LET w == Wanted(r)
      g == got[r]
  IN  [secret   |-> Column(g.secret,   w.secret,   row.secret),
       enrolled |-> Column(g.enrolled, w.enrolled, row.enrolled),
       codes    |-> Column(g.codes,    w.codes,    row.codes),
       password |-> Column(g.password, w.password, row.password)]

\* The lock an UPDATE takes on the row lasts until the transaction ends.
HoldsRow(r) == pc[r] \in {"respond", "commit"} /\ Wanted(r) # got[r]

Event == {"login", "login_failed", "mfa_enrolled", "mfa_disabled",
          "mfa_admin_reset", "mfa_challenge_failed", "password_changed"}

EventOf(k) ==
  CASE k = "verify"   -> {"mfa_enrolled"}
    [] k = "disable"  -> {"mfa_disabled"}
    [] k = "reset"    -> {"mfa_admin_reset"}
    [] k = "password" -> {"password_changed"}
    [] k \in {"login", "totp", "backup"} -> {"login"}
    [] OTHER          -> {}

FailureOf(k) ==
  CASE k = "login" -> {"login_failed"}
    [] k \in {"totp", "backup"} -> {"mfa_challenge_failed"}
    [] OTHER       -> {}
-----------------------------------------------------------------------------
Init ==
  /\ \E p \in Password : row \in
       {[secret |-> None, enrolled |-> None, codes |-> None, password |-> p],
        [secret |-> Old, enrolled |-> Old, codes |-> CodesOf(Old), password |-> p]}
  /\ form = [r \in Request |-> NoForm]
  /\ pc = [r \in Request |-> "new"]
  /\ got = [r \in Request |-> row]
  /\ audit = {}
  /\ response = [r \in Request |-> "none"]

Goto(r, from, to) == pc[r] = from /\ pc' = [pc EXCEPT ![r] = to]

\* get_session opens the transaction.  A secret proposed by nobody yet and a
\* code printed by nobody yet cannot be sent.
Begin(r) ==
  /\ Overlap \/ \A q \in Request : pc[q] \notin Active
  /\ \E k \in Kind :
       /\ form' \in {[form EXCEPT ![r] = f] : f \in FormsOf(k)}
       /\ Goto(r, "new", IF k \in {"login", "disable", "password"}
                         THEN "auth" ELSE "load")
  /\ UNCHANGED <<row, got, audit, response>>

\* Mutant: the audit row is built and not added to the session.
Insert_lost(r, events) == UNCHANGED audit
Insert(r, events) == audit' = audit \cup {[by |-> r, event |-> e] : e \in events}

\* The password is checked against a row read for this purpose alone; login
\* goes on with that same row.
Authenticate(r) ==
  /\ Goto(r, "auth", IF form[r].kind = "login" THEN "flush" ELSE "load")
  /\ form[r].typed = row.password
  /\ got' = [got EXCEPT ![r] = row]
  /\ UNCHANGED <<row, form, audit, response>>

\* The handler loads the row and, with no further look at the database,
\* accepts.  enroll_start assigns and returns: its flush comes with the commit.
Load(r) ==
  /\ Goto(r, "load", IF form[r].kind = "start" THEN "answer" ELSE "flush")
  /\ Accepts(form[r], row)
  /\ got' = [got EXCEPT ![r] = row]
  /\ UNCHANGED <<row, form, audit, response>>

\* A wrong password, code or state: the failure is recorded where the handler
\* does so, then HTTPException is raised.
Reject(r) ==
  /\ \/ pc[r] = "auth" /\ form[r].typed # row.password
     \/ pc[r] = "load" /\ ~Accepts(form[r], row)
  /\ pc' = [pc EXCEPT ![r] = "raise"]
  /\ Insert(r, FailureOf(form[r].kind))
  /\ UNCHANGED <<row, form, got, response>>

\* The flush: UPDATE analysts, INSERT INTO audit_log.
Flush(r) ==
  /\ Goto(r, "flush", IF form[r].kind = "start" THEN "commit" ELSE "respond")
  /\ Wanted(r) = got[r] \/ \A q \in Request : ~HoldsRow(q)
  /\ Insert(r, EventOf(form[r].kind))
  /\ UNCHANGED <<row, form, got, response>>

\* The response leaves before get_session resumes.
Respond(r) ==
  /\ \/ Goto(r, "respond", "commit")
     \/ Goto(r, "answer", "flush")
  /\ response' = [response EXCEPT ![r] = "ok"]
  /\ UNCHANGED <<row, form, got, audit>>

Commit(r) ==
  /\ Goto(r, "commit", "committed")
  /\ row' = Updated(r)
  /\ UNCHANGED <<form, got, audit, response>>

\* An exception leaves session.begin(): everything the call wrote is undone.
Rollback(r, answer) ==
  /\ pc' = [pc EXCEPT ![r] = "rolledBack"]
  /\ audit' = {a \in audit : a.by # r}
  /\ response' = [response EXCEPT ![r] = IF @ = "ok" THEN @ ELSE answer]
  /\ UNCHANGED <<row, form, got>>

Refuse(r) == pc[r] = "raise" /\ Rollback(r, "refused")

\* The worker or its connection dies, before or after the response.
Fail(r) == pc[r] \in Active /\ Rollback(r, "error")

Next == \E r \in Request :
  \/ Begin(r) \/ Authenticate(r) \/ Load(r) \/ Reject(r) \/ Flush(r)
  \/ Respond(r) \/ Commit(r) \/ Refuse(r) \/ Fail(r)

Spec == Init /\ [][Next]_vars
-----------------------------------------------------------------------------
\* The type invariant; a change of password carries a password.
TypeOK ==
  /\ row \in Row
  /\ form \in [Request -> Form]
  /\ \A r \in Request : form[r].kind = "password" => form[r].chosen \in Password
  /\ pc \in [Request -> {"new"} \cup Active \cup Ended]
  /\ got \in [Request -> Row]
  /\ audit \subseteq [by : Request, event : Event]
  /\ response \in [Request -> {"none", "ok", "refused", "error"}]

\* enrolled_at is the single source of truth for "the second factor is on"
\* (the reset's comment): whoever is on has a secret to be challenged with.
EnrolledHasSecret == row.enrolled # None => row.secret # None

\* The device whose code turned the second factor on.
ProvedBy(e) == IF e = Old THEN Old ELSE form[e].device

\* Re-enrollment is start then verify with a code of the new secret: nobody is
\* asked for a secret that no device has shown to hold.
EnrolledSecretVerified ==
  row.enrolled # None /\ row.secret # None => row.secret = ProvedBy(row.enrolled)

\* The codes accepted by a challenge are of the enrollment in force.
CodesBelongToEnrollment ==
  row.codes # None => row.codes \subseteq CodesOf(row.enrolled)

\* An analyst whose second factor is on can always pass it.
EnrollmentIsWhole ==
  EnrolledHasSecret /\ EnrolledSecretVerified /\ CodesBelongToEnrollment

\* Why this holds when calls do not overlap: the copy a call works on is
\* the row, and what the call accepted is still so when it commits.
Alone == \A r, q \in Request : pc[r] \in Active /\ pc[q] \in Active => r = q

Decided == {r \in Request : pc[r] \in {"flush", "answer", "respond", "commit"}}

AcceptedOnCopy ==
  \A r \in Decided : form[r].kind = "login" \/ Accepts(form[r], got[r])

CopyIsCurrent == \A r \in Decided : got[r] = row

EnrolledByVerify ==
  row.enrolled \in Request
    => pc[row.enrolled] = "committed" /\ form[row.enrolled].kind = "verify"

AccountInv ==
  /\ TypeOK
  /\ AcceptedOnCopy
  /\ Alone
  /\ CopyIsCurrent
  /\ EnrolledByVerify
  /\ EnrollmentIsWhole

\* A backup code opens one session: calls that took place, and calls that were
\* answered, never used the same code.
SpentOnce(S) ==
  \A r, q \in S : form[r].kind = "backup" /\ form[r].code = form[q].code => r = q

CodeSpentOnce  == SpentOnce({r \in Request : pc[r] = "committed"})
BackupCodeOnce == SpentOnce({r \in Request : response[r] = "ok"})

Lifecycle == INSTANCE MfaLifecycle WITH
  Secret   <- Origin,
  NoSecret <- None,
  phase    <- IF row.enrolled # None THEN "on"
              ELSE IF row.secret # None THEN "proposed" ELSE "off",
  secret   <- row.secret,
  codes    <- IF row.codes = None THEN {} ELSE row.codes,
  issued   <- UNION {CodesOf(o) : o \in {Old} \cup
                {r \in Request : form[r].kind = "verify" /\ pc[r] = "committed"}}

\* One call after another, with crashes: the row goes through the life of an
\* enrollment and no other.
ImplementsLifecycle == Lifecycle!LifecycleSpec

Commits(r) == pc[r] = "commit" /\ pc'[r] = "committed"

\* Whatever runs beside it, a call that is not a change of password leaves the
\* password alone: no stale copy of the row is written back.
OnlyPasswordCallsChangeThePassword ==
  [][row'.password # row.password
       => \E r \in Request : Commits(r) /\ form[r].kind = "password"]_vars

\* Whatever runs beside it, a reset or a disable is undone by a verify alone:
\* a challenge that loaded the row before does not bring the enrollment back.
OnlyVerifyTurnsOn ==
  [][row'.enrolled \notin {None, row.enrolled}
       => \E r \in Request : Commits(r) /\ form[r].kind = "verify"]_vars

\* An enrollment in force has its mfa_enrolled row in the audit log.
EnrollmentIsAudited ==
  row.enrolled \in Request => [by |-> row.enrolled, event |-> "mfa_enrolled"] \in audit

\* Turning the second factor off leaves a row in the audit log, unless it is a
\* start that does it: re-enrolling drops the enrollment without a word.
TurningOffIsAudited ==
  [][row.enrolled # None /\ row'.enrolled = None
       => \E r \in Request : Commits(r) /\
            \/ form[r].kind = "start"
            \/ \E a \in audit : a.by = r /\ a.event \in {"mfa_disabled", "mfa_admin_reset"}]_vars

\* A failed login leaves a login_failed row in the audit log.
FailedLoginIsAudited ==
  \A r \in Request : form[r].kind = "login" /\ response[r] = "refused"
    => [by |-> r, event |-> "login_failed"] \in audit
=============================================================================
