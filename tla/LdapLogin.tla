----------------------------- MODULE LdapLogin -----------------------------
(***************************************************************************)
(* POST /api/bank/auth/login where a directory holds the passwords: the    *)
(* user is searched, the groups give the role, the password is tried, and  *)
(* the row of analysts is made or brought up to date.  Addresses on the    *)
(* break-glass list go to the local table instead, whatever their letter   *)
(* case.  What the directory answers is asked anew in every step: groups,  *)
(* passwords and failures change at any time.                              *)
(***************************************************************************)
EXTENDS Integers

CONSTANTS
  Login,       \* calls of the endpoint
  Email,       \* addresses as they are typed: a person and a letter case
  BreakGlass,  \* the addresses of the list
  NoAccount    \* no row

Role == {"analyst", "senior_analyst"}
AccountRow == [source : {"seeded", "ldap"}, password : BOOLEAN, role : Role, active : BOOLEAN]

ASSUME LdapAssumption == BreakGlass \subseteq Email /\ NoAccount \notin AccountRow

VARIABLES
  accounts,  \* committed rows, found by the address with its letter case
  login,     \* local state of each call
  changed    \* calls in whose time another one, or an operator, changed the row

ldapVars == <<accounts, login, changed>>

Account(source, password, role, active) ==
  [source |-> source, password |-> password, role |-> role, active |-> active]

AtStep(step, e, role, copy) == [step |-> step, email |-> e, role |-> role, copy |-> copy]

LdapInit ==
  /\ accounts = [e \in Email |-> NoAccount]
  /\ \E e \in Email : login = [l \in Login |-> AtStep("new", e, "none", NoAccount)]
  /\ changed = {}

\* The command line tool sets the password, the role and whether the account is
\* active; a row that is there keeps its source.
SeedAnalyst(e, role, active) ==
  /\ accounts' = [accounts EXCEPT ![e] =
       Account(IF @ = NoAccount THEN "seeded" ELSE @.source, TRUE, role, active)]
  /\ changed' = changed \cup {l \in Login : login[l].email = e}
  /\ UNCHANGED login

Finish(l, how) == login' = [login EXCEPT ![l] = AtStep(how, @.email, "none", NoAccount)]

\* Mutant: the list compared as it is written.
OnList_exact(e) == e \in BreakGlass

\* Lower case on both sides.
OnList(e) == \E b \in BreakGlass : b[1] = e[1]

SubmitLogin(l, e) ==
  /\ login[l].step = "new"
  /\ login' = [login EXCEPT ![l] =
       AtStep(IF OnList(e) THEN "local" ELSE "search", e, "none", NoAccount)]
  /\ changed' = changed \ {l}
  /\ UNCHANGED accounts

\* SeededAuthnAdapter, under the name break_glass.
CheckLocal(l, correct) ==
  LET row == accounts[login[l].email]
  IN  /\ login[l].step = "local"
      /\ Finish(l, IF row # NoAccount /\ row.active /\ row.password /\ correct
                     THEN "break_glass" ELSE "refused")
      /\ UNCHANGED <<accounts, changed>>

\* The senior group comes first.
RoleOf(groups) == IF "senior_analyst" \in groups THEN "senior_analyst" ELSE "analyst"

\* A directory that does not answer is an error here, not a wrong password.
SearchUser(l, answers, groups) ==
  /\ login[l].step = "search"
  /\ IF ~answers THEN Finish(l, "error")
     ELSE IF groups = {} THEN Finish(l, "refused")
     ELSE login' = [login EXCEPT ![l].step = "verify", ![l].role = RoleOf(groups)]
  /\ UNCHANGED <<accounts, changed>>

\* Here a directory that does not answer is a wrong password.
VerifyPassword(l, answers, correct) ==
  /\ login[l].step = "verify"
  /\ IF answers /\ correct THEN login' = [login EXCEPT ![l].step = "load"]
                           ELSE Finish(l, "refused")
  /\ UNCHANGED <<accounts, changed>>

LoadAccount(l) ==
  /\ login[l].step = "load"
  /\ login' = [login EXCEPT ![l].step = "store", ![l].copy = accounts[login[l].email]]
  /\ changed' = changed \ {l}
  /\ UNCHANGED accounts

\* Mutant: the source is overwritten as well.
BroughtUpToDate_source(row, l) == Account("ldap", row.password, login[l].role, TRUE)

\* Only columns that differ from the copy are written.
BroughtUpToDate(row, l) ==
  LET copy == login[l].copy
  IN  Account(row.source, row.password,
              IF login[l].role # copy.role THEN login[l].role ELSE row.role,
              row.active \/ ~copy.active)

\* INSERT, which the unique index refuses if there is a row by now, or UPDATE.
StoreAccount(l) ==
  LET e == login[l].email
      missing == login[l].copy = NoAccount
  IN  /\ login[l].step = "store"
      /\ \/ /\ missing /\ accounts[e] # NoAccount
            /\ Finish(l, "error")
            /\ UNCHANGED <<accounts, changed>>
         \/ /\ missing => accounts[e] = NoAccount
            /\ accounts' = [accounts EXCEPT ![e] =
                 IF missing THEN Account("ldap", FALSE, login[l].role, TRUE) ELSE BroughtUpToDate(@, l)]
            /\ changed' = changed \cup {k \in Login \ {l} : login[k].email = e}
            /\ Finish(l, "ldap")

LdapNext ==
  \/ \E e \in Email, role \in Role, active \in BOOLEAN : SeedAnalyst(e, role, active)
  \/ \E l \in Login :
       \/ \E e \in Email : SubmitLogin(l, e)
       \/ \E correct \in BOOLEAN : CheckLocal(l, correct)
       \/ \E answers \in BOOLEAN, groups \in SUBSET Role : SearchUser(l, answers, groups)
       \/ \E answers, correct \in BOOLEAN : VerifyPassword(l, answers, correct)
       \/ LoadAccount(l) \/ StoreAccount(l)

LdapSpec == LdapInit /\ [][LdapNext]_ldapVars
-----------------------------------------------------------------------------
\* Nobody on the break-glass list, in whatever letter case the address is
\* typed, gets a row from the directory: the local account is the only one.
BreakGlassStaysLocal ==
  \A e \in Email, b \in BreakGlass :
    b[1] = e[1] => accounts[e] = NoAccount \/ accounts[e].source = "seeded"

LoginsUpdate ==
  \A l \in Login :
    LET e    == login[l].email
        copy == login[l].copy
    IN  login[l].step = "store" /\ login'[l].step = "ldap" =>
          /\ accounts[e] # NoAccount => /\ accounts'[e].source = accounts[e].source
                                        /\ accounts'[e].password = accounts[e].password
          /\ \/ accounts'[e].role = login[l].role
             \/ l \in changed /\ copy.role = login[l].role
          /\ \/ accounts'[e].active
             \/ l \in changed /\ copy.active

\* Whatever other logins and the seeding tool do between the lookup and the write
\* of a login, source and password of the row stay; and the row ends with the role
\* the directory gave and active, but for a column that already was so when it was
\* looked up and was changed meanwhile: that one is not written.
LoginBringsRowUpToDate == [][LoginsUpdate]_ldapVars
=============================================================================
