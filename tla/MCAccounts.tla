----------------------------- MODULE MCAccounts -----------------------------
(***************************************************************************)
(* Small instances, for TLC, of the accounts with local passwords and of   *)
(* those with a directory, which a deployment never has for one and the    *)
(* same account: a behaviour is one of a single subject, chosen at the     *)
(* start, while the other rests in its initial state.                      *)
(***************************************************************************)
EXTENDS AnalystAccount, LdapLogin, TLC

VARIABLE subject

SecondFactorOnly == Endpoint \ {"login", "password", "totp"}
Addresses == {<<"admin", "lower">>, <<"admin", "Upper">>, <<"analyst", "lower">>}
OnTheList == {<<"admin", "lower">>}

accountsVars == <<subject, vars, ldapVars>>

AccountsInit ==
  /\ subject \in {"local", "directory"}
  /\ Init /\ LdapInit
  /\ subject # "local" => row.enrolled = None
  /\ \A l \in Login : login[l].email = <<"admin", "lower">>

AccountsNext ==
  \/ subject = "local" /\ Next /\ UNCHANGED <<subject, ldapVars>>
  \/ subject = "directory" /\ LdapNext /\ UNCHANGED <<subject, vars>>

AccountsSpec == AccountsInit /\ [][AccountsNext]_accountsVars

\* No liveness is checked, so calls may be interchanged.
RequestSymmetry == Permutations(Request)
=============================================================================
