----------------------------- MODULE MCServices -----------------------------
(***************************************************************************)
(* Small instances, for TLC, of the services that share no state with each *)
(* other: a behaviour is one of a single subject, chosen at the start,     *)
(* while the others rest in an initial state of theirs.                    *)
(***************************************************************************)
EXTENDS AnalystAccount, RefreshRotation, UsdRate, DraftStore, GnkCertificates,
        PiiKeys, TLC

VARIABLE subject

EveryEndpoint == Endpoint

servicesVars ==
  <<subject, vars, rotationVars, rateVars, draftVars, gnkVars, piiVars>>

ServicesInit ==
  /\ subject \in {"account", "rotation", "usd", "drafts", "certificates", "keys"}
  /\ Init /\ RotationInit /\ RateInit /\ DraftInit /\ GnkInit /\ PiiInit
  /\ subject # "account" =>
       row.enrolled = None /\ row.password = CHOOSE p \in Password : TRUE
  /\ subject # "rotation" => kind = [c \in Call |-> "logout"]
  /\ subject # "usd" => env = "unset" /\ file
  /\ subject # "keys" => \A c \in Cell : cells[c] = Sealed(CHOOSE t \in Text : TRUE, <<>>)

Signs   == subject = "account" /\ Next /\
  UNCHANGED <<subject, rotationVars, rateVars, draftVars, gnkVars, piiVars>>
Rotates == subject = "rotation" /\ RotationNext /\
  UNCHANGED <<subject, vars, rateVars, draftVars, gnkVars, piiVars>>
Quotes  == subject = "usd" /\ RateNext /\
  UNCHANGED <<subject, vars, rotationVars, draftVars, gnkVars, piiVars>>
Drafts  == subject = "drafts" /\ DraftNext /\
  UNCHANGED <<subject, vars, rotationVars, rateVars, gnkVars, piiVars>>
Certifies == subject = "certificates" /\ GnkNext /\
  UNCHANGED <<subject, vars, rotationVars, rateVars, draftVars, piiVars>>
Rekeys  == subject = "keys" /\ PiiNext /\
  UNCHANGED <<subject, vars, rotationVars, rateVars, draftVars, gnkVars>>

ServicesNext ==
  Signs \/ Rotates \/ Quotes \/ Drafts \/ Certifies \/ Rekeys

ServicesSpec == ServicesInit /\ [][ServicesNext]_servicesVars

\* No liveness is checked, so the calls of a subject may be interchanged.
CallSymmetry == Permutations(Call)
=============================================================================
