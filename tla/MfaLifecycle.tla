---------------------------- MODULE MfaLifecycle ----------------------------
(***************************************************************************)
(* What second-factor enrollment promises an analyst, one step at a time:  *)
(* a secret is proposed, then confirmed by the device that holds it, which *)
(* turns the second factor on with a fresh set of backup codes; a code may *)
(* be spent once; the second factor may be turned off.  AnalystAccount is  *)
(* shown to implement it when calls on one account do not overlap.         *)
(***************************************************************************)
CONSTANTS
  Secret,     \* secrets that may be proposed
  Code,       \* backup codes
  NoSecret    \* no secret

VARIABLES
  phase,      \* "off", "proposed" or "on"
  secret,     \* the secret proposed or confirmed
  codes,      \* backup codes that still work
  issued      \* backup codes that have ever worked

lifecycleVars == <<phase, secret, codes, issued>>

LifecycleInit ==
  /\ codes \subseteq issued /\ issued \subseteq Code
  /\ \/ phase = "off" /\ secret = NoSecret /\ codes = {}
     \/ phase = "on"  /\ secret \in Secret /\ codes # {}

\* Proposing a secret drops the enrollment there was.
Propose ==
  /\ phase' = "proposed" /\ codes' = {} /\ issued' = issued
  /\ secret' \in Secret \ {secret}

\* Confirming keeps the secret; the codes that go with it are all new.
Confirm ==
  /\ phase \in {"proposed", "on"} /\ phase' = "on" /\ secret' = secret
  /\ codes' \in SUBSET (Code \ issued) /\ codes' # {}
  /\ issued' = issued \cup codes'

Spend ==
  /\ phase = "on"
  /\ \E c \in codes : codes' = codes \ {c}
  /\ UNCHANGED <<phase, secret, issued>>

TurnOff ==
  /\ phase' = "off" /\ secret' = NoSecret /\ codes' = {} /\ issued' = issued

LifecycleNext == Propose \/ Confirm \/ Spend \/ TurnOff

LifecycleSpec == LifecycleInit /\ [][LifecycleNext]_lifecycleVars
=============================================================================
