---------------------------- MODULE MCAssessment ----------------------------
(***************************************************************************)
(* Small instances, for TLC, of what happens to the borrower's figures:    *)
(* read from files, reviewed by the rules and shown, scored.  A behaviour  *)
(* is one of a single subject, chosen at the start, while the others rest  *)
(* in an initial state of theirs.                                          *)
(***************************************************************************)
EXTENDS MCScoringService, MCReview, MCIntake

VARIABLE subject

assessmentVars == <<subject, vars, reviewVars, intakeVars>>

AssessmentInit ==
  /\ subject \in {"scoring", "review", "intake"}
  /\ Init /\ ReviewInit /\ IntakeInit
  /\ subject # "scoring" => core = 2
  /\ subject # "review" => page = {"annual"} /\ form.borrower.okedByOwner
  /\ subject # "intake" => folder = CHOOSE f \in Folders : TRUE

AssessmentNext ==
  \/ subject = "scoring" /\ Next /\ UNCHANGED <<subject, reviewVars, intakeVars>>
  \/ subject = "review" /\ ReviewNext /\ UNCHANGED <<subject, vars, intakeVars>>
  \/ subject = "intake" /\ IntakeNext /\ UNCHANGED <<subject, vars, reviewVars>>

AssessmentSpec == AssessmentInit /\ [][AssessmentNext]_assessmentVars
=============================================================================
