----------------------------- MODULE MCCalendar -----------------------------
(***************************************************************************)
(* Small instances, for TLC, of what goes by the calendar: the numbers of  *)
(* dossiers across New Year and the uptime row across midnight.  They share*)
(* no state: a behaviour is one of a single subject, chosen at the start,  *)
(* and the other, at rest, has no fair action that could be taken.         *)
(***************************************************************************)
EXTENDS DossierRegistry, SystemUptime

VARIABLE subject

calendarVars == <<subject, vars, uptimeVars>>

\* At rest: no dossier was numbered before, no request is made.
CalendarInit ==
  /\ subject \in {"dossiers", "uptime"}
  /\ Init /\ UptimeInit
  /\ subject # "dossiers" => dossiers = {} /\ inn = CHOOSE f \in [Request -> Inn] : TRUE

CalendarNext ==
  \/ subject = "dossiers" /\ Next /\ UNCHANGED <<subject, uptimeVars>>
  \/ subject = "uptime" /\ UptimeNext /\ UNCHANGED <<subject, vars>>

CalendarSpec ==
  CalendarInit /\ [][CalendarNext]_calendarVars /\ UptimeFairness
=============================================================================
