---------------------------- MODULE SystemUptime ----------------------------
(***************************************************************************)
(* The uptime calendar: the collector, a loop in the background, and every *)
(* GET /api/system/health probe PostgreSQL and the PDF engine and write the*)
(* worst status of the day into system_uptime_day, each in a transaction   *)
(* that reads the row and then inserts or updates it.                      *)
(***************************************************************************)
EXTENDS Integers

CONSTANTS
  Health,     \* calls of the endpoint
  Collector,  \* the loop
  LastDate    \* bound: the calendar stops here

ASSUME UptimeAssumption == Collector \notin Health /\ LastDate \in Nat

Prober == Health \cup {Collector}
Days   == 0 .. LastDate
Rank   == [none |-> 0, ok |-> 1, degraded |-> 2, down |-> 3]

VARIABLES
  serving,   \* the process is up
  engine,    \* its import of WeasyPrint succeeds
  postgres,  \* the database answers
  date,      \* the UTC date
  uptime,    \* committed rows: status of each date, "none" without a row
  tx,        \* step and local state of each prober
  reported   \* status a health call has been answered

uptimeVars == <<serving, engine, postgres, date, uptime, tx, reported>>

\* status: found by the probe; usable: the transaction can go on; date, seen:
\* the date it goes by and the status of the row it read.
Local(at, status, usable, d, s) ==
  [at |-> at, status |-> status, usable |-> usable, date |-> d, seen |-> s]

Outside(at) == Local(at, "none", TRUE, 0, "none")
InTransaction(p) == tx[p].at \in {"read", "write", "commit"}

UptimeInit ==
  /\ serving = FALSE /\ engine = FALSE /\ postgres = TRUE /\ date = 0
  /\ uptime = [d \in Days |-> "none"]
  /\ tx = [p \in Prober |-> Outside("idle")]
  /\ reported = [h \in Health |-> "none"]

StartServer ==
  /\ ~serving /\ serving' = TRUE
  /\ engine' \in BOOLEAN
  /\ UNCHANGED <<postgres, date, uptime, tx, reported>>

\* A failed import is tried again at every probe, a successful one is kept.
EngineLoads ==
  /\ serving /\ ~engine /\ engine' = TRUE
  /\ UNCHANGED <<serving, postgres, date, uptime, tx, reported>>

\* Transactions do not survive a stop of the database.
PostgresChanges ==
  /\ postgres' = ~postgres
  /\ tx' = [p \in Prober |-> IF postgres /\ InTransaction(p)
                              THEN [tx[p] EXCEPT !.usable = FALSE] ELSE tx[p]]
  /\ UNCHANGED <<serving, engine, date, uptime, reported>>

NextDate ==
  /\ date < LastDate /\ date' = date + 1
  /\ UNCHANGED <<serving, engine, postgres, uptime, tx, reported>>

StopServer ==
  /\ serving /\ serving' = FALSE
  /\ tx' = [p \in Prober |-> IF InTransaction(p) /\ p # Collector
                              THEN Outside("done") ELSE Outside("idle")]
  /\ UNCHANGED <<engine, postgres, date, uptime, reported>>

Answered(p) == reported' = [h \in Health |-> IF h = p THEN tx[p].status ELSE reported[h]]

\* The transaction is over: the loop sleeps, a health call is answered.
Close(p) ==
  /\ tx' = [tx EXCEPT ![p] = Outside(IF p = Collector THEN "idle" ELSE "done")]
  /\ Answered(p)

\* Mutants: a failed tick ends the loop; an error of the upsert ends the call.
Abandon_stopsLoop(p)  == tx' = [tx EXCEPT ![p] = Outside("done")] /\ Answered(p)
Abandon_unanswered(p) ==
  /\ tx' = [tx EXCEPT ![p] = Outside(IF p = Collector THEN "idle" ELSE "done")]
  /\ UNCHANGED reported

\* Neither prober lets an error of the database out.
Abandon(p) == Close(p)

Worst(up, loads) == IF ~up THEN "down" ELSE IF ~loads THEN "degraded" ELSE "ok"

\* SELECT 1 and the import.  Without an answer the transaction is unusable,
\* unless no connection was made: then the next statement makes one.
Measure(p) ==
  /\ serving /\ tx[p].at = "idle"
  /\ \E u \in BOOLEAN :
       /\ postgres => u
       /\ tx' = [tx EXCEPT ![p] = Local("read", Worst(postgres, engine), u, 0, "none")]
  /\ UNCHANGED <<serving, engine, postgres, date, uptime, reported>>

Talks(p) == postgres /\ tx[p].usable

ReadRow(p) ==
  /\ tx[p].at = "read"
  /\ \/ /\ Talks(p)
        /\ tx' = [tx EXCEPT ![p] = Local("write", @.status, TRUE, date, uptime[date])]
        /\ UNCHANGED reported
     \/ ~Talks(p) /\ Abandon(p)
  /\ UNCHANGED <<serving, engine, postgres, date, uptime>>

\* The key, or the lock of the row, is with a transaction that has not ended.
Waits(p) == \E q \in Prober \ {p} : tx[q].at = "commit" /\ tx[q].date = tx[p].date

\* The row to insert is there by now.
Collides(p) == tx[p].seen = "none" /\ uptime[tx[p].date] # "none"

\* INSERT if there was no row, else UPDATE.
WriteRow(p) ==
  /\ tx[p].at = "write"
  /\ \/ /\ Talks(p) /\ ~Waits(p) /\ ~Collides(p)
        /\ tx' = [tx EXCEPT ![p].at = "commit"]
        /\ UNCHANGED reported
     \/ ~Talks(p) /\ Abandon(p)
     \/ Talks(p) /\ ~Waits(p) /\ Collides(p) /\ Abandon(p)
  /\ UNCHANGED <<serving, engine, postgres, date, uptime>>

\* Mutant: the status is written without the comparison.
Escalates_always(p) == TRUE

\* The column is set only when the status is worse than the one read.
Escalates(p) == Rank[tx[p].status] > Rank[tx[p].seen]

EndProbe(p) ==
  /\ tx[p].at = "commit"
  /\ uptime' = IF Talks(p) /\ Escalates(p)
                 THEN [uptime EXCEPT ![tx[p].date] = tx[p].status] ELSE uptime
  /\ Close(p)
  /\ UNCHANGED <<serving, engine, postgres, date>>

ProbeStep(p) == ReadRow(p) \/ WriteRow(p) \/ EndProbe(p)

UptimeNext ==
  \/ StartServer \/ EngineLoads \/ PostgresChanges \/ NextDate \/ StopServer
  \/ \E p \in Prober : Measure(p) \/ ProbeStep(p)

\* Statements end, PostgreSQL serves waiting transactions in turn, and the loop
\* always comes to its next tick; nobody need call the endpoint.
UptimeFairness ==
  /\ WF_uptimeVars(Measure(Collector))
  /\ \A p \in Prober : SF_uptimeVars(ProbeStep(p))

UptimeSpec == UptimeInit /\ [][UptimeNext]_uptimeVars /\ UptimeFairness
-----------------------------------------------------------------------------
\* The type invariant: a row has the status of a probe.
UptimeTypeOK ==
  /\ serving \in BOOLEAN /\ engine \in BOOLEAN /\ postgres \in BOOLEAN
  /\ date \in Days
  /\ uptime \in [Days -> DOMAIN Rank]
  /\ tx \in [Prober -> [at : {"idle", "read", "write", "commit", "done"},
                        status : DOMAIN Rank, usable : BOOLEAN,
                        date : Days, seen : DOMAIN Rank]]
  /\ reported \in [Health -> DOMAIN Rank]

GetsBetter(d) == Rank[uptime'[d]] < Rank[uptime[d]]

\* As the repository and the collector promise: within a day the status only
\* escalates, from ok to degraded to down.
StatusOnlyEscalates == [][\A d \in Days : ~GetsBetter(d)]_uptimeVars

OvertakenProbersWrite(d) ==
  /\ uptime[d] = "down" /\ uptime'[d] = "degraded"
  /\ \E p \in Prober : tx[p].at = "commit" /\ tx[p].date = d /\ tx[p].seen = "ok"

\* What is left of it: the status gets better in one way alone, from down to
\* degraded, when a prober that read ok, before another one committed the down,
\* commits its degraded on top.  No copy, however old, brings ok back or makes
\* a row go away, and a prober that read a fault never makes it smaller.
OnlyStaleOkDeescalates ==
  [][\A d \in Days : GetsBetter(d) => OvertakenProbersWrite(d)]_uptimeVars

\* Why: a prober in its transaction has a status to write, and if it read no row
\* there is none when it commits.
ProbersKnow ==
  \A p \in Prober :
    /\ InTransaction(p) => tx[p].status # "none"
    /\ tx[p].at = "commit" /\ tx[p].seen = "none" => uptime[tx[p].date] = "none"

\* And: of the transactions past their write, one at most is for each date.
OneWritesEachDay ==
  \A p \in Prober : \A q \in Prober \ {p} :
    tx[p].at = "commit" /\ tx[q].at = "commit" => tx[p].date # tx[q].date

UptimeInv == UptimeTypeOK /\ ProbersKnow /\ OneWritesEachDay

\* Every health call is answered, also when the table cannot be written or
\* the row was inserted by another prober meanwhile; unless the server stops.
HealthIsAnswered ==
  \A h \in Health : tx[h].at = "read" ~> reported[h] # "none" \/ ~serving

\* The loop outlives every failed tick: when the engine stays away and the
\* database stays up, the day is on record as degraded, although nobody calls
\* the endpoint.
FaultIsRecorded ==
  \A d \in Days :
    <>[](date = d /\ serving /\ postgres /\ ~engine)
      => <>(uptime[d] \in {"degraded", "down"})
=============================================================================
