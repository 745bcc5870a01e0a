-------------------------- MODULE GnkCertificates --------------------------
(***************************************************************************)
(* Certificates of the tax committee: an analyst uploads one for a         *)
(* borrower, GET shows the newest and the file of any can be fetched.  The *)
(* time of an upload is read before the row is inserted, the response goes *)
(* out before the transaction commits.                                     *)
(***************************************************************************)
EXTENDS Integers

CONSTANTS
  Upload,      \* calls of POST
  Borrower,    \* taxpayer numbers
  LastInstant  \* bound: the clock stops here

ASSUME CertificateAssumption == LastInstant \in Nat

\* What can be wrong with a form; a code too long for its column is found by
\* the database alone.
Flaw == {"inn", "status", "empty", "large", "mime", "code"}

VARIABLES
  instant,       \* the clock
  certificates,  \* committed rows
  upload,        \* local state of each call
  reply,         \* status each call was answered
  shown          \* certificate the last GET of a borrower named, if any

gnkVars == <<instant, certificates, upload, reply, shown>>

\* A row is known by the call that made it.
CertificateRow(u) == [id |-> u, inn |-> upload[u].inn, uploaded |-> upload[u].uploaded]
UploadForm(step, b, flaws, i) == [step |-> step, inn |-> b, flaws |-> flaws, uploaded |-> i]

GnkInit ==
  /\ instant = 0 /\ certificates = {} /\ shown = [b \in Borrower |-> {}]
  /\ \E b \in Borrower : upload = [u \in Upload |-> UploadForm("new", b, {}, 0)]
  /\ reply = [u \in Upload |-> "none"]

GnkTick ==
  /\ instant < LastInstant /\ instant' = instant + 1
  /\ UNCHANGED <<certificates, upload, reply, shown>>

\* The checks in the order of the handler.
Refusal(flaws) ==
  CASE flaws \cap {"inn", "status", "empty"} # {} -> "422"
    [] flaws \cap {"inn", "status", "empty"} = {} /\ "large" \in flaws -> "413"
    [] flaws \cap {"inn", "status", "empty", "large"} = {} /\ "mime" \in flaws -> "415"
    [] flaws \subseteq {"code"} -> "none"

ReceiveUpload(u, b, flaws) ==
  /\ upload[u].step = "new"
  /\ IF Refusal(flaws) = "none"
       THEN /\ upload' = [upload EXCEPT ![u] = UploadForm("insert", b, flaws, instant)]
            /\ UNCHANGED reply
       ELSE /\ upload' = [upload EXCEPT ![u] = UploadForm("done", b, {}, 0)]
            /\ reply' = [reply EXCEPT ![u] = Refusal(flaws)]
  /\ UNCHANGED <<instant, certificates, shown>>

InsertCertificate(u) ==
  /\ upload[u].step = "insert"
  /\ IF "code" \notin upload[u].flaws
       THEN /\ upload' = [upload EXCEPT ![u].step = "commit"]
            /\ reply' = [reply EXCEPT ![u] = "201"]
       ELSE /\ upload' = [upload EXCEPT ![u].step = "done"]
            /\ reply' = [reply EXCEPT ![u] = "500"]
  /\ UNCHANGED <<instant, certificates, shown>>

CommitUpload(u) ==
  /\ upload[u].step = "commit"
  /\ upload' = [upload EXCEPT ![u].step = "done"]
  /\ certificates' = certificates \cup {CertificateRow(u)}
  /\ UNCHANGED <<instant, reply, shown>>

\* The worker dies or its connection breaks, before or after the response.
LoseUpload(u) ==
  /\ upload[u].step \in {"insert", "commit"}
  /\ upload' = [upload EXCEPT ![u].step = "done"]
  /\ UNCHANGED <<instant, certificates, reply, shown>>

Of(b) == {r \in certificates : r.inn = b}

\* Mutant: ascending order.
Latest_oldest(b) == {r \in Of(b) : \A q \in Of(b) : r.uploaded <= q.uploaded}

\* ORDER BY uploaded_at DESC LIMIT 1: any of those of the same instant.
Latest(b) == {r \in Of(b) : \A q \in Of(b) : q.uploaded <= r.uploaded}

ShowLatest(b) ==
  /\ \E r \in Latest(b) : shown' = [shown EXCEPT ![b] = {r}]
  /\ UNCHANGED <<instant, certificates, upload, reply>>

GnkNext ==
  \/ GnkTick
  \/ \E b \in Borrower :
       ShowLatest(b) \/ \E u \in Upload, flaws \in SUBSET Flaw : ReceiveUpload(u, b, flaws)
  \/ \E u \in Upload : InsertCertificate(u) \/ CommitUpload(u) \/ LoseUpload(u)

GnkSpec == GnkInit /\ [][GnkNext]_gnkVars
-----------------------------------------------------------------------------
ShownGrowsNewer ==
  \A b \in Borrower : \A q \in shown[b], r \in shown'[b] : q.uploaded <= r.uploaded

\* Uploads commit in another order than they read the clock: what GET shows of
\* a borrower is still never older than what it has shown before.
LatestNeverGoesBack == [][ShownGrowsNewer]_gnkVars
=============================================================================
