----------------------------- MODULE DraftStore -----------------------------
(***************************************************************************)
(* Drafts of the form: POST creates one, PUT replaces its payload and      *)
(* renews its expiry, GET shows it until then.  Calls overlap; the ORM     *)
(* writes the columns that differ from the copy a call has loaded.         *)
(***************************************************************************)
EXTENDS Integers

CONSTANTS
  Draft,     \* identifiers of drafts
  Put,       \* calls of PUT
  Payload,   \* what forms send
  NoRow,     \* no such row
  Ttl_Days,  \* draft_ttl_days
  LastTime   \* bound: days the clock runs

ASSUME DraftAssumption ==
  /\ Ttl_Days \in Nat /\ LastTime \in Nat
  /\ NoRow \notin [payload : Payload, expires : Nat]

VARIABLES
  time,     \* the clock
  drafts,   \* committed rows
  put,      \* local state of each PUT
  promise,  \* the latest expiry the clients of a draft have been told
  current   \* PUTs in whose time no other one has changed the row

draftVars == <<time, drafts, put, promise, current>>

DraftRow(payload, expires) == [payload |-> payload, expires |-> expires]
Waiting == [step |-> "new"]
PutEnded   == [step |-> "done"]

DraftInit ==
  /\ time = 0
  /\ drafts = [d \in Draft |-> NoRow]
  /\ put = [c \in Put |-> Waiting]
  /\ promise = [d \in Draft |-> 0]
  /\ current = {}

DraftTime ==
  /\ time < LastTime /\ time' = time + 1
  /\ UNCHANGED <<drafts, put, promise, current>>

\* Mutant: the answer is worked out before the row.
Promised_first(expires) == expires - 1

\* _next_expiry reads the clock again after the row was written.
Promised(expires) == time + Ttl_Days

Told(d, expires) == IF expires > promise[d] THEN expires ELSE promise[d]

\* POST: nobody else knows the identifier yet.
CreateDraft(d, p) ==
  /\ drafts[d] = NoRow
  /\ drafts' = [drafts EXCEPT ![d] = DraftRow(p, time + Ttl_Days)]
  /\ promise' = [promise EXCEPT ![d] = Told(d, Promised(time + Ttl_Days))]
  /\ UNCHANGED <<time, put, current>>

\* Loads the row; the expired one is found too, an unknown one is a 404.
LoadDraft(c, d, p) ==
  /\ put[c] = Waiting
  /\ \/ /\ drafts[d] # NoRow
        /\ put' = [put EXCEPT ![c] = [step |-> "write", draft |-> d, payload |-> p,
                                      loaded |-> drafts[d].payload]]
        /\ current' = current \cup {c}
     \/ drafts[d] = NoRow /\ put' = [put EXCEPT ![c] = PutEnded] /\ UNCHANGED current
  /\ UNCHANGED <<time, drafts, promise>>

\* The flush: sets the expiry and waits for the lock of the row.
WriteDraft(c) ==
  /\ put[c].step = "write"
  /\ \A q \in Put : put[q].step \in {"answer", "commit"} => put[q].draft # put[c].draft
  /\ put' = [put EXCEPT ![c] = [step |-> "answer", draft |-> @.draft, payload |-> @.payload,
                                loaded |-> @.loaded, expires |-> time + Ttl_Days]]
  /\ UNCHANGED <<time, drafts, promise, current>>

AnswerPut(c) ==
  /\ put[c].step = "answer"
  /\ put' = [put EXCEPT ![c].step = "commit"]
  /\ promise' = [promise EXCEPT ![put[c].draft] = Told(put[c].draft, Promised(put[c].expires))]
  /\ UNCHANGED <<time, drafts, current>>

\* Mutant: the comparison inverted.
PayloadWritten_inverted(c) == put[c].payload = put[c].loaded

\* The column is among those of the UPDATE.
PayloadWritten(c) == put[c].payload # put[c].loaded

CommitPut(c) ==
  LET d == put[c].draft
  IN  /\ put[c].step = "commit"
      /\ drafts' = [drafts EXCEPT ![d] =
           DraftRow(IF PayloadWritten(c) THEN put[c].payload ELSE @.payload, put[c].expires)]
      /\ put' = [put EXCEPT ![c] = PutEnded]
      /\ current' = {q \in current \ {c} : put[q].draft # d}
      /\ UNCHANGED <<time, promise>>

\* The worker dies or its connection breaks.
LosePut(c) ==
  /\ put[c].step \in {"write", "answer", "commit"}
  /\ put' = [put EXCEPT ![c] = PutEnded]
  /\ current' = current \ {c}
  /\ UNCHANGED <<time, drafts, promise>>

DraftNext ==
  \/ DraftTime
  \/ \E d \in Draft, p \in Payload :
       CreateDraft(d, p) \/ \E c \in Put : LoadDraft(c, d, p)
  \/ \E c \in Put : WriteDraft(c) \/ AnswerPut(c) \/ CommitPut(c) \/ LosePut(c)

DraftSpec == DraftInit /\ [][DraftNext]_draftVars
-----------------------------------------------------------------------------
\* GET: an expired draft is a 404.
Shown(d) == drafts[d] # NoRow /\ drafts[d].expires > time

\* The clock is read twice, for the row and for the answer: no draft is shown
\* after the latest expiry its clients have been told.
ShownOnlyAsPromised == \A d \in Draft : Shown(d) => time < promise[d]

PutsKeptUnlessOvertaken ==
  \A c \in Put :
    CommitPut(c) => \/ drafts'[put[c].draft].payload = put[c].payload
                    \/ c \notin current /\ put[c].payload = put[c].loaded

\* However PUTs overlap, a PUT that commits leaves the payload it sent, although
\* it writes only what differs from its copy of the row; but for one that sends
\* what it had loaded while another one changed the row: that one leaves the
\* payload of the other.
PutIsKeptUnlessOvertaken == [][PutsKeptUnlessOvertaken]_draftVars
=============================================================================
