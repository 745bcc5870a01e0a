------------------------ MODULE StoredRecordsProofs ------------------------
(***************************************************************************)
(* Drafts, certificates, sealed values and the uptime calendar: what holds *)
(* of the rows that overlapping calls write, for any number of calls and   *)
(* rows.                                                                   *)
(***************************************************************************)
EXTENDS DraftStore, GnkCertificates, PiiKeys, SystemUptime, TLAPS

Row == [payload : Payload, expires : Nat]

\* A PUT is waiting, has loaded the row, or has written it, or has ended.
PutState ==
  {Waiting, PutEnded}
  \cup [step : {"write"}, draft : Draft, payload : Payload, loaded : Payload]
  \cup [step : {"answer", "commit"}, draft : Draft, payload : Payload,
        loaded : Payload, expires : Nat]

DraftTypeOK ==
  /\ time \in Nat
  /\ drafts \in [Draft -> Row \cup {NoRow}]
  /\ put \in [Put -> PutState]
  /\ promise \in [Draft -> Nat]
  /\ current \subseteq Put

\* What is stored, or will be, has been told the clients, or is about to be.
ExpiryIsTold ==
  /\ \A d \in Draft : drafts[d] # NoRow => drafts[d].expires <= promise[d]
  /\ \A c \in Put : /\ put[c].step = "answer" => put[c].expires <= time + Ttl_Days
                    /\ put[c].step = "commit" => put[c].expires <= promise[put[c].draft]

\* Nobody has changed the payload a current PUT has loaded.
LoadedIsCurrent ==
  \A c \in current :
    /\ put[c].step \in {"write", "answer", "commit"}
    /\ drafts[put[c].draft] # NoRow /\ drafts[put[c].draft].payload = put[c].loaded

\* Drafts do not go away: the row of a PUT that found one is there.
DraftsStay ==
  \A c \in Put : put[c].step \in {"write", "answer", "commit"} => drafts[put[c].draft] # NoRow

DraftInv == DraftTypeOK /\ ExpiryIsTold /\ LoadedIsCurrent /\ DraftsStay

\* Telling another expiry never takes one back.
LEMMA ToldGrows ==
  ASSUME DraftTypeOK, NEW d \in Draft, NEW e \in Nat
  PROVE  Told(d, e) \in Nat /\ promise[d] <= Told(d, e) /\ e <= Told(d, e)
  BY DEF DraftTypeOK, Told

LEMMA CreateKeepsInv ==
  ASSUME DraftInv, NEW d \in Draft, NEW p \in Payload, CreateDraft(d, p)
  PROVE  DraftInv'
  <1>t. DraftTypeOK
    BY DEF DraftInv
  <1>1. /\ time + Ttl_Days \in Nat /\ promise' = [promise EXCEPT ![d] = Told(d, time + Ttl_Days)]
        /\ drafts'[d] = DraftRow(p, time + Ttl_Days) /\ drafts'[d] \in Row
    BY <1>t, DraftAssumption DEF CreateDraft, Promised, DraftTypeOK, DraftRow, Row
  <1>2. DraftTypeOK'
    BY <1>t, <1>1, ToldGrows DEF CreateDraft, DraftTypeOK
  <1>3. ExpiryIsTold'
    <2>1. \A e \in Draft : promise[e] <= promise'[e] /\ drafts'[e] # NoRow => drafts'[e].expires <= promise'[e]
      BY <1>t, <1>1, ToldGrows DEF CreateDraft, DraftTypeOK, DraftInv, ExpiryIsTold, DraftRow
    <2>2. \A e \in Draft : promise[e] <= promise'[e]
      BY <1>t, <1>1, ToldGrows DEF DraftTypeOK
    <2>3. \A c \in Put : put[c].step = "commit" => put[c].draft \in Draft /\ put[c].expires \in Nat
      BY <1>t DEF DraftTypeOK, PutState, Waiting, PutEnded
    <2> QED BY <1>t, <2>1, <2>2, <2>3, <1>2 DEF CreateDraft, DraftInv, ExpiryIsTold, DraftTypeOK
  <1>4. LoadedIsCurrent' /\ DraftsStay'
    <2>1. drafts[d] = NoRow /\ drafts'[d] # NoRow /\ put' = put /\ current' = current
      BY <1>1, DraftAssumption DEF CreateDraft, Row
    <2> QED BY <1>t, <2>1 DEF CreateDraft, DraftInv, LoadedIsCurrent, DraftsStay, DraftTypeOK
  <1> QED BY <1>2, <1>3, <1>4 DEF DraftInv

LEMMA LoadKeepsInv ==
  ASSUME DraftInv, NEW c \in Put, NEW d \in Draft, NEW p \in Payload, LoadDraft(c, d, p)
  PROVE  DraftInv'
  <1>t. DraftTypeOK
    BY DEF DraftInv
  <1>1. CASE drafts[d] # NoRow
    <2>1. put' = [put EXCEPT ![c] = [step |-> "write", draft |-> d, payload |-> p,
                                     loaded |-> drafts[d].payload]]
          /\ current' = current \cup {c}
      BY <1>1 DEF LoadDraft
    <2>2. DraftTypeOK'
      BY <1>t, <1>1, <2>1 DEF LoadDraft, DraftTypeOK, PutState, Row
    <2>3. ExpiryIsTold' /\ LoadedIsCurrent' /\ DraftsStay'
      BY <1>t, <1>1, <2>1 DEF LoadDraft, DraftTypeOK, DraftInv, ExpiryIsTold, LoadedIsCurrent, DraftsStay
    <2> QED BY <2>2, <2>3 DEF DraftInv
  <1>2. CASE drafts[d] = NoRow
    <2>1. put' = [put EXCEPT ![c] = PutEnded] /\ current' = current /\ put[c].step = "new"
      BY <1>2 DEF LoadDraft, Waiting
    <2>2. DraftTypeOK'
      BY <1>t, <2>1 DEF LoadDraft, DraftTypeOK, PutState
    <2>3. ExpiryIsTold' /\ LoadedIsCurrent' /\ DraftsStay'
      BY <1>t, <2>1 DEF LoadDraft, DraftTypeOK, DraftInv, ExpiryIsTold, LoadedIsCurrent, DraftsStay, PutEnded
    <2> QED BY <2>2, <2>3 DEF DraftInv
  <1> QED BY <1>1, <1>2

LEMMA WriteKeepsInv ==
  ASSUME DraftInv, NEW c \in Put, WriteDraft(c)
  PROVE  DraftInv'
  <1>t. DraftTypeOK
    BY DEF DraftInv
  <1>1. put[c] \in [step : {"write"}, draft : Draft, payload : Payload, loaded : Payload]
    BY <1>t DEF WriteDraft, DraftTypeOK, PutState, Waiting, PutEnded
  <1>2. time + Ttl_Days \in Nat
    BY <1>t, DraftAssumption DEF DraftTypeOK
  <1>3. DraftTypeOK'
    BY <1>t, <1>1, <1>2 DEF WriteDraft, DraftTypeOK, PutState
  <1>4. ExpiryIsTold' /\ LoadedIsCurrent' /\ DraftsStay'
    BY <1>t, <1>2 DEF WriteDraft, DraftTypeOK, DraftInv, ExpiryIsTold, LoadedIsCurrent, DraftsStay
  <1> QED BY <1>3, <1>4 DEF DraftInv

LEMMA AnswerKeepsInv ==
  ASSUME DraftInv, NEW c \in Put, AnswerPut(c)
  PROVE  DraftInv'
  <1>t. DraftTypeOK
    BY DEF DraftInv
  <1>1. put[c] \in [step : {"answer"}, draft : Draft, payload : Payload,
                    loaded : Payload, expires : Nat]
    BY <1>t DEF AnswerPut, DraftTypeOK, PutState, Waiting, PutEnded
  <1>2. /\ time + Ttl_Days \in Nat /\ put[c].expires <= time + Ttl_Days
        /\ promise' = [promise EXCEPT ![put[c].draft] = Told(put[c].draft, time + Ttl_Days)]
    BY <1>t, DraftAssumption DEF AnswerPut, Promised, DraftTypeOK, DraftInv, ExpiryIsTold
  <1>3. DraftTypeOK'
    BY <1>t, <1>1, <1>2, ToldGrows DEF AnswerPut, DraftTypeOK, PutState
  <1>4. ExpiryIsTold'
    <2>1. \A d \in Draft : promise[d] <= promise'[d] /\ promise[d] \in Nat /\ promise'[d] \in Nat
      BY <1>t, <1>1, <1>2, ToldGrows DEF DraftTypeOK
    <2>2. \A d \in Draft : drafts'[d] # NoRow => drafts'[d].expires <= promise'[d]
      BY <1>t, <2>1 DEF AnswerPut, DraftTypeOK, Row, DraftInv, ExpiryIsTold
    <2>3. put'[c].step = "commit" /\ put'[c].expires <= promise'[put'[c].draft]
      BY <1>t, <1>1, <1>2, ToldGrows DEF AnswerPut, DraftTypeOK
    <2>4. ASSUME NEW q \in Put, q # c
          PROVE  /\ put'[q].step = "answer" => put'[q].expires <= time' + Ttl_Days
                 /\ put'[q].step = "commit" => put'[q].expires <= promise'[put'[q].draft]
      <3>1. put'[q] = put[q] /\ time' = time
        BY <1>t, <2>4 DEF AnswerPut, DraftTypeOK
      <3>2. put[q].step = "commit" => put[q].draft \in Draft /\ put[q].expires \in Nat
        BY <1>t DEF DraftTypeOK, PutState, Waiting, PutEnded
      <3> QED BY <3>1, <3>2, <2>1 DEF DraftInv, ExpiryIsTold
    <2> QED BY <2>2, <2>3, <2>4 DEF ExpiryIsTold
  <1>5. LoadedIsCurrent' /\ DraftsStay'
    BY <1>t, <1>1 DEF AnswerPut, DraftTypeOK, DraftInv, LoadedIsCurrent, DraftsStay
  <1> QED BY <1>3, <1>4, <1>5 DEF DraftInv

LEMMA CommitKeepsInv ==
  ASSUME DraftInv, NEW c \in Put, CommitPut(c)
  PROVE  DraftInv'
  <1>t. DraftTypeOK
    BY DEF DraftInv
  <1> DEFINE d == put[c].draft
             text == IF PayloadWritten(c) THEN put[c].payload ELSE drafts[d].payload
  <1>1. put[c] \in [step : {"commit"}, draft : Draft, payload : Payload,
                    loaded : Payload, expires : Nat]
    BY <1>t DEF CommitPut, DraftTypeOK, PutState, Waiting, PutEnded
  <1>2. /\ drafts' = [drafts EXCEPT ![d] = DraftRow(text, put[c].expires)]
        /\ put' = [put EXCEPT ![c] = PutEnded] /\ time' = time /\ promise' = promise
        /\ current' = {q \in current \ {c} : put[q].draft # d}
    BY DEF CommitPut
  <1>3. drafts[d] \in Row /\ text \in Payload
    BY <1>t, <1>1 DEF DraftTypeOK, DraftInv, DraftsStay, Row
  <1>4. drafts'[d] \in Row /\ drafts'[d] # NoRow /\ drafts'[d].payload = text
        /\ drafts'[d].expires = put[c].expires
    BY <1>t, <1>1, <1>2, <1>3, DraftAssumption DEF DraftTypeOK, DraftRow, Row
  <1>5. DraftTypeOK'
    BY <1>t, <1>1, <1>2, <1>4 DEF DraftTypeOK, PutState
  <1>6. ExpiryIsTold'
    BY <1>t, <1>1, <1>2, <1>4 DEF DraftTypeOK, DraftInv, ExpiryIsTold, PutEnded
  <1>7. LoadedIsCurrent' /\ DraftsStay'
    BY <1>t, <1>1, <1>2, <1>4 DEF DraftTypeOK, DraftInv, LoadedIsCurrent, DraftsStay, PutEnded
  <1> QED BY <1>5, <1>6, <1>7 DEF DraftInv

\* The payload left out of the UPDATE is the one loaded, which is that of the row
\* unless another PUT overtook.
LEMMA CommitKeepsPayload ==
  ASSUME DraftInv, NEW c \in Put, CommitPut(c)
  PROVE  \/ drafts'[put[c].draft].payload = put[c].payload
         \/ c \notin current /\ put[c].payload = put[c].loaded
  <1>t. DraftTypeOK
    BY DEF DraftInv
  <1> DEFINE d == put[c].draft
  <1>1. put[c] \in [step : {"commit"}, draft : Draft, payload : Payload,
                    loaded : Payload, expires : Nat]
    BY <1>t DEF CommitPut, DraftTypeOK, PutState, Waiting, PutEnded
  <1>2. drafts'[d].payload = IF PayloadWritten(c) THEN put[c].payload ELSE drafts[d].payload
    BY <1>t, <1>1 DEF CommitPut, DraftTypeOK, DraftRow
  <1>3. CASE PayloadWritten(c)
    BY <1>2, <1>3
  <1>4. CASE ~PayloadWritten(c) /\ c \in current
    <2>1. drafts[d].payload = put[c].loaded
      BY <1>1, <1>4 DEF DraftInv, LoadedIsCurrent
    <2> QED BY <1>2, <1>4, <2>1 DEF PayloadWritten
  <1>5. CASE ~PayloadWritten(c) /\ c \notin current
    BY <1>5 DEF PayloadWritten
  <1> QED BY <1>3, <1>4, <1>5

LEMMA LoseKeepsInv ==
  ASSUME DraftInv, NEW c \in Put, LosePut(c)
  PROVE  DraftInv'
  <1>t. DraftTypeOK
    BY DEF DraftInv
  <1>1. DraftTypeOK'
    BY <1>t DEF LosePut, DraftTypeOK, PutState
  <1>2. ExpiryIsTold' /\ LoadedIsCurrent' /\ DraftsStay'
    BY <1>t DEF LosePut, DraftTypeOK, DraftInv, ExpiryIsTold, LoadedIsCurrent, DraftsStay, PutEnded
  <1> QED BY <1>1, <1>2 DEF DraftInv

LEMMA DraftInitInv == DraftInit => DraftInv
  <1> SUFFICES ASSUME DraftInit PROVE DraftInv
    OBVIOUS
  <1>1. DraftTypeOK
    BY DEF DraftInit, DraftTypeOK, PutState
  <1>2. ExpiryIsTold /\ LoadedIsCurrent /\ DraftsStay
    BY DEF DraftInit, ExpiryIsTold, LoadedIsCurrent, DraftsStay, Waiting
  <1> QED BY <1>1, <1>2 DEF DraftInv

LEMMA DraftStepInv == DraftInv /\ [DraftNext]_draftVars => DraftInv'
  <1> SUFFICES ASSUME DraftInv, [DraftNext]_draftVars PROVE DraftInv'
    OBVIOUS
  <1>t. DraftTypeOK
    BY DEF DraftInv
  <1>1. CASE DraftTime
    <2>1. DraftTypeOK' /\ time' = time + 1 /\ UNCHANGED <<drafts, put, promise, current>>
      BY <1>t, <1>1 DEF DraftTime, DraftTypeOK
    <2>2. \A c \in Put : put[c].step = "answer" => put[c].expires \in Nat
      BY <1>t DEF DraftTypeOK, PutState, Waiting, PutEnded
    <2>3. ExpiryIsTold'
      BY <1>t, <2>1, <2>2, DraftAssumption DEF DraftInv, ExpiryIsTold, DraftTypeOK
    <2>4. LoadedIsCurrent' /\ DraftsStay'
      BY <2>1 DEF DraftInv, LoadedIsCurrent, DraftsStay
    <2> QED BY <2>1, <2>3, <2>4 DEF DraftInv
  <1>2. ASSUME NEW d \in Draft, NEW p \in Payload,
               CreateDraft(d, p) \/ \E c \in Put : LoadDraft(c, d, p)
        PROVE  DraftInv'
    BY <1>2, CreateKeepsInv, LoadKeepsInv
  <1>3. ASSUME NEW c \in Put, WriteDraft(c) \/ AnswerPut(c) \/ CommitPut(c) \/ LosePut(c)
        PROVE  DraftInv'
    BY <1>3, WriteKeepsInv, AnswerKeepsInv, CommitKeepsInv, LoseKeepsInv
  <1>4. CASE UNCHANGED draftVars
    BY <1>4 DEF draftVars, DraftInv, DraftTypeOK, ExpiryIsTold, LoadedIsCurrent, DraftsStay
  <1> QED BY <1>1, <1>2, <1>3, <1>4 DEF DraftNext

LEMMA DraftInvariant == DraftSpec => []DraftInv
  BY DraftStepInv, DraftInitInv, PTL DEF DraftSpec

\* DraftStore: however many PUTs overlap, no draft is shown after the latest
\* expiry its clients have been told, although the clock is read twice.
THEOREM DraftsExpireAsTold == DraftSpec => []ShownOnlyAsPromised
  <1>1. DraftInv => ShownOnlyAsPromised
    BY DEF DraftInv, DraftTypeOK, ExpiryIsTold, ShownOnlyAsPromised, Shown, Row
  <1> QED BY <1>1, DraftInvariant, PTL

\* DraftStore: however many PUTs overlap, one that commits leaves the payload it
\* sent, unless it was overtaken and sends what it had loaded.
THEOREM OnlyOvertakenPutsAreLost == DraftSpec => PutIsKeptUnlessOvertaken
  <1>1. DraftInv /\ [DraftNext]_draftVars => [PutsKeptUnlessOvertaken]_draftVars
    BY CommitKeepsPayload DEF PutsKeptUnlessOvertaken
  <1> QED BY <1>1, DraftInvariant, PTL DEF DraftSpec, PutIsKeptUnlessOvertaken
-----------------------------------------------------------------------------
UploadRow == [id : Upload, inn : Borrower, uploaded : Nat]

GnkTypeOK ==
  /\ instant \in Nat
  /\ certificates \subseteq UploadRow
  /\ upload \in [Upload -> [step : {"new", "insert", "commit", "done"}, inn : Borrower,
                            flaws : SUBSET Flaw, uploaded : Nat]]
  /\ shown \in [Borrower -> SUBSET UploadRow]

\* What the last GET has shown is one row of that borrower.
ShownIsStored ==
  \A b \in Borrower : shown[b] \subseteq Of(b) /\ \A q, r \in shown[b] : q = r

GnkInv == GnkTypeOK /\ ShownIsStored

LEMMA GnkStepInv == GnkInv /\ [GnkNext]_gnkVars => GnkInv'
  <1> SUFFICES ASSUME GnkInv, [GnkNext]_gnkVars PROVE GnkInv'
    OBVIOUS
  <1>t. GnkTypeOK
    BY DEF GnkInv
  <1>1. CASE GnkTick
    BY <1>1 DEF GnkTick, GnkInv, GnkTypeOK, ShownIsStored, Of
  <1>2. ASSUME NEW b \in Borrower, ShowLatest(b) PROVE GnkInv'
    BY <1>2 DEF ShowLatest, Latest, GnkInv, GnkTypeOK, ShownIsStored, Of
  <1>3. ASSUME NEW b \in Borrower, NEW u \in Upload, NEW flaws \in SUBSET Flaw,
               ReceiveUpload(u, b, flaws)
        PROVE  GnkInv'
    BY <1>3 DEF ReceiveUpload, UploadForm, GnkInv, GnkTypeOK, ShownIsStored, Of
  <1>4. ASSUME NEW u \in Upload, InsertCertificate(u) PROVE GnkInv'
    BY <1>4 DEF InsertCertificate, GnkInv, GnkTypeOK, ShownIsStored, Of
  <1>5. ASSUME NEW u \in Upload, CommitUpload(u) PROVE GnkInv'
    <2>1. CertificateRow(u) \in UploadRow
      BY <1>t DEF GnkTypeOK, CertificateRow, UploadRow
    <2>2. GnkTypeOK'
      BY <1>5, <1>t, <2>1 DEF CommitUpload, GnkTypeOK
    <2>3. ShownIsStored'
      BY <1>5 DEF CommitUpload, GnkInv, ShownIsStored, Of
    <2> QED BY <2>2, <2>3 DEF GnkInv
  <1>6. ASSUME NEW u \in Upload, LoseUpload(u) PROVE GnkInv'
    BY <1>6 DEF LoseUpload, GnkInv, GnkTypeOK, ShownIsStored, Of
  <1>7. CASE UNCHANGED gnkVars
    BY <1>7 DEF gnkVars, GnkInv, GnkTypeOK, ShownIsStored, Of
  <1> QED BY <1>1, <1>2, <1>3, <1>4, <1>5, <1>6, <1>7 DEF GnkNext

LEMMA GnkInvariant == GnkSpec => []GnkInv
  <1>1. GnkInit => GnkInv
    BY DEF GnkInit, UploadForm, GnkInv, GnkTypeOK, ShownIsStored
  <1> QED BY <1>1, GnkStepInv, PTL DEF GnkSpec

\* GnkCertificates: in whatever order uploads commit, GET never goes back to an
\* older certificate of a borrower.
THEOREM NewestStaysNewest == GnkSpec => LatestNeverGoesBack
  <1>1. GnkInv /\ [GnkNext]_gnkVars => [ShownGrowsNewer]_gnkVars
    <2> SUFFICES ASSUME GnkInv, GnkNext, NEW b \in Borrower, NEW q \in shown[b], NEW r \in shown'[b]
                 PROVE  q.uploaded <= r.uploaded
      BY DEF ShownGrowsNewer, gnkVars
    <2>1. q \in Of(b) /\ q.uploaded \in Nat
      BY DEF GnkInv, GnkTypeOK, ShownIsStored, UploadRow
    <2>2. CASE shown' = shown
      BY <2>1, <2>2 DEF GnkInv, ShownIsStored
    <2>3. ASSUME NEW a \in Borrower, ShowLatest(a) PROVE q.uploaded <= r.uploaded
      <3>1. CASE a = b
        BY <2>1, <2>3, <3>1 DEF ShowLatest, Latest, GnkInv, GnkTypeOK
      <3>2. CASE a # b
        BY <2>1, <2>3, <3>2 DEF ShowLatest, GnkInv, GnkTypeOK, ShownIsStored
      <3> QED BY <3>1, <3>2
    <2> QED BY <2>2, <2>3 DEF GnkNext, GnkTick, ReceiveUpload, InsertCertificate, CommitUpload, LoseUpload
  <1> QED BY <1>1, GnkInvariant, PTL DEF GnkSpec, LatestNeverGoesBack
-----------------------------------------------------------------------------
Seals == {<<>>, <<"old">>, <<"new">>}

PiiTypeOK ==
  /\ phase \in {"old", "both", "downgrade", "down", "upgrade", "up", "new"}
  /\ cells \in [Cell -> [text : Text, keys : Seals]]
  /\ copy \in [Cell -> [text : Text, keys : Seals]]
  /\ loaded \in [Worker -> {<<"old">>, <<"new", "old">>, <<"new">>}]

\* The keys of the deployment and of its workers at each step.
KeysOfPhase ==
  /\ keyring = CASE phase = "old" -> <<"old">>
                 [] phase = "new" -> <<"new">>
                 [] OTHER -> <<"new", "old">>
  /\ \A w \in Worker :
       /\ phase = "old" => loaded[w] = <<"old">>
       /\ phase = "both" => loaded[w] \in {<<"old">>, <<"new", "old">>}
       /\ phase \in {"downgrade", "down", "upgrade", "up"} => loaded[w] = <<"new", "old">>
       /\ phase = "new" => loaded[w] \in {<<"new", "old">>, <<"new">>}

\* How values are sealed at each step: none with the old key once the
\* downgrade is done, none open once the upgrade is.  While a migration runs a
\* row is as it was read or was written since, with the new key.
SealsOfPhase ==
  /\ phase \in {"downgrade", "upgrade"} =>
       \A c \in Cell : cells[c] = copy[c] \/ cells[c].keys = <<"new">>
  /\ phase \in {"down", "upgrade"} => \A c \in Cell : cells[c].keys # <<"old">>
  /\ phase = "upgrade" => \A c \in Cell : copy[c].keys # <<"old">>
  /\ phase \in {"up", "new"} => \A c \in Cell : cells[c].keys = <<"new">>

PiiInv == PiiTypeOK /\ KeysOfPhase /\ SealsOfPhase

\* The three key lists write with their first key and are different.
LEMMA KeyLists ==
  /\ Head(<<"old">>) = "old" /\ Head(<<"new">>) = "new" /\ Head(<<"new", "old">>) = "new"
  /\ <<"old">> # <<"new", "old">> /\ <<"new">> # <<"new", "old">> /\ <<"old">> # <<"new">>
  /\ <<>> # <<"old">> /\ <<>> # <<"new">>
  /\ <<"new", "old">>[1] = "new"
  OBVIOUS

\* Both keys open whatever is sealed at most once, the new one what it sealed.
LEMMA KeysOpen ==
  ASSUME NEW cell, cell.keys \in Seals
  PROVE  /\ Opens(<<"new", "old">>, cell)
         /\ cell.keys = <<"new">> => Opens(<<"new">>, cell)
  <1>1. CASE cell.keys = <<>>
    BY <1>1, KeyLists DEF Opens
  <1>2. CASE cell.keys = <<"old">>
    BY <1>2, KeyLists DEF Opens
  <1>3. CASE cell.keys = <<"new">>
    BY <1>3 DEF Opens
  <1> QED BY <1>1, <1>2, <1>3 DEF Seals

LEMMA PiiInitInv == PiiInit => PiiInv
  <1> SUFFICES ASSUME PiiInit PROVE PiiInv
    OBVIOUS
  <1>1. PICK t \in Text, k \in {<<>>, <<"old">>} : cells = [c \in Cell |-> Sealed(t, k)]
    BY DEF PiiInit
  <1>2. PiiTypeOK
    BY <1>1 DEF PiiInit, PiiTypeOK, Sealed, Seals
  <1>3. KeysOfPhase /\ SealsOfPhase
    BY DEF PiiInit, KeysOfPhase, SealsOfPhase
  <1> QED BY <1>2, <1>3 DEF PiiInv

LEMMA RestartKeepsInv ==
  ASSUME PiiInv, NEW w \in Worker, Restart(w)
  PROVE  PiiInv'
  <1>1. PiiTypeOK'
    BY DEF Restart, PiiInv, PiiTypeOK, KeysOfPhase
  <1>2. KeysOfPhase'
    BY DEF Restart, PiiInv, PiiTypeOK, KeysOfPhase
  <1>3. SealsOfPhase'
    BY DEF Restart, PiiInv, SealsOfPhase
  <1> QED BY <1>1, <1>2, <1>3 DEF PiiInv

LEMMA WriteCellKeepsInv ==
  ASSUME PiiInv, NEW w \in Worker, NEW c \in Cell, NEW t \in Text, WriteCell(w, c, t)
  PROVE  PiiInv'
  <1>t. PiiTypeOK
    BY DEF PiiInv
  <1>1. /\ Head(loaded[w]) \in {"old", "new"}
        /\ phase \notin {"old", "both"} => Head(loaded[w]) = "new"
    BY KeyLists DEF PiiInv, PiiTypeOK, KeysOfPhase
  <1>2. /\ cells'[c].keys = <<Head(loaded[w])>> /\ cells'[c] \in [text : Text, keys : Seals]
        /\ \A d \in Cell \ {c} : cells'[d] = cells[d]
    BY <1>t, <1>1 DEF WriteCell, PiiTypeOK, Sealed, Seals
  <1>3. PiiTypeOK'
    BY <1>t, <1>1 DEF WriteCell, PiiTypeOK, Sealed, Seals
  <1>4. KeysOfPhase'
    BY DEF WriteCell, PiiInv, KeysOfPhase
  <1>5. SealsOfPhase'
    BY <1>1, <1>2, KeyLists DEF WriteCell, PiiInv, SealsOfPhase
  <1> QED BY <1>3, <1>4, <1>5 DEF PiiInv

LEMMA AddKeyKeepsInv == PiiInv /\ AddKey => PiiInv'
  <1> SUFFICES ASSUME PiiInv, AddKey PROVE PiiInv'
    OBVIOUS
  <1> QED BY DEF AddKey, PiiInv, PiiTypeOK, KeysOfPhase, SealsOfPhase

LEMMA DropKeyKeepsInv == PiiInv /\ DropOldKey => PiiInv'
  <1> SUFFICES ASSUME PiiInv, DropOldKey PROVE PiiInv'
    OBVIOUS
  <1> QED BY DEF DropOldKey, PiiInv, PiiTypeOK, KeysOfPhase, SealsOfPhase

\* The migration starts only when every worker writes with the new key.
LEMMA ReadsKeepInv == PiiInv /\ MigrationReads => PiiInv'
  <1> SUFFICES ASSUME PiiInv, MigrationReads PROVE PiiInv'
    OBVIOUS
  <1>1. PiiTypeOK'
    BY DEF MigrationReads, PiiInv, PiiTypeOK
  <1>2. KeysOfPhase'
    BY DEF MigrationReads, PiiInv, KeysOfPhase
  <1>3. SealsOfPhase'
    BY DEF MigrationReads, PiiInv, SealsOfPhase
  <1> QED BY <1>1, <1>2, <1>3 DEF PiiInv

\* A migration that does reach the encrypting one opens what it read, and then
\* seals it, except where a worker has written since.
LEMMA WritesKeepInv ==
  ASSUME PiiInv, MigrationWrites, Down > Later
  PROVE  PiiInv'
  <1>t. PiiTypeOK
    BY DEF PiiInv
  <1>1. /\ cells' = Rewritten /\ keyring' = keyring /\ loaded' = loaded /\ copy' = copy
        /\ phase \in {"downgrade", "upgrade"}
        /\ phase' = IF phase = "downgrade" THEN "down" ELSE "up"
    BY PiiAssumption DEF MigrationWrites
  <1>2. keyring[1] = "new"
    BY <1>1, KeyLists DEF PiiInv, KeysOfPhase
  <1>3. ASSUME NEW c \in Cell
        PROVE  /\ cells'[c] \in [text : Text, keys : Seals]
               /\ phase = "downgrade" => cells'[c].keys \in {<<>>, <<"new">>}
               /\ phase = "upgrade" => cells'[c].keys = <<"new">>
    <2>1. /\ cells[c] \in [text : Text, keys : Seals] /\ copy[c] \in [text : Text, keys : Seals]
          /\ cells[c] = copy[c] \/ cells[c].keys = <<"new">>
          /\ phase = "upgrade" => copy[c].keys # <<"old">>
      BY <1>t, <1>1 DEF PiiTypeOK, PiiInv, SealsOfPhase
    <2>2. cells'[c] = IF Target(copy[c]) = copy[c] THEN cells[c] ELSE Target(copy[c])
      BY <1>1 DEF Rewritten
    <2>3. CASE phase = "downgrade"
      <3>1. Target(copy[c]) = [text |-> copy[c].text, keys |-> <<>>]
        BY <2>3 DEF Target, Decrypted, Sealed
      <3> QED BY <2>1, <2>2, <2>3, <3>1, KeyLists DEF Seals
    <2>4. CASE phase = "upgrade"
      <3>1. Target(copy[c]) = IF copy[c].keys = <<>> THEN [text |-> copy[c].text, keys |-> <<"new">>]
                                                     ELSE copy[c]
        BY <1>2, <2>4 DEF Target, Encrypted, Sealed
      <3> QED BY <2>1, <2>2, <2>4, <3>1, KeyLists DEF Seals
    <2> QED BY <1>1, <2>3, <2>4
  <1>4. PiiTypeOK'
    BY <1>t, <1>1, <1>3 DEF PiiTypeOK, Rewritten
  <1>5. KeysOfPhase'
    BY <1>1 DEF PiiInv, KeysOfPhase
  <1>6. SealsOfPhase'
    BY <1>1, <1>3, KeyLists DEF SealsOfPhase
  <1> QED BY <1>4, <1>5, <1>6 DEF PiiInv

\* PiiKeys: when the operator takes back enough migrations to reach the
\* encrypting one, every worker with the keys of the deployment opens every row
\* throughout the rotation.  (The runbook takes back one, which is not enough.)
THEOREM RotationKeepsRowsReadable ==
  ASSUME Down > Later
  PROVE  PiiSpec => []RowsStayReadable
  <1>1. PiiInv /\ [PiiNext]_piiVars => PiiInv'
    <2> SUFFICES ASSUME PiiInv, [PiiNext]_piiVars PROVE PiiInv'
      OBVIOUS
    <2>1. CASE UNCHANGED piiVars
      BY <2>1 DEF piiVars, PiiInv, PiiTypeOK, KeysOfPhase, SealsOfPhase
    <2> QED
      BY <2>1, RestartKeepsInv, WriteCellKeepsInv, AddKeyKeepsInv, DropKeyKeepsInv,
         ReadsKeepInv, WritesKeepInv DEF PiiNext
  <1>2. PiiInv => RowsStayReadable
    <2> SUFFICES ASSUME PiiInv, phase # "old", NEW w \in Worker, loaded[w] = keyring, NEW c \in Cell
                 PROVE  Opens(keyring, cells[c])
      BY DEF RowsStayReadable
    <2>1. cells[c].keys \in Seals
      BY DEF PiiInv, PiiTypeOK
    <2>2. CASE phase = "new"
      BY <2>1, <2>2, KeysOpen DEF PiiInv, KeysOfPhase, SealsOfPhase
    <2>3. CASE phase # "new"
      BY <2>1, <2>3, KeysOpen DEF PiiInv, KeysOfPhase
    <2> QED BY <2>2, <2>3
  <1> QED BY <1>1, <1>2, PiiInitInv, PTL DEF PiiSpec
-----------------------------------------------------------------------------
(* The uptime calendar.                                                    *)

LEMMA RankFacts ==
  /\ DOMAIN Rank = {"none", "ok", "degraded", "down"}
  /\ Rank["none"] = 0 /\ Rank["ok"] = 1 /\ Rank["degraded"] = 2 /\ Rank["down"] = 3
  BY DEF Rank

\* A probe finds one of the three statuses, never "none".
LEMMA WorstIsStatus ==
  ASSUME NEW up, NEW loads
  PROVE  Worst(up, loads) \in {"ok", "degraded", "down"}
  BY DEF Worst

\* The value of every probe outside a transaction is a legal local state.
LEMMA OutsideIsLocal ==
  ASSUME NEW at \in {"idle", "read", "write", "commit", "done"}
  PROVE  Outside(at) \in [at : {"idle", "read", "write", "commit", "done"},
                          status : DOMAIN Rank, usable : BOOLEAN,
                          date : Days, seen : DOMAIN Rank]
  BY UptimeAssumption, RankFacts DEF Outside, Local, Days

LEMMA UptimeInitInv == UptimeInit => UptimeInv
  <1> SUFFICES ASSUME UptimeInit PROVE UptimeInv
    OBVIOUS
  <1> USE DEF UptimeInit
  <1>0. \A p \in Prober : tx[p] = Outside("idle")
    BY DEF Prober
  <1>1. UptimeTypeOK
    <2>1. 0 \in Days
      BY UptimeAssumption DEF Days
    <2>2. tx \in [Prober -> [at : {"idle", "read", "write", "commit", "done"},
                            status : DOMAIN Rank, usable : BOOLEAN,
                            date : Days, seen : DOMAIN Rank]]
      BY OutsideIsLocal
    <2> QED BY <2>1, <2>2, RankFacts DEF UptimeTypeOK
  <1>2. ProbersKnow /\ OneWritesEachDay
    BY <1>0 DEF ProbersKnow, OneWritesEachDay, InTransaction, Outside, Local
  <1> QED BY <1>1, <1>2 DEF UptimeInv

\* Closing a transaction leaves well-typed probers.
LEMMA CloseType ==
  ASSUME UptimeTypeOK, NEW p \in Prober, Close(p)
  PROVE  /\ tx' \in [Prober -> [at : {"idle", "read", "write", "commit", "done"},
                                status : DOMAIN Rank, usable : BOOLEAN,
                                date : Days, seen : DOMAIN Rank]]
         /\ reported' \in [Health -> DOMAIN Rank]
  BY OutsideIsLocal DEF UptimeTypeOK, Close, Answered, Prober

\* Only the prober that closes is changed, and it is outside afterwards.
LEMMA CloseLeavesOthers ==
  ASSUME UptimeTypeOK, NEW p \in Prober, Close(p), NEW q \in Prober
  PROVE  \/ tx'[q] = tx[q]
         \/ tx'[q].at \in {"idle", "done"} /\ tx'[q].status = "none" /\ tx'[q].seen = "none"
  BY DEF UptimeTypeOK, Close, Outside, Local

\* What a commit leaves is the status of a probe.
LEMMA EndWritesStatus ==
  ASSUME UptimeTypeOK, NEW p \in Prober, EndProbe(p)
  PROVE  uptime' \in [Days -> DOMAIN Rank]
  BY DEF UptimeTypeOK, EndProbe

\* The commit of a probe writes what is worse than the row it read, so that
\* only one that read ok can make a status better, and then it writes degraded.
LEMMA EndDeescalatesOnOkAlone ==
  ASSUME UptimeInv, NEW p \in Prober, EndProbe(p), NEW d \in Days, GetsBetter(d)
  PROVE  OvertakenProbersWrite(d)
  <1>1. uptime[d] \in DOMAIN Rank /\ uptime' \in [Days -> DOMAIN Rank]
    BY EndWritesStatus DEF UptimeInv, UptimeTypeOK
  <1>2. /\ d = tx[p].date /\ uptime'[d] = tx[p].status /\ tx[p].at = "commit"
        /\ Rank[tx[p].status] > Rank[tx[p].seen]
    BY RankFacts, <1>1 DEF GetsBetter, EndProbe, Escalates, UptimeInv, UptimeTypeOK
  <1>3. tx[p].status \in {"ok", "degraded", "down"} /\ tx[p].seen \in DOMAIN Rank
    BY <1>2, RankFacts DEF UptimeInv, UptimeTypeOK, ProbersKnow, InTransaction
  <1>4. tx[p].seen # "none"
    BY <1>1, <1>2, <1>3, RankFacts DEF GetsBetter, UptimeInv, ProbersKnow
  <1>5. Rank[tx[p].status] < Rank[uptime[d]]
    BY <1>2 DEF GetsBetter
  <1>6. tx[p].seen = "ok" /\ tx[p].status = "degraded" /\ uptime[d] = "down"
    BY <1>1, <1>2, <1>3, <1>4, <1>5, RankFacts
  <1> QED BY <1>2, <1>6 DEF OvertakenProbersWrite

LEMMA UptimeStepInv == UptimeInv /\ [UptimeNext]_uptimeVars => UptimeInv'
  <1> SUFFICES ASSUME UptimeInv, [UptimeNext]_uptimeVars PROVE UptimeInv'
    OBVIOUS
  <1>t. UptimeTypeOK /\ ProbersKnow /\ OneWritesEachDay
    BY DEF UptimeInv
  <1>1. CASE StartServer
    BY <1>1, <1>t DEF StartServer, UptimeInv, UptimeTypeOK, ProbersKnow, OneWritesEachDay, InTransaction
  <1>2. CASE EngineLoads
    BY <1>2, <1>t DEF EngineLoads, UptimeInv, UptimeTypeOK, ProbersKnow, OneWritesEachDay, InTransaction
  <1>3. CASE PostgresChanges
    <2>1. UptimeTypeOK'
      BY <1>3, <1>t DEF PostgresChanges, UptimeTypeOK
    <2>2. \A q \in Prober : tx'[q].at = tx[q].at /\ tx'[q].status = tx[q].status
                            /\ tx'[q].date = tx[q].date /\ tx'[q].seen = tx[q].seen
      BY <1>3, <1>t DEF PostgresChanges, UptimeTypeOK
    <2>3. uptime' = uptime
      BY <1>3 DEF PostgresChanges
    <2>4. ProbersKnow' /\ OneWritesEachDay'
      BY <2>2, <2>3, <1>t DEF ProbersKnow, OneWritesEachDay, InTransaction
    <2> QED BY <2>1, <2>4 DEF UptimeInv
  <1>4. CASE NextDate
    BY <1>4, <1>t, UptimeAssumption DEF NextDate, UptimeInv, UptimeTypeOK, ProbersKnow, OneWritesEachDay, InTransaction, Days
  <1>5. CASE StopServer
    <2>1. UptimeTypeOK'
      BY <1>5, <1>t, OutsideIsLocal DEF StopServer, UptimeTypeOK
    <2>2. uptime' = uptime /\ \A q \in Prober : tx'[q].at \in {"idle", "done"} /\ tx'[q].seen = "none"
      BY <1>5, <1>t DEF StopServer, UptimeTypeOK, Outside, Local
    <2>3. ProbersKnow' /\ OneWritesEachDay'
      BY <2>2 DEF ProbersKnow, OneWritesEachDay, InTransaction
    <2> QED BY <2>1, <2>3 DEF UptimeInv
  <1>6. ASSUME NEW p \in Prober, Measure(p) PROVE UptimeInv'
    <2>1. PICK u \in BOOLEAN :
            tx' = [tx EXCEPT ![p] = Local("read", Worst(postgres, engine), u, 0, "none")]
      BY <1>6 DEF Measure
    <2>2. UptimeTypeOK'
      BY <2>1, <1>6, <1>t, WorstIsStatus, RankFacts, UptimeAssumption
      DEF Measure, Local, UptimeTypeOK, Days
    <2>3. ProbersKnow' /\ OneWritesEachDay'
      BY <2>1, <1>6, <1>t, WorstIsStatus
      DEF Measure, Local, ProbersKnow, OneWritesEachDay, InTransaction, UptimeTypeOK
    <2> QED BY <2>2, <2>3 DEF UptimeInv
  <1>7. ASSUME NEW p \in Prober, ReadRow(p) PROVE UptimeInv'
    <2>1. CASE tx' = [tx EXCEPT ![p] = Local("write", @.status, TRUE, date, uptime[date])]
                 /\ UNCHANGED reported
      <3>1. UptimeTypeOK'
        BY <2>1, <1>7, <1>t DEF ReadRow, Local, UptimeTypeOK
      <3>2. ProbersKnow' /\ OneWritesEachDay'
        BY <2>1, <1>7, <1>t DEF ReadRow, Local, ProbersKnow, OneWritesEachDay, InTransaction, UptimeTypeOK
      <3> QED BY <3>1, <3>2 DEF UptimeInv
    <2>2. CASE Abandon(p)
      <3>1. UptimeTypeOK'
        BY <2>2, <1>7, <1>t, CloseType DEF ReadRow, Abandon, UptimeTypeOK
      <3>2. ProbersKnow' /\ OneWritesEachDay'
        BY <2>2, <1>7, <1>t, CloseLeavesOthers DEF ReadRow, Abandon, ProbersKnow, OneWritesEachDay, InTransaction
      <3> QED BY <3>1, <3>2 DEF UptimeInv
    <2> QED BY <1>7, <2>1, <2>2 DEF ReadRow
  <1>8. ASSUME NEW p \in Prober, WriteRow(p) PROVE UptimeInv'
    <2>1. CASE ~Collides(p) /\ ~Waits(p) /\ tx' = [tx EXCEPT ![p].at = "commit"] /\ UNCHANGED reported
      <3>1. UptimeTypeOK'
        BY <2>1, <1>8, <1>t DEF WriteRow, UptimeTypeOK
      <3>2. ProbersKnow' /\ OneWritesEachDay'
        BY <2>1, <1>8, <1>t DEF WriteRow, Collides, Waits, ProbersKnow, OneWritesEachDay, InTransaction, UptimeTypeOK
      <3> QED BY <3>1, <3>2 DEF UptimeInv
    <2>2. CASE Abandon(p)
      <3>1. UptimeTypeOK'
        BY <2>2, <1>8, <1>t, CloseType DEF WriteRow, Abandon, UptimeTypeOK
      <3>2. ProbersKnow' /\ OneWritesEachDay'
        BY <2>2, <1>8, <1>t, CloseLeavesOthers DEF WriteRow, Abandon, ProbersKnow, OneWritesEachDay, InTransaction
      <3> QED BY <3>1, <3>2 DEF UptimeInv
    <2> QED BY <1>8, <2>1, <2>2 DEF WriteRow
  <1>9. ASSUME NEW p \in Prober, EndProbe(p) PROVE UptimeInv'
    <2>1. tx[p].at = "commit" /\ Close(p)
      BY <1>9 DEF EndProbe
    <2>2. UptimeTypeOK'
      BY <1>9, <2>1, <1>t, CloseType DEF EndProbe, UptimeTypeOK
    <2>3. ASSUME NEW q \in Prober PROVE (q = p => tx'[q].at # "commit" /\ tx'[q].seen = "none")
      BY <2>1, <1>t DEF UptimeTypeOK, Close, Outside, Local
    <2>4. ASSUME NEW q \in Prober, q # p
          PROVE  /\ tx'[q] = tx[q]
                 /\ tx[q].at = "commit" => uptime'[tx[q].date] = uptime[tx[q].date]
      BY <1>9, <2>1, <2>4, <1>t DEF EndProbe, UptimeTypeOK, Close, OneWritesEachDay
    <2>5. ProbersKnow' /\ OneWritesEachDay'
      BY <1>9, <2>1, <2>3, <2>4, <1>t, CloseLeavesOthers
      DEF ProbersKnow, OneWritesEachDay, InTransaction, UptimeTypeOK
    <2> QED BY <2>2, <2>5 DEF UptimeInv
  <1>10. CASE UNCHANGED uptimeVars
    BY <1>10, <1>t DEF uptimeVars, UptimeInv, UptimeTypeOK, ProbersKnow, OneWritesEachDay, InTransaction
  <1> QED
    BY <1>1, <1>2, <1>3, <1>4, <1>5, <1>6, <1>7, <1>8, <1>9, <1>10
    DEF UptimeNext, ProbeStep

\* The invariant behind the calendar, with its types.
THEOREM UptimeCorrect == UptimeSpec => []UptimeInv
  BY UptimeInitInv, UptimeStepInv, PTL DEF UptimeSpec

\* For any number of overlapping health calls: the status of a day gets better in
\* one way alone, from down to degraded, by a prober that read ok before another
\* one committed the down.
THEOREM DeescalationNeedsStaleOk == UptimeSpec => OnlyStaleOkDeescalates
  <1>1. ASSUME UptimeInv, [UptimeNext]_uptimeVars, NEW d \in Days, GetsBetter(d)
        PROVE  OvertakenProbersWrite(d)
    <2>1. CASE \E p \in Prober : EndProbe(p)
      BY <2>1, <1>1, EndDeescalatesOnOkAlone
    <2>2. CASE ~ \E p \in Prober : EndProbe(p)
      <3>1. uptime' = uptime
        BY <2>2, <1>1 DEF UptimeNext, ProbeStep, StartServer, EngineLoads, PostgresChanges,
             NextDate, StopServer, Measure, ReadRow, WriteRow, uptimeVars
      <3>2. uptime[d] \in DOMAIN Rank
        BY <1>1 DEF UptimeInv, UptimeTypeOK
      <3> QED BY <1>1, <3>1, <3>2, RankFacts DEF GetsBetter
    <2> QED BY <2>1, <2>2
  <1>2. UptimeInv /\ [UptimeNext]_uptimeVars
          => [\A d \in Days : GetsBetter(d) => OvertakenProbersWrite(d)]_uptimeVars
    BY <1>1
  <1> QED BY <1>2, UptimeCorrect, PTL DEF UptimeSpec, OnlyStaleOkDeescalates
=============================================================================
