------------------------ MODULE DocumentServerProofs -------------------------
(***************************************************************************)
(* Theorems about DocumentServer, for every set of slugs, clients, blobs   *)
(* and requests and every choice of the delays:                            *)
(*   - the types are respected;                                            *)
(*   - a published document has all its blobs (PublishedBlobsPresent),     *)
(*     with the two facts that carry it, HeadsStayGood and                 *)
(*     SweepsOnlyTerminal.                                                 *)
(***************************************************************************)
EXTENDS DocumentServer, TLAPS

(* What each statement on the documents table does to a row.  A minted     *)
(* slug and one that is not are told apart by the row alone.               *)
LEMMA NoRowIsNoRow ==
  /\ NoRow \notin Row
  /\ NoRow.status = "none" /\ NoRow.status \notin Status
  /\ \A row \in Row : row.status \in Status /\ row.manifest \in Manifests
  /\ \A row \in Row \cup {NoRow} : row.status \in Status => row \in Row
BY DEF NoRow, Row, Status, Gone, Terminal

(* What InsertPending stores (documents.go InsertPending).                 *)
LEMMA PendingRowFacts ==
  ASSUME NEW k \in Keys, NEW m \in Manifests, NEW t \in Tokens, NEW n \in Nat
  PROVE  /\ PendingRow(k, m, t, n) \in Row
         /\ PendingRow(k, m, t, n).status = "pending"
         /\ PendingRow(k, m, t, n).manifest = m
BY DEF PendingRow, Row, Status, Gone, Terminal, NULL

(* Publish keeps the manifest, UpdateManifest replaces it (documents.go).  *)
LEMMA PublishedRowFacts ==
  ASSUME NEW row \in Row, NEW e \in Nat, NEW n \in Nat
  PROVE  /\ PublishedRow(row, e, n) \in Row
         /\ PublishedRow(row, e, n).status = "published"
         /\ PublishedRow(row, e, n).manifest = row.manifest
BY DEF PublishedRow, Row, Status, Gone, Terminal

LEMMA UpdatedRowFacts ==
  ASSUME NEW row \in Row, NEW m \in Manifests, NEW e \in Nat, NEW n \in Nat
  PROVE  /\ UpdatedRow(row, m, e, n) \in Row
         /\ UpdatedRow(row, m, e, n).status = row.status
         /\ UpdatedRow(row, m, e, n).manifest = m
BY DEF UpdatedRow, Row, Status, Gone, Terminal

(* The three statements that end a document's life (SoftDelete,            *)
(* MarkExpired, MarkAbandoned) leave a terminal row.                       *)
LEMMA TerminalRowFacts ==
  ASSUME NEW row \in Row, NEW n \in Nat
  PROVE  /\ DeletedRow(row, n) \in Row
         /\ DeletedRow(row, n).status = "deleted"
         /\ ExpiredRow(row, n) \in Row
         /\ ExpiredRow(row, n).status = "expired"
         /\ AbandonedRow(row, n) \in Row
         /\ AbandonedRow(row, n).status = "abandoned"
BY DEF DeletedRow, ExpiredRow, AbandonedRow, Row, Status, Gone, Terminal, NULL

(* SetBlobsDeletedAt leaves the status as it was.                          *)
LEMMA SweptRowFacts ==
  ASSUME NEW row \in Row
  PROVE  /\ SweptRow(row) \in Row
         /\ SweptRow(row).status = row.status
         /\ SweptRow(row).manifest = row.manifest
BY DEF SweptRow, Row

(* A LIMITed batch is taken from the rows that qualify.                    *)
LEMMA BatchesAreSubsets ==
  ASSUME NEW S, NEW at, NEW n
  PROVE  /\ \A C \in Pages(S, n) : C \subseteq S
         /\ \A C \in Batches(S, at, n) : C \subseteq S
BY DEF Pages, Batches

-----------------------------------------------------------------------------
(* PublishedBlobsPresent alone is not inductive.  A commit publishes on    *)
(* HEADs made some steps ago, so they must still be good; and they are,    *)
(* since R2 only loses blobs of terminal rows, terminal rows stay terminal *)
(* and the sweep holds no others.  The types need it too: a request about  *)
(* to write must find a row.                                               *)
IInv ==
  /\ TypeOK
  /\ PublishedBlobsPresent
  /\ HeadsStayGood
  /\ SweepsOnlyTerminal

(* What no step may undo for the slug s.                                   *)
Forward(s) ==
  /\ docs[s] # NoRow => docs'[s] # NoRow
  /\ docs[s].status \in Terminal => docs'[s].status \in Terminal
  /\ docs[s] # NoRow /\ docs'[s].status = "pending"
       => docs[s].status = "pending" /\ docs'[s].manifest = docs[s].manifest
  /\ docs'[s].status \notin Terminal => r2[s] \subseteq r2'[s]

-----------------------------------------------------------------------------
(* What the steps of each kind leave alone, by the UNCHANGED of each.      *)
LEMMA ClientFrame ==
  ASSUME ClientSteps
  PROVE  /\ UNCHANGED <<now, owed, queued, req, gc>>
         /\ \/ UNCHANGED <<docs, r2>>
            \/ \E s \in Slugs : \/ \E b \in Blobs : PutBlob(s, b)
                                \/ \E k \in Keys, m \in Manifests, t \in Tokens :
                                     PublishInitInserts(k, s, m, t)
<1> DEFINE Leaves == /\ UNCHANGED <<now, owed, queued, req, gc>>
                     /\ \/ UNCHANGED <<docs, r2>>
                        \/ \E s \in Slugs :
                             \/ \E b \in Blobs : PutBlob(s, b)
                             \/ \E k \in Keys, m \in Manifests, t \in Tokens :
                                  PublishInitInserts(k, s, m, t)
<1>1. PICK s \in Slugs :
        \/ \E k \in Keys, m \in Manifests, t \in Tokens : PublishInit(k, s, m, t)
        \/ \E b \in Blobs : PutBlob(s, b)
        \/ \E m \in Manifests, p \in Manifests \cup {NoParent}, t \in Tokens :
             UpdateInit(s, m, p, t)
        \/ \E k \in Keys : CommitFindsPublished(k, s)
        \/ \E m \in Manifests, t \in Tokens : UpdateAlreadyApplied(s, m, t)
  BY DEF ClientSteps
<1>2. ASSUME NEW k \in Keys, NEW m \in Manifests, NEW t \in Tokens, PublishInit(k, s, m, t)
      PROVE  Leaves
  <2>1. CASE PublishInitInserts(k, s, m, t)
    <3>1. UNCHANGED <<now, owed, queued, req, gc>>
      BY <2>1 DEF PublishInitInserts
    <3> QED BY <2>1, <3>1
  <2>2. CASE PublishInitAgain(k, s, m)
    BY <2>2 DEF PublishInitAgain
  <2> QED BY <1>2, <2>1, <2>2 DEF PublishInit
<1>3. ASSUME NEW b \in Blobs, PutBlob(s, b)
      PROVE  Leaves
  <2>1. UNCHANGED <<now, owed, queued, req, gc>>
    BY <1>3 DEF PutBlob
  <2> QED BY <1>3, <2>1
<1>4. ASSUME NEW m, NEW p, NEW t, UpdateInit(s, m, p, t)
      PROVE  Leaves
  BY <1>4 DEF UpdateInit
<1>5. ASSUME NEW k, CommitFindsPublished(k, s)
      PROVE  Leaves
  BY <1>5 DEF CommitFindsPublished
<1>6. ASSUME NEW m, NEW t, UpdateAlreadyApplied(s, m, t)
      PROVE  Leaves
  BY <1>6 DEF UpdateAlreadyApplied
<1> QED BY <1>1, <1>2, <1>3, <1>4, <1>5, <1>6

LEMMA RequestFrame ==
  ASSUME RequestSteps
  PROVE  /\ UNCHANGED <<now, late, r2, putUntil, gc>>
         /\ \/ UNCHANGED <<docs, owed, queued>>
            \/ \E r \in Requests : CommitPublish(r) \/ ApplyUpdate(r) \/ SoftDelete(r)
         /\ \/ answer' = NoAnswer
            \/ \E r \in Requests : CommitPublish(r) \/ ApplyUpdate(r) \/ ReconcileUpdate(r)
<1>1. PICK r \in Requests :
        \/ \E s \in Slugs :
             \/ \E k \in Keys : CommitReads(r, k, s)
             \/ \E t \in Tokens : DeleteReads(r, s, t)
             \/ \E m \in Manifests, p \in Manifests \cup {NoParent}, t \in Tokens :
                  UpdateReads(r, s, m, p, t)
        \/ \E b \in Blobs : HeadBlob(r, b)
        \/ CommitPublish(r) \/ ApplyUpdate(r) \/ UpdateLosesRace(r)
        \/ ReconcileUpdate(r) \/ SoftDelete(r) \/ RequestFails(r)
  BY DEF RequestSteps
<1> DEFINE Quiet == /\ UNCHANGED <<now, late, r2, putUntil, gc, docs, owed, queued>>
                    /\ answer' = NoAnswer
<1>2. ASSUME NEW s, NEW k, CommitReads(r, k, s) PROVE Quiet
  BY <1>2 DEF CommitReads
<1>3. ASSUME NEW s, NEW t, DeleteReads(r, s, t) PROVE Quiet
  BY <1>3 DEF DeleteReads
<1>4. ASSUME NEW s, NEW m, NEW p, NEW t, UpdateReads(r, s, m, p, t) PROVE Quiet
  BY <1>4 DEF UpdateReads
<1>5. ASSUME NEW b, HeadBlob(r, b) PROVE Quiet
  BY <1>5 DEF HeadBlob
<1>6. CASE UpdateLosesRace(r) \/ RequestFails(r)
  <2>1. Quiet
    BY <1>6 DEF UpdateLosesRace, RequestFails
  <2> QED BY <2>1
<1>7. CASE CommitPublish(r) \/ ApplyUpdate(r)
  <2>1. UNCHANGED <<now, late, r2, putUntil, gc>>
    BY <1>7 DEF CommitPublish, ApplyUpdate
  <2> QED BY <1>7, <2>1
<1>8. CASE ReconcileUpdate(r)
  <2>1. UNCHANGED <<now, late, r2, putUntil, gc, docs, owed, queued>>
    BY <1>8 DEF ReconcileUpdate
  <2> QED BY <1>8, <2>1
<1>9. CASE SoftDelete(r)
  <2>1. UNCHANGED <<now, late, r2, putUntil, gc>> /\ answer' = NoAnswer
    BY <1>9 DEF SoftDelete
  <2> QED BY <1>9, <2>1
<1> QED BY <1>1, <1>2, <1>3, <1>4, <1>5, <1>6, <1>7, <1>8, <1>9

LEMMA GCFrame ==
  ASSUME GCSteps
  PROVE  /\ UNCHANGED <<now, owed, late, putUntil, queued, req>> /\ answer' = NoAnswer
         /\ docs' = docs \/ MarkExpired \/ MarkAbandoned \/ SetBlobsDeletedAt
         /\ r2' = r2 \/ DeleteObjects \/ DeleteObjectsFails
<1> DEFINE Quiet == /\ UNCHANGED <<now, owed, late, putUntil, queued, req, docs, r2>>
                    /\ answer' = NoAnswer
<1>1. CASE MarkExpired \/ MarkAbandoned \/ SetBlobsDeletedAt
  <2>1. UNCHANGED <<now, owed, late, putUntil, queued, req, r2>> /\ answer' = NoAnswer
    BY <1>1 DEF MarkExpired, MarkAbandoned, SetBlobsDeletedAt
  <2> QED BY <1>1, <2>1
<1>2. CASE DeleteObjects \/ DeleteObjectsFails
  <2>1. UNCHANGED <<now, owed, late, putUntil, queued, req, docs>> /\ answer' = NoAnswer
    BY <1>2 DEF DeleteObjects, DeleteObjectsFails
  <2> QED BY <1>2, <2>1
<1>3. GCStart \/ MarkFails \/ ListBlobGCCandidates => Quiet
  BY DEF GCStart, MarkFails, ListBlobGCCandidates
<1>4. NextPage \/ CandidateFails \/ GCEnds \/ JobsCrash => Quiet
  BY DEF NextPage, CandidateFails, GCEnds, JobsCrash
<1>5. ASSUME NEW s, NextCandidate(s) PROVE Quiet
  BY <1>5 DEF NextCandidate
<1> QED BY <1>1, <1>2, <1>3, <1>4, <1>5 DEF GCSteps

-----------------------------------------------------------------------------
(* A request or a candidate in hand is what its type says.                 *)
LEMMA InHand ==
  ASSUME TypeOK, HeadsStayGood, SweepsOnlyTerminal
  PROVE  /\ \A r \in Requests :
              req[r].pc \in {"head", "write", "reconcile"} =>
                /\ req[r] # Idle
                /\ req[r] \in InFlight
                /\ req[r].slug \in Slugs
                /\ req[r].expires \in Nat
                /\ docs[req[r].slug] \in Row
         /\ \A s \in gc.todo : s \in Slugs /\ docs[s] \in Row
         /\ gc.pc \in {"delete", "more", "stamp"} =>
              gc.slug \in Slugs /\ docs[gc.slug] \in Row
         /\ \A s \in gc.todo : docs[s].status \in Terminal
         /\ gc.pc \in {"delete", "more", "stamp"} =>
              docs[gc.slug].status \in Terminal
<1>1. ASSUME NEW r \in Requests, req[r].pc \in {"head", "write", "reconcile"}
      PROVE  /\ req[r] # Idle
             /\ req[r] \in InFlight
             /\ req[r].slug \in Slugs
             /\ req[r].expires \in Nat
             /\ docs[req[r].slug] \in Row
  <2>1. req[r] # Idle /\ req[r] \in InFlight
    BY <1>1 DEF TypeOK, Idle
  <2>2. req[r].slug \in Slugs /\ req[r].expires \in Nat
    BY <2>1 DEF InFlight
  <2> QED BY <2>1, <2>2 DEF TypeOK, HeadsStayGood
<1>2. \A s \in gc.todo : s \in Slugs /\ docs[s].status \in Terminal
  BY DEF SweepsOnlyTerminal
<1>3. gc.pc \in {"delete", "more", "stamp"} =>
        gc.slug \in Slugs /\ docs[gc.slug].status \in Terminal
  BY DEF SweepsOnlyTerminal
<1>4. \A s \in Slugs : docs[s].status \in Terminal => docs[s] \in Row
  BY NoRowIsNoRow DEF TypeOK, Status
<1> QED BY <1>1, <1>2, <1>3, <1>4

(* Presigning leaves instants.                                             *)
LEMMA PresignType ==
  ASSUME TypeOK, NEW s \in Slugs, NEW B, Presign(s, B)
  PROVE  putUntil' \in [Slugs -> [Blobs -> Nat]]
<1>1. now + PresignTTL \in Nat
  BY TimesAssumption DEF TypeOK
<1> QED BY <1>1 DEF TypeOK, Presign

-----------------------------------------------------------------------------
(* Every action keeps the types, given what it holds in hand.              *)
LEMMA ClientTypes ==
  ASSUME TypeOK, ClientSteps
  PROVE  TypeOK'
<1> PICK s \in Slugs :
      \/ \E k \in Keys, m \in Manifests, t \in Tokens : PublishInit(k, s, m, t)
      \/ \E b \in Blobs : PutBlob(s, b)
      \/ \E m \in Manifests, p \in Manifests \cup {NoParent}, t \in Tokens :
           UpdateInit(s, m, p, t)
      \/ \E k \in Keys : CommitFindsPublished(k, s)
      \/ \E m \in Manifests, t \in Tokens : UpdateAlreadyApplied(s, m, t)
  BY DEF ClientSteps
<1>1. ASSUME NEW k \in Keys, NEW m \in Manifests, NEW t \in Tokens,
             PublishInitInserts(k, s, m, t)
      PROVE  TypeOK'
  <2>1. PendingRow(k, m, t, now) \in Row
    BY PendingRowFacts DEF TypeOK
  <2>2. docs' \in [Slugs -> Row \cup {NoRow}]
    BY <1>1, <2>1 DEF PublishInitInserts, TypeOK
  <2>3. putUntil' \in [Slugs -> [Blobs -> Nat]]
    BY <1>1, PresignType DEF PublishInitInserts
  <2> QED BY <1>1, <2>2, <2>3 DEF PublishInitInserts, TypeOK
<1>2. ASSUME NEW k \in Keys, NEW m \in Manifests, PublishInitAgain(k, s, m)
      PROVE  TypeOK'
  <2>1. putUntil' \in [Slugs -> [Blobs -> Nat]]
    BY <1>2, PresignType DEF PublishInitAgain
  <2> QED BY <1>2, <2>1 DEF PublishInitAgain, TypeOK
<1>3. ASSUME NEW b \in Blobs, PutBlob(s, b)
      PROVE  TypeOK'
  BY <1>3 DEF PutBlob, TypeOK
<1>4. ASSUME NEW m \in Manifests, NEW p \in Manifests \cup {NoParent},
             NEW t \in Tokens, UpdateInit(s, m, p, t)
      PROVE  TypeOK'
  <2>1. putUntil' \in [Slugs -> [Blobs -> Nat]]
    BY <1>4, PresignType DEF UpdateInit
  <2> QED BY <1>4, <2>1 DEF UpdateInit, TypeOK
<1>5. ASSUME NEW k \in Keys, CommitFindsPublished(k, s)
      PROVE  TypeOK'
  <2>1. docs[s].manifest \in Manifests
    BY <1>5, NoRowIsNoRow DEF CommitFindsPublished, HasKey, TypeOK
  <2> QED BY <1>5, <2>1 DEF CommitFindsPublished, Answered, Answers, TypeOK
<1>6. ASSUME NEW m \in Manifests, NEW t \in Tokens,
             UpdateAlreadyApplied(s, m, t)
      PROVE  TypeOK'
  BY <1>6 DEF UpdateAlreadyApplied, Answered, Answers, TypeOK
<1> QED BY <1>1, <1>2, <1>3, <1>4, <1>5, <1>6 DEF PublishInit

(* A read hands a request typed fields.                                    *)
LEMMA ReadTypes ==
  ASSUME TypeOK, NEW r \in Requests, NEW s \in Slugs,
         \/ \E k \in Keys : CommitReads(r, k, s)
         \/ \E t \in Tokens : DeleteReads(r, s, t)
         \/ \E m \in Manifests, p \in Manifests \cup {NoParent}, t \in Tokens :
              UpdateReads(r, s, m, p, t)
  PROVE  TypeOK'
<1>1. ASSUME NEW k \in Keys, CommitReads(r, k, s)
      PROVE  TypeOK'
  <2>1. docs[s] \in Row
    BY <1>1 DEF CommitReads, HasKey, TypeOK
  <2>2. [pc |-> "head", op |-> "publish", slug |-> s,
         m |-> docs[s].manifest, parent |-> NoParent,
         token |-> docs[s].token, todo |-> docs[s].manifest,
         expires |-> NULL] \in InFlight
    BY <2>1, ManifestsAssumption DEF Row, InFlight, NULL
  <2> QED BY <1>1, <2>2 DEF CommitReads, Start, TypeOK
<1>2. ASSUME NEW t \in Tokens, DeleteReads(r, s, t)
      PROVE  TypeOK'
  <2>1. docs[s] \in Row
    BY <1>2, NoRowIsNoRow DEF DeleteReads, Editable, TypeOK, Status
  <2>2. [pc |-> "write", op |-> "delete", slug |-> s,
         m |-> docs[s].manifest, parent |-> NoParent, token |-> t,
         todo |-> {}, expires |-> NULL] \in InFlight
    BY <2>1 DEF Row, InFlight, NULL
  <2> QED BY <1>2, <2>2 DEF DeleteReads, Start, TypeOK
<1>3. ASSUME NEW m \in Manifests, NEW p \in Manifests \cup {NoParent},
             NEW t \in Tokens, UpdateReads(r, s, m, p, t)
      PROVE  TypeOK'
  <2>1. [pc |-> "head", op |-> "update", slug |-> s, m |-> m, parent |-> p,
         token |-> t, todo |-> m, expires |-> NULL] \in InFlight
    BY ManifestsAssumption DEF InFlight, NULL
  <2> QED BY <1>3, <2>1 DEF UpdateReads, Start, TypeOK
<1> QED BY <1>1, <1>2, <1>3

LEMMA RequestTypes ==
  ASSUME TypeOK, HeadsStayGood, SweepsOnlyTerminal, RequestSteps
  PROVE  TypeOK'
<1> PICK r \in Requests :
      \/ \E s \in Slugs :
           \/ \E k \in Keys : CommitReads(r, k, s)
           \/ \E t \in Tokens : DeleteReads(r, s, t)
           \/ \E m \in Manifests, p \in Manifests \cup {NoParent}, t \in Tokens :
                UpdateReads(r, s, m, p, t)
      \/ \E b \in Blobs : HeadBlob(r, b)
      \/ CommitPublish(r) \/ ApplyUpdate(r) \/ UpdateLosesRace(r)
      \/ ReconcileUpdate(r) \/ SoftDelete(r) \/ RequestFails(r)
  BY DEF RequestSteps
<1> DEFINE row == docs[req[r].slug]
<1>a. req[r].pc \in {"head", "write", "reconcile"} =>
        /\ req[r] \in InFlight /\ req[r].slug \in Slugs /\ row \in Row
        /\ req[r].m \in Manifests /\ row.manifest \in Manifests
        /\ req[r].expires \in Nat
  BY InHand, NoRowIsNoRow DEF InFlight
<1>b. now \in Nat /\ now + Lifetime \in Nat
  BY TimesAssumption DEF TypeOK
<1>1. ASSUME NEW b \in Blobs, HeadBlob(r, b)
      PROVE  TypeOK'
  <2>1. req'[r] \in InFlight
    BY <1>1, <1>a, <1>b DEF HeadBlob, InFlight, TypeOK
  <2> QED BY <1>1, <2>1 DEF HeadBlob, TypeOK
<1>2. ASSUME CommitPublish(r)
      PROVE  TypeOK'
  <2>1. PublishedRow(row, req[r].expires, now) \in Row
    BY <1>2, <1>a, <1>b, PublishedRowFacts DEF CommitPublish
  <2>2. docs' \in [Slugs -> Row \cup {NoRow}] /\ queued' \subseteq Slugs
        /\ owed' \in [Slugs -> Nat]
    <3>1. \/ docs' = [docs EXCEPT ![req[r].slug] = docs[req[r].slug]] /\ owed' = owed
          \/ /\ docs' = [docs EXCEPT ![req[r].slug] = PublishedRow(row, req[r].expires, now)]
             /\ owed' = [owed EXCEPT ![req[r].slug] = req[r].expires]
      BY <1>2 DEF CommitPublish, WriteRow
    <3>2. queued' = queued \cup {req[r].slug}
      BY <1>2 DEF CommitPublish, WriteRow
    <3>3. req[r].slug \in Slugs /\ row \in Row /\ req[r].expires \in Nat
      BY <1>2, <1>a DEF CommitPublish
    <3>4. queued \subseteq Slugs /\ docs \in [Slugs -> Row \cup {NoRow}]
          /\ owed \in [Slugs -> Nat]
      BY DEF TypeOK
    <3> QED BY <2>1, <3>1, <3>2, <3>3, <3>4
  <2>3. answer' \in Answers
    BY <1>2, <1>a DEF CommitPublish, Answered, Answers
  <2> QED BY <1>2, <2>2, <2>3 DEF CommitPublish, Finish, TypeOK
<1>3. ASSUME ApplyUpdate(r)
      PROVE  TypeOK'
  <2>1. UpdatedRow(row, req[r].m, req[r].expires, now) \in Row
    BY <1>3, <1>a, <1>b, UpdatedRowFacts DEF ApplyUpdate
  <2>2. docs' \in [Slugs -> Row \cup {NoRow}] /\ queued' \subseteq Slugs
        /\ owed' \in [Slugs -> Nat]
    BY <1>3, <1>a, <2>1 DEF ApplyUpdate, WriteRow, TypeOK
  <2>3. answer' \in Answers
    BY <1>3, <1>a DEF ApplyUpdate, Answered, Answers
  <2> QED BY <1>3, <2>2, <2>3 DEF ApplyUpdate, Finish, TypeOK
<1>4. ASSUME UpdateLosesRace(r)
      PROVE  TypeOK'
  <2>1. [req[r] EXCEPT !.pc = "reconcile"] \in InFlight
    BY <1>4, <1>a DEF UpdateLosesRace, InFlight
  <2> QED BY <1>4, <2>1 DEF UpdateLosesRace, TypeOK
<1>5. ASSUME ReconcileUpdate(r)
      PROVE  TypeOK'
  <2>1. answer' \in Answers
    BY <1>5, <1>a DEF ReconcileUpdate, Answered, Answers
  <2> QED BY <1>5, <2>1 DEF ReconcileUpdate, Finish, TypeOK
<1>6. ASSUME SoftDelete(r)
      PROVE  TypeOK'
  <2>1. DeletedRow(row, now) \in Row
    BY <1>6, <1>a, <1>b, TerminalRowFacts DEF SoftDelete
  <2>2. docs' \in [Slugs -> Row \cup {NoRow}] /\ queued' \subseteq Slugs
    BY <1>6, <1>a, <2>1 DEF SoftDelete, WriteRow, TypeOK
  <2> QED BY <1>6, <2>2 DEF SoftDelete, Finish, TypeOK
<1>7. ASSUME RequestFails(r)
      PROVE  TypeOK'
  BY <1>7 DEF RequestFails, Finish, TypeOK
<1> QED BY <1>1, <1>2, <1>3, <1>4, <1>5, <1>6, <1>7, ReadTypes

(* A bulk transition of the GC: the rows of C become f's, of a type.       *)
LEMMA MarkTypes ==
  ASSUME TypeOK, MarkExpired \/ MarkAbandoned
  PROVE  /\ docs' \in [Slugs -> Row \cup {NoRow}]
         /\ \A s \in Slugs :
              \/ docs'[s] = docs[s]
              \/ /\ docs[s].status \in {"pending", "published"}
                 /\ docs'[s] \in Row
                 /\ docs'[s].status \in Terminal
<1>1. CASE MarkExpired
  <2>1. PICK locked \in SUBSET Contended :
          LET due == {s \in Slugs \ locked : ExpireDue(docs[s], gc.start)} IN
          \E C \in Batches(due, [s \in due |-> docs[s].expires_at], BatchSize) :
            docs' = [s \in Slugs |->
                       IF s \in C THEN ExpiredRow(docs[s], now) ELSE docs[s]]
    BY <1>1 DEF MarkExpired
  <2> DEFINE due == {s \in Slugs \ locked : ExpireDue(docs[s], gc.start)}
  <2>2. PICK C \in Batches(due, [s \in due |-> docs[s].expires_at], BatchSize) :
          docs' = [s \in Slugs |->
                     IF s \in C THEN ExpiredRow(docs[s], now) ELSE docs[s]]
    BY <2>1
  <2>3. \A s \in C : s \in due
    BY BatchesAreSubsets
  <2>4. \A s \in C : docs[s].status = "published" /\ docs[s] \in Row
    BY <2>3, NoRowIsNoRow DEF ExpireDue, TypeOK, Status
  <2>5. \A s \in C : /\ ExpiredRow(docs[s], now) \in Row
                     /\ ExpiredRow(docs[s], now).status = "expired"
    BY <2>4, TerminalRowFacts DEF TypeOK
  <2> QED BY <2>2, <2>4, <2>5 DEF TypeOK, Terminal, Gone
<1>2. CASE MarkAbandoned
  <2>1. PICK locked \in SUBSET Contended :
          LET due == {s \in Slugs \ locked :
                        AbandonDue(docs[s], gc.start, AbandonGrace)} IN
          \E C \in Batches(due, [s \in due |-> docs[s].created_at], BatchSize) :
            docs' = [s \in Slugs |->
                       IF s \in C THEN AbandonedRow(docs[s], now) ELSE docs[s]]
    BY <1>2 DEF MarkAbandoned
  <2> DEFINE due == {s \in Slugs \ locked :
                       AbandonDue(docs[s], gc.start, AbandonGrace)}
  <2>2. PICK C \in Batches(due, [s \in due |-> docs[s].created_at], BatchSize) :
          docs' = [s \in Slugs |->
                     IF s \in C THEN AbandonedRow(docs[s], now) ELSE docs[s]]
    BY <2>1
  <2>3. \A s \in C : s \in due
    BY BatchesAreSubsets
  <2>4. \A s \in C : docs[s].status = "pending" /\ docs[s] \in Row
    BY <2>3, NoRowIsNoRow DEF AbandonDue, TypeOK, Status
  <2>5. \A s \in C : /\ AbandonedRow(docs[s], now) \in Row
                     /\ AbandonedRow(docs[s], now).status = "abandoned"
    BY <2>4, TerminalRowFacts DEF TypeOK
  <2> QED BY <2>2, <2>4, <2>5 DEF TypeOK, Terminal
<1> QED BY <1>1, <1>2

(* A GC step leaves a typed pass.                                          *)
LEMMA GCRecordTypes ==
  ASSUME TypeOK, SweepsOnlyTerminal, GCSteps
  PROVE  gc' \in GCPass
<1>1. GCIdle \in GCPass
  BY DEF GCIdle, GCPass
<1>2. gc \in GCPass /\ gc.start \in Nat /\ gc.todo \in SUBSET Slugs
      /\ gc.seen \in SUBSET Blobs
  BY DEF TypeOK, GCPass
<1>3. ASSUME NEW todo \in SUBSET Slugs
      PROVE  NoCandidate(todo) \in GCPass
  BY <1>1, <1>2 DEF NoCandidate, GCPass
<1>4. ASSUME NEW s \in Slugs, NEW todo \in SUBSET Slugs, NEW seen \in SUBSET Blobs,
             ListPage(s, todo, seen)
      PROVE  gc' \in GCPass
  <2>1. PICK P \in Pages(r2[s] \ seen, PageSize) :
          gc' = [gc EXCEPT !.pc = "delete", !.todo = todo, !.slug = s,
                           !.page = P, !.seen = seen \cup P,
                           !.truncated = (P # r2[s] \ seen)]
    BY <1>4 DEF ListPage
  <2>2. P \in SUBSET Blobs
    BY <2>1, BatchesAreSubsets DEF TypeOK
  <2>3. (P # r2[s] \ seen) \in BOOLEAN
    OBVIOUS
  <2> QED BY <1>2, <2>1, <2>2, <2>3 DEF GCPass
<1>5. CASE GCStart
  BY <1>1, <1>5 DEF GCStart, GCPass, TypeOK
<1>6. CASE MarkExpired \/ MarkAbandoned \/ MarkFails
  BY <1>2, <1>6 DEF MarkExpired, MarkAbandoned, MarkFails, GCGoes, GCPass
<1>7. CASE ListBlobGCCandidates
  <2>1. \E C \in SUBSET Slugs : gc' = [gc EXCEPT !.pc = "sweep", !.todo = C]
    BY <1>7, BatchesAreSubsets DEF ListBlobGCCandidates
  <2> QED BY <1>2, <2>1 DEF GCPass
<1>8. CASE NextPage
  <2>1. gc.slug \in Slugs
    BY <1>8 DEF NextPage, SweepsOnlyTerminal
  <2> QED BY <1>2, <1>4, <1>8, <2>1 DEF NextPage
<1>9. CASE DeleteObjects
  BY <1>2, <1>9 DEF DeleteObjects, GCGoes, GCPass
<1>10. CASE DeleteObjectsFails \/ SetBlobsDeletedAt
  BY <1>2, <1>3, <1>10 DEF DeleteObjectsFails, SetBlobsDeletedAt
<1>11. CASE CandidateFails
  <2>1. \A s \in gc.todo : gc.todo \ {s} \in SUBSET Slugs
    BY <1>2
  <2> QED BY <1>2, <1>3, <1>11, <2>1 DEF CandidateFails
<1>12. CASE GCEnds \/ JobsCrash
  BY <1>1, <1>12 DEF GCEnds, JobsCrash
<1>13. ASSUME NEW s \in Slugs, NextCandidate(s)
       PROVE  gc' \in GCPass
  <2>1. gc.todo \ {s} \in SUBSET Slugs /\ {} \in SUBSET Blobs
    BY <1>2
  <2>2. ListPage(s, gc.todo \ {s}, {})
    BY <1>13 DEF NextCandidate
  <2> QED BY <1>4, <2>1, <2>2
<1> QED BY <1>5, <1>6, <1>7, <1>8, <1>9, <1>10, <1>11, <1>12, <1>13 DEF GCSteps

LEMMA GCTypes ==
  ASSUME TypeOK, HeadsStayGood, SweepsOnlyTerminal, GCSteps
  PROVE  TypeOK'
<1>1. gc' \in GCPass
  BY GCRecordTypes
<1>2. CASE MarkExpired \/ MarkAbandoned
  BY <1>1, <1>2, MarkTypes DEF MarkExpired, MarkAbandoned, TypeOK
<1>3. CASE DeleteObjects
  BY <1>1, <1>3 DEF DeleteObjects, TypeOK
<1>4. CASE DeleteObjectsFails
  BY <1>1, <1>4 DEF DeleteObjectsFails, TypeOK
<1>5. CASE SetBlobsDeletedAt
  <2>1. SweptRow(docs[gc.slug]) \in Row
    BY <1>5, InHand, SweptRowFacts DEF SetBlobsDeletedAt
  <2> QED BY <1>1, <1>5, <2>1 DEF SetBlobsDeletedAt, TypeOK
<1>6. ASSUME UNCHANGED <<now, docs, owed, late, r2, putUntil, queued, req>>,
             answer' = NoAnswer
      PROVE  TypeOK'
  BY <1>1, <1>6 DEF TypeOK
<1>7. CASE \/ GCStart \/ MarkFails \/ ListBlobGCCandidates \/ NextPage
           \/ CandidateFails \/ GCEnds \/ JobsCrash
           \/ \E s \in Slugs : NextCandidate(s)
  BY <1>6, <1>7 DEF GCStart, MarkFails, ListBlobGCCandidates, NextPage,
     CandidateFails, GCEnds, JobsCrash, NextCandidate
<1> QED BY <1>2, <1>3, <1>4, <1>5, <1>7 DEF GCSteps

LEMMA StepTypes ==
  ASSUME TypeOK, HeadsStayGood, SweepsOnlyTerminal, [Next]_vars
  PROVE  TypeOK'
<1>1. CASE Tick
  <2>1. now' \in Nat
    BY <1>1 DEF Tick, TypeOK
  <2>2. putUntil' \in [Slugs -> [Blobs -> Nat]]
    BY <1>1 DEF Tick, TypeOK, NULL
  <2> QED BY <1>1, <2>1, <2>2 DEF Tick, TypeOK
<1>2. CASE \E s \in Slugs : PurgeDone(s)
  BY <1>2 DEF PurgeDone, TypeOK
<1>3. CASE UNCHANGED vars
  BY <1>3 DEF vars, TypeOK
<1> QED BY <1>1, <1>2, <1>3, ClientTypes, RequestTypes, GCTypes DEF Next

-----------------------------------------------------------------------------
(* No step undoes what a commit counts on: rows only move forward, and R2  *)
(* loses blobs of terminal rows only (WriteRow, the GC's three UPDATEs,    *)
(* deleteObjects).                                                         *)
LEMMA RowsMoveForward ==
  ASSUME TypeOK, HeadsStayGood, SweepsOnlyTerminal, [Next]_vars,
         NEW s \in Slugs
  PROVE  Forward(s)
<1> USE NoRowIsNoRow
<1>a. docs[s] \in Row \cup {NoRow} /\ r2[s] \subseteq Blobs
  BY DEF TypeOK
<1>d. now \in Nat
  BY DEF TypeOK
<1>b. ASSUME docs' = docs, r2' = r2
      PROVE  Forward(s)
  BY <1>b DEF Forward
<1>c. ASSUME r2' = r2, docs[s] \in Row,
             \/ docs'[s] = docs[s]
             \/ /\ docs'[s] \in Row
                /\ docs'[s].status # "pending"
                /\ docs[s].status \in Terminal => docs'[s].status \in Terminal
      PROVE  Forward(s)
  BY <1>c DEF Forward
<1>1. ASSUME NEW u \in Slugs, NEW k \in Keys, NEW m \in Manifests,
             NEW t \in Tokens, PublishInitInserts(k, u, m, t)
      PROVE  Forward(s)
  <2>1. docs'[s] = IF s = u THEN PendingRow(k, m, t, now) ELSE docs[s]
    BY <1>1 DEF PublishInitInserts, TypeOK
  <2>2. PendingRow(k, m, t, now) \in Row
        /\ PendingRow(k, m, t, now).status = "pending"
    BY PendingRowFacts DEF TypeOK
  <2> QED BY <1>1, <2>1, <2>2 DEF PublishInitInserts, Forward, Terminal, Gone
<1>2. ASSUME NEW u \in Slugs, NEW b \in Blobs, PutBlob(u, b)
      PROVE  Forward(s)
  BY <1>2 DEF PutBlob, Forward, TypeOK
<1>3. CASE ClientSteps
  BY <1>1, <1>2, <1>3, <1>b, ClientFrame
<1>4. ASSUME NEW r \in Requests, CommitPublish(r)
      PROVE  Forward(s)
  <2>1. req[r].slug \in Slugs /\ docs[req[r].slug] \in Row
        /\ req[r].expires \in Nat
    BY <1>4, InHand DEF CommitPublish
  <2>2. CASE s # req[r].slug \/ docs'[s] = docs[s]
    <3>1. docs'[s] = docs[s] /\ r2' = r2
      BY <1>4, <2>1, <2>2 DEF CommitPublish, WriteRow, TypeOK
    <3> QED BY <3>1 DEF Forward
  <2>3. CASE s = req[r].slug /\ docs'[s] # docs[s]
    <3>1. docs'[s] = PublishedRow(docs[s], req[r].expires, now)
          /\ docs[s].status = "pending" /\ r2' = r2
      BY <1>4, <2>1, <2>3 DEF CommitPublish, WriteRow, Publishable, TypeOK
    <3>2. docs'[s] \in Row /\ docs'[s].status = "published"
      <4>1. docs[s] \in Row
        BY <2>1, <2>3
      <4>2. PublishedRow(docs[s], req[r].expires, now) \in Row
            /\ PublishedRow(docs[s], req[r].expires, now).status = "published"
        BY <1>d, <2>1, <4>1, PublishedRowFacts
      <4> QED BY <3>1, <4>2
    <3> QED BY <1>c, <2>1, <2>3, <3>1, <3>2 DEF Terminal, Gone
  <2> QED BY <2>2, <2>3
<1>5. ASSUME NEW r \in Requests, ApplyUpdate(r)
      PROVE  Forward(s)
  <2>1. req[r].slug \in Slugs /\ docs[req[r].slug] \in Row
        /\ req[r].m \in Manifests /\ req[r].expires \in Nat
    BY <1>5, InHand DEF ApplyUpdate, InFlight
  <2>2. CASE s # req[r].slug
    <3>1. docs'[s] = docs[s] /\ r2' = r2
      BY <1>5, <2>1, <2>2 DEF ApplyUpdate, WriteRow, TypeOK
    <3> QED BY <3>1 DEF Forward
  <2>3. CASE s = req[r].slug
    <3>1. docs'[s] = UpdatedRow(docs[s], req[r].m, req[r].expires, now)
          /\ docs[s].status = "published" /\ r2' = r2
      BY <1>5, <2>1, <2>3 DEF ApplyUpdate, WriteRow, Updatable, TypeOK
    <3>2. docs'[s] \in Row /\ docs'[s].status = "published"
      BY <1>d, <2>1, <2>3, <3>1, UpdatedRowFacts
    <3> QED BY <1>c, <2>1, <2>3, <3>1, <3>2 DEF Terminal, Gone
  <2> QED BY <2>2, <2>3
<1>6. ASSUME NEW r \in Requests, SoftDelete(r)
      PROVE  Forward(s)
  <2>1. req[r].slug \in Slugs /\ docs[req[r].slug] \in Row
    BY <1>6, InHand DEF SoftDelete
  <2>2. CASE s # req[r].slug
    <3>1. docs'[s] = docs[s] /\ r2' = r2
      BY <1>6, <2>1, <2>2 DEF SoftDelete, WriteRow, TypeOK
    <3> QED BY <3>1 DEF Forward
  <2>3. CASE s = req[r].slug
    <3>1. docs'[s] = DeletedRow(docs[s], now) /\ r2' = r2
      BY <1>6, <2>1, <2>3 DEF SoftDelete, WriteRow, TypeOK
    <3>2. docs'[s] \in Row /\ docs'[s].status = "deleted"
      <4>1. docs[s] \in Row
        BY <2>1, <2>3
      <4>2. DeletedRow(docs[s], now) \in Row
            /\ DeletedRow(docs[s], now).status = "deleted"
        BY <1>d, <4>1, TerminalRowFacts
      <4> QED BY <3>1, <4>2
    <3> QED BY <1>c, <2>1, <2>3, <3>1, <3>2 DEF Terminal, Gone
  <2> QED BY <2>2, <2>3
<1>7. CASE RequestSteps
  BY <1>4, <1>5, <1>6, <1>7, <1>b, RequestFrame
<1>8. CASE MarkExpired \/ MarkAbandoned
  <2>1. r2' = r2
    BY <1>8 DEF MarkExpired, MarkAbandoned
  <2>2. \/ docs'[s] = docs[s]
        \/ /\ docs[s].status \in {"pending", "published"}
           /\ docs'[s] \in Row
           /\ docs'[s].status \in Terminal
    BY <1>8, MarkTypes
  <2> QED BY <2>1, <2>2 DEF Forward, Terminal, Gone
<1>9. CASE DeleteObjects \/ DeleteObjectsFails
  <2>1. gc.slug \in Slugs /\ docs[gc.slug].status \in Terminal
    BY <1>9, InHand DEF DeleteObjects, DeleteObjectsFails
  <2>2. docs' = docs /\ (s # gc.slug => r2'[s] = r2[s])
    BY <1>9 DEF DeleteObjects, DeleteObjectsFails, TypeOK
  <2> QED BY <2>1, <2>2 DEF Forward
<1>10. CASE SetBlobsDeletedAt
  <2>1. gc.slug \in Slugs /\ docs[gc.slug] \in Row
        /\ docs[gc.slug].status \in Terminal
    BY <1>10, InHand DEF SetBlobsDeletedAt
  <2>2. SweptRow(docs[gc.slug]) \in Row
        /\ SweptRow(docs[gc.slug]).status = docs[gc.slug].status
    BY <2>1, SweptRowFacts
  <2>3. r2' = r2
        /\ docs'[s] = IF s = gc.slug THEN SweptRow(docs[s]) ELSE docs[s]
    BY <1>10 DEF SetBlobsDeletedAt, TypeOK
  <2> QED BY <2>1, <2>2, <2>3 DEF Forward, Terminal, Gone
<1>11. CASE GCSteps
  BY <1>8, <1>9, <1>10, <1>11, <1>b, GCFrame
<1>12. CASE Tick \/ (\E u \in Slugs : PurgeDone(u)) \/ UNCHANGED vars
  BY <1>12, <1>b DEF Tick, PurgeDone, vars
<1> QED BY <1>3, <1>7, <1>11, <1>12 DEF Next

-----------------------------------------------------------------------------
(* What a request has verified survives every step, its own HEADs          *)
(* included (verifyBlobs, then commitPublish or applyUpdate).              *)
LEMMA HeadsKept ==
  ASSUME TypeOK, HeadsStayGood, SweepsOnlyTerminal, [Next]_vars, TypeOK'
  PROVE  HeadsStayGood'
<1> USE NoRowIsNoRow
<1> DEFINE Good(q, row, stored) ==
             /\ row # NoRow
             /\ q.pc # "head" => q.todo = {}
             /\ q.op # "delete" /\ row.status \notin Terminal
                  => q.m \ q.todo \subseteq stored
             /\ q.op = "publish" /\ row.status = "pending" => q.m = row.manifest
<1>a. \A q \in Requests : req[q] # Idle => Good(req[q], docs[req[q].slug], r2[req[q].slug])
  BY DEF HeadsStayGood
<1>b. SUFFICES ASSUME NEW q \in Requests, req'[q] # Idle
               PROVE  Good(req'[q], docs'[req'[q].slug], r2'[req'[q].slug])
  BY DEF HeadsStayGood
<1>c. req'[q] \in InFlight /\ req'[q].slug \in Slugs
  BY <1>b DEF TypeOK, InFlight
<1>d. Forward(req'[q].slug)
  BY <1>c, RowsMoveForward
<1>e. ASSUME req'[q] = req[q]
      PROVE  Good(req'[q], docs'[req'[q].slug], r2'[req'[q].slug])
  BY <1>a, <1>b, <1>d, <1>e DEF Forward
<1>f. ASSUME NEW s \in Slugs, docs[s] # NoRow, docs' = docs,
             req'[q].slug = s, req'[q].pc = "head", req'[q].m = req'[q].todo,
             req'[q].op = "publish" => req'[q].m = docs[s].manifest
      PROVE  Good(req'[q], docs'[req'[q].slug], r2'[req'[q].slug])
  BY <1>f
<1>1. ASSUME NEW r \in Requests, NEW k \in Keys, NEW s \in Slugs,
             CommitReads(r, k, s)
      PROVE  Good(req'[q], docs'[req'[q].slug], r2'[req'[q].slug])
  BY <1>1, <1>e, <1>f DEF CommitReads, HasKey, Start, TypeOK
<1>2. ASSUME NEW r \in Requests, NEW s \in Slugs, NEW m \in Manifests,
             NEW p \in Manifests \cup {NoParent}, NEW t \in Tokens,
             UpdateReads(r, s, m, p, t)
      PROVE  Good(req'[q], docs'[req'[q].slug], r2'[req'[q].slug])
  <2>1. docs[s] # NoRow
    BY <1>2 DEF UpdateReads, Editable, Status
  <2> QED BY <1>2, <1>e, <1>f, <2>1 DEF UpdateReads, Start, TypeOK
<1>3. ASSUME NEW r \in Requests, NEW s \in Slugs, NEW t \in Tokens,
             DeleteReads(r, s, t)
      PROVE  Good(req'[q], docs'[req'[q].slug], r2'[req'[q].slug])
  <2>1. docs[s] # NoRow
    BY <1>3 DEF DeleteReads, Editable, Status
  <2> QED BY <1>3, <1>e, <2>1 DEF DeleteReads, Start, TypeOK
<1>4. ASSUME NEW r \in Requests, NEW b \in Blobs, HeadBlob(r, b)
      PROVE  Good(req'[q], docs'[req'[q].slug], r2'[req'[q].slug])
  <2>1. CASE q # r
    BY <1>4, <1>e, <2>1 DEF HeadBlob, TypeOK
  <2>2. CASE q = r
    <3>1. req[q] \in InFlight /\ req[q] # Idle
      BY <1>4, <2>2, InHand DEF HeadBlob
    <3>2. /\ req'[q].slug = req[q].slug /\ req'[q].m = req[q].m
          /\ req'[q].op = req[q].op
          /\ req'[q].todo = req[q].todo \ {b}
          /\ req'[q].pc = IF req[q].todo = {b} THEN "write" ELSE "head"
      BY <1>4, <2>2, <3>1 DEF HeadBlob, TypeOK, InFlight
    <3>3. docs' = docs /\ r2' = r2 /\ b \in r2[req[q].slug]
      BY <1>4, <2>2 DEF HeadBlob
    <3> QED BY <1>a, <3>1, <3>2, <3>3
  <2> QED BY <2>1, <2>2
<1>5. ASSUME NEW r \in Requests, UpdateLosesRace(r)
      PROVE  Good(req'[q], docs'[req'[q].slug], r2'[req'[q].slug])
  <2>1. CASE q # r
    BY <1>5, <1>e, <2>1 DEF UpdateLosesRace, TypeOK
  <2>2. CASE q = r
    <3>1. req[q] \in InFlight /\ req[q] # Idle /\ req[q].pc = "write"
      BY <1>5, <2>2, InHand DEF UpdateLosesRace
    <3>2. /\ req'[q].slug = req[q].slug /\ req'[q].m = req[q].m
          /\ req'[q].op = req[q].op /\ req'[q].todo = req[q].todo
      BY <1>5, <2>2, <3>1 DEF UpdateLosesRace, TypeOK, InFlight
    <3>3. docs' = docs /\ r2' = r2
      BY <1>5 DEF UpdateLosesRace
    <3> QED BY <1>a, <3>1, <3>2, <3>3
  <2> QED BY <2>1, <2>2
<1>6. ASSUME NEW r \in Requests,
             \/ CommitPublish(r) \/ ApplyUpdate(r) \/ ReconcileUpdate(r)
             \/ SoftDelete(r) \/ RequestFails(r)
      PROVE  req'[q] = req[q]
  <2>1. Finish(r)
    BY <1>6 DEF CommitPublish, ApplyUpdate, ReconcileUpdate, SoftDelete,
       RequestFails
  <2> QED BY <1>b, <2>1 DEF Finish, TypeOK
<1>7. CASE RequestSteps
  BY <1>1, <1>2, <1>3, <1>4, <1>5, <1>6, <1>7, <1>e DEF RequestSteps
<1>8. CASE Tick \/ (\E s \in Slugs : PurgeDone(s)) \/ UNCHANGED vars
  BY <1>8, <1>e DEF Tick, PurgeDone, vars
<1>9. CASE ClientSteps \/ GCSteps
  BY <1>9, <1>e, ClientFrame, GCFrame
<1> QED BY <1>7, <1>8, <1>9 DEF Next

(* The sweep's work-list is read once and worked through later; every step *)
(* leaves what is on it terminal (ListBlobGCCandidates, deleteBlobs).      *)
LEMMA SweepKept ==
  ASSUME TypeOK, HeadsStayGood, SweepsOnlyTerminal, [Next]_vars, TypeOK'
  PROVE  SweepsOnlyTerminal'
<1> DEFINE held == gc.todo \cup
             (IF gc.pc \in {"delete", "more", "stamp"} THEN {gc.slug} ELSE {})
<1>a. \A s \in held : s \in Slugs /\ docs[s].status \in Terminal
  BY DEF SweepsOnlyTerminal
<1>b. \A s \in held : docs'[s].status \in Terminal
  BY <1>a, RowsMoveForward DEF Forward
<1>c. ASSUME held' \subseteq held
      PROVE  SweepsOnlyTerminal'
  BY <1>a, <1>b, <1>c DEF SweepsOnlyTerminal
<1>1. CASE ClientSteps \/ RequestSteps \/ Tick \/ (\E s \in Slugs : PurgeDone(s))
             \/ UNCHANGED vars
  <2>1. gc' = gc
    BY <1>1, ClientFrame, RequestFrame DEF Tick, PurgeDone, vars
  <2> QED BY <1>c, <2>1
<1>2. CASE GCStart \/ GCEnds \/ JobsCrash
  <2>1. gc' = [GCIdle EXCEPT !.pc = "expire", !.start = now] \/ gc' = GCIdle
    BY <1>2 DEF GCStart, GCEnds, JobsCrash
  <2>2. GCIdle.todo = {} /\ GCIdle.pc = "idle" /\ GCIdle \in GCPass
    BY DEF GCIdle, GCPass
  <2>3. gc'.todo = {} /\ gc'.pc \in {"expire", "idle"}
    BY <2>1, <2>2 DEF GCPass
  <2> QED BY <1>c, <2>3
<1>3. CASE MarkExpired \/ MarkAbandoned \/ MarkFails
  <2>1. gc'.todo = gc.todo /\ gc'.pc \in {"abandon", "list"}
    BY <1>3 DEF MarkExpired, MarkAbandoned, MarkFails, GCGoes, TypeOK, GCPass
  <2> QED BY <1>c, <2>1
<1>4. CASE ListBlobGCCandidates
  <2> DEFINE due == {s \in Slugs : BlobGCDue(docs[s], gc.start, BlobDeleteGrace)}
  <2>1. PICK C \in Batches(due, [s \in due |-> docs[s].updated_at], BatchSize) :
          gc' = [gc EXCEPT !.pc = "sweep", !.todo = C]
    BY <1>4 DEF ListBlobGCCandidates
  <2>2. C \subseteq due /\ docs' = docs
    BY <1>4, BatchesAreSubsets DEF ListBlobGCCandidates
  <2>3. \A s \in C : s \in Slugs /\ docs'[s].status \in Terminal
    BY <2>2 DEF BlobGCDue
  <2>4. gc'.todo = C /\ gc'.pc = "sweep"
    BY <2>1 DEF TypeOK, GCPass
  <2> QED BY <2>3, <2>4 DEF SweepsOnlyTerminal
<1>5. ASSUME NEW s \in Slugs, NEW seen, gc.pc \in {"sweep", "more"},
             s \in held, ListPage(s, gc'.todo, seen),
             gc'.todo \subseteq gc.todo
      PROVE  SweepsOnlyTerminal'
  <2>1. gc'.slug = s
    BY <1>5 DEF ListPage, TypeOK, GCPass
  <2> QED BY <1>5, <1>c, <2>1
<1>6. ASSUME NEW s \in Slugs, NextCandidate(s)
      PROVE  SweepsOnlyTerminal'
  <2>1. gc'.todo = gc.todo \ {s} /\ gc'.slug = s
    BY <1>6 DEF NextCandidate, ListPage, TypeOK, GCPass
  <2> QED BY <1>6, <1>c, <2>1 DEF NextCandidate
<1>7. CASE NextPage
  <2>1. PICK P \in Pages(r2[gc.slug] \ gc.seen, PageSize) :
          gc' = [gc EXCEPT !.pc = "delete", !.todo = gc.todo, !.slug = gc.slug,
                           !.page = P, !.seen = gc.seen \cup P,
                           !.truncated = (P # r2[gc.slug] \ gc.seen)]
    BY <1>7 DEF NextPage, ListPage
  <2>2. gc'.todo = gc.todo /\ gc'.slug = gc.slug
    BY <2>1 DEF TypeOK, GCPass
  <2> QED BY <1>7, <1>c, <2>2 DEF NextPage
<1>8. CASE DeleteObjects
  <2>1. gc'.todo = gc.todo /\ gc'.slug = gc.slug
    BY <1>8 DEF DeleteObjects, GCGoes, TypeOK, GCPass
  <2> QED BY <1>8, <1>c, <2>1 DEF DeleteObjects
<1>9. CASE DeleteObjectsFails \/ SetBlobsDeletedAt \/ CandidateFails
  <2>1. gc'.todo \subseteq gc.todo /\ gc'.pc = "sweep"
    BY <1>9 DEF DeleteObjectsFails, SetBlobsDeletedAt, CandidateFails,
       NoCandidate, GCIdle
  <2> QED BY <1>c, <2>1
<1> QED BY <1>1, <1>2, <1>3, <1>4, <1>6, <1>7, <1>8, <1>9 DEF Next, GCSteps

(* A row is published only with the manifest a commit verified.            *)
LEMMA BlobsKept ==
  ASSUME IInv, [Next]_vars, TypeOK'
  PROVE  PublishedBlobsPresent'
<1> USE NoRowIsNoRow DEF IInv
<1>a. SUFFICES ASSUME NEW s \in Slugs, docs'[s].status = "published"
               PROVE  docs'[s].manifest \subseteq r2'[s]
  BY DEF PublishedBlobsPresent
<1>b. docs'[s].status \notin Terminal /\ r2[s] \subseteq r2'[s]
  BY <1>a, RowsMoveForward DEF Forward, Terminal, Gone
<1>c. ASSUME docs[s].status = "published", docs'[s].manifest = docs[s].manifest
      PROVE  docs'[s].manifest \subseteq r2'[s]
  BY <1>b, <1>c DEF PublishedBlobsPresent
<1>d. now \in Nat
  BY DEF TypeOK
<1>1. CASE docs'[s] = docs[s]
  BY <1>1, <1>a, <1>c
<1>2. ASSUME NEW r \in Requests, CommitPublish(r), docs'[s] # docs[s]
      PROVE  docs'[s].manifest \subseteq r2'[s]
  <2>1. req[r] # Idle /\ req[r] \in InFlight /\ docs[req[r].slug] \in Row
        /\ req[r].expires \in Nat
    BY <1>2, InHand DEF CommitPublish
  <2>2. /\ s = req[r].slug /\ docs[s].status = "pending"
        /\ docs'[s] = PublishedRow(docs[s], req[r].expires, now)
    BY <1>2, <2>1 DEF CommitPublish, WriteRow, Publishable, TypeOK
  <2>3. docs'[s].manifest = docs[s].manifest
    <3>1. docs[s] \in Row
      BY <2>1, <2>2
    <3>2. PublishedRow(docs[s], req[r].expires, now).manifest = docs[s].manifest
      BY <1>d, <2>1, <3>1, PublishedRowFacts
    <3> QED BY <2>2, <3>2
  <2>4. req[r].m \subseteq r2[s] /\ req[r].m = docs[s].manifest
    BY <1>2, <2>1, <2>2 DEF CommitPublish, HeadsStayGood, Terminal, Gone
  <2> QED BY <1>b, <2>3, <2>4
<1>3. ASSUME NEW r \in Requests, ApplyUpdate(r), docs'[s] # docs[s]
      PROVE  docs'[s].manifest \subseteq r2'[s]
  <2>1. req[r] # Idle /\ req[r] \in InFlight /\ docs[req[r].slug] \in Row
        /\ req[r].m \in Manifests /\ req[r].expires \in Nat
    BY <1>3, InHand DEF ApplyUpdate, InFlight
  <2>2. /\ s = req[r].slug /\ docs[s].status = "published"
        /\ docs'[s] = UpdatedRow(docs[s], req[r].m, req[r].expires, now)
    BY <1>3, <2>1 DEF ApplyUpdate, WriteRow, Updatable, TypeOK
  <2>3. docs'[s].manifest = req[r].m
    BY <1>d, <2>1, <2>2, UpdatedRowFacts
  <2>4. req[r].m \subseteq r2[s]
    BY <1>3, <2>1, <2>2 DEF ApplyUpdate, HeadsStayGood, Terminal, Gone
  <2> QED BY <1>b, <2>3, <2>4
<1>4. ASSUME NEW u \in Slugs, NEW k \in Keys, NEW m \in Manifests,
             NEW t \in Tokens, PublishInitInserts(k, u, m, t)
      PROVE  docs'[s] = docs[s]
  <2>1. PendingRow(k, m, t, now).status = "pending"
    BY PendingRowFacts DEF TypeOK
  <2> QED BY <1>4, <1>a, <2>1 DEF PublishInitInserts, TypeOK
<1>5. ASSUME NEW r \in Requests, SoftDelete(r)
      PROVE  docs'[s] = docs[s]
  <2>1. docs[req[r].slug] \in Row
    BY <1>5, InHand DEF SoftDelete
  <2>2. DeletedRow(docs[req[r].slug], now).status = "deleted"
    BY <2>1, TerminalRowFacts DEF TypeOK
  <2> QED BY <1>5, <1>a, <2>2 DEF SoftDelete, WriteRow, TypeOK
<1>6. CASE MarkExpired \/ MarkAbandoned
  BY <1>1, <1>6, <1>b, MarkTypes
<1>7. CASE SetBlobsDeletedAt
  <2>1. gc.slug \in Slugs /\ docs[gc.slug] \in Row
    BY <1>7, InHand DEF SetBlobsDeletedAt
  <2>2. docs'[s] = IF s = gc.slug THEN SweptRow(docs[s]) ELSE docs[s]
    BY <1>7 DEF SetBlobsDeletedAt, TypeOK
  <2>3. docs'[s].status = docs[s].status /\ docs'[s].manifest = docs[s].manifest
    BY <2>1, <2>2, SweptRowFacts
  <2> QED BY <1>a, <1>c, <2>3
<1>8. CASE docs' = docs
  BY <1>1, <1>8
<1>9. CASE ClientSteps
  BY <1>1, <1>4, <1>8, <1>9, ClientFrame DEF PutBlob
<1>10. CASE RequestSteps
  BY <1>2, <1>3, <1>5, <1>8, <1>10, <1>1, RequestFrame
<1>11. CASE GCSteps
  BY <1>6, <1>7, <1>8, <1>11, GCFrame
<1>12. CASE Tick \/ (\E u \in Slugs : PurgeDone(u)) \/ UNCHANGED vars
  BY <1>8, <1>12 DEF Tick, PurgeDone, vars
<1> QED BY <1>9, <1>10, <1>11, <1>12 DEF Next

-----------------------------------------------------------------------------
LEMMA IInvHolds == Spec => []IInv
<1>1. Init => IInv
  BY DEF Init, IInv, TypeOK, PublishedBlobsPresent, HeadsStayGood,
     SweepsOnlyTerminal, NoRow, Idle, GCPass, GCIdle, NULL
<1>2. IInv /\ [Next]_vars => IInv'
  BY StepTypes, HeadsKept, SweepKept, BlobsKept DEF IInv
<1> QED BY <1>1, <1>2, PTL DEF Spec

(* Every reachable state is well-typed: no statement or handler stores a   *)
(* status, an owner or a work-list outside its column or field.            *)
THEOREM TypeCorrect == Spec => []TypeOK
<1>1. IInv => TypeOK
  BY DEF IInv
<1> QED BY <1>1, IInvHolds, PTL

(* A served document never has a hole in it, whatever commits, updates,    *)
(* deletes and GC passes are interleaved.                                  *)
THEOREM PublishedDocumentsAreWhole == Spec => []PublishedBlobsPresent
<1>1. IInv => PublishedBlobsPresent
  BY DEF IInv
<1> QED BY <1>1, IInvHolds, PTL

(* What a commit HEADed is still there when it writes.                     *)
THEOREM CommitsWriteOnGoodHeads == Spec => []HeadsStayGood
<1>1. IInv => HeadsStayGood
  BY DEF IInv
<1> QED BY <1>1, IInvHolds, PTL

(* The sweep deletes blobs of terminal rows only.                          *)
THEOREM LiveBlobsAreNotSwept == Spec => []SweepsOnlyTerminal
<1>1. IInv => SweepsOnlyTerminal
  BY DEF IInv
<1> QED BY <1>1, IInvHolds, PTL
=============================================================================
