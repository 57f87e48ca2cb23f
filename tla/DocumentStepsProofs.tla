------------------------- MODULE DocumentStepsProofs -------------------------
(***************************************************************************)
(* Theorems about the steps of DocumentServer, for every choice of its     *)
(* constants: what a slug is served moves forward, no update is lost, no   *)
(* document expires early, what changes for readers is queued for a purge, *)
(* and what a client is told is so.                                        *)
(*                                                                         *)
(* RowSteps lists what one step may do to one row, and with it who did it; *)
(* each theorem goes through that list.  The list speaks of what a request *)
(* or a pass read earlier, so three facts about those are needed besides   *)
(* the invariant of DocumentServerProofs: a delete in flight read a row    *)
(* that was public, a published row holds the expiry last computed for it, *)
(* and a pass started no later than now.                                   *)
(***************************************************************************)
EXTENDS DocumentServerProofs

DeletesWerePublic ==
  \A r \in Requests :
    req[r] # Idle /\ req[r].op = "delete" =>
      docs[req[r].slug].status \in {"published"} \cup Gone

OwedIsExpiry ==
  \A s \in Slugs : docs[s].status = "published" => owed[s] = docs[s].expires_at

PassStarted == gc.start <= now

JInv == DeletesWerePublic /\ OwedIsExpiry /\ PassStarted

-----------------------------------------------------------------------------
(* What a step may do to the row of s.                                     *)
Same(s) ==
  /\ docs'[s] = docs[s]
  /\ owed'[s] = owed[s]

Inserted(s) ==
  /\ docs[s] = NoRow
  /\ docs'[s] \in Row /\ docs'[s].status = "pending"
  /\ docs'[s].created_at = now /\ docs'[s].updated_at = now
  /\ docs'[s].blobs_deleted = FALSE

Touched(s) ==
  /\ docs[s] \in Row /\ docs'[s] \in Row
  /\ docs'[s].token = docs[s].token
  /\ docs'[s].created_at = docs[s].created_at
  /\ docs'[s].updated_at = now
  /\ docs'[s].blobs_deleted = docs[s].blobs_deleted

Published(s) ==
  /\ Touched(s)
  /\ docs[s].status = "pending" /\ docs'[s].status = "published"
  /\ docs'[s].manifest = docs[s].manifest
  /\ owed'[s] = docs'[s].expires_at
  /\ s \in queued'

Updated(s) ==
  /\ Touched(s)
  /\ \E r \in Requests :
       /\ req[r].slug = s /\ req' = [req EXCEPT ![r] = Idle]
       /\ docs[s].status = "published" /\ docs'[s].status = "published"
       /\ req[r].parent \in {NoParent, docs[s].manifest}
       /\ owed'[s] = docs'[s].expires_at
       /\ s \in queued'

Deleted(s) ==
  /\ Touched(s)
  /\ \E r \in Requests :
       req[r].slug = s /\ req[r] # Idle /\ req[r].op = "delete"
  /\ docs'[s].status = "deleted"
  /\ docs'[s].manifest = docs[s].manifest
  /\ s \in queued'

Expired(s) ==
  /\ Touched(s)
  /\ docs[s].status = "published" /\ docs'[s].status = "expired"
  /\ docs'[s].manifest = docs[s].manifest
  /\ docs[s].expires_at <= gc.start

Abandoned(s) ==
  /\ Touched(s)
  /\ docs[s].status = "pending" /\ docs'[s].status = "abandoned"
  /\ docs'[s].manifest = docs[s].manifest
  /\ docs[s].created_at + AbandonGrace <= gc.start

Swept(s) ==
  /\ gc.pc = "stamp" /\ gc.slug = s
  /\ docs[s] \in Row /\ docs'[s] \in Row
  /\ docs'[s].token = docs[s].token
  /\ docs'[s].created_at = docs[s].created_at
  /\ docs'[s].updated_at = docs[s].updated_at
  /\ docs[s].status \in Terminal /\ docs'[s].status = docs[s].status
  /\ docs'[s].manifest = docs[s].manifest

RowStep(s) ==
  \/ Same(s) \/ Inserted(s) \/ Published(s) \/ Updated(s) \/ Deleted(s)
  \/ Expired(s) \/ Abandoned(s) \/ Swept(s)

LEMMA MarkSteps ==
  ASSUME TypeOK, NEW s \in Slugs
  PROVE  /\ MarkExpired => docs'[s] = docs[s] \/ Expired(s)
         /\ MarkAbandoned => docs'[s] = docs[s] \/ Abandoned(s)
<1>1. ASSUME MarkExpired PROVE docs'[s] = docs[s] \/ Expired(s)
  <2>1. PICK locked \in SUBSET Contended :
          LET due == {u \in Slugs \ locked : ExpireDue(docs[u], gc.start)} IN
          \E C \in Batches(due, [u \in due |-> docs[u].expires_at], BatchSize) :
            docs' = [u \in Slugs |->
                       IF u \in C THEN ExpiredRow(docs[u], now) ELSE docs[u]]
    BY <1>1 DEF MarkExpired
  <2> DEFINE due == {u \in Slugs \ locked : ExpireDue(docs[u], gc.start)}
  <2>2. PICK C \in Batches(due, [u \in due |-> docs[u].expires_at], BatchSize) :
          docs' = [u \in Slugs |->
                     IF u \in C THEN ExpiredRow(docs[u], now) ELSE docs[u]]
    BY <2>1
  <2>3. C \subseteq due
    BY BatchesAreSubsets
  <2>4. CASE s \in C
    <3>1. ExpireDue(docs[s], gc.start)
      BY <2>3, <2>4
    <3>2. docs[s] \in Row
      BY <3>1, NoRowIsNoRow DEF ExpireDue, TypeOK, Status
    <3>3. docs'[s] = ExpiredRow(docs[s], now) /\ docs'[s] \in Row
      BY <2>2, <2>4, <3>2, TerminalRowFacts DEF TypeOK
    <3> QED BY <3>1, <3>2, <3>3 DEF ExpireDue, ExpiredRow, Expired, Touched, Row
  <2> QED BY <2>2, <2>4
<1>2. ASSUME MarkAbandoned PROVE docs'[s] = docs[s] \/ Abandoned(s)
  <2>1. PICK locked \in SUBSET Contended :
          LET due == {u \in Slugs \ locked :
                        AbandonDue(docs[u], gc.start, AbandonGrace)} IN
          \E C \in Batches(due, [u \in due |-> docs[u].created_at], BatchSize) :
            docs' = [u \in Slugs |->
                       IF u \in C THEN AbandonedRow(docs[u], now) ELSE docs[u]]
    BY <1>2 DEF MarkAbandoned
  <2> DEFINE due == {u \in Slugs \ locked :
                       AbandonDue(docs[u], gc.start, AbandonGrace)}
  <2>2. PICK C \in Batches(due, [u \in due |-> docs[u].created_at], BatchSize) :
          docs' = [u \in Slugs |->
                     IF u \in C THEN AbandonedRow(docs[u], now) ELSE docs[u]]
    BY <2>1
  <2>3. C \subseteq due
    BY BatchesAreSubsets
  <2>4. CASE s \in C
    <3>1. AbandonDue(docs[s], gc.start, AbandonGrace)
      BY <2>3, <2>4
    <3>2. docs[s] \in Row
      BY <3>1, NoRowIsNoRow DEF AbandonDue, TypeOK, Status
    <3>3. docs'[s] = AbandonedRow(docs[s], now) /\ docs'[s] \in Row
      BY <2>2, <2>4, <3>2, TerminalRowFacts DEF TypeOK
    <3> QED BY <3>1, <3>2, <3>3 DEF AbandonDue, AbandonedRow, Abandoned, Touched, Row
  <2> QED BY <2>2, <2>4
<1> QED BY <1>1, <1>2

-----------------------------------------------------------------------------
LEMMA RowSteps ==
  ASSUME IInv, [Next]_vars, NEW s \in Slugs
  PROVE  RowStep(s)
<1> USE DEF IInv
<1>1. ASSUME docs' = docs, owed' = owed PROVE RowStep(s)
  BY <1>1 DEF RowStep, Same
<1>2. ASSUME NEW u \in Slugs, NEW k \in Keys, NEW m \in Manifests,
             NEW t \in Tokens, PublishInitInserts(k, u, m, t)
      PROVE  RowStep(s)
  <2>1. /\ docs'[s] = IF s = u THEN PendingRow(k, m, t, now) ELSE docs[s]
        /\ docs[u] = NoRow /\ owed' = owed
    BY <1>2 DEF PublishInitInserts, TypeOK
  <2>2. PendingRow(k, m, t, now) \in Row /\ PendingRow(k, m, t, now).status = "pending"
    BY PendingRowFacts DEF TypeOK
  <2>3. /\ PendingRow(k, m, t, now).created_at = now
        /\ PendingRow(k, m, t, now).updated_at = now
        /\ PendingRow(k, m, t, now).blobs_deleted = FALSE
    BY DEF PendingRow
  <2> QED BY <2>1, <2>2, <2>3 DEF RowStep, Same, Inserted
<1>3. CASE ClientSteps
  BY <1>1, <1>2, <1>3 DEF ClientSteps, PublishInit, PublishInitAgain, PutBlob,
     UpdateInit, CommitFindsPublished, UpdateAlreadyApplied
<1>4. ASSUME NEW r \in Requests, CommitPublish(r)
      PROVE  RowStep(s)
  <2>1. req[r].slug \in Slugs /\ docs[req[r].slug] \in Row /\ req[r].expires \in Nat
        /\ docs \in [Slugs -> Row \cup {NoRow}] /\ owed \in [Slugs -> Nat]
    BY <1>4, InHand DEF CommitPublish, TypeOK
  <2>2. CASE s # req[r].slug
    <3>1. docs'[s] = docs[s] /\ owed'[s] = owed[s]
      BY <1>4, <2>1, <2>2 DEF CommitPublish, WriteRow
    <3> QED BY <3>1 DEF RowStep, Same
  <2>3. CASE s = req[r].slug /\ Publishable(docs[s])
    <3>1. /\ docs'[s] = PublishedRow(docs[s], req[r].expires, now)
          /\ owed'[s] = req[r].expires /\ s \in queued'
      BY <1>4, <2>1, <2>3 DEF CommitPublish, WriteRow, Publishable
    <3>2. docs[s] \in Row
      BY <2>1, <2>3
    <3>3. docs'[s] \in Row /\ now \in Nat
      BY <2>1, <2>3, <3>1, <3>2, PublishedRowFacts DEF TypeOK
    <3>4. Touched(s)
      BY <3>1, <3>2, <3>3 DEF Touched, PublishedRow, Row
    <3> QED BY <2>3, <3>1, <3>2, <3>4
            DEF RowStep, Published, Publishable, PublishedRow, Row
  <2>4. CASE s = req[r].slug /\ ~Publishable(docs[s])
    <3>1. docs'[s] = docs[s] /\ owed' = owed
      BY <1>4, <2>1, <2>4 DEF CommitPublish, WriteRow
    <3> QED BY <3>1 DEF RowStep, Same
  <2> QED BY <2>2, <2>3, <2>4
<1>5. ASSUME NEW r \in Requests, ApplyUpdate(r)
      PROVE  RowStep(s)
  <2>1. req[r].slug \in Slugs /\ docs[req[r].slug] \in Row /\ req[r].expires \in Nat
        /\ docs \in [Slugs -> Row \cup {NoRow}] /\ owed \in [Slugs -> Nat]
        /\ req[r].m \in Manifests
    BY <1>5, InHand DEF ApplyUpdate, TypeOK, InFlight
  <2>2. CASE s # req[r].slug
    <3>1. docs'[s] = docs[s] /\ owed'[s] = owed[s]
      BY <1>5, <2>1, <2>2 DEF ApplyUpdate, WriteRow
    <3> QED BY <3>1 DEF RowStep, Same
  <2>3. CASE s = req[r].slug
    <3>1. /\ docs'[s] = UpdatedRow(docs[s], req[r].m, req[r].expires, now)
          /\ owed'[s] = req[r].expires /\ s \in queued'
          /\ Updatable(docs[s], req[r].parent) /\ req' = [req EXCEPT ![r] = Idle]
      BY <1>5, <2>1, <2>3 DEF ApplyUpdate, WriteRow, Finish
    <3>2. docs[s] \in Row
      BY <2>1, <2>3
    <3>3. docs'[s].status = docs[s].status /\ docs'[s].expires_at = req[r].expires
      BY <3>1, <3>2 DEF UpdatedRow, Row
    <3>4. docs[s].status = "published" /\ req[r].parent \in {NoParent, docs[s].manifest}
      BY <3>1 DEF Updatable
    <3>5. docs'[s] \in Row
      BY <2>1, <3>1, <3>2, UpdatedRowFacts DEF TypeOK
    <3>6. Touched(s)
      BY <3>1, <3>2, <3>5 DEF Touched, UpdatedRow, Row
    <3> QED BY <2>3, <3>1, <3>3, <3>4, <3>6 DEF RowStep, Updated
  <2> QED BY <2>2, <2>3
<1>6. ASSUME NEW r \in Requests, SoftDelete(r)
      PROVE  RowStep(s)
  <2>1. req[r].slug \in Slugs /\ docs[req[r].slug] \in Row /\ req[r] # Idle
        /\ req[r].op = "delete" /\ docs \in [Slugs -> Row \cup {NoRow}] /\ now \in Nat
    BY <1>6, InHand DEF SoftDelete, TypeOK
  <2>2. CASE s # req[r].slug
    <3>1. docs'[s] = docs[s] /\ owed' = owed
      BY <1>6, <2>1, <2>2 DEF SoftDelete, WriteRow
    <3> QED BY <3>1 DEF RowStep, Same
  <2>3. CASE s = req[r].slug
    <3>1. docs'[s] = DeletedRow(docs[s], now) /\ s \in queued'
      BY <1>6, <2>1, <2>3 DEF SoftDelete, WriteRow
    <3>2. docs[s] \in Row
      BY <2>1, <2>3
    <3>3. docs'[s] \in Row /\ docs'[s].status = "deleted"
      BY <2>1, <3>1, <3>2, TerminalRowFacts
    <3>4. docs'[s].manifest = docs[s].manifest
      BY <3>1, <3>2 DEF DeletedRow, Row
    <3>5. Touched(s)
      BY <3>1, <3>2, <3>3 DEF Touched, DeletedRow, Row
    <3> QED BY <2>1, <2>3, <3>1, <3>3, <3>4, <3>5 DEF RowStep, Deleted
  <2> QED BY <2>2, <2>3
<1>7. CASE RequestSteps
  BY <1>1, <1>4, <1>5, <1>6, <1>7, RequestFrame
<1>8. CASE MarkExpired \/ MarkAbandoned
  <2>1. owed' = owed
    BY <1>8 DEF MarkExpired, MarkAbandoned
  <2> QED BY <1>8, <2>1, MarkSteps DEF RowStep, Same
<1>9. CASE SetBlobsDeletedAt
  <2>1. gc.slug \in Slugs /\ docs[gc.slug] \in Row /\ docs[gc.slug].status \in Terminal
    BY <1>9, InHand DEF SetBlobsDeletedAt
  <2>2. owed' = owed /\ docs'[s] = IF s = gc.slug THEN SweptRow(docs[s]) ELSE docs[s]
    BY <1>9 DEF SetBlobsDeletedAt, TypeOK
  <2>3. CASE s = gc.slug
    <3>1. gc.pc = "stamp" /\ docs'[s] = SweptRow(docs[s]) /\ docs[s] \in Row
      BY <1>9, <2>1, <2>2, <2>3 DEF SetBlobsDeletedAt
    <3>2. /\ docs'[s].created_at = docs[s].created_at
          /\ docs'[s].updated_at = docs[s].updated_at
          /\ docs'[s].token = docs[s].token
      BY <3>1 DEF SweptRow, Row
    <3>3. docs'[s] \in Row /\ docs'[s].status = docs[s].status
          /\ docs'[s].manifest = docs[s].manifest
      BY <3>1, SweptRowFacts
    <3> QED BY <2>1, <2>3, <3>1, <3>2, <3>3 DEF RowStep, Swept
  <2> QED BY <2>2, <2>3 DEF RowStep, Same
<1>10. CASE GCSteps
  BY <1>1, <1>8, <1>9, <1>10, GCFrame
<1>11. CASE Tick \/ (\E u \in Slugs : PurgeDone(u)) \/ UNCHANGED vars
  BY <1>1, <1>11 DEF Tick, PurgeDone, vars
<1> QED BY <1>3, <1>7, <1>10, <1>11 DEF Next
-----------------------------------------------------------------------------
(* A request in flight wants what it was admitted for, and an edit that    *)
(* has just been admitted has read a published row of its token.           *)
SameWish(q, old) ==
  /\ old # Idle
  /\ q.op = old.op /\ q.slug = old.slug /\ q.token = old.token
  /\ q.m = old.m /\ q.parent = old.parent
  /\ q.pc = "reconcile" => old.pc = "reconcile" \/ old.op = "update"

LEMMA RequestsInFlight ==
  ASSUME IInv, [Next]_vars, NEW r \in Requests, req'[r] # Idle
  PROVE  \/ SameWish(req'[r], req[r])
         \/ req'[r].op = "publish" /\ req'[r].pc = "head"
         \/ /\ docs' = docs /\ Editable(req'[r].slug, req'[r].token)
            /\ req'[r].pc # "reconcile"
<1>0. req \in [Requests -> InFlight \cup {Idle}]
  BY DEF IInv, TypeOK
<1> DEFINE Goal == \/ SameWish(req'[r], req[r])
                   \/ req'[r].op = "publish" /\ req'[r].pc = "head"
                   \/ /\ docs' = docs /\ Editable(req'[r].slug, req'[r].token)
                      /\ req'[r].pc # "reconcile"
<1>1. ASSUME req'[r] = req[r] PROVE Goal
  BY <1>1 DEF SameWish
<1>2. ASSUME NEW q \in Requests, req' = [req EXCEPT ![q] = Idle] PROVE Goal
  <2>1. r # q /\ req'[r] = req[r]
    BY <1>0, <1>2
  <2> QED BY <1>1, <2>1
<1>3. ASSUME NEW q \in Requests, NEW s \in Slugs, NEW k \in Keys, CommitReads(q, k, s)
      PROVE  Goal
  <2>1. r # q => req'[r] = req[r]
    BY <1>0, <1>3 DEF CommitReads, Start
  <2>2. r = q => req'[r].op = "publish" /\ req'[r].pc = "head"
    BY <1>0, <1>3 DEF CommitReads, Start
  <2> QED BY <1>1, <2>1, <2>2
<1>4. ASSUME NEW q \in Requests, NEW s \in Slugs, NEW t \in Tokens,
             NEW m \in Manifests, NEW p, UpdateReads(q, s, m, p, t)
      PROVE  Goal
  <2>1. r # q => req'[r] = req[r]
    BY <1>0, <1>4 DEF UpdateReads, Start
  <2>2. r = q => req'[r].slug = s /\ req'[r].token = t /\ req'[r].pc = "head"
    BY <1>0, <1>4 DEF UpdateReads, Start
  <2>3. docs' = docs /\ Editable(s, t)
    BY <1>4 DEF UpdateReads
  <2> QED BY <1>1, <2>1, <2>2, <2>3
<1>5. ASSUME NEW q \in Requests, NEW s \in Slugs, NEW t \in Tokens, DeleteReads(q, s, t)
      PROVE  Goal
  <2>1. r # q => req'[r] = req[r]
    BY <1>0, <1>5 DEF DeleteReads, Start
  <2>2. r = q => req'[r].slug = s /\ req'[r].token = t /\ req'[r].pc = "write"
    BY <1>0, <1>5 DEF DeleteReads, Start
  <2>3. docs' = docs /\ Editable(s, t)
    BY <1>5 DEF DeleteReads
  <2> QED BY <1>1, <2>1, <2>2, <2>3
<1>6. ASSUME NEW q \in Requests, NEW b \in Blobs, HeadBlob(q, b)
      PROVE  Goal
  <2>1. req[q] # Idle /\ req[q] \in InFlight /\ req[q].pc = "head"
    <3>1. req[q].pc = "head"
      BY <1>6 DEF HeadBlob
    <3> QED BY <1>0, <3>1 DEF Idle
  <2>2. SameWish(req'[q], req[q])
    <3>1. PICK todo, pc, expires :
            /\ req' = [req EXCEPT ![q].todo = todo, ![q].pc = pc, ![q].expires = expires]
            /\ pc \in {"write", req[q].pc}
      BY <1>6 DEF HeadBlob
    <3> QED BY <1>0, <2>1, <3>1 DEF InFlight, SameWish
  <2>3. q # r => req'[r] = req[r]
    BY <1>0, <1>6 DEF HeadBlob
  <2> QED BY <1>1, <2>2, <2>3
<1>7. ASSUME NEW q \in Requests, UpdateLosesRace(q)
      PROVE  Goal
  <2>1. req[q] # Idle /\ req[q] \in InFlight /\ req[q].op = "update"
    BY <1>0, <1>7 DEF UpdateLosesRace, Idle
  <2>2. SameWish(req'[q], req[q])
    BY <1>0, <1>7, <2>1 DEF UpdateLosesRace, InFlight, SameWish
  <2>3. q # r => req'[r] = req[r]
    BY <1>0, <1>7 DEF UpdateLosesRace
  <2> QED BY <1>1, <2>2, <2>3
<1>8. CASE RequestSteps
  <2>1. PICK q \in Requests :
          \/ \E s \in Slugs :
               \/ \E k \in Keys : CommitReads(q, k, s)
               \/ \E t \in Tokens : DeleteReads(q, s, t)
               \/ \E m \in Manifests, p \in Manifests \cup {NoParent}, t \in Tokens :
                    UpdateReads(q, s, m, p, t)
          \/ \E b \in Blobs : HeadBlob(q, b)
          \/ CommitPublish(q) \/ ApplyUpdate(q) \/ UpdateLosesRace(q)
          \/ ReconcileUpdate(q) \/ SoftDelete(q) \/ RequestFails(q)
    BY <1>8 DEF RequestSteps
  <2>2. CASE CommitPublish(q) \/ ApplyUpdate(q) \/ ReconcileUpdate(q)
               \/ SoftDelete(q) \/ RequestFails(q)
    <3>1. req' = [req EXCEPT ![q] = Idle]
      BY <2>2 DEF CommitPublish, ApplyUpdate, ReconcileUpdate, SoftDelete,
                  RequestFails, Finish
    <3> QED BY <1>2, <3>1
  <2> QED BY <1>3, <1>4, <1>5, <1>6, <1>7, <2>1, <2>2
<1>9. CASE ClientSteps \/ GCSteps
  BY <1>1, <1>9, ClientFrame, GCFrame
<1> QED BY <1>1, <1>8, <1>9 DEF Next, Tick, PurgeDone, vars

(* A pass keeps the instant it started on, and a new one takes now.        *)
LEMMA PassKept ==
  ASSUME IInv, PassStarted, [Next]_vars
  PROVE  PassStarted'
<1>1. gc \in GCPass /\ gc.start \in Nat /\ now \in Nat /\ GCIdle.start = 0
  BY DEF IInv, TypeOK, GCPass, GCIdle
<1>2. ASSUME NEW todo PROVE NoCandidate(todo).start = gc.start
  BY DEF NoCandidate, GCIdle
<1>3. ASSUME NEW s, NEW todo, NEW seen, ListPage(s, todo, seen)
      PROVE  gc'.start = gc.start
  BY <1>1, <1>3 DEF ListPage, GCPass
<1>4. ASSUME NEW pc, GCGoes(pc) PROVE gc'.start = gc.start
  BY <1>1, <1>4 DEF GCGoes, GCPass
<1>5. CASE GCSteps
  <2>1. now' = now
    BY <1>5, GCFrame
  <2>2. gc'.start \in {gc.start, now, 0}
    <3>1. CASE GCStart
      BY <3>1 DEF GCStart, GCIdle
    <3>2. CASE MarkExpired \/ MarkAbandoned \/ MarkFails \/ DeleteObjects
      BY <1>4, <3>2 DEF MarkExpired, MarkAbandoned, MarkFails, DeleteObjects
    <3>3. CASE ListBlobGCCandidates
      BY <1>1, <3>3 DEF ListBlobGCCandidates, GCPass
    <3>4. CASE NextPage \/ \E s \in Slugs : NextCandidate(s)
      BY <1>3, <3>4 DEF NextPage, NextCandidate
    <3>5. CASE DeleteObjectsFails \/ SetBlobsDeletedAt \/ CandidateFails
      BY <1>2, <3>5 DEF DeleteObjectsFails, SetBlobsDeletedAt, CandidateFails
    <3>6. CASE GCEnds \/ JobsCrash
      BY <1>1, <3>6 DEF GCEnds, JobsCrash
    <3> QED BY <1>5, <3>1, <3>2, <3>3, <3>4, <3>5, <3>6 DEF GCSteps
  <2> QED BY <1>1, <2>1, <2>2 DEF PassStarted
<1>6. CASE Tick
  BY <1>1, <1>6 DEF Tick, PassStarted
<1>7. CASE UNCHANGED <<gc, now>>
  BY <1>7 DEF PassStarted
<1>8. CASE ClientSteps \/ RequestSteps
  BY <1>7, <1>8, ClientFrame, RequestFrame
<1> QED BY <1>5, <1>6, <1>7, <1>8 DEF Next, PurgeDone, vars

LEMMA Kept ==
  ASSUME IInv, JInv, [Next]_vars
  PROVE  JInv'
<1>1. ASSUME NEW r \in Requests, req'[r] # Idle, req'[r].op = "delete"
      PROVE  docs'[req'[r].slug].status \in {"published"} \cup Gone
  <2>1. TypeOK'
    BY StepTypes DEF IInv
  <2>2. req'[r].slug \in Slugs
    BY <1>1, <2>1 DEF TypeOK, InFlight
  <2>3. docs[req'[r].slug].status \in {"published"} \cup Gone
    BY <1>1, RequestsInFlight DEF JInv, DeletesWerePublic, SameWish, Editable
  <2>4. RowStep(req'[r].slug)
    BY <2>2, RowSteps
  <2> DEFINE u == req'[r].slug
  <2>6. CASE Same(u) \/ Swept(u)
    BY <2>3, <2>6 DEF Same, Swept
  <2>7. CASE Inserted(u) \/ Abandoned(u)
    BY <2>3, <2>7 DEF Inserted, Abandoned, NoRow, Gone
  <2>8. CASE Published(u) \/ Updated(u)
    BY <2>8 DEF Published, Updated
  <2>9. CASE Deleted(u) \/ Expired(u)
    BY <2>9 DEF Deleted, Expired, Gone
  <2> QED BY <2>4, <2>6, <2>7, <2>8, <2>9 DEF RowStep
<1>2. ASSUME NEW s \in Slugs, docs'[s].status = "published"
      PROVE  owed'[s] = docs'[s].expires_at
  <2>1. RowStep(s)
    BY RowSteps
  <2> QED BY <1>2, <2>1 DEF JInv, OwedIsExpiry, RowStep, Same, Inserted, Published,
             Updated, Deleted, Expired, Abandoned, Swept, Terminal, Gone
<1> QED BY <1>1, <1>2, PassKept DEF JInv, DeletesWerePublic, OwedIsExpiry

LEMMA Invariant == Spec => [](IInv /\ JInv)
<1>1. Init => JInv
  BY DEF Init, JInv, DeletesWerePublic, OwedIsExpiry, PassStarted, NoRow, GCIdle
<1>2. IInv /\ JInv /\ [Next]_vars => JInv'
  BY Kept
<1> QED BY <1>1, <1>2, IInvHolds, PTL DEF Spec

-----------------------------------------------------------------------------
(* A slug's public answer only moves forward, 404 to 200 to 410.           *)
THEOREM AnswersMoveForward == Spec => ServedMovesForward
<1> DEFINE Moves ==
      \A s \in Slugs :
        <<Served(docs[s]), Served(docs'[s])>> \in
          {<<"404", "404">>, <<"404", "200">>, <<"200", "200">>,
           <<"200", "410">>, <<"410", "410">>}
<1>1. IInv /\ JInv /\ [Next]_vars => [Moves]_vars
  <2> SUFFICES ASSUME IInv, JInv, [Next]_vars, NEW s \in Slugs
               PROVE  <<Served(docs[s]), Served(docs'[s])>> \in
                        {<<"404", "404">>, <<"404", "200">>, <<"200", "200">>,
                         <<"200", "410">>, <<"410", "410">>}
    OBVIOUS
  <2>1. RowStep(s)
    BY RowSteps
  <2>2. Deleted(s) => docs[s].status \in {"published"} \cup Gone
    BY DEF Deleted, JInv, DeletesWerePublic
  <2> QED BY <2>1, <2>2 DEF RowStep, Same, Inserted, Published, Updated, Deleted,
             Expired, Abandoned, Swept, NoRow, Served, Terminal, Gone
<1> QED BY <1>1, Invariant, PTL DEF Spec, ServedMovesForward

(* A request that named the parent it edits replaces that one only.        *)
THEOREM UpdatesAreNotLost == Spec => NoLostUpdate
<1> DEFINE Kind(r) ==
      LET s == req[r].slug IN
      (/\ req[r] # Idle /\ req[r].op = "update" /\ req'[r] = Idle
       /\ docs'[s].manifest # docs[s].manifest)
        => req[r].parent \in {NoParent, docs[s].manifest}
<1>1. IInv /\ JInv /\ [Next]_vars => [\A r \in Requests : Kind(r)]_vars
  <2> SUFFICES ASSUME IInv, JInv, [Next]_vars, NEW r \in Requests,
                      req[r] # Idle, req'[r] = Idle,
                      docs'[req[r].slug].manifest # docs[req[r].slug].manifest
               PROVE  req[r].parent \in {NoParent, docs[req[r].slug].manifest}
    OBVIOUS
  <2>1. req[r].slug \in Slugs /\ docs[req[r].slug] # NoRow
        /\ req \in [Requests -> InFlight \cup {Idle}]
    BY DEF IInv, TypeOK, HeadsStayGood, InFlight
  <2>2. RowStep(req[r].slug)
    BY <2>1, RowSteps
  <2>3. Updated(req[r].slug)
    BY <2>1, <2>2 DEF RowStep, Same, Inserted, Published, Deleted, Expired, Abandoned, Swept
  <2>4. PICK q \in Requests :
          /\ req' = [req EXCEPT ![q] = Idle]
          /\ req[q].parent \in {NoParent, docs[req[r].slug].manifest}
    BY <2>3 DEF Updated
  <2>5. q = r
    BY <2>1, <2>4
  <2> QED BY <2>4, <2>5
<1> QED BY <1>1, Invariant, PTL DEF Spec, NoLostUpdate

(* A document does not expire before the expiry last computed for it.      *)
THEOREM LifetimesAreHonoured == Spec => LifetimeHonoured
<1>1. IInv /\ JInv /\ [Next]_vars =>
        [\A s \in Slugs :
           docs[s].status = "published" /\ docs'[s].status = "expired"
             => owed[s] <= now]_vars
  <2> SUFFICES ASSUME IInv, JInv, [Next]_vars, NEW s \in Slugs,
                      docs[s].status = "published", docs'[s].status = "expired"
               PROVE  owed[s] <= now
    OBVIOUS
  <2>1. RowStep(s)
    BY RowSteps
  <2>2. docs[s].expires_at <= gc.start
    BY <2>1 DEF RowStep, Same, Inserted, Published, Updated, Deleted, Expired,
                Abandoned, Swept
  <2>3. owed[s] = docs[s].expires_at /\ gc.start <= now
    BY DEF JInv, OwedIsExpiry, PassStarted
  <2>4. owed[s] \in Nat /\ gc.start \in Nat /\ now \in Nat
    BY DEF IInv, TypeOK, GCPass
  <2> QED BY <2>2, <2>3, <2>4
<1> QED BY <1>1, Invariant, PTL DEF Spec, LifetimeHonoured

(* A write that changes what the edge should serve queues a purge.         *)
THEOREM ChangesAreQueued == Spec => VisibleChangeIsQueued
<1>1. IInv /\ JInv /\ [Next]_vars =>
        [\A s \in Slugs :
           \/ s \in queued'
           \/ docs'[s] = docs[s]
           \/ docs'[s].status # "published" /\ docs[s].status # "published"
           \/ docs'[s].status = "expired"]_vars
  <2> SUFFICES ASSUME IInv, [Next]_vars, NEW s \in Slugs
               PROVE  \/ s \in queued'
                      \/ docs'[s] = docs[s]
                      \/ docs'[s].status # "published" /\ docs[s].status # "published"
                      \/ docs'[s].status = "expired"
    OBVIOUS
  <2>1. RowStep(s)
    BY RowSteps
  <2> QED BY <2>1 DEF RowStep, Same, Inserted, Published, Updated, Deleted, Expired,
                     Abandoned, Swept, NoRow, Terminal, Gone
<1> QED BY <1>1, Invariant, PTL DEF Spec, VisibleChangeIsQueued

-----------------------------------------------------------------------------
LEMMA AnswerStep ==
  ASSUME IInv, [Next]_vars, AnswersAreLive
  PROVE  AnswersAreLive'
<1> SUFFICES ASSUME answer' # NoAnswer
             PROVE  docs'[answer'.slug].status = "published"
                    /\ docs'[answer'.slug].manifest = answer'.m
  BY DEF AnswersAreLive
<1>0. docs \in [Slugs -> Row \cup {NoRow}] /\ now \in Nat
  BY DEF IInv, TypeOK
<1>1. ASSUME NEW r \in Requests, CommitPublish(r)
      PROVE  docs'[answer'.slug].status = "published"
             /\ docs'[answer'.slug].manifest = answer'.m
  <2>1. req[r].slug \in Slugs /\ docs[req[r].slug] \in Row /\ req[r].expires \in Nat
    BY <1>1, InHand DEF CommitPublish, IInv
  <2>2. answer'.slug = req[r].slug /\ answer'.m = docs[req[r].slug].manifest
    BY <1>1 DEF CommitPublish, Answered
  <2>3. PublishedRow(docs[req[r].slug], req[r].expires, now).status = "published"
        /\ PublishedRow(docs[req[r].slug], req[r].expires, now).manifest =
             docs[req[r].slug].manifest
    BY <1>0, <2>1, PublishedRowFacts
  <2> QED BY <1>0, <1>1, <2>1, <2>2, <2>3 DEF CommitPublish, WriteRow
<1>2. ASSUME NEW r \in Requests, ApplyUpdate(r)
      PROVE  docs'[answer'.slug].status = "published"
             /\ docs'[answer'.slug].manifest = answer'.m
  <2>1. req[r].slug \in Slugs /\ docs[req[r].slug] \in Row /\ req[r].expires \in Nat
        /\ req[r].m \in Manifests
    BY <1>2, InHand DEF ApplyUpdate, IInv, InFlight
  <2>2. answer'.slug = req[r].slug /\ answer'.m = req[r].m
        /\ docs[req[r].slug].status = "published"
    BY <1>2 DEF ApplyUpdate, Answered, Updatable
  <2>3. docs'[req[r].slug] = UpdatedRow(docs[req[r].slug], req[r].m, req[r].expires, now)
    BY <1>0, <1>2, <2>1 DEF ApplyUpdate, WriteRow
  <2>4. /\ docs'[req[r].slug].status = docs[req[r].slug].status
        /\ docs'[req[r].slug].manifest = req[r].m
    BY <1>0, <2>1, <2>3, UpdatedRowFacts
  <2> QED BY <2>2, <2>4
<1>3. CASE RequestSteps
  <2>1. ASSUME NEW r \in Requests, ReconcileUpdate(r)
        PROVE  docs'[answer'.slug].status = "published"
               /\ docs'[answer'.slug].manifest = answer'.m
    BY <2>1 DEF ReconcileUpdate, Answered
  <2> QED BY <1>1, <1>2, <1>3, <2>1, RequestFrame
<1>4. CASE ClientSteps
  <2>1. ASSUME NEW s \in Slugs, NEW m, NEW t, UpdateAlreadyApplied(s, m, t)
        PROVE  docs'[answer'.slug].status = "published"
               /\ docs'[answer'.slug].manifest = answer'.m
    BY <2>1 DEF UpdateAlreadyApplied, Editable, ClassifyUpdate, Answered
  <2>2. ASSUME NEW s \in Slugs, NEW k \in Keys, CommitFindsPublished(k, s)
        PROVE  docs'[answer'.slug].status = "published"
               /\ docs'[answer'.slug].manifest = answer'.m
    BY <2>2 DEF CommitFindsPublished, Answered
  <2> QED BY <1>4, <2>1, <2>2 DEF ClientSteps, PublishInit, PublishInitInserts,
             PublishInitAgain, PutBlob, UpdateInit
<1>5. CASE UNCHANGED vars
  BY <1>5 DEF vars, AnswersAreLive
<1>6. CASE GCSteps
  BY <1>6, GCFrame
<1> QED BY <1>3, <1>4, <1>5, <1>6 DEF Next, Tick, PurgeDone

(* A success a client is given is true when it is given.                   *)
THEOREM SuccessIsLive == Spec => []AnswersAreLive
<1>1. Init => AnswersAreLive
  BY DEF Init, AnswersAreLive
<1> QED BY <1>1, AnswerStep, IInvHolds, PTL DEF Spec
-----------------------------------------------------------------------------
(* A swept prefix stays empty, of a slug that is not late: what the sweep  *)
(* holds, and what it has swept, is dead, terminal with every URL lapsed.  *)
(* No update presigns a PUT for it any more, and an init that does makes   *)
(* its slug late.  A slug is dead when it is listed, for its URLs lapse in *)
(* time (UrlsLapse), and stays so though a second delete may make its row  *)
(* look younger.                                                           *)
Dead(s) ==
  /\ docs[s] \in Row /\ docs[s].status \in Terminal
  /\ s \in late \/ \A b \in Blobs : putUntil[s][b] <= now

Lapses(row, u) ==
  /\ u <= now + PresignTTL
  /\ row = NoRow => u <= now
  /\ row.status \in {"pending", "abandoned"} => u <= row.created_at + AbandonGrace
  /\ row.status \in Gone => u <= row.updated_at + PresignTTL

UrlsLapse ==
  \A s \in Slugs, b \in Blobs : s \in late \/ Lapses(docs[s], putUntil[s][b])

Aged(row) ==
  /\ row # NoRow => row.created_at <= row.updated_at /\ row.updated_at <= now
  /\ row.status = "abandoned" => row.created_at + AbandonGrace <= now

RowsAge == \A s \in Slugs : Aged(docs[s])

HeldAreDead ==
  /\ \A s \in gc.todo : Dead(s)
  /\ gc.pc \in {"delete", "more", "stamp"} => Dead(gc.slug)

PagesCover ==
  gc.slug \in late \/
    /\ gc.pc = "delete" =>
         /\ r2[gc.slug] \cap gc.seen \subseteq gc.page
         /\ ~gc.truncated => r2[gc.slug] \subseteq gc.page
    /\ gc.pc = "more" => r2[gc.slug] \cap gc.seen = {}
    /\ gc.pc = "stamp" => r2[gc.slug] = {}

SweptAreDead ==
  \A s \in Slugs : IsSwept(docs[s]) => Dead(s) /\ (s \in late \/ r2[s] = {})

SInv == UrlsLapse /\ RowsAge /\ HeldAreDead /\ PagesCover /\ SweptAreDead

-----------------------------------------------------------------------------
(* What a step may do to a URL of a slug that is not late after it:        *)
(* nothing, let it lapse, or presign it, for an init or for an update.     *)
UrlStep(s, b) ==
  \/ s \in late'
  \/ putUntil'[s][b] <= putUntil[s][b]
  \/ /\ putUntil'[s][b] = now + PresignTTL
     /\ \/ docs[s] = NoRow /\ docs'[s].status = "pending"
        \/ docs'[s] = docs[s] /\ docs[s].status = "published"
        \/ /\ docs'[s] = docs[s] /\ docs[s].status = "pending"
           /\ now + PresignTTL <= docs[s].created_at + AbandonGrace

LEMMA UrlSteps ==
  ASSUME IInv, [Next]_vars, NEW s \in Slugs, NEW b \in Blobs
  PROVE  UrlStep(s, b)
<1>0. putUntil \in [Slugs -> [Blobs -> Nat]] /\ docs \in [Slugs -> Row \cup {NoRow}]
  BY DEF IInv, TypeOK
<1>1. ASSUME UNCHANGED putUntil PROVE UrlStep(s, b)
  BY <1>0, <1>1 DEF UrlStep
<1>2. ASSUME NEW u \in Slugs, NEW B, Presign(u, B)
      PROVE  \/ putUntil'[s][b] = putUntil[s][b]
             \/ s = u /\ putUntil'[s][b] = now + PresignTTL
  BY <1>0, <1>2 DEF Presign
<1>3. ASSUME NEW u \in Slugs, NEW k \in Keys, NEW m \in Manifests, NEW t \in Tokens,
             PublishInitInserts(k, u, m, t)
      PROVE  UrlStep(s, b)
  <2>1. Presign(u, m) /\ docs[u] = NoRow
    BY <1>3 DEF PublishInitInserts
  <2>2. docs'[u] = PendingRow(k, m, t, now)
    BY <1>0, <1>3 DEF PublishInitInserts
  <2>3. docs'[u].status = "pending"
    BY <2>2 DEF PendingRow
  <2> QED BY <1>0, <1>2, <2>1, <2>3 DEF UrlStep
<1>4. ASSUME NEW u \in Slugs, NEW k \in Keys, NEW m \in Manifests, PublishInitAgain(k, u, m)
      PROVE  UrlStep(s, b)
  <2>1. Presign(u, m) /\ docs' = docs /\ docs[u] # NoRow
    BY <1>4 DEF PublishInitAgain, HasKey
  <2>2. CASE s # u
    BY <1>0, <1>2, <2>1, <2>2 DEF UrlStep
  <2>3. CASE s = u /\ SignsLate(docs[s])
    BY <1>4, <2>3 DEF PublishInitAgain, UrlStep
  <2>4. CASE s = u /\ ~SignsLate(docs[s])
    <3>1. docs[s] \in Row /\ docs[s].status \in {"published", "pending"}
      BY <1>0, <2>1, <2>4 DEF SignsLate, Row, Status, Terminal, Gone
    <3>2. docs[s].status = "pending" =>
            ~(docs[s].created_at + AbandonGrace < now + PresignTTL)
      BY <2>4 DEF SignsLate
    <3>3. /\ docs[s].created_at \in Nat /\ AbandonGrace \in Nat
          /\ now \in Nat /\ PresignTTL \in Nat
      BY <3>1, TimesAssumption DEF Row, IInv, TypeOK
    <3>4. docs[s].status = "pending" =>
            now + PresignTTL <= docs[s].created_at + AbandonGrace
      BY <3>2, <3>3
    <3> QED BY <1>0, <1>2, <2>1, <3>1, <3>4 DEF UrlStep
  <2> QED BY <2>2, <2>3, <2>4
<1>5. ASSUME NEW u \in Slugs, NEW m, NEW p, NEW t, UpdateInit(u, m, p, t)
      PROVE  UrlStep(s, b)
  <2>1. Presign(u, m \ docs[u].manifest) /\ docs' = docs /\ docs[u].status = "published"
    BY <1>5 DEF UpdateInit, Editable
  <2> QED BY <1>0, <1>2, <2>1 DEF UrlStep
<1>6. CASE ClientSteps
  BY <1>1, <1>3, <1>4, <1>5, <1>6 DEF ClientSteps, PublishInit, PutBlob,
     CommitFindsPublished, UpdateAlreadyApplied
<1>7. CASE Tick
  <2>1. putUntil'[s][b] = IF putUntil[s][b] > now' THEN putUntil[s][b] ELSE NULL
    BY <1>7 DEF Tick
  <2> QED BY <1>0, <2>1 DEF UrlStep, NULL
<1>8. CASE RequestSteps \/ GCSteps
  BY <1>1, <1>8, RequestFrame, GCFrame
<1> QED BY <1>1, <1>6, <1>7, <1>8 DEF Next, PurgeDone, vars

(* A slug that is late stays so.                                            *)
LEMMA LateGrows ==
  ASSUME [Next]_vars
  PROVE  late \subseteq late'
<1>1. ASSUME NEW k, NEW m, NEW u, PublishInitAgain(k, u, m) PROVE late \subseteq late'
  BY <1>1 DEF PublishInitAgain
<1>2. CASE ClientSteps
  BY <1>1, <1>2 DEF ClientSteps, PublishInit, PublishInitInserts, PutBlob, UpdateInit,
     CommitFindsPublished, UpdateAlreadyApplied
<1>3. CASE RequestSteps \/ GCSteps
  BY <1>3, RequestFrame, GCFrame
<1> QED BY <1>2, <1>3 DEF Next, Tick, PurgeDone, vars

(* The clock does not go back, and R2 gains blobs by URLs that are good.   *)
LEMMA ClockAndBlobs ==
  ASSUME IInv, [Next]_vars, NEW s \in Slugs
  PROVE  /\ now' \in Nat /\ now <= now'
         /\ \A b \in r2'[s] : b \in r2[s] \/ (b \in Blobs /\ now < putUntil[s][b])
<1>0. now \in Nat /\ r2 \in [Slugs -> SUBSET Blobs]
  BY DEF IInv, TypeOK
<1>1. ASSUME UNCHANGED <<now, r2>>
      PROVE  now' \in Nat /\ now <= now' /\ r2' = r2
  BY <1>0, <1>1
<1>2. CASE Tick
  BY <1>0, <1>2 DEF Tick
<1>3. ASSUME NEW u \in Slugs, NEW b \in Blobs, PutBlob(u, b)
      PROVE  now' = now /\ \A c \in r2'[s] : c \in r2[s] \/ (c \in Blobs /\ now < putUntil[s][c])
  BY <1>0, <1>3 DEF PutBlob
<1>4. CASE DeleteObjects \/ DeleteObjectsFails
  <2>1. now' = now /\ \E D : r2' = [r2 EXCEPT ![gc.slug] = @ \ D]
    BY <1>4 DEF DeleteObjects, DeleteObjectsFails
  <2> QED BY <1>0, <2>1
<1>5. CASE UNCHANGED <<now, r2>>
  BY <1>0, <1>1, <1>5
<1>6. CASE ClientSteps
  <2>1. UNCHANGED <<now, r2>> \/ \E u \in Slugs, b \in Blobs : PutBlob(u, b)
    BY <1>6, ClientFrame DEF PublishInitInserts
  <2> QED BY <1>0, <1>3, <1>5, <2>1
<1>7. CASE RequestSteps
  BY <1>5, <1>7, RequestFrame
<1>8. CASE GCSteps
  BY <1>4, <1>5, <1>8, GCFrame
<1> QED BY <1>2, <1>5, <1>6, <1>7, <1>8 DEF Next, PurgeDone, vars

LEMMA DeadStays ==
  ASSUME IInv, [Next]_vars, NEW s \in Slugs, Dead(s)
  PROVE  Dead(s)' /\ (s \in late' \/ r2'[s] \subseteq r2[s])
<1>1. /\ now \in Nat /\ now' \in Nat /\ now <= now' /\ docs[s] # NoRow
      /\ putUntil \in [Slugs -> [Blobs -> Nat]]
  BY ClockAndBlobs, NoRowIsNoRow DEF IInv, TypeOK, Dead
<1>2. docs'[s] \in Row /\ docs'[s].status \in Terminal
  <2>1. RowStep(s)
    BY RowSteps
  <2> QED BY <1>1, <2>1 DEF RowStep, Same, Inserted, Published, Updated, Deleted,
             Expired, Abandoned, Swept, Touched, Dead, Terminal, Gone
<1>3. CASE s \in late'
  BY <1>2, <1>3 DEF Dead
<1>4. CASE s \notin late'
  <2>1. \A b \in Blobs : putUntil[s][b] <= now
    BY <1>4, LateGrows DEF Dead
  <2>2. r2'[s] \subseteq r2[s]
    BY <1>1, <2>1, ClockAndBlobs
  <2>3. ASSUME NEW b \in Blobs PROVE putUntil'[s][b] <= now'
    <3>1. UrlStep(s, b) /\ putUntil[s][b] <= now /\ putUntil[s][b] \in Nat
      BY <1>1, <2>1, UrlSteps
    <3>2. docs[s].status \notin {"published", "pending"}
      BY DEF Dead, Terminal, Gone
    <3>3. putUntil'[s][b] <= putUntil[s][b]
      BY <1>1, <1>4, <3>1, <3>2 DEF UrlStep
    <3>4. TypeOK'
      BY StepTypes DEF IInv
    <3>5. putUntil'[s][b] \in Nat
      BY <3>4 DEF TypeOK
    <3> QED BY <1>1, <3>1, <3>3, <3>5
  <2> QED BY <1>2, <2>2, <2>3 DEF Dead
<1> QED BY <1>3, <1>4

(* What ListBlobGCCandidates finds is dead.                                *)
LEMMA DueAreDead ==
  ASSUME IInv, JInv, SInv, GracesCoverUploads, NEW s \in Slugs,
         BlobGCDue(docs[s], gc.start, BlobDeleteGrace)
  PROVE  Dead(s)
<1>1. /\ now \in Nat /\ PresignTTL \in Nat /\ AbandonGrace \in Nat
      /\ BlobDeleteGrace \in Nat /\ gc.start \in Nat /\ gc.start <= now
      /\ putUntil \in [Slugs -> [Blobs -> Nat]]
  BY TimesAssumption DEF IInv, TypeOK, GCPass, JInv, PassStarted
<1>2. docs[s].status \in Terminal /\ docs[s] \in Row
  BY NoRowIsNoRow DEF BlobGCDue, IInv, TypeOK, Status
<1>3. docs[s].created_at \in Nat /\ docs[s].updated_at \in Nat /\ docs[s] # NoRow
  BY <1>2, NoRowIsNoRow DEF Row
<1>4. Aged(docs[s]) /\ (s \in late \/ \A b \in Blobs : Lapses(docs[s], putUntil[s][b]))
  BY DEF SInv, RowsAge, UrlsLapse
<1>5. CASE s \in late
  BY <1>2, <1>5 DEF Dead
<1>6. CASE s \notin late /\ docs[s].status = "abandoned"
  <2>1. docs[s].created_at + AbandonGrace <= now
    BY <1>4, <1>6 DEF Aged
  <2>2. \A b \in Blobs : putUntil[s][b] <= docs[s].created_at + AbandonGrace
    BY <1>4, <1>6 DEF Lapses
  <2>3. \A b \in Blobs : putUntil[s][b] <= now
    BY <1>1, <1>3, <2>1, <2>2
  <2> QED BY <1>2, <2>3 DEF Dead
<1>7. CASE s \notin late /\ docs[s].status \in Gone
  <2>1. docs[s].updated_at + BlobDeleteGrace <= gc.start
    BY <1>7 DEF BlobGCDue, Gone
  <2>2. \A b \in Blobs : putUntil[s][b] <= docs[s].updated_at + PresignTTL
    BY <1>4, <1>7 DEF Lapses
  <2>3. docs[s].updated_at + PresignTTL <= now
    BY <1>1, <1>3, <2>1 DEF GracesCoverUploads
  <2>4. \A b \in Blobs : putUntil[s][b] <= now
    BY <1>1, <1>3, <2>2, <2>3
  <2> QED BY <1>2, <2>4 DEF Dead
<1> QED BY <1>2, <1>5, <1>6, <1>7 DEF Terminal

-----------------------------------------------------------------------------
(* URLs stay within what the row of their slug allows, and rows within now. *)
LEMMA LapsesKept ==
  ASSUME IInv, JInv, SInv, GracesCoverUploads, [Next]_vars
  PROVE  UrlsLapse' /\ RowsAge'
<1>1. ASSUME NEW s \in Slugs
      PROVE  /\ Aged(docs[s])'
             /\ s \in late' \/ \A b \in Blobs : Lapses(docs[s], putUntil[s][b])'
  <2>1. /\ now \in Nat /\ now' \in Nat /\ now <= now' /\ PresignTTL \in Nat
        /\ AbandonGrace \in Nat /\ gc.start \in Nat /\ gc.start <= now
        /\ docs[s] \in Row \cup {NoRow} /\ docs'[s] \in Row \cup {NoRow}
        /\ \A b \in Blobs : putUntil[s][b] \in Nat /\ putUntil'[s][b] \in Nat
    <3>1. TypeOK /\ TypeOK'
      BY StepTypes DEF IInv
    <3> QED BY <3>1, ClockAndBlobs, TimesAssumption DEF TypeOK, GCPass, JInv, PassStarted
  <2>2. /\ docs[s] \in Row => docs[s].created_at \in Nat /\ docs[s].updated_at \in Nat
        /\ docs'[s] \in Row => docs'[s].created_at \in Nat /\ docs'[s].updated_at \in Nat
    BY DEF Row
  <2>3. RowStep(s) /\ Aged(docs[s])
    BY RowSteps DEF SInv, RowsAge
  <2>4. Aged(docs[s])'
    BY <2>1, <2>2, <2>3, NoRowIsNoRow DEF Aged, RowStep, Same, Inserted, Published,
       Updated, Deleted, Expired, Abandoned, Swept, Touched, Terminal, Gone, NoRow
  <2>5. ASSUME NEW b \in Blobs, s \notin late' PROVE Lapses(docs[s], putUntil[s][b])'
    <3>1. UrlStep(s, b) /\ Lapses(docs[s], putUntil[s][b])
      BY <2>5, UrlSteps, LateGrows DEF SInv, UrlsLapse
    <3>2. docs[s] = NoRow => docs[s].status = "none"
      BY DEF NoRow
    <3>3. CASE putUntil'[s][b] <= putUntil[s][b]
      <4>0. putUntil'[s][b] <= now' + PresignTTL
        BY <2>1, <3>1, <3>3 DEF Lapses
      <4>1. CASE Same(s)
        <5>1. CASE docs[s] = NoRow
          BY <2>1, <3>1, <3>2, <3>3, <4>0, <4>1, <5>1 DEF Lapses, Same, Gone
        <5>2. CASE docs[s] \in Row
          BY <2>1, <2>2, <3>1, <3>3, <4>0, <4>1, <5>2, NoRowIsNoRow DEF Lapses, Same
        <5> QED BY <2>1, <5>1, <5>2
      <4>2. CASE Inserted(s)
        BY <2>1, <2>2, <3>1, <3>3, <4>0, <4>2 DEF Lapses, Inserted, Gone, NoRow
      <4>3. CASE Published(s) \/ Updated(s)
        <5>1. docs'[s].status = "published" /\ docs'[s] # NoRow
          BY <4>3 DEF Published, Updated, Touched, NoRow
        <5> QED BY <4>0, <5>1 DEF Lapses, Gone
      <4>4. CASE Deleted(s) \/ Expired(s)
        <5>1. docs'[s].status \in Gone /\ docs'[s] # NoRow /\ docs'[s].updated_at = now
          BY <4>4 DEF Deleted, Expired, Touched, NoRow, Gone, JInv, DeletesWerePublic
        <5>2. putUntil[s][b] <= now + PresignTTL
          BY <3>1 DEF Lapses
        <5> QED BY <2>1, <3>3, <4>0, <5>1, <5>2 DEF Lapses, Gone
      <4>5. CASE Abandoned(s)
        BY <2>1, <2>2, <3>1, <3>3, <4>0, <4>5 DEF Lapses, Abandoned, Touched, Gone, NoRow
      <4>6. CASE Swept(s)
        BY <2>1, <2>2, <3>1, <3>3, <4>0, <4>6 DEF Lapses, Swept, Terminal, Gone, NoRow
      <4> QED BY <2>3, <4>1, <4>2, <4>3, <4>4, <4>5, <4>6 DEF RowStep
    <3>4. CASE ~(putUntil'[s][b] <= putUntil[s][b])
      <4>1. putUntil'[s][b] = now + PresignTTL /\ putUntil'[s][b] <= now' + PresignTTL
        BY <2>1, <2>5, <3>1, <3>4 DEF UrlStep
      <4>2. CASE docs[s] = NoRow /\ docs'[s].status = "pending"
        <5>1. Inserted(s)
          BY <2>3, <3>2, <4>2 DEF RowStep, Same, Published, Updated, Deleted, Expired,
             Abandoned, Swept, Touched, Terminal, Gone
        <5>2. docs'[s].created_at = now /\ docs'[s] # NoRow
          BY <4>2, <5>1 DEF Inserted, NoRow
        <5>3. now + PresignTTL <= now + AbandonGrace
          BY <2>1 DEF GracesCoverUploads
        <5> QED BY <4>1, <4>2, <5>2, <5>3 DEF Lapses, Gone
      <4>3. CASE docs'[s] = docs[s] /\ docs[s].status = "published"
        <5>1. docs'[s] # NoRow /\ docs'[s].status = "published"
          BY <3>2, <4>3
        <5> QED BY <4>1, <5>1 DEF Lapses, Gone
      <4>4. CASE /\ docs'[s] = docs[s] /\ docs[s].status = "pending"
                 /\ now + PresignTTL <= docs[s].created_at + AbandonGrace
        <5>1. docs'[s] # NoRow /\ docs'[s].status = "pending"
              /\ docs'[s].created_at = docs[s].created_at
          BY <3>2, <4>4
        <5> QED BY <4>1, <4>4, <5>1 DEF Lapses, Gone
      <4> QED BY <2>1, <2>5, <3>1, <3>4, <4>2, <4>3, <4>4 DEF UrlStep
    <3> QED BY <3>3, <3>4
  <2> QED BY <2>4, <2>5
<1> QED BY <1>1 DEF UrlsLapse, RowsAge

(* The sweep.                                                              *)
LEMMA SweepStays ==
  ASSUME IInv, JInv, SInv, GracesCoverUploads, [Next]_vars
  PROVE  HeldAreDead' /\ PagesCover'
<1>a. gc \in GCPass /\ r2 \in [Slugs -> SUBSET Blobs]
  BY DEF IInv, TypeOK
<1>b. ASSUME NEW s,
             s \in gc.todo \/ (gc.pc \in {"delete", "more", "stamp"} /\ s = gc.slug)
      PROVE  s \in Slugs /\ Dead(s)' /\ (s \in late' \/ r2'[s] \subseteq r2[s])
  <2>1. s \in Slugs
    BY <1>b, InHand DEF IInv
  <2>2. Dead(s)
    BY <1>b DEF SInv, HeldAreDead
  <2> QED BY <2>1, <2>2, DeadStays
<1>c. ASSUME gc' = gc PROVE HeldAreDead' /\ PagesCover'
  <2>1. HeldAreDead'
    BY <1>b, <1>c DEF HeldAreDead, Dead
  <2>2. PagesCover'
    <3>1. gc.pc \in {"delete", "more", "stamp"} =>
            gc.slug \in late' \/ r2'[gc.slug] \subseteq r2[gc.slug]
      BY <1>b
    <3> QED BY <1>c, <3>1, LateGrows DEF SInv, PagesCover
  <2> QED BY <2>1, <2>2
<1>d. ASSUME gc'.todo \subseteq gc.todo, gc'.pc \notin {"delete", "more", "stamp"}
      PROVE  HeldAreDead' /\ PagesCover'
  BY <1>b, <1>d DEF HeldAreDead, PagesCover, Dead
<1>1. CASE ClientSteps \/ RequestSteps \/ Tick \/ (\E s \in Slugs : PurgeDone(s))
             \/ UNCHANGED vars
  <2>1. gc' = gc
    BY <1>1, ClientFrame, RequestFrame DEF Tick, PurgeDone, vars
  <2> QED BY <1>c, <2>1
<1>2. CASE GCStart \/ GCEnds \/ JobsCrash
  <2>1. gc' = [GCIdle EXCEPT !.pc = "expire", !.start = now] \/ gc' = GCIdle
    BY <1>2 DEF GCStart, GCEnds, JobsCrash
  <2>2. GCIdle.todo = {} /\ GCIdle.pc = "idle" /\ GCIdle \in GCPass
    BY DEF GCIdle, GCPass
  <2>3. gc'.todo = {} /\ gc'.pc \in {"expire", "idle"}
    BY <2>1, <2>2 DEF GCPass
  <2> QED BY <1>d, <2>3
<1>3. CASE MarkExpired \/ MarkAbandoned \/ MarkFails
  <2>1. gc'.todo = gc.todo /\ gc'.pc \in {"abandon", "list"}
    BY <1>3 DEF MarkExpired, MarkAbandoned, MarkFails, GCGoes, IInv, TypeOK, GCPass
  <2> QED BY <1>d, <2>1
<1>4. CASE ListBlobGCCandidates
  <2> DEFINE due == {s \in Slugs : BlobGCDue(docs[s], gc.start, BlobDeleteGrace)}
  <2>1. PICK C \in Batches(due, [s \in due |-> docs[s].updated_at], BatchSize) :
          gc' = [gc EXCEPT !.pc = "sweep", !.todo = C]
    BY <1>4 DEF ListBlobGCCandidates
  <2>2. C \subseteq due
    BY BatchesAreSubsets
  <2>3. \A s \in C : Dead(s)'
    BY <2>2, DueAreDead, DeadStays
  <2>4. gc'.todo = C /\ gc'.pc = "sweep"
    BY <1>a, <2>1 DEF GCPass
  <2> QED BY <2>3, <2>4 DEF HeldAreDead, PagesCover, Dead
<1>5. ASSUME NEW s \in Slugs, Dead(s)', NEW todo, NEW seen, r2' = r2,
             s \in late' \/ r2[s] \cap seen = {}, ListPage(s, todo, seen), todo \subseteq gc.todo
      PROVE  HeldAreDead' /\ PagesCover'
  <2>1. PICK P \in Pages(r2[s] \ seen, PageSize) :
          gc' = [gc EXCEPT !.pc = "delete", !.todo = todo, !.slug = s, !.page = P,
                           !.seen = seen \cup P, !.truncated = (P # r2[s] \ seen)]
    BY <1>5 DEF ListPage
  <2>2. /\ gc'.pc = "delete" /\ gc'.todo = todo /\ gc'.slug = s /\ gc'.page = P
        /\ gc'.seen = seen \cup P
    BY <1>a, <2>1 DEF GCPass
  <2>3. gc'.truncated = (P # r2[s] \ seen)
    BY <1>a, <2>1 DEF GCPass
  <2>4. HeldAreDead'
    BY <1>5, <1>b, <2>2 DEF HeldAreDead, Dead
  <2>5. s \in late' \/ (~gc'.truncated => r2[s] \subseteq P)
    BY <1>5, <2>3
  <2>6. PagesCover'
    BY <1>5, <2>2, <2>5 DEF PagesCover
  <2> QED BY <2>4, <2>6
<1>6. ASSUME NEW s \in Slugs, NextCandidate(s)
      PROVE  HeldAreDead' /\ PagesCover'
  <2>1. s \in gc.todo /\ ListPage(s, gc.todo \ {s}, {}) /\ r2' = r2
    BY <1>6 DEF NextCandidate
  <2> QED BY <1>5, <1>b, <2>1
<1>7. CASE NextPage
  <2>1. PICK s, seen : s = gc.slug /\ seen = gc.seen
    OBVIOUS
  <2>2. gc.pc = "more" /\ ListPage(s, gc.todo, seen) /\ r2' = r2
    BY <1>7, <2>1 DEF NextPage
  <2>3. s \in late' \/ r2[s] \cap seen = {}
    BY <2>1, <2>2, LateGrows DEF SInv, PagesCover
  <2>4. s \in Slugs /\ Dead(s)'
    BY <1>b, <2>1, <2>2
  <2> QED BY <1>5, <2>2, <2>3, <2>4
<1>8. CASE DeleteObjects
  <2>1. /\ gc.pc = "delete" /\ gc'.todo = gc.todo /\ gc'.slug = gc.slug /\ gc'.seen = gc.seen
        /\ gc'.pc = IF gc.truncated THEN "more" ELSE "stamp"
    BY <1>a, <1>8 DEF DeleteObjects, GCGoes, GCPass
  <2>2. gc.slug \in Slugs /\ r2'[gc.slug] = r2[gc.slug] \ gc.page
    BY <1>a, <1>b, <1>8, <2>1 DEF DeleteObjects
  <2>3. \/ gc.slug \in late'
        \/ /\ r2[gc.slug] \cap gc.seen \subseteq gc.page
           /\ ~gc.truncated => r2[gc.slug] \subseteq gc.page
    BY <2>1, LateGrows DEF SInv, PagesCover
  <2>4. HeldAreDead'
    BY <1>b, <2>1 DEF HeldAreDead, Dead
  <2>5. PagesCover'
    BY <2>1, <2>2, <2>3 DEF PagesCover
  <2> QED BY <2>4, <2>5
<1>9. CASE DeleteObjectsFails \/ SetBlobsDeletedAt \/ CandidateFails
  <2>1. gc'.todo \subseteq gc.todo /\ gc'.pc = "sweep"
    BY <1>9 DEF DeleteObjectsFails, SetBlobsDeletedAt, CandidateFails,
       NoCandidate, GCIdle
  <2> QED BY <1>d, <2>1
<1> QED BY <1>1, <1>2, <1>3, <1>4, <1>6, <1>7, <1>8, <1>9 DEF Next, GCSteps

LEMMA SweptStays ==
  ASSUME IInv, SInv, [Next]_vars
  PROVE  SweptAreDead'
<1> SUFFICES ASSUME NEW s \in Slugs, IsSwept(docs'[s])
             PROVE  Dead(s)' /\ (s \in late' \/ r2'[s] = {})
  BY DEF SweptAreDead, Dead
<1>1. RowStep(s)
  BY RowSteps
<1>2. CASE IsSwept(docs[s])
  <2>1. Dead(s) /\ (s \in late \/ r2[s] = {})
    BY <1>2 DEF SInv, SweptAreDead
  <2> QED BY <2>1, DeadStays, LateGrows
<1>3. CASE ~IsSwept(docs[s])
  <2>1. Swept(s)
    <3>1. ~Touched(s)
      BY <1>3, NoRowIsNoRow DEF Touched, IsSwept
    <3>2. ~Same(s) /\ ~Inserted(s)
      BY <1>3 DEF Same, Inserted, IsSwept
    <3> QED BY <1>1, <3>1, <3>2
            DEF RowStep, Published, Updated, Deleted, Expired, Abandoned
  <2>2. Dead(s) /\ (s \in late \/ r2[s] = {})
    BY <2>1 DEF Swept, SInv, HeldAreDead, PagesCover
  <2> QED BY <2>2, DeadStays, LateGrows
<1> QED BY <1>2, <1>3

(* If the graces cover the life of a URL, a prefix stamped as swept stays  *)
(* empty, whatever was PUT or signed before, but for a slug an init was    *)
(* run again for when it was terminal, or about to be abandoned.           *)
THEOREM SweptPrefixesStayEmpty ==
  ASSUME GracesCoverUploads
  PROVE  Spec => []SweptStaysEmptyButForLateInit
<1>1. Init => SInv
  BY TimesAssumption DEF Init, SInv, UrlsLapse, Lapses, RowsAge, Aged, HeldAreDead,
     PagesCover, SweptAreDead, IsSwept, NoRow, GCIdle, NULL, Gone
<1>2. IInv /\ JInv /\ SInv /\ [Next]_vars => SInv'
  BY LapsesKept, SweepStays, SweptStays DEF SInv
<1>3. SInv => SweptStaysEmptyButForLateInit
  BY DEF SInv, SweptAreDead, SweptStaysEmptyButForLateInit
<1> QED BY <1>1, <1>2, <1>3, Invariant, PTL DEF Spec
=============================================================================
