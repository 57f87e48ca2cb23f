---------------------------- MODULE DocumentServer ----------------------------
(***************************************************************************)
(* The document lifecycle of the mdfly server: the publish wire (init,     *)
(* direct-to-R2 PUT, commit), the update wire, delete, and the lifecycle   *)
(* GC pass of the jobs process, all interleaved over one documents table   *)
(* and one R2 bucket.                                                      *)
(*                                                                         *)
(* Grain of atomicity.  A step is one statement or transaction on          *)
(* Postgres, or one call on R2, with the local computation that follows    *)
(* it.  publish/init and update/init touch shared state once (one          *)
(* statement; presigning is local), so each is one step.  A commit or a    *)
(* delete reads its row in one step, HEADs one blob per step, and writes   *)
(* in a later one, whatever happened in between.                           *)
(***************************************************************************)
EXTENDS Documents

CONSTANTS
  Requests,         \* commit and delete requests the web tier has in flight
  NoSlug,           \* the GC pass holds no candidate
  AbandonGrace,     \* a pending row this old is abandoned
  BlobDeleteGrace,  \* a gone row keeps its blobs this long
  PresignTTL,       \* a presigned PUT is accepted this long
  Lifetime,         \* anonExpiresIn
  BatchSize,        \* LIMIT of the three GC statements
  PageSize,         \* keys per LIST page of DeletePrefix
  MaxTime           \* bound: the clock stops here

ASSUME TimesAssumption ==
  {AbandonGrace, BlobDeleteGrace, PresignTTL, Lifetime,
   BatchSize, PageSize, MaxTime} \subseteq Nat

(* Sweep refuses to run with a grace that is not positive.                 *)
ASSUME GracesAssumption == AbandonGrace > 0 /\ BlobDeleteGrace > 0

ASSUME NoSlugAssumption == NoSlug \notin Slugs

VARIABLES
  now,       \* the clock Postgres, the servers and R2 share
  docs,      \* documents table: [Slugs -> Row or NoRow]
  owed,      \* history: the expiry the last publish or update computed
  late,      \* history: slugs an init signed URLs for too late (SignsLate)
  r2,        \* per slug, the blobs under its prefix with the signed size
  putUntil,  \* per slug and blob, when the last presigned PUT lapses
  queued,    \* slugs with a purge_queue row
  req,       \* web requests in flight
  gc,        \* the lifecycle GC pass
  answer     \* the success the last step answered, if it answered one

vars == <<now, docs, owed, late, r2, putUntil, queued, req, gc, answer>>

Idle == [pc |-> "idle"]

(* A request past its first read.  m is the manifest it will publish, todo *)
(* the blobs verifyBlobs has not HEADed yet, expires the expires_at that    *)
(* is computed after the last HEAD and before the transaction begins.      *)
InFlight ==
  [pc     : {"head", "write", "reconcile"},
   op     : {"publish", "update", "delete"},
   slug   : Slugs,
   m      : Manifests,
   parent : Manifests \cup {NoParent},
   token  : Tokens,
   todo   : SUBSET Blobs,
   expires : Nat]

GCPass ==
  [pc    : {"idle", "expire", "abandon", "list", "sweep", "delete", "more",
            "stamp"},
   start : Nat,
   todo  : SUBSET Slugs,
   slug  : Slugs \cup {NoSlug},
   page  : SUBSET Blobs,
   seen  : SUBSET Blobs,
   truncated : BOOLEAN]

GCIdle == [pc |-> "idle", start |-> 0, todo |-> {}, slug |-> NoSlug,
           page |-> {}, seen |-> {}, truncated |-> FALSE]

NoAnswer == [op |-> "none"]
Answers  == [op : {"publish", "update"}, slug : Slugs, m : Manifests]

TypeOK ==
  /\ now \in Nat
  /\ docs \in [Slugs -> Row \cup {NoRow}]
  /\ owed \in [Slugs -> Nat]
  /\ late \subseteq Slugs
  /\ r2 \in [Slugs -> SUBSET Blobs]
  /\ putUntil \in [Slugs -> [Blobs -> Nat]]
  /\ queued \subseteq Slugs
  /\ req \in [Requests -> InFlight \cup {Idle}]
  /\ gc \in GCPass
  /\ answer \in Answers \cup {NoAnswer}

Init ==
  /\ now = 1
  /\ docs = [s \in Slugs |-> NoRow]
  /\ owed = [s \in Slugs |-> NULL]
  /\ late = {}
  /\ r2 = [s \in Slugs |-> {}]
  /\ putUntil = [s \in Slugs |-> [b \in Blobs |-> NULL]]
  /\ queued = {}
  /\ req = [r \in Requests |-> Idle]
  /\ gc = GCIdle
  /\ answer = NoAnswer

-----------------------------------------------------------------------------
(* Presigning: a PUT per blob of B, valid for PresignTTL.                  *)
Presign(s, B) ==
  putUntil' = [putUntil EXCEPT ![s] =
                 [b \in Blobs |-> IF b \in B THEN now + PresignTTL ELSE @[b]]]

(* Service.Init with a new idempotency key: InsertPending inserts.  A slug *)
(* already minted violates the UNIQUE constraint and the init fails, which *)
(* changes nothing.                                                        *)
PublishInitInserts(k, s, m, t) ==
  /\ \A u \in Slugs : ~HasKey(docs[u], k)
  /\ docs[s] = NoRow
  /\ docs' = [docs EXCEPT ![s] = PendingRow(k, m, t, now)]
  /\ Presign(s, m)
  /\ answer' = NoAnswer
  /\ UNCHANGED <<now, owed, late, r2, queued, req, gc>>

(* URLs signed now for this row may outlive its sweep: it is terminal      *)
(* already, or still pending and due to be abandoned before they lapse.    *)
SignsLate(row) ==
  \/ row.status \in Terminal
  \/ row.status = "pending" /\ row.created_at + AbandonGrace < now + PresignTTL

(* Mutant: ON CONFLICT DO UPDATE stores the token of the re-run.           *)
PublishInitAgainTakesToken(k, s, m) ==
  /\ HasKey(docs[s], k)
  /\ docs[s].manifest = m
  /\ \E t \in Tokens : docs' = [docs EXCEPT ![s].token = t]
  /\ Presign(s, m)
  /\ late' = IF SignsLate(docs[s]) THEN late \cup {s} ELSE late
  /\ answer' = NoAnswer
  /\ UNCHANGED <<now, owed, r2, queued, req, gc>>

(* Service.Init with a key some row already holds, whatever its status and *)
(* age: the row is left alone (its token too) and, if the manifest         *)
(* matches, every blob is presigned again.                                 *)
PublishInitAgain(k, s, m) ==
  /\ HasKey(docs[s], k)
  /\ docs[s].manifest = m
  /\ Presign(s, m)
  /\ late' = IF SignsLate(docs[s]) THEN late \cup {s} ELSE late
  /\ answer' = NoAnswer
  /\ UNCHANGED <<now, docs, owed, r2, queued, req, gc>>

PublishInit(k, s, m, t) ==
  PublishInitInserts(k, s, m, t) \/ PublishInitAgain(k, s, m)

(* A client PUTs a blob straight to R2 with a URL that has not lapsed.     *)
PutBlob(s, b) ==
  /\ now < putUntil[s][b]
  /\ b \notin r2[s]
  /\ r2' = [r2 EXCEPT ![s] = @ \cup {b}]
  /\ answer' = NoAnswer
  /\ UNCHANGED <<now, docs, owed, late, putUntil, queued, req, gc>>

-----------------------------------------------------------------------------
Answered(op, s, m) == answer' = [op |-> op, slug |-> s, m |-> m]

Start(r, request) ==
  /\ req[r] = Idle
  /\ req' = [req EXCEPT ![r] = request]

Finish(r) == req' = [req EXCEPT ![r] = Idle]

(* Service.Commit, the read: a published row is answered as it is.         *)
CommitFindsPublished(k, s) ==
  /\ HasKey(docs[s], k)
  /\ docs[s].status = "published"
  /\ Answered("publish", s, docs[s].manifest)
  /\ UNCHANGED <<now, docs, owed, late, r2, putUntil, queued, req, gc>>

(* Any other row, the terminal ones included, goes on to verifyBlobs with  *)
(* the manifest read here.                                                 *)
CommitReads(r, k, s) ==
  /\ HasKey(docs[s], k)
  /\ docs[s].status # "published"
  /\ Start(r, [pc |-> "head", op |-> "publish", slug |-> s,
               m |-> docs[s].manifest, parent |-> NoParent,
               token |-> docs[s].token, todo |-> docs[s].manifest,
               expires |-> NULL])
  /\ answer' = NoAnswer
  /\ UNCHANGED <<now, docs, owed, late, r2, putUntil, queued, gc>>

(* verifyBlobs, one HEAD that finds its blob.  One that does not ends the  *)
(* request with blob_missing: RequestFails.                                *)
HeadBlob(r, b) ==
  /\ req[r].pc = "head"
  /\ b \in req[r].todo
  /\ b \in r2[req[r].slug]
  /\ req' = [req EXCEPT ![r].todo = @ \ {b},
                        ![r].pc = IF req[r].todo = {b} THEN "write" ELSE @,
                        ![r].expires = IF req[r].todo = {b}
                                       THEN now + Lifetime ELSE @]
  /\ answer' = NoAnswer
  /\ UNCHANGED <<now, docs, owed, late, r2, putUntil, queued, gc>>

(* Mutant: the transaction commits without EnqueuePurge.                   *)
WriteRowUnqueued(s, row) ==
  docs' = [docs EXCEPT ![s] = row] /\ UNCHANGED queued

(* Client.Begin to Tx.Commit: the row flip and EnqueuePurge, together.     *)
WriteRow(s, row) ==
  /\ docs' = [docs EXCEPT ![s] = row]
  /\ queued' = queued \cup {s}

(* commitPublish.  Publish returns a row another commit published as it    *)
(* is, and its purge is enqueued all the same; on any other status it      *)
(* answers 404 (RequestFails).                                             *)
CommitPublish(r) ==
  LET s == req[r].slug IN
  /\ req[r].pc = "write" /\ req[r].op = "publish"
  /\ \/ /\ Publishable(docs[s])
        /\ WriteRow(s, PublishedRow(docs[s], req[r].expires, now))
        /\ owed' = [owed EXCEPT ![s] = req[r].expires]
        /\ Answered("publish", s, docs[s].manifest)
     \/ /\ docs[s].status = "published"
        /\ WriteRow(s, docs[s])
        /\ UNCHANGED owed
        /\ Answered("publish", s, docs[s].manifest)
  /\ Finish(r)
  /\ UNCHANGED <<now, late, r2, putUntil, gc>>

-----------------------------------------------------------------------------
(* Mutant: the row is loaded with GetBySlugAny and its status not looked   *)
(* at.                                                                     *)
EditableAnyStatus(s, t) ==
  docs[s] # NoRow /\ MatchesEditToken(docs[s], t)

(* loadEditable: the row must be published and the Edit Token match.       *)
Editable(s, t) ==
  /\ docs[s].status = "published"
  /\ MatchesEditToken(docs[s], t)

(* classifyUpdate, by the current manifest, the parent the client sent and *)
(* the manifest it wants.                                                  *)
ClassifyUpdate(current, parent, next) ==
  IF current = next THEN "applied"
  ELSE IF parent = NoParent \/ current = parent THEN "apply" ELSE "conflict"

(* Service.UpdateInit: presignNewBlobs for the blobs the stored manifest   *)
(* lacks; it writes nothing to Postgres.                                   *)
UpdateInit(s, m, parent, t) ==
  /\ Editable(s, t)
  /\ ClassifyUpdate(docs[s].manifest, parent, m) # "conflict"
  /\ Presign(s, m \ docs[s].manifest)
  /\ answer' = NoAnswer
  /\ UNCHANGED <<now, docs, owed, late, r2, queued, req, gc>>

(* Service.UpdateCommit, the read: the update is already live.             *)
UpdateAlreadyApplied(s, m, t) ==
  /\ Editable(s, t)
  /\ ClassifyUpdate(docs[s].manifest, NoParent, m) = "applied"
  /\ Answered("update", s, m)
  /\ UNCHANGED <<now, docs, owed, late, r2, putUntil, queued, req, gc>>

(* Service.UpdateCommit, the read: the update passes the optimistic check. *)
UpdateReads(r, s, m, parent, t) ==
  /\ Editable(s, t)
  /\ ClassifyUpdate(docs[s].manifest, parent, m) = "apply"
  /\ Start(r, [pc |-> "head", op |-> "update", slug |-> s, m |-> m,
               parent |-> parent, token |-> t, todo |-> m, expires |-> NULL])
  /\ answer' = NoAnswer
  /\ UNCHANGED <<now, docs, owed, late, r2, putUntil, queued, gc>>

(* applyUpdate: the guarded overwrite, and its purge, in one transaction.  *)
ApplyUpdate(r) ==
  LET s == req[r].slug IN
  /\ req[r].pc = "write" /\ req[r].op = "update"
  /\ Updatable(docs[s], req[r].parent)
  /\ WriteRow(s, UpdatedRow(docs[s], req[r].m, req[r].expires, now))
  /\ owed' = [owed EXCEPT ![s] = req[r].expires]
  /\ Answered("update", s, req[r].m)
  /\ Finish(r)
  /\ UNCHANGED <<now, late, r2, putUntil, gc>>

(* applyUpdate, no row updated: reconcileConcurrentUpdate is next.         *)
UpdateLosesRace(r) ==
  /\ req[r].pc = "write" /\ req[r].op = "update"
  /\ ~Updatable(docs[req[r].slug], req[r].parent)
  /\ req' = [req EXCEPT ![r].pc = "reconcile"]
  /\ answer' = NoAnswer
  /\ UNCHANGED <<now, docs, owed, late, r2, putUntil, queued, gc>>

(* Mutant: any live row counts as the update having landed.                *)
ReconcileUpdateBlindly(r) ==
  /\ req[r].pc = "reconcile"
  /\ docs[req[r].slug].status = "published"
  /\ Answered("update", req[r].slug, req[r].m)
  /\ Finish(r)
  /\ UNCHANGED <<now, docs, owed, late, r2, putUntil, queued, gc>>

(* reconcileConcurrentUpdate: success if what is live now is what was      *)
(* wanted; otherwise 409 (RequestFails).                                   *)
ReconcileUpdate(r) ==
  LET s == req[r].slug IN
  /\ req[r].pc = "reconcile"
  /\ docs[s].status = "published"
  /\ docs[s].manifest = req[r].m
  /\ Answered("update", s, req[r].m)
  /\ Finish(r)
  /\ UNCHANGED <<now, docs, owed, late, r2, putUntil, queued, gc>>

-----------------------------------------------------------------------------
(* Service.Delete, the read.  A gone row is answered as done and a row     *)
(* that was never public as 404, both changing nothing.                    *)
DeleteReads(r, s, t) ==
  /\ Editable(s, t)
  /\ Start(r, [pc |-> "write", op |-> "delete", slug |-> s,
               m |-> docs[s].manifest, parent |-> NoParent, token |-> t,
               todo |-> {}, expires |-> NULL])
  /\ answer' = NoAnswer
  /\ UNCHANGED <<now, docs, owed, late, r2, putUntil, queued, gc>>

(* softDelete: the row flip, whatever the row has become, and its purge.   *)
SoftDelete(r) ==
  LET s == req[r].slug IN
  /\ req[r].pc = "write" /\ req[r].op = "delete"
  /\ WriteRow(s, DeletedRow(docs[s], now))
  /\ Finish(r)
  /\ answer' = NoAnswer
  /\ UNCHANGED <<now, owed, late, r2, putUntil, gc>>

(* A request ends with an error: blob_missing, a lost race, a failed       *)
(* statement or call, or the web process dying under it.                   *)
RequestFails(r) ==
  /\ req[r] # Idle
  /\ Finish(r)
  /\ answer' = NoAnswer
  /\ UNCHANGED <<now, docs, owed, late, r2, putUntil, queued, gc>>

-----------------------------------------------------------------------------
(* The lifecycle GC.  One pass runs at a time, in the one jobs process.    *)
(* Every step is attempted even if an earlier one failed.                  *)

GCGoes(pc) == gc' = [gc EXCEPT !.pc = pc]

GCStart ==
  /\ gc.pc = "idle"
  /\ gc' = [GCIdle EXCEPT !.pc = "expire", !.start = now]
  /\ answer' = NoAnswer
  /\ UNCHANGED <<now, docs, owed, late, r2, putUntil, queued, req>>

(* Rows a write transaction may hold locked right now.  FOR UPDATE SKIP    *)
(* LOCKED leaves out those it really holds.                                *)
Contended == {req[r].slug : r \in {q \in Requests : req[q].pc = "write"}}

(* Mutant: the pass returns after the expiry step.                         *)
MarkExpiredEndsPass ==
  /\ gc.pc = "expire"
  /\ \E locked \in SUBSET Contended :
       LET due == {s \in Slugs \ locked : ExpireDue(docs[s], gc.start)} IN
       \E C \in Batches(due, [s \in due |-> docs[s].expires_at], BatchSize) :
         docs' = [s \in Slugs |->
                    IF s \in C THEN ExpiredRow(docs[s], now) ELSE docs[s]]
  /\ gc' = GCIdle
  /\ answer' = NoAnswer
  /\ UNCHANGED <<now, owed, late, r2, putUntil, queued, req>>

(* MarkExpired on the pass's start instant; it enqueues no purge.          *)
MarkExpired ==
  /\ gc.pc = "expire"
  /\ \E locked \in SUBSET Contended :
       LET due == {s \in Slugs \ locked : ExpireDue(docs[s], gc.start)} IN
       \E C \in Batches(due, [s \in due |-> docs[s].expires_at], BatchSize) :
         docs' = [s \in Slugs |->
                    IF s \in C THEN ExpiredRow(docs[s], now) ELSE docs[s]]
  /\ GCGoes("abandon")
  /\ answer' = NoAnswer
  /\ UNCHANGED <<now, owed, late, r2, putUntil, queued, req>>

MarkAbandoned ==
  /\ gc.pc = "abandon"
  /\ \E locked \in SUBSET Contended :
       LET due == {s \in Slugs \ locked :
                     AbandonDue(docs[s], gc.start, AbandonGrace)} IN
       \E C \in Batches(due, [s \in due |-> docs[s].created_at], BatchSize) :
         docs' = [s \in Slugs |->
                    IF s \in C THEN AbandonedRow(docs[s], now) ELSE docs[s]]
  /\ GCGoes("list")
  /\ answer' = NoAnswer
  /\ UNCHANGED <<now, owed, late, r2, putUntil, queued, req>>

(* A transition that fails moves no row and does not stop the pass.        *)
MarkFails ==
  /\ gc.pc \in {"expire", "abandon"}
  /\ GCGoes(IF gc.pc = "expire" THEN "abandon" ELSE "list")
  /\ answer' = NoAnswer
  /\ UNCHANGED <<now, docs, owed, late, r2, putUntil, queued, req>>

ListBlobGCCandidates ==
  /\ gc.pc = "list"
  /\ LET due == {s \in Slugs :
                   BlobGCDue(docs[s], gc.start, BlobDeleteGrace)} IN
     \E C \in Batches(due, [s \in due |-> docs[s].updated_at], BatchSize) :
       gc' = [gc EXCEPT !.pc = "sweep", !.todo = C]
  /\ answer' = NoAnswer
  /\ UNCHANGED <<now, docs, owed, late, r2, putUntil, queued, req>>

(* deletePrefix: LIST one page of the slug's prefix, past the keys already *)
(* listed.                                                                 *)
ListPage(s, todo, seen) ==
  \E P \in Pages(r2[s] \ seen, PageSize) :
    gc' = [gc EXCEPT !.pc = "delete", !.todo = todo, !.slug = s,
                     !.page = P, !.seen = seen \cup P,
                     !.truncated = (P # r2[s] \ seen)]

(* deleteBlobs turns to one of the candidates left.                        *)
NextCandidate(s) ==
  /\ gc.pc = "sweep"
  /\ s \in gc.todo
  /\ ListPage(s, gc.todo \ {s}, {})
  /\ answer' = NoAnswer
  /\ UNCHANGED <<now, docs, owed, late, r2, putUntil, queued, req>>

NextPage ==
  /\ gc.pc = "more"
  /\ ListPage(gc.slug, gc.todo, gc.seen)
  /\ answer' = NoAnswer
  /\ UNCHANGED <<now, docs, owed, late, r2, putUntil, queued, req>>

(* deleteObjects on the page; after the last page the row is to be stamped *)
DeleteObjects ==
  /\ gc.pc = "delete"
  /\ r2' = [r2 EXCEPT ![gc.slug] = @ \ gc.page]
  /\ GCGoes(IF gc.truncated THEN "more" ELSE "stamp")
  /\ answer' = NoAnswer
  /\ UNCHANGED <<now, docs, owed, late, putUntil, queued, req>>

(* The pass gives up a candidate and turns to the next.                    *)
NoCandidate(todo) == [GCIdle EXCEPT !.pc = "sweep", !.start = gc.start,
                                    !.todo = todo]

(* Some keys of the page fail to delete: the row is left for another pass. *)
DeleteObjectsFails ==
  /\ gc.pc = "delete"
  /\ \E D \in SUBSET gc.page : r2' = [r2 EXCEPT ![gc.slug] = @ \ D]
  /\ gc' = NoCandidate(gc.todo)
  /\ answer' = NoAnswer
  /\ UNCHANGED <<now, docs, owed, late, putUntil, queued, req>>

SetBlobsDeletedAt ==
  /\ gc.pc = "stamp"
  /\ docs' = [docs EXCEPT ![gc.slug] = SweptRow(@)]
  /\ gc' = NoCandidate(gc.todo)
  /\ answer' = NoAnswer
  /\ UNCHANGED <<now, owed, late, r2, putUntil, queued, req>>

(* A LIST or a stamp that fails skips the candidate.                       *)
CandidateFails ==
  /\ \/ gc.pc \in {"more", "stamp"} /\ gc' = NoCandidate(gc.todo)
     \/ /\ gc.pc = "sweep"
        /\ \E s \in gc.todo : gc' = NoCandidate(gc.todo \ {s})
  /\ answer' = NoAnswer
  /\ UNCHANGED <<now, docs, owed, late, r2, putUntil, queued, req>>

(* The pass is over, or its LIST of candidates failed.                     *)
GCEnds ==
  /\ \/ gc.pc = "sweep" /\ gc.todo = {}
     \/ gc.pc = "list"
  /\ gc' = GCIdle
  /\ answer' = NoAnswer
  /\ UNCHANGED <<now, docs, owed, late, r2, putUntil, queued, req>>

(* The jobs process dies in the middle of a pass; the next one starts over *)
JobsCrash ==
  /\ gc.pc # "idle"
  /\ gc' = GCIdle
  /\ answer' = NoAnswer
  /\ UNCHANGED <<now, docs, owed, late, r2, putUntil, queued, req>>

-----------------------------------------------------------------------------
(* A purge of s completes and drops its queue row (module PurgeQueue).     *)
PurgeDone(s) ==
  /\ s \in queued
  /\ queued' = queued \ {s}
  /\ answer' = NoAnswer
  /\ UNCHANGED <<now, docs, owed, late, r2, putUntil, req, gc>>

(* Time passes; a presigned PUT that lapses is forgotten.                  *)
Tick ==
  /\ now < MaxTime
  /\ now' = now + 1
  /\ putUntil' = [s \in Slugs |-> [b \in Blobs |->
                    IF putUntil[s][b] > now' THEN putUntil[s][b] ELSE NULL]]
  /\ answer' = NoAnswer
  /\ UNCHANGED <<docs, owed, late, r2, queued, req, gc>>

ClientSteps ==
  \E s \in Slugs :
    \/ \E k \in Keys, m \in Manifests, t \in Tokens : PublishInit(k, s, m, t)
    \/ \E b \in Blobs : PutBlob(s, b)
    \/ \E m \in Manifests, p \in Manifests \cup {NoParent}, t \in Tokens :
         UpdateInit(s, m, p, t)
    \/ \E k \in Keys : CommitFindsPublished(k, s)
    \/ \E m \in Manifests, t \in Tokens : UpdateAlreadyApplied(s, m, t)

RequestSteps ==
  \E r \in Requests :
    \/ \E s \in Slugs :
         \/ \E k \in Keys : CommitReads(r, k, s)
         \/ \E t \in Tokens : DeleteReads(r, s, t)
         \/ \E m \in Manifests, p \in Manifests \cup {NoParent}, t \in Tokens :
              UpdateReads(r, s, m, p, t)
    \/ \E b \in Blobs : HeadBlob(r, b)
    \/ CommitPublish(r) \/ ApplyUpdate(r) \/ UpdateLosesRace(r)
    \/ ReconcileUpdate(r) \/ SoftDelete(r) \/ RequestFails(r)

GCSteps ==
  \/ GCStart \/ MarkExpired \/ MarkAbandoned \/ MarkFails
  \/ ListBlobGCCandidates \/ NextPage \/ DeleteObjects \/ DeleteObjectsFails
  \/ SetBlobsDeletedAt \/ CandidateFails \/ GCEnds \/ JobsCrash
  \/ \E s \in Slugs : NextCandidate(s)

Next ==
  ClientSteps \/ RequestSteps \/ GCSteps \/ Tick
    \/ \E s \in Slugs : PurgeDone(s)

Spec == Init /\ [][Next]_vars

-----------------------------------------------------------------------------
(* Fairness.  The clock runs and the jobs process keeps ticking.  R2 and   *)
(* Postgres do not refuse the same step for ever, the process is not       *)
(* killed at the same step for ever (the last page of a prefix is a step   *)
(* of its own: clients may PUT again what a pass cut short has deleted),   *)
(* and no row is locked at every pass; clients owe nothing.                *)
Fairness ==
  /\ WF_vars(Tick)
  /\ WF_vars(GCSteps)
  /\ SF_vars(MarkExpired) /\ SF_vars(MarkExpired /\ docs' # docs)
  /\ SF_vars(MarkAbandoned) /\ SF_vars(MarkAbandoned /\ docs' # docs)
  /\ SF_vars(ListBlobGCCandidates)
  /\ SF_vars(\E s \in Slugs : NextCandidate(s))
  /\ SF_vars(NextPage)
  /\ SF_vars(DeleteObjects) /\ SF_vars(DeleteObjects /\ ~gc.truncated)
  /\ SF_vars(SetBlobsDeletedAt)

FairSpec == Spec /\ Fairness

-----------------------------------------------------------------------------
(* Safety.                                                                 *)

(* A document that is served has every blob of its manifest in R2: no      *)
(* interleaving of HEADs, of the GC's LISTs and deletes, of an abandonment *)
(* that overtakes a commit, or of updates that re-use stored blobs leaves  *)
(* a live page with a hole in it.                                          *)
PublishedBlobsPresent ==
  \A s \in Slugs :
    docs[s].status = "published" => docs[s].manifest \subseteq r2[s]

(* A HEAD stays good until the write it was made for: what a commit has    *)
(* verified is still in R2 for as long as its row could go live, and a     *)
(* pending row is still the manifest the commit verified.                  *)
HeadsStayGood ==
  \A r \in Requests :
    LET row == docs[req[r].slug] IN
    req[r] # Idle =>
      /\ row # NoRow
      /\ req[r].pc # "head" => req[r].todo = {}
      /\ req[r].op # "delete" /\ row.status \notin Terminal
           => req[r].m \ req[r].todo \subseteq r2[req[r].slug]
      /\ req[r].op = "publish" /\ row.status = "pending"
           => req[r].m = row.manifest

(* The sweep deletes by a work-list read several calls ago; every slug on  *)
(* it is terminal still, so no deletion ever falls on a live document.     *)
SweepsOnlyTerminal ==
  LET held == gc.todo \cup
                (IF gc.pc \in {"delete", "more", "stamp"} THEN {gc.slug} ELSE {})
  IN \A s \in held : s \in Slugs /\ docs[s].status \in Terminal

(* blobs_deleted_at is a promise that the prefix is empty, for the row is  *)
(* never listed again: no URL handed out in time, by an init or an update, *)
(* is good for a PUT once the sweep has been.  Two things stand outside.   *)
(* The server does not relate presignTTL to the graces; its defaults do    *)
(* (GracesCoverUploads).  And an init that is run again when its row is    *)
(* terminal, or about to be abandoned, is signed URLs all the same; blobs  *)
(* PUT with those stay for ever (late).                                    *)
GracesCoverUploads ==
  PresignTTL <= AbandonGrace /\ PresignTTL <= BlobDeleteGrace

SweptStaysEmptyButForLateInit ==
  \A s \in Slugs \ late : IsSwept(docs[s]) => r2[s] = {}

(* A commit's success is true when it is given: the document is served     *)
(* with the manifest the answer names, also for the answers that write     *)
(* nothing (a retry, a lost race that another writer won identically).     *)
AnswersAreLive ==
  answer # NoAnswer =>
    /\ docs[answer.slug].status = "published"
    /\ docs[answer.slug].manifest = answer.m

(* A slug's public answer only moves forward, 404 to 200 to 410: a row GC  *)
(* abandoned is not published by a late commit, a gone document does not   *)
(* come back, and one that was never public does not turn into 410.        *)
ServedMovesForward ==
  [][\A s \in Slugs :
       <<Served(docs[s]), Served(docs'[s])>> \in
         {<<"404", "404">>, <<"404", "200">>, <<"200", "200">>,
          <<"200", "410">>, <<"410", "410">>}]_vars

(* No lost update: a request that named the parent it edits replaces that  *)
(* manifest and no other, however many writers passed the same optimistic  *)
(* pre-check.                                                              *)
NoLostUpdate ==
  [][\A r \in Requests :
       LET s == req[r].slug IN
       (/\ req[r] # Idle /\ req[r].op = "update" /\ req'[r] = Idle
        /\ docs'[s].manifest # docs[s].manifest)
         => req[r].parent \in {NoParent, docs[s].manifest}]_vars

(* A document does not expire before the expiry its last publish or update *)
(* computed, though the sweep decides on an instant it took before that    *)
(* write was made.                                                         *)
LifetimeHonoured ==
  [][\A s \in Slugs :
       docs[s].status = "published" /\ docs'[s].status = "expired"
         => owed[s] <= now]_vars

(* A write that changes what the edge should serve leaves the slug in the  *)
(* purge queue; only expiry, which the sweep flips without enqueueing,     *)
(* does not.                                                               *)
VisibleChangeIsQueued ==
  [][\A s \in Slugs :
       \/ s \in queued'
       \/ docs'[s] = docs[s]
       \/ docs'[s].status # "published" /\ docs[s].status # "published"
       \/ docs'[s].status = "expired"]_vars

-----------------------------------------------------------------------------
(* Liveness.  MaxTime stops the clock, so each speaks of the rows whose    *)
(* grace runs out before it.                                               *)

(* A pending row does not stay pending: it is published or abandoned.      *)
PendingSettles ==
  \A s \in Slugs :
    (docs[s].status = "pending" /\ docs[s].created_at + AbandonGrace <= MaxTime)
      ~> (docs[s].status # "pending")

(* The blobs of a terminal row are deleted and the row leaves the          *)
(* work-list, whatever passes crash or fail half-way on the way there      *)
(* (unless a racing delete restarts the grace, out of the clock's reach).  *)
SweepOwed(s) ==
  /\ docs[s].status \in Terminal
  /\ ~docs[s].blobs_deleted
  /\ docs[s].status \in Gone =>
       docs[s].updated_at + BlobDeleteGrace <= MaxTime

TerminalIsSwept == \A s \in Slugs : SweepOwed(s) ~> ~SweepOwed(s)
=============================================================================
