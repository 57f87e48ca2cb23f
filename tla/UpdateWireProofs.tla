--------------------------- MODULE UpdateWireProofs ---------------------------
(***************************************************************************)
(* Proofs about UpdateWire: a command that reports success, or a conflict, *)
(* tells the truth, for any number of machines, commands and attempts.     *)
(*                                                                         *)
(* Neither is inductive.  What carries them is what a running command may  *)
(* rely on: as long as nothing foreign has happened the document is live   *)
(* and holds its parent or what it wants itself, and a request of its own  *)
(* that has lost the race can have lost it only to its own earlier attempt *)
(* (which a re-read that fails does not see).                              *)
(***************************************************************************)
EXTENDS UpdateWire, TLAPS

Running(k) == k.pc # "idle"

(* Attempts are left whenever another can be made.                         *)
AttemptsLeft(k) ==
  /\ k.pc \in {"init", "upload"} => ~k.waiting
  /\ k.pc = "init" => k.tries < MaxAttempts
  /\ k.pc = "upload" => k.tries = 0
  /\ k.pc = "commit" /\ ~k.waiting => k.tries < MaxAttempts
  /\ k.waiting => k.pc = "commit"

(* What a running command may rely on.                                     *)
Knows(k, d) ==
  Running(k) =>
    /\ k.id # 0 /\ k.outcome = "none"
    /\ d.manifest \in k.seen
    /\ k.foreign \/ (d.live /\ (k.parent # NoParent => d.manifest \in {k.parent, k.want}))

(* A request that a running command sent asks what the command asks.       *)
OwnRequest(k, r, d) ==
  Running(k) /\ r.by = k.id =>
    /\ r.want = k.want /\ r.parent = k.parent
    /\ r.stage = "raced" => k.foreign \/ d.manifest = k.want

(* The outcomes of a command that has ended.                               *)
Truthful(k) ==
  /\ k.outcome = "ok" => k.want \in k.seen
  /\ k.outcome = "conflict" => k.foreign \/ k.unread
  /\ k.outcome # "missing"

(* The blobs of what is wanted are uploaded, or are still to be.           *)
Uploaded(k, blobs) ==
  /\ k.pc = "upload" => BlobsOf[k.want] \subseteq blobs \cup k.todo
  /\ k.pc = "commit" => BlobsOf[k.want] \subseteq blobs

(* What holds of a command in a document, a store and a wire.              *)
Good(k, d, blobs, w) ==
  /\ AttemptsLeft(k)
  /\ Knows(k, d)
  /\ Truthful(k)
  /\ Uploaded(k, blobs)
  /\ \A r \in w : OwnRequest(k, r, d)

IdsApart ==
  /\ \A c \in Clients : cmd[c].id <= used
  /\ \A r \in wire : r.by <= used
  /\ \A c, d \in Clients : cmd[c].id # 0 /\ cmd[c].id = cmd[d].id => c = d

BlobsKept ==
  /\ BlobsOf[doc.manifest] \subseteq r2
  /\ \A r \in wire : BlobsOf[r.want] \subseteq r2

IInv ==
  /\ TypeOK
  /\ IdsApart
  /\ BlobsKept
  /\ \A c \in Clients : Good(cmd[c], doc, r2, wire)

-----------------------------------------------------------------------------
(* A command that has ended is good anywhere if its outcome is true.       *)
LEMMA EndedIsGood ==
  ASSUME NEW k \in Command, NEW o \in Outcomes \ {"missing"},
         o = "ok" => k.want \in k.seen,
         o = "conflict" => k.foreign,
         NEW d, NEW blobs, NEW w
  PROVE  /\ Ended(k, o) \in Command
         /\ Ended(k, o).id = k.id
         /\ Ended(k, o).pc = "idle"
         /\ Good(Ended(k, o), d, blobs, w)
<1> DEFINE e == Ended(k, o)
<1>1. e \in Command
  BY DEF Ended, Command
<1>2. /\ e.id = k.id /\ e.pc = "idle" /\ e.waiting = FALSE /\ e.outcome = o
      /\ e.want = k.want /\ e.seen = k.seen /\ e.foreign = k.foreign
      /\ e.unread = k.unread
  BY DEF Ended, Command
<1> HIDE DEF e
<1>3. Good(e, d, blobs, w)
  BY <1>2 DEF Good, AttemptsLeft, Knows, Running, Truthful, Uploaded, OwnRequest
<1> QED BY <1>1, <1>2, <1>3 DEF e

(* Another attempt is made as long as some are left.                       *)
LEMMA RetriedIsGood ==
  ASSUME NEW k \in Command, NEW d, NEW blobs, NEW w,
         k.pc \in {"init", "commit"},
         Knows(k, d), Truthful(k), Uploaded(k, blobs),
         \A r \in w : OwnRequest(k, r, d)
  PROVE  /\ Retried(k) \in Command
         /\ Retried(k).id = k.id
         /\ Good(Retried(k), d, blobs, w)
<1>1. CASE k.tries = MaxAttempts
  <2>1. Retried(k) = Ended(k, "failed")
    BY <1>1 DEF Retried
  <2>2. "failed" \in Outcomes \ {"missing"}
    BY DEF Outcomes
  <2> QED BY <2>1, <2>2, EndedIsGood
<1>2. CASE k.tries # MaxAttempts
  <2> DEFINE a == Retried(k)
  <2>1. a = [k EXCEPT !.waiting = FALSE]
    BY <1>2 DEF Retried
  <2>2. a \in Command
    BY <2>1 DEF Command
  <2>3. /\ a.id = k.id /\ a.pc = k.pc /\ a.waiting = FALSE /\ a.tries = k.tries
        /\ a.want = k.want /\ a.parent = k.parent /\ a.todo = k.todo
        /\ a.seen = k.seen /\ a.foreign = k.foreign /\ a.outcome = k.outcome
        /\ a.unread = k.unread
    BY <2>1 DEF Command
  <2>4. k.tries < MaxAttempts
    BY <1>2, WireAssumption DEF Command
  <2> HIDE DEF a
  <2>5. AttemptsLeft(a)
    BY <2>3, <2>4 DEF AttemptsLeft
  <2>6. Knows(a, d) /\ Truthful(a) /\ Uploaded(a, blobs)
    BY <2>3 DEF Knows, Running, Truthful, Uploaded
  <2>7. \A r \in w : OwnRequest(a, r, d)
    BY <2>3 DEF OwnRequest, Running
  <2> QED BY <2>2, <2>3, <2>5, <2>6, <2>7 DEF a, Good
<1> QED BY <1>1, <1>2

(* What is good stays good while requests leave and blobs arrive.          *)
LEMMA GoodIsKept ==
  ASSUME NEW k, NEW d, NEW blobs, NEW w, Good(k, d, blobs, w),
         NEW blobs2, blobs \subseteq blobs2,
         NEW w2, w2 \subseteq w
  PROVE  Good(k, d, blobs2, w2)
BY DEF Good, Uploaded

(* So does what has ended, whatever happens.                               *)
LEMMA IdleIsGood ==
  ASSUME NEW k, NEW d, NEW blobs, NEW w, Good(k, d, blobs, w), k.pc = "idle",
         NEW d2, NEW blobs2, NEW w2
  PROVE  Good(k, d2, blobs2, w2)
BY DEF Good, AttemptsLeft, Knows, Running, Truthful, Uploaded, OwnRequest

(* A client's reaction to an answer that is true is good.                  *)
LEMMA ReactionIsGood ==
  ASSUME NEW k \in Command, NEW d, NEW blobs, NEW w, Good(k, d, blobs, w),
         k.pc = "commit",
         NEW answer \in {"ok", "conflict", "unread", "gone", "error"},
         answer = "ok" => k.want \in k.seen,
         answer = "conflict" => k.foreign,
         NEW after \in Reactions(k, answer)
  PROVE  after \in Command /\ after.id = k.id /\ Good(after, d, blobs, w)
<1>1. CASE answer = "ok"
  <2> DEFINE e == Ended(k, "ok")
  <2>1. /\ e \in Command /\ e.id = k.id /\ e.pc = "idle" /\ Good(e, d, blobs, w)
    BY <1>1, EndedIsGood DEF Outcomes
  <2>2. PICK m \in {k.want, k.record} : after = [e EXCEPT !.record = m]
    BY <1>1 DEF Reactions
  <2> HIDE DEF e
  <2>3. after \in Command
    BY <2>1, <2>2 DEF Command
  <2>4. /\ after.id = e.id /\ after.pc = e.pc /\ after.waiting = e.waiting
        /\ after.tries = e.tries /\ after.outcome = e.outcome
        /\ after.want = e.want /\ after.seen = e.seen /\ after.foreign = e.foreign
        /\ after.unread = e.unread
    BY <2>1, <2>2 DEF Command
  <2>5. Good(after, d, blobs, w)
    BY <2>1, <2>4 DEF Good, AttemptsLeft, Knows, Running, Truthful, Uploaded,
                      OwnRequest
  <2> QED BY <2>1, <2>3, <2>4, <2>5
<1>2. CASE answer = "error"
  <2>1. after = Retried(k)
    BY <1>2 DEF Reactions
  <2> QED BY <2>1, RetriedIsGood DEF Good
<1>3. CASE answer \in {"conflict", "gone"}
  <2>1. after = Ended(k, answer)
    BY <1>3 DEF Reactions
  <2>2. answer \in Outcomes \ {"missing"}
    BY <1>3 DEF Outcomes
  <2> QED BY <1>3, <2>1, <2>2, EndedIsGood
<1>4. CASE answer = "unread"
  <2> DEFINE e == Ended(k, "conflict")
  <2>1. after = [e EXCEPT !.unread = TRUE]
    BY <1>4 DEF Reactions
  <2>2. after \in Command /\ after.id = k.id
    BY <2>1 DEF Ended, Command, Outcomes
  <2>3. /\ after.pc = "idle" /\ after.waiting = FALSE
        /\ after.outcome = "conflict" /\ after.unread = TRUE
    BY <2>1 DEF Ended, Command
  <2>4. Good(after, d, blobs, w)
    BY <2>3 DEF Good, AttemptsLeft, Knows, Running, Truthful, Uploaded, OwnRequest
  <2> QED BY <2>2, <2>4
<1> QED BY <1>1, <1>2, <1>3, <1>4

(* So an answer that is true of the command it reaches keeps all commands  *)
(* good.                                                                   *)
LEMMA AnswersKeepGood ==
  ASSUME TypeOK, IdsApart, NEW r \in wire,
         NEW d, NEW known \in [Clients -> Command],
         \A c \in Clients : /\ Good(known[c], d, r2, wire)
                            /\ known[c].id = cmd[c].id /\ known[c].pc = cmd[c].pc
                            /\ known[c].want = cmd[c].want,
         NEW answer \in {"ok", "conflict", "unread", "gone", "error"},
         \A c \in Clients : Awaits(c, r) =>
           /\ answer = "ok" => known[c].want \in known[c].seen
           /\ answer = "conflict" => known[c].foreign,
         Answers(known, r, answer)
  PROVE  /\ wire' = wire \ {r}
         /\ cmd' \in [Clients -> Command]
         /\ \A c \in Clients : Good(cmd'[c], d, r2, wire') /\ cmd'[c].id = cmd[c].id
<1>1. wire' = wire \ {r}
  BY DEF Answers
<1>2. \A c \in Clients : known[c] \in Command /\ Good(known[c], d, r2, wire')
  BY <1>1, GoodIsKept
<1>3. CASE cmd' = known
  BY <1>1, <1>2, <1>3
<1>4. CASE \E c \in Clients : \E after \in Reactions(known[c], answer) :
             Awaits(c, r) /\ cmd' = [known EXCEPT ![c] = after]
  <2> PICK c \in Clients : \E after \in Reactions(known[c], answer) :
             Awaits(c, r) /\ cmd' = [known EXCEPT ![c] = after]
    BY <1>4
  <2> PICK after \in Reactions(known[c], answer) :
             Awaits(c, r) /\ cmd' = [known EXCEPT ![c] = after]
    OBVIOUS
  <2>1. known[c].pc = "commit"
    BY DEF Awaits
  <2>2. /\ after \in Command /\ after.id = known[c].id
        /\ Good(after, d, r2, wire')
    BY <1>2, <2>1, ReactionIsGood
  <2> QED BY <1>1, <1>2, <2>2
<1> QED BY <1>3, <1>4 DEF Answers

-----------------------------------------------------------------------------
(* A client's own step changes its own command, and may add blobs.         *)
LEMMA ClientStepKeepsIInv ==
  ASSUME IInv, NEW c \in Clients, NEW k \in Command,
         cmd' = [cmd EXCEPT ![c] = k], k.id = cmd[c].id,
         UNCHANGED <<doc, wire, used>>,
         r2 \subseteq r2', r2' \subseteq Blobs,
         Good(k, doc, r2', wire)
  PROVE  IInv'
<1>1. TypeOK'
  BY DEF IInv, TypeOK
<1>2. \A e \in Clients : cmd'[e].id = cmd[e].id
  BY DEF IInv, TypeOK
<1>3. IdsApart'
  BY <1>2 DEF IInv, IdsApart
<1>4. BlobsKept'
  BY DEF IInv, BlobsKept
<1>5. ASSUME NEW e \in Clients
      PROVE  Good(cmd'[e], doc', r2', wire')
  <2>1. CASE e = c
    BY <2>1 DEF IInv, TypeOK
  <2>2. CASE e # c
    <3>1. cmd'[e] = cmd[e] /\ Good(cmd[e], doc, r2, wire)
      BY <2>2 DEF IInv, TypeOK
    <3> QED BY <3>1, GoodIsKept
  <2> QED BY <2>1, <2>2
<1> QED BY <1>1, <1>3, <1>4, <1>5 DEF IInv

(* A new command knows nothing foreign, and no request is its own yet.     *)
LEMMA BeginKeepsIInv ==
  ASSUME IInv, NEW c \in Clients, NEW m \in Manifests, NEW force \in BOOLEAN,
         Begin(c, m, force)
  PROVE  IInv'
<1> DEFINE parent == IF force THEN NoParent ELSE cmd[c].record
           k == [pc |-> "init", id |-> used + 1, want |-> m, parent |-> parent,
                 tries |-> 0, waiting |-> FALSE, todo |-> {}, outcome |-> "none",
                 record |-> cmd[c].record, seen |-> {doc.manifest},
                 foreign |-> ~doc.live \/ parent \notin {NoParent, doc.manifest},
                 unread |-> FALSE]
<1>1. /\ cmd' = [cmd EXCEPT ![c] = k] /\ used' = used + 1 /\ used < MaxCommands
      /\ UNCHANGED <<doc, r2, wire>>
  BY DEF Begin
<1>2. k \in Command
  BY <1>1, WireAssumption DEF IInv, TypeOK, Command, Outcomes
<1>3. TypeOK'
  BY <1>1, <1>2, WireAssumption DEF IInv, TypeOK
<1>4. \A e \in Clients : cmd[e].id \in Nat /\ cmd[e].id <= used
  BY DEF IInv, TypeOK, IdsApart, Command
<1>5. \A r \in wire : r.by \in Nat /\ r.by <= used
  BY DEF IInv, TypeOK, IdsApart, Request
<1>6. \A e \in Clients : cmd'[e].id = IF e = c THEN used + 1 ELSE cmd[e].id
  BY <1>1 DEF IInv, TypeOK
<1>7. IdsApart'
  BY <1>1, <1>4, <1>5, <1>6 DEF IInv, IdsApart, TypeOK
<1>8. BlobsKept'
  BY <1>1 DEF IInv, BlobsKept
<1>9. Good(k, doc, r2, wire)
  <2>1. AttemptsLeft(k) /\ Truthful(k) /\ Uploaded(k, r2)
    BY WireAssumption DEF AttemptsLeft, Truthful, Uploaded
  <2>2. k.id # 0 /\ k.outcome = "none" /\ doc.manifest \in k.seen
    BY DEF IInv, TypeOK
  <2>3. k.foreign \/ (doc.live /\ k.parent \in {NoParent, doc.manifest})
    BY DEF IInv, TypeOK
  <2>4. Knows(k, doc)
    BY <2>2, <2>3 DEF Knows
  <2>5. \A r \in wire : OwnRequest(k, r, doc)
    BY <1>5 DEF OwnRequest, IInv, TypeOK
  <2> QED BY <2>1, <2>4, <2>5 DEF Good
<1>10. ASSUME NEW e \in Clients
       PROVE  Good(cmd'[e], doc', r2', wire')
  BY <1>1, <1>9 DEF IInv, TypeOK
<1> QED BY <1>3, <1>7, <1>8, <1>10 DEF IInv

(* A refused init is refused for something foreign, or for a document that *)
(* has gone; an accepted one names the blobs that are missing.             *)
LEMMA UpdateInitKeepsIInv ==
  ASSUME IInv, NEW c \in Clients, UpdateInit(c)
  PROVE  IInv'
<1> DEFINE k == cmd[c]
           class == ClassifyUpdate(doc.manifest, k.parent, k.want)
           up == [k EXCEPT !.pc = "upload", !.tries = 0,
                           !.todo = PresignNewBlobs(k.want, doc.manifest)]
<1>1. k \in Command /\ k.pc = "init" /\ Good(k, doc, r2, wire)
  BY DEF IInv, TypeOK, UpdateInit
<1>2. cmd' = [cmd EXCEPT ![c] = cmd'[c]] /\ UNCHANGED <<doc, r2, wire, used>>
  BY DEF UpdateInit, IInv, TypeOK
<1>3. CASE ~doc.live
  <2>1. cmd'[c] = Ended(k, "gone")
    BY <1>3 DEF UpdateInit, IInv, TypeOK
  <2>2. "gone" \in Outcomes \ {"missing"}
    BY DEF Outcomes
  <2> QED BY <1>1, <1>2, <2>1, <2>2, EndedIsGood, ClientStepKeepsIInv DEF IInv, TypeOK
<1>4. CASE doc.live /\ class = "conflict"
  <2>1. cmd'[c] = Ended(k, "conflict")
    BY <1>4 DEF UpdateInit, IInv, TypeOK
  <2>2. "conflict" \in Outcomes \ {"missing"}
    BY DEF Outcomes
  <2>3. k.foreign
    BY <1>1, <1>4 DEF Good, Knows, Running, ClassifyUpdate
  <2> QED BY <1>1, <1>2, <2>1, <2>2, <2>3, EndedIsGood, ClientStepKeepsIInv
          DEF IInv, TypeOK
<1>5. CASE doc.live /\ class # "conflict"
  <2>1. cmd'[c] = up
    BY <1>5 DEF UpdateInit, IInv, TypeOK
  <2>2. doc.manifest \in Manifests /\ k.want \in Manifests
    BY <1>1 DEF IInv, TypeOK, Command
  <2>3. PresignNewBlobs(k.want, doc.manifest) \subseteq Blobs
    BY <2>2, WireAssumption DEF PresignNewBlobs
  <2>4. up \in Command
    <3>1. 0 \in 0..MaxAttempts
      BY WireAssumption
    <3> HIDE DEF k, class
    <3> QED BY <1>1, <2>3, <3>1 DEF Command
  <2>5. /\ up.id = k.id /\ up.pc = "upload" /\ up.tries = 0
        /\ up.todo = BlobsOf[k.want] \ BlobsOf[doc.manifest]
        /\ up.want = k.want /\ up.parent = k.parent /\ up.waiting = k.waiting
        /\ up.outcome = k.outcome /\ up.seen = k.seen /\ up.foreign = k.foreign
    BY <1>1 DEF Command, PresignNewBlobs
  <2> HIDE DEF up
  <2>6. AttemptsLeft(up)
    BY <1>1, <2>5 DEF Good, AttemptsLeft
  <2>7. Uploaded(up, r2)
    BY <2>5 DEF IInv, BlobsKept, Uploaded
  <2>8. Knows(up, doc) /\ Truthful(up) /\ \A r \in wire : OwnRequest(up, r, doc)
    BY <1>1, <2>5 DEF Good, Knows, Running, Truthful, OwnRequest
  <2>9. Good(up, doc, r2, wire)
    BY <2>6, <2>7, <2>8 DEF Good
  <2> QED BY <1>2, <2>1, <2>4, <2>5, <2>9, ClientStepKeepsIInv DEF IInv, TypeOK
<1> QED BY <1>3, <1>4, <1>5

(* The client's other steps: an init that fails, the uploads, an attempt   *)
(* that times out.                                                         *)
LEMMA UpdateInitFailsKeepsIInv ==
  ASSUME IInv, NEW c \in Clients, UpdateInitFails(c)
  PROVE  IInv'
<1> DEFINE k == [cmd[c] EXCEPT !.tries = @ + 1]
<1>1. cmd[c] \in Command /\ cmd[c].pc = "init" /\ Good(cmd[c], doc, r2, wire)
  BY DEF IInv, TypeOK, UpdateInitFails
<1>2. cmd[c].tries + 1 \in 0..MaxAttempts
  BY <1>1, WireAssumption DEF Good, AttemptsLeft, Command
<1>3. k \in Command
  BY <1>1, <1>2 DEF Command
<1>4. /\ k.id = cmd[c].id /\ k.pc = "init"
      /\ k.want = cmd[c].want /\ k.parent = cmd[c].parent
      /\ k.outcome = cmd[c].outcome /\ k.seen = cmd[c].seen
      /\ k.foreign = cmd[c].foreign
  BY <1>1 DEF Command
<1>5. PICK after \in {Retried(k), Ended(k, "failed")} :
        cmd' = [cmd EXCEPT ![c] = after] /\ UNCHANGED <<doc, r2, wire, used>>
  BY DEF UpdateInitFails
<1> HIDE DEF k
<1>6. Knows(k, doc) /\ Truthful(k) /\ Uploaded(k, r2)
  BY <1>1, <1>4 DEF Good, Knows, Running, Truthful, Uploaded
<1>7. \A r \in wire : OwnRequest(k, r, doc)
  BY <1>1, <1>4 DEF Good, OwnRequest, Running
<1>8. "failed" \in Outcomes \ {"missing"}
  BY DEF Outcomes
<1>9. after \in Command /\ after.id = k.id /\ Good(after, doc, r2, wire)
  BY <1>3, <1>4, <1>5, <1>6, <1>7, <1>8, RetriedIsGood, EndedIsGood
<1> QED BY <1>4, <1>5, <1>9, ClientStepKeepsIInv DEF IInv, TypeOK

LEMMA PutBlobKeepsIInv ==
  ASSUME IInv, NEW c \in Clients, NEW b \in Blobs, PutBlob(c, b)
  PROVE  IInv'
<1> DEFINE k == [cmd[c] EXCEPT !.todo = @ \ {b}]
<1>1. cmd[c] \in Command /\ cmd[c].pc = "upload" /\ Good(cmd[c], doc, r2, wire)
  BY DEF IInv, TypeOK, PutBlob
<1>2. /\ cmd' = [cmd EXCEPT ![c] = k] /\ r2' = r2 \cup {b}
      /\ UNCHANGED <<doc, wire, used>>
  BY DEF PutBlob
<1>3. k \in Command
  BY <1>1 DEF Command
<1>4. /\ k.id = cmd[c].id /\ k.pc = "upload" /\ k.todo = cmd[c].todo \ {b}
      /\ k.want = cmd[c].want /\ k.parent = cmd[c].parent
      /\ k.tries = cmd[c].tries /\ k.waiting = cmd[c].waiting
      /\ k.outcome = cmd[c].outcome /\ k.seen = cmd[c].seen
      /\ k.foreign = cmd[c].foreign
  BY <1>1 DEF Command
<1> HIDE DEF k
<1>5. AttemptsLeft(k) /\ Knows(k, doc) /\ Truthful(k)
  BY <1>1, <1>4 DEF Good, AttemptsLeft, Knows, Running, Truthful
<1>6. Uploaded(k, r2')
  BY <1>1, <1>2, <1>4 DEF Good, Uploaded
<1>7. \A r \in wire : OwnRequest(k, r, doc)
  BY <1>1, <1>4 DEF Good, OwnRequest, Running
<1>8. Good(k, doc, r2', wire)
  BY <1>5, <1>6, <1>7 DEF Good
<1>9. r2 \subseteq r2' /\ r2' \subseteq Blobs
  BY <1>2 DEF IInv, TypeOK
<1> QED BY <1>2, <1>3, <1>4, <1>8, <1>9, ClientStepKeepsIInv

LEMMA UploadFailsKeepsIInv ==
  ASSUME IInv, NEW c \in Clients, UploadFails(c)
  PROVE  IInv'
<1>1. cmd[c] \in Command
  BY DEF IInv, TypeOK
<1>2. PICK landed \in SUBSET cmd[c].todo : r2' = r2 \cup landed
  BY DEF UploadFails
<1>3. r2 \subseteq r2' /\ r2' \subseteq Blobs
  BY <1>1, <1>2 DEF IInv, TypeOK, Command
<1>4. /\ cmd' = [cmd EXCEPT ![c] = Ended(cmd[c], "failed")]
      /\ UNCHANGED <<doc, wire, used>>
  BY DEF UploadFails
<1>5. "failed" \in Outcomes \ {"missing"}
  BY DEF Outcomes
<1> QED BY <1>1, <1>3, <1>4, <1>5, EndedIsGood, ClientStepKeepsIInv

LEMMA UploadEndsKeepsIInv ==
  ASSUME IInv, NEW c \in Clients, UploadEnds(c)
  PROVE  IInv'
<1> DEFINE k == [cmd[c] EXCEPT !.pc = "commit"]
<1>1. /\ cmd[c] \in Command /\ cmd[c].pc = "upload" /\ cmd[c].todo = {}
      /\ Good(cmd[c], doc, r2, wire)
  BY DEF IInv, TypeOK, UploadEnds
<1>2. cmd' = [cmd EXCEPT ![c] = k] /\ UNCHANGED <<doc, r2, wire, used>>
  BY DEF UploadEnds
<1>3. k \in Command
  BY <1>1 DEF Command
<1>4. /\ k.id = cmd[c].id /\ k.pc = "commit"
      /\ k.want = cmd[c].want /\ k.parent = cmd[c].parent
      /\ k.tries = cmd[c].tries /\ k.waiting = cmd[c].waiting
      /\ k.outcome = cmd[c].outcome /\ k.seen = cmd[c].seen
      /\ k.foreign = cmd[c].foreign
  BY <1>1 DEF Command
<1> HIDE DEF k
<1>5. AttemptsLeft(k) /\ Knows(k, doc) /\ Truthful(k)
  BY <1>1, <1>4, WireAssumption DEF Good, AttemptsLeft, Knows, Running, Truthful
<1>6. Uploaded(k, r2)
  BY <1>1, <1>4 DEF Good, Uploaded
<1>7. \A r \in wire : OwnRequest(k, r, doc)
  BY <1>1, <1>4 DEF Good, OwnRequest, Running
<1>8. Good(k, doc, r2, wire)
  BY <1>5, <1>6, <1>7 DEF Good
<1> QED BY <1>2, <1>3, <1>4, <1>8, ClientStepKeepsIInv DEF IInv, TypeOK

LEMMA TimesOutKeepsIInv ==
  ASSUME IInv, NEW c \in Clients, TimesOut(c)
  PROVE  IInv'
<1>1. cmd[c] \in Command /\ cmd[c].waiting /\ Good(cmd[c], doc, r2, wire)
  BY DEF IInv, TypeOK, TimesOut
<1>2. cmd[c].pc = "commit"
  BY <1>1 DEF Good, AttemptsLeft
<1>3. /\ cmd' = [cmd EXCEPT ![c] = Retried(cmd[c])]
      /\ UNCHANGED <<doc, r2, wire, used>>
  BY DEF TimesOut
<1>4. /\ Retried(cmd[c]) \in Command /\ Retried(cmd[c]).id = cmd[c].id
      /\ Good(Retried(cmd[c]), doc, r2, wire)
  BY <1>1, <1>2, RetriedIsGood DEF Good
<1> QED BY <1>3, <1>4, ClientStepKeepsIInv DEF IInv, TypeOK

(* An attempt that is sent asks what its command asks, has its blobs, and  *)
(* belongs to no other command.                                            *)
LEMMA SendCommitKeepsIInv ==
  ASSUME IInv, NEW c \in Clients, SendCommit(c)
  PROVE  IInv'
<1> DEFINE k == [cmd[c] EXCEPT !.tries = @ + 1, !.waiting = TRUE]
           q == Sent(k)
<1>1. /\ cmd[c] \in Command /\ cmd[c].pc = "commit" /\ ~cmd[c].waiting
      /\ Good(cmd[c], doc, r2, wire)
  BY DEF IInv, TypeOK, SendCommit
<1>2. /\ cmd' = [cmd EXCEPT ![c] = k] /\ wire' = wire \cup {q}
      /\ UNCHANGED <<doc, r2, used>>
  BY DEF SendCommit
<1>3. cmd[c].tries + 1 \in 1..MaxAttempts
  BY <1>1, WireAssumption DEF Good, AttemptsLeft, Command
<1>4. k \in Command
  <2>1. cmd[c].tries + 1 \in 0..MaxAttempts
    BY <1>3, WireAssumption
  <2> QED BY <1>1, <2>1 DEF Command
<1>5. /\ k.id = cmd[c].id /\ k.pc = "commit" /\ k.waiting
      /\ k.tries = cmd[c].tries + 1
      /\ k.want = cmd[c].want /\ k.parent = cmd[c].parent
      /\ k.outcome = cmd[c].outcome /\ k.seen = cmd[c].seen
      /\ k.foreign = cmd[c].foreign
  BY <1>1 DEF Command
<1>6. /\ q.by = k.id /\ q.try = k.tries /\ q.want = k.want
      /\ q.parent = k.parent /\ q.stage = "sent"
  BY DEF Sent
<1>7. k.id \in 1..MaxCommands
  BY <1>1, <1>5, WireAssumption DEF Good, Knows, Running, Command
<1>8. q \in Request
  BY <1>3, <1>4, <1>5, <1>7 DEF Sent, Request, Command
<1> HIDE DEF k, q
<1>9. TypeOK'
  BY <1>2, <1>4, <1>8 DEF IInv, TypeOK
<1>10. \A e \in Clients : cmd'[e].id = cmd[e].id
  BY <1>2, <1>5 DEF IInv, TypeOK
<1>11. IdsApart'
  BY <1>2, <1>5, <1>6, <1>10 DEF IInv, IdsApart
<1>12. BlobsKept'
  BY <1>1, <1>2, <1>5, <1>6 DEF IInv, BlobsKept, Good, Uploaded
<1>13. Good(k, doc, r2, wire')
  <2>1. AttemptsLeft(k) /\ Knows(k, doc) /\ Truthful(k) /\ Uploaded(k, r2)
    BY <1>1, <1>5 DEF Good, AttemptsLeft, Knows, Running, Truthful, Uploaded
  <2>2. \A r \in wire : OwnRequest(k, r, doc)
    BY <1>1, <1>5 DEF Good, OwnRequest, Running
  <2>3. OwnRequest(k, q, doc)
    BY <1>6 DEF OwnRequest
  <2> QED BY <1>2, <2>1, <2>2, <2>3 DEF Good
<1>14. ASSUME NEW e \in Clients, e # c
       PROVE  Good(cmd[e], doc, r2, wire')
  <2>1. Good(cmd[e], doc, r2, wire)
    BY DEF IInv
  <2>2. q.by # 0 /\ q.by # cmd[e].id
    BY <1>5, <1>6, <1>7, <1>14 DEF IInv, IdsApart
  <2>3. OwnRequest(cmd[e], q, doc)
    BY <2>2 DEF OwnRequest
  <2> QED BY <1>2, <2>1, <2>3 DEF Good
<1>15. \A e \in Clients : Good(cmd'[e], doc', r2', wire')
  BY <1>2, <1>13, <1>14 DEF IInv, TypeOK
<1> QED BY <1>9, <1>11, <1>12, <1>15 DEF IInv

-----------------------------------------------------------------------------
(* The document is as the command wants it.                                *)
Gives(d, k) == d.live /\ d.manifest = k.want

AsWitnessed(k, seen, by) ==
  [k EXCEPT !.seen = @ \cup seen, !.foreign = @ \/ k.id # by]

(* A running command witnesses d turn into d2, by a command that sees to   *)
(* what is in seen.                                                        *)
Witnesses(k, d, d2, seen, by) ==
  /\ Running(k)
  /\ seen \subseteq Manifests
  /\ d2.manifest \in seen \cup {d.manifest}
  /\ k.id = by => Gives(d2, k)

(* A write, or the document's end, keeps good those who witness it, if it  *)
(* was not theirs or gave them what they want.                             *)
LEMMA WitnessIsGood ==
  ASSUME NEW k \in Command, NEW d, NEW blobs, NEW w, Good(k, d, blobs, w),
         NEW d2, NEW seen, NEW by, Witnesses(k, d, d2, seen, by),
         NEW after, after = AsWitnessed(k, seen, by)
  PROVE  /\ after \in Command
         /\ Good(after, d2, blobs, w)
         /\ after.id = k.id /\ after.pc = k.pc /\ after.want = k.want
         /\ after.seen = k.seen \cup seen
<1>1. after \in Command
  <2>1. k.seen \cup seen \in SUBSET Manifests
    BY DEF Command, Witnesses
  <2>2. (k.foreign \/ k.id # by) \in BOOLEAN
    OBVIOUS
  <2> QED BY <2>1, <2>2 DEF Command, AsWitnessed
<1>2. /\ after.id = k.id /\ after.pc = k.pc /\ after.todo = k.todo
      /\ after.want = k.want /\ after.parent = k.parent
      /\ after.tries = k.tries /\ after.waiting = k.waiting
      /\ after.outcome = k.outcome
      /\ after.seen = k.seen \cup seen
      /\ after.foreign = (k.foreign \/ k.id # by)
  BY DEF Command, AsWitnessed
<1>3. after.foreign \/ Gives(d2, after)
  BY <1>2 DEF Gives, Witnesses
<1>4. Knows(after, d2)
  BY <1>2, <1>3 DEF Good, Knows, Running, Gives, Witnesses
<1>5. Truthful(after)
  BY <1>2 DEF Good, Knows, Running, Truthful, Witnesses
<1>6. AttemptsLeft(after) /\ Uploaded(after, blobs)
  BY <1>2 DEF Good, AttemptsLeft, Uploaded
<1>7. \A r \in w : OwnRequest(after, r, d2)
  BY <1>2, <1>3 DEF Good, OwnRequest, Running, Gives, Witnesses
<1> QED BY <1>1, <1>2, <1>4, <1>5, <1>6, <1>7 DEF Good

(* A true answer to a request leaves everything else to be shown for the   *)
(* document alone.                                                         *)
LEMMA AnsweredKeepsIInv ==
  ASSUME IInv, NEW r \in wire, NEW known \in [Clients -> Command],
         doc' \in [live : BOOLEAN, manifest : Manifests],
         BlobsOf[doc'.manifest] \subseteq r2, UNCHANGED <<r2, used>>,
         \A c \in Clients : /\ Good(known[c], doc', r2, wire)
                            /\ known[c].id = cmd[c].id /\ known[c].pc = cmd[c].pc
                            /\ known[c].want = cmd[c].want,
         NEW answer \in {"ok", "conflict", "unread", "gone", "error"},
         \A c \in Clients : Awaits(c, r) =>
           /\ answer = "ok" => known[c].want \in known[c].seen
           /\ answer = "conflict" => known[c].foreign,
         Answers(known, r, answer)
  PROVE  IInv'
<1>1. /\ wire' = wire \ {r}
      /\ cmd' \in [Clients -> Command]
      /\ \A c \in Clients : Good(cmd'[c], doc', r2, wire') /\ cmd'[c].id = cmd[c].id
  BY AnswersKeepGood DEF IInv
<1>2. TypeOK'
  BY <1>1 DEF IInv, TypeOK
<1>3. IdsApart'
  BY <1>1 DEF IInv, IdsApart
<1>4. BlobsKept'
  BY <1>1 DEF IInv, BlobsKept
<1> QED BY <1>1, <1>2, <1>3, <1>4 DEF IInv

(* A command that waits for a request runs, and the request is its own.    *)
LEMMA AwaitedIsOwn ==
  ASSUME IInv, NEW r \in wire, NEW c \in Clients, Awaits(c, r)
  PROVE  /\ Running(cmd[c]) /\ r.want = cmd[c].want /\ r.parent = cmd[c].parent
         /\ doc.manifest \in cmd[c].seen
         /\ r.stage = "raced" => cmd[c].foreign \/ doc.manifest = cmd[c].want
         /\ cmd[c].foreign \/ (doc.live /\ (cmd[c].parent # NoParent =>
                                doc.manifest \in {cmd[c].parent, cmd[c].want}))
BY DEF Awaits, Running, IInv, Good, OwnRequest, Knows

(* An answer that changes nothing else.                                    *)
LEMMA PlainAnswerKeepsIInv ==
  ASSUME IInv, NEW r \in wire, UNCHANGED <<doc, r2, used>>,
         NEW answer \in {"ok", "conflict", "unread", "gone", "error"},
         \A c \in Clients : Awaits(c, r) =>
           /\ answer = "ok" => cmd[c].want \in cmd[c].seen
           /\ answer = "conflict" => cmd[c].foreign,
         Answers(cmd, r, answer)
  PROVE  IInv'
<1>1. cmd \in [Clients -> Command] /\ doc' \in [live : BOOLEAN, manifest : Manifests]
  BY DEF IInv, TypeOK
<1>2. BlobsOf[doc'.manifest] \subseteq r2
  BY DEF IInv, BlobsKept
<1>3. \A c \in Clients : Good(cmd[c], doc', r2, wire)
  BY DEF IInv
<1> QED BY <1>1, <1>2, <1>3, AnsweredKeepsIInv

-----------------------------------------------------------------------------
(* The server's steps.  A commit never lacks a blob, since every manifest  *)
(* a client has gone on to commit is in R2 already.                        *)
LEMMA CommitAnswersKeepsIInv ==
  ASSUME IInv, NEW r \in wire, CommitAnswers(r)
  PROVE  IInv'
<1> DEFINE class == ClassifyUpdate(doc.manifest, r.parent, r.want)
<1>0. UNCHANGED <<doc, r2, used>>
  BY DEF CommitAnswers
<1>1. CASE ~doc.live /\ Answers(cmd, r, "gone")
  BY <1>0, <1>1, PlainAnswerKeepsIInv
<1>2. CASE doc.live /\ class = "applied" /\ Answers(cmd, r, "ok")
  <2>1. doc.manifest = r.want
    BY <1>2 DEF ClassifyUpdate
  <2>2. \A c \in Clients : Awaits(c, r) => cmd[c].want \in cmd[c].seen
    BY <2>1, AwaitedIsOwn
  <2> QED BY <1>0, <1>2, <2>2, PlainAnswerKeepsIInv
<1>3. CASE doc.live /\ class = "conflict" /\ Answers(cmd, r, "conflict")
  <2>1. doc.manifest # r.want /\ r.parent \notin {NoParent, doc.manifest}
    BY <1>3 DEF ClassifyUpdate
  <2>2. \A c \in Clients : Awaits(c, r) => cmd[c].foreign
    BY <2>1, AwaitedIsOwn
  <2> QED BY <1>0, <1>3, <2>2, PlainAnswerKeepsIInv
<1>4. BlobsOf[r.want] \subseteq r2
  BY DEF IInv, BlobsKept
<1> QED BY <1>1, <1>2, <1>3, <1>4 DEF CommitAnswers

(* A request goes on to the write, or turns out to have lost the race: its *)
(* own command, if nothing foreign has happened, has what it wants.        *)
LEMMA MovedKeepsIInv ==
  ASSUME IInv, NEW r \in wire, NEW stage \in {"checked", "raced"},
         Moved(r, stage), UNCHANGED <<doc, r2, cmd, used>>,
         stage = "raced" => ~Updatable(r)
  PROVE  IInv'
<1> DEFINE q == [r EXCEPT !.stage = stage]
<1>1. r \in Request
  BY DEF IInv, TypeOK
<1>2. wire' = (wire \ {r}) \cup {q}
  BY DEF Moved
<1>3. q \in Request
  BY <1>1 DEF Request
<1>4. q.by = r.by /\ q.want = r.want /\ q.parent = r.parent /\ q.stage = stage
  BY <1>1 DEF Request
<1> HIDE DEF q
<1>5. TypeOK'
  BY <1>2, <1>3 DEF IInv, TypeOK
<1>6. IdsApart' /\ BlobsKept'
  BY <1>2, <1>4 DEF IInv, IdsApart, BlobsKept
<1>7. ASSUME NEW c \in Clients
      PROVE  Good(cmd[c], doc, r2, wire')
  <2>1. Good(cmd[c], doc, r2, wire) /\ OwnRequest(cmd[c], r, doc)
    BY DEF IInv, Good
  <2>2. OwnRequest(cmd[c], q, doc)
    BY <1>4, <2>1 DEF Good, Knows, OwnRequest, Updatable
  <2> QED BY <1>2, <2>1, <2>2 DEF Good
<1> QED BY <1>5, <1>6, <1>7 DEF IInv

(* The write gives its own command what it wants, and is foreign to every  *)
(* other.                                                                  *)
LEMMA ApplyUpdateKeepsIInv ==
  ASSUME IInv, NEW r \in wire, ApplyUpdate(r)
  PROVE  IInv'
<1> DEFINE known == Witnessed({r.want}, r.by)
           d == doc'
<1>1. r \in Request /\ r.want \in Manifests
  BY DEF IInv, TypeOK, Request
<1>2. /\ doc' = [doc EXCEPT !.manifest = r.want] /\ doc.live
      /\ Answers(known, r, "ok") /\ UNCHANGED <<r2, used>>
  BY DEF ApplyUpdate, Updatable
<1>3. doc' \in [live : BOOLEAN, manifest : Manifests]
  BY <1>1, <1>2 DEF IInv, TypeOK
<1>4. d.live /\ d.manifest = r.want
  BY <1>2 DEF IInv, TypeOK
<1>5. BlobsOf[doc'.manifest] \subseteq r2
  BY <1>4 DEF IInv, BlobsKept
<1>6. ASSUME NEW c \in Clients
      PROVE  /\ known[c] \in Command
             /\ Good(known[c], d, r2, wire)
             /\ known[c].id = cmd[c].id /\ known[c].pc = cmd[c].pc
             /\ known[c].want = cmd[c].want
             /\ Running(cmd[c]) => r.want \in known[c].seen
  <2>1. cmd[c] \in Command /\ Good(cmd[c], doc, r2, wire)
    BY DEF IInv, TypeOK
  <2>2. CASE cmd[c].pc = "idle"
    <3>1. known[c] = cmd[c]
      BY <2>2 DEF Witnessed
    <3> QED BY <2>1, <2>2, <3>1, IdleIsGood DEF Running
  <2>3. CASE cmd[c].pc # "idle"
    <3> DEFINE seen == {r.want}
               after == known[c]
    <3>1. after = AsWitnessed(cmd[c], seen, r.by)
      BY <2>3 DEF Witnessed, AsWitnessed
    <3>2. seen \in SUBSET Manifests /\ d.manifest \in seen \cup {doc.manifest}
      BY <1>1, <1>4
    <3>3. cmd[c].id = r.by => Gives(d, cmd[c])
      BY <1>4, <2>1, <2>3 DEF Good, OwnRequest, Running, Gives
    <3>4. r.want \in seen
      OBVIOUS
    <3>5. Witnesses(cmd[c], doc, d, seen, r.by)
      BY <2>3, <3>2, <3>3 DEF Witnesses, Running
    <3> HIDE DEF after, seen, d, known
    <3>6. /\ after \in Command
          /\ Good(after, d, r2, wire)
          /\ after.id = cmd[c].id /\ after.pc = cmd[c].pc /\ after.want = cmd[c].want
          /\ after.seen = cmd[c].seen \cup seen
      BY <2>1, <3>1, <3>5, WitnessIsGood
    <3> QED BY <3>4, <3>6 DEF after
  <2> QED BY <2>2, <2>3
<1>7. known \in [Clients -> Command]
  BY <1>6 DEF Witnessed
<1> HIDE DEF known
<1>8. \A c \in Clients : Awaits(c, r) => known[c].want \in known[c].seen
  BY <1>6, AwaitedIsOwn
<1> QED BY <1>2, <1>3, <1>5, <1>6, <1>7, <1>8, AnsweredKeepsIInv

LEMMA ReconcileKeepsIInv ==
  ASSUME IInv, NEW r \in wire, Reconcile(r)
  PROVE  IInv'
<1>0. r.stage = "raced" /\ UNCHANGED <<doc, r2, used>>
  BY DEF Reconcile
<1>1. CASE Answers(cmd, r, "unread")
  BY <1>0, <1>1, PlainAnswerKeepsIInv
<1>2. CASE /\ doc.live /\ doc.manifest = r.want
           /\ Answers(cmd, r, "ok")
  <2>1. \A c \in Clients : Awaits(c, r) => cmd[c].want \in cmd[c].seen
    BY <1>2, AwaitedIsOwn
  <2> QED BY <1>0, <1>2, <2>1, PlainAnswerKeepsIInv
<1>3. CASE /\ ~(doc.live /\ doc.manifest = r.want)
           /\ Answers(cmd, r, "conflict")
  <2>1. \A c \in Clients : Awaits(c, r) => cmd[c].foreign
    BY <1>0, <1>3, AwaitedIsOwn
  <2> QED BY <1>0, <1>3, <2>1, PlainAnswerKeepsIInv
<1> QED BY <1>1, <1>2, <1>3 DEF Reconcile

LEMMA ServerFailsKeepsIInv ==
  ASSUME IInv, NEW r \in wire, ServerFails(r)
  PROVE  IInv'
BY PlainAnswerKeepsIInv DEF ServerFails

LEMMA DocumentGoesKeepsIInv ==
  ASSUME IInv, DocumentGoes
  PROVE  IInv'
<1> DEFINE d == doc'
<1>1. /\ doc' = [doc EXCEPT !.live = FALSE] /\ cmd' = Witnessed({}, 0)
      /\ UNCHANGED <<r2, wire, used>>
  BY DEF DocumentGoes
<1>2. doc' \in [live : BOOLEAN, manifest : Manifests] /\ d.manifest = doc.manifest
  BY <1>1 DEF IInv, TypeOK
<1>3. ASSUME NEW c \in Clients
      PROVE  /\ cmd'[c] \in Command
             /\ Good(cmd'[c], d, r2, wire)
             /\ cmd'[c].id = cmd[c].id
  <2>1. cmd[c] \in Command /\ Good(cmd[c], doc, r2, wire)
    BY DEF IInv, TypeOK
  <2>2. CASE cmd[c].pc = "idle"
    <3>1. cmd'[c] = cmd[c]
      BY <1>1, <2>2 DEF Witnessed
    <3> QED BY <2>1, <2>2, <3>1, IdleIsGood
  <2>3. CASE cmd[c].pc # "idle"
    <3> DEFINE seen == {}
               after == cmd'[c]
               by == 0
    <3>1. after = AsWitnessed(cmd[c], seen, by)
      BY <1>1, <2>3 DEF Witnessed, AsWitnessed
    <3>2. seen \in SUBSET Manifests /\ d.manifest \in seen \cup {doc.manifest}
      BY <1>2
    <3>3. cmd[c].id # by
      BY <2>1, <2>3 DEF Good, Knows, Running
    <3>4. Witnesses(cmd[c], doc, d, seen, by)
      BY <2>3, <3>2, <3>3 DEF Witnesses, Running
    <3> HIDE DEF after, seen, d, by
    <3>5. after \in Command /\ Good(after, d, r2, wire) /\ after.id = cmd[c].id
      BY <2>1, <3>1, <3>4, WitnessIsGood
    <3> QED BY <3>5 DEF after
  <2> QED BY <2>2, <2>3
<1>4. cmd' \in [Clients -> Command]
  BY <1>1, <1>3 DEF Witnessed
<1>5. TypeOK'
  BY <1>1, <1>2, <1>4 DEF IInv, TypeOK
<1>6. IdsApart' /\ BlobsKept'
  BY <1>1, <1>2, <1>3 DEF IInv, IdsApart, BlobsKept
<1> QED BY <1>1, <1>3, <1>5, <1>6 DEF IInv

-----------------------------------------------------------------------------
LEMMA InitIsGood ==
  ASSUME Init
  PROVE  IInv
<1>1. TypeOK
  BY WireAssumption DEF Init, TypeOK, Command, Outcomes
<1>2. IdsApart /\ BlobsKept
  BY WireAssumption DEF Init, IdsApart, BlobsKept
<1>3. \A c \in Clients : Good(cmd[c], doc, r2, wire)
  BY DEF Init, Good, AttemptsLeft, Knows, Running, Truthful, Uploaded, OwnRequest
<1> QED BY <1>1, <1>2, <1>3 DEF IInv

LEMMA StepKeepsIInv ==
  ASSUME IInv, [Next]_vars
  PROVE  IInv'
<1>1. ASSUME NEW c \in Clients, NEW m \in Manifests, NEW force \in BOOLEAN,
             Begin(c, m, force)
      PROVE  IInv'
  BY <1>1, BeginKeepsIInv
<1>2. ASSUME NEW c \in Clients, ClientSteps(c)
      PROVE  IInv'
  BY <1>2, UpdateInitKeepsIInv, UpdateInitFailsKeepsIInv, PutBlobKeepsIInv,
     UploadFailsKeepsIInv, UploadEndsKeepsIInv, SendCommitKeepsIInv,
     TimesOutKeepsIInv DEF ClientSteps
<1>3. ASSUME NEW r \in wire, ServerSteps(r)
      PROVE  IInv'
  <2>1. CASE CommitGoesOn(r)
    BY <2>1, MovedKeepsIInv DEF CommitGoesOn
  <2>2. CASE UpdateLosesRace(r)
    BY <2>2, MovedKeepsIInv DEF UpdateLosesRace
  <2> QED BY <1>3, <2>1, <2>2, CommitAnswersKeepsIInv, ApplyUpdateKeepsIInv,
             ReconcileKeepsIInv, ServerFailsKeepsIInv DEF ServerSteps
<1>4. CASE UNCHANGED vars
  BY <1>4 DEF vars, IInv, TypeOK, IdsApart, BlobsKept
<1> QED BY <1>1, <1>2, <1>3, <1>4, DocumentGoesKeepsIInv DEF Next

LEMMA Inductive == Spec => []IInv
<1>1. Init => IInv
  BY InitIsGood
<1>2. IInv /\ [Next]_vars => IInv'
  BY StepKeepsIInv
<1> QED BY <1>1, <1>2, PTL DEF Spec

(* The types are respected; no command makes more attempts than it may.    *)
THEOREM TypeCorrect == Spec => []TypeOK
<1>1. IInv => TypeOK
  BY DEF IInv
<1> QED BY <1>1, Inductive, PTL

(* What a command reports as published was live while it ran.              *)
THEOREM SuccessIsTrue == Spec => []SuccessWasLive
<1>1. IInv => SuccessWasLive
  BY DEF IInv, Good, Truthful, SuccessWasLive
<1> QED BY <1>1, Inductive, PTL

(* A conflict is never with the command's own earlier attempt, unless the  *)
(* re-read that would have shown it failed.                                *)
THEOREM ConflictIsTrueIfRead == Spec => []ConflictIsForeignButIfUnread
<1>1. IInv => ConflictIsForeignButIfUnread
  BY DEF IInv, Good, Truthful, ConflictIsForeignButIfUnread
<1> QED BY <1>1, Inductive, PTL

(* Commit never misses a blob that init did not ask for.                   *)
THEOREM UploadsAreEnough == Spec => []UploadsSuffice
<1>1. IInv => UploadsSuffice
  BY DEF IInv, Good, Truthful, UploadsSuffice
<1> QED BY <1>1, Inductive, PTL
=============================================================================
