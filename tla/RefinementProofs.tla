-------------------------- MODULE RefinementProofs ---------------------------
(***************************************************************************)
(* The document server implements DocumentLifecycle, for every choice of   *)
(* its constants: the initial state maps to the initial one, and every     *)
(* step to a step of the register or to none.                              *)
(*                                                                         *)
(* An edit of the register must hold the Edit Token of its document at the *)
(* instant it takes effect, while the code checks the token when it admits *)
(* the request: EditsHoldToken says that it still does, since no statement *)
(* changes a row's token.                                                  *)
(***************************************************************************)
EXTENDS DocumentsRefinement, DocumentStepsProofs

EditsHoldToken ==
  \A r \in Requests :
    req[r] # Idle /\ req[r].op \in {"update", "delete"} =>
      docs[req[r].slug] # NoRow /\ docs[req[r].slug].token = req[r].token

ReconcilesAreUpdates ==
  \A r \in Requests : req[r] # Idle /\ req[r].pc = "reconcile" => req[r].op = "update"

WishesHold == EditsHoldToken /\ ReconcilesAreUpdates

-----------------------------------------------------------------------------
(* A row that is there stays there, with its token.                        *)
LEMMA TokenStays ==
  ASSUME IInv, [Next]_vars, NEW s \in Slugs, docs[s] # NoRow
  PROVE  docs'[s] # NoRow /\ docs'[s].token = docs[s].token
<1>1. RowStep(s)
  BY RowSteps
<1>2. CASE Same(s) \/ Inserted(s)
  BY <1>2 DEF Same, Inserted
<1>3. CASE Published(s) \/ Updated(s) \/ Deleted(s) \/ Expired(s) \/ Abandoned(s)
  <2>1. Touched(s)
    BY <1>3 DEF Published, Updated, Deleted, Expired, Abandoned
  <2> QED BY <2>1, NoRowIsNoRow DEF Touched
<1>4. CASE Swept(s)
  BY <1>4, NoRowIsNoRow DEF Swept
<1> QED BY <1>1, <1>2, <1>3, <1>4 DEF RowStep

LEMMA TokensKept ==
  ASSUME IInv, EditsHoldToken, [Next]_vars
  PROVE  EditsHoldToken'
<1> SUFFICES ASSUME NEW r \in Requests, req'[r] # Idle,
                    req'[r].op \in {"update", "delete"}
             PROVE  /\ docs'[req'[r].slug] # NoRow
                    /\ docs'[req'[r].slug].token = req'[r].token
  BY DEF EditsHoldToken
<1>1. TypeOK'
  BY StepTypes DEF IInv
<1>2. req'[r].slug \in Slugs
  BY <1>1 DEF TypeOK, InFlight
<1>3. /\ docs[req'[r].slug] # NoRow
      /\ docs[req'[r].slug].token = req'[r].token
  <2>1. CASE SameWish(req'[r], req[r])
    BY <2>1 DEF SameWish, EditsHoldToken
  <2>2. CASE docs' = docs /\ Editable(req'[r].slug, req'[r].token)
    BY <2>2 DEF Editable, MatchesEditToken, NoRow
  <2> QED BY <2>1, <2>2, RequestsInFlight
<1> QED BY <1>2, <1>3, TokenStays

(* Only an update that has lost its race re-reads the row.                 *)
LEMMA ReconcilesKept ==
  ASSUME IInv, ReconcilesAreUpdates, [Next]_vars
  PROVE  ReconcilesAreUpdates'
<1> SUFFICES ASSUME NEW r \in Requests, req'[r] # Idle, req'[r].pc = "reconcile"
             PROVE  req'[r].op = "update"
  BY DEF ReconcilesAreUpdates
<1>1. SameWish(req'[r], req[r])
  BY RequestsInFlight
<1> QED BY <1>1 DEF SameWish, ReconcilesAreUpdates

-----------------------------------------------------------------------------
(* How a row is read, by its status.                                       *)
LEMMA Reading ==
  ASSUME NEW row
  PROVE  /\ row.status = "published" =>
              PageOf(row) = [is |-> "live", m |-> row.manifest]
         /\ row.status \in Gone => PageOf(row) = [is |-> "gone"]
         /\ row.status = "abandoned" => PageOf(row) = [is |-> "lost"]
         /\ row.status \in {"none", "pending"} => PageOf(row) = [is |-> "unpublished"]
         /\ row.status = "pending" => DraftOf(row) = row.manifest
         /\ row.status # "pending" => DraftOf(row) = NoParent
         /\ PageOf(NoRow) = [is |-> "unpublished"] /\ DraftOf(NoRow) = NoParent
         /\ OwnerOf(NoRow) = {} /\ (row # NoRow => OwnerOf(row) = {row.token})
BY DEF PageOf, DraftOf, OwnerOf, Gone, NoRow

(* How a request is read, by what it is for.                               *)
LEMMA Wishing ==
  ASSUME NEW q, q # Idle
  PROVE  /\ q.op = "update" =>
              WishOf(q) = [op |-> "update", slug |-> q.slug, m |-> q.m,
                           parent |-> q.parent, token |-> q.token]
         /\ q.op = "delete" =>
              WishOf(q) = [op |-> "delete", slug |-> q.slug, token |-> q.token]
         /\ q.op = "publish" => WishOf(q) = [op |-> "none"]
BY DEF WishOf

LEMMA IdleWishes == WishOf(Idle) = [op |-> "none"]
BY DEF WishOf

-----------------------------------------------------------------------------
(* A step that changes no row, no wish and answers nothing is a quiet one. *)
LEMMA QuietStep ==
  ASSUME docs' = docs, answer' = NoAnswer,
         \A r \in Requests : WishOf(req'[r]) = WishOf(req[r])
  PROVE  Lifecycle!Quiet
<1>1. answer' = Lifecycle!Silence
  BY DEF NoAnswer, Lifecycle!Silence
<1> QED BY <1>1 DEF Lifecycle!Quiet

(* A step that rewrites one row moves the registers of that slug only.     *)
LEMMA OneRow ==
  ASSUME TypeOK, NEW s \in Slugs, NEW row, docs' = [docs EXCEPT ![s] = row]
  PROVE  /\ [u \in Slugs |-> PageOf(docs'[u])] =
              [[u \in Slugs |-> PageOf(docs[u])] EXCEPT ![s] = PageOf(row)]
         /\ [u \in Slugs |-> DraftOf(docs'[u])] =
              [[u \in Slugs |-> DraftOf(docs[u])] EXCEPT ![s] = DraftOf(row)]
         /\ [u \in Slugs |-> OwnerOf(docs'[u])] =
              [[u \in Slugs |-> OwnerOf(docs[u])] EXCEPT ![s] = OwnerOf(row)]
<1>1. docs'[s] = row /\ \A u \in Slugs \ {s} : docs'[u] = docs[u]
  BY DEF TypeOK
<1>2. ASSUME NEW f, NEW g, f = [u \in Slugs |-> f[u]], g = [u \in Slugs |-> g[u]],
             \A u \in Slugs \ {s} : g[u] = f[u]
      PROVE  g = [f EXCEPT ![s] = g[s]]
  BY <1>2
<1>3. [u \in Slugs |-> PageOf(docs'[u])] =
        [[u \in Slugs |-> PageOf(docs[u])] EXCEPT ![s] = PageOf(row)]
  <2> DEFINE f == [u \in Slugs |-> PageOf(docs[u])]
             g == [u \in Slugs |-> PageOf(docs'[u])]
  <2>1. \A u \in Slugs \ {s} : g[u] = f[u]
    BY <1>1
  <2>2. g[s] = PageOf(row) /\ f = [u \in Slugs |-> f[u]] /\ g = [u \in Slugs |-> g[u]]
    BY <1>1
  <2>3. g = [f EXCEPT ![s] = g[s]]
    <3> HIDE DEF f, g
    <3> QED BY <1>2, <2>1, <2>2
  <2> QED BY <2>2, <2>3
<1>4. [u \in Slugs |-> DraftOf(docs'[u])] =
        [[u \in Slugs |-> DraftOf(docs[u])] EXCEPT ![s] = DraftOf(row)]
  <2> DEFINE f == [u \in Slugs |-> DraftOf(docs[u])]
             g == [u \in Slugs |-> DraftOf(docs'[u])]
  <2>1. \A u \in Slugs \ {s} : g[u] = f[u]
    BY <1>1
  <2>2. g[s] = DraftOf(row) /\ f = [u \in Slugs |-> f[u]] /\ g = [u \in Slugs |-> g[u]]
    BY <1>1
  <2>3. g = [f EXCEPT ![s] = g[s]]
    <3> HIDE DEF f, g
    <3> QED BY <1>2, <2>1, <2>2
  <2> QED BY <2>2, <2>3
<1>5. [u \in Slugs |-> OwnerOf(docs'[u])] =
        [[u \in Slugs |-> OwnerOf(docs[u])] EXCEPT ![s] = OwnerOf(row)]
  <2> DEFINE f == [u \in Slugs |-> OwnerOf(docs[u])]
             g == [u \in Slugs |-> OwnerOf(docs'[u])]
  <2>1. \A u \in Slugs \ {s} : g[u] = f[u]
    BY <1>1
  <2>2. g[s] = OwnerOf(row) /\ f = [u \in Slugs |-> f[u]] /\ g = [u \in Slugs |-> g[u]]
    BY <1>1
  <2>3. g = [f EXCEPT ![s] = g[s]]
    <3> HIDE DEF f, g
    <3> QED BY <1>2, <2>1, <2>2
  <2> QED BY <2>2, <2>3
<1> QED BY <1>3, <1>4, <1>5

(* The same where the row reads as before.                                 *)
LEMMA SameReading ==
  ASSUME TypeOK, NEW s \in Slugs, NEW row, docs' = [docs EXCEPT ![s] = row],
         PageOf(row) = PageOf(docs[s]), DraftOf(row) = DraftOf(docs[s]),
         OwnerOf(row) = OwnerOf(docs[s])
  PROVE  /\ [u \in Slugs |-> PageOf(docs'[u])] = [u \in Slugs |-> PageOf(docs[u])]
         /\ [u \in Slugs |-> DraftOf(docs'[u])] = [u \in Slugs |-> DraftOf(docs[u])]
         /\ [u \in Slugs |-> OwnerOf(docs'[u])] = [u \in Slugs |-> OwnerOf(docs[u])]
<1>1. docs'[s] = row /\ \A u \in Slugs \ {s} : docs'[u] = docs[u]
  BY DEF TypeOK
<1> QED BY <1>1

(* A request that ends leaves no wish.                                     *)
LEMMA Forgotten ==
  ASSUME TypeOK, NEW r \in Requests, Finish(r)
  PROVE  [q \in Requests |-> WishOf(req'[q])] =
           [[q \in Requests |-> WishOf(req[q])] EXCEPT ![r] = [op |-> "none"]]
<1>1. req'[r] = Idle /\ \A q \in Requests \ {r} : req'[q] = req[q]
  BY DEF Finish, TypeOK
<1> QED BY <1>1, IdleWishes

(* One that ends without having had any changes nothing.                   *)
LEMMA NothingForgotten ==
  ASSUME TypeOK, NEW r \in Requests, Finish(r), WishOf(req[r]) = [op |-> "none"]
  PROVE  [q \in Requests |-> WishOf(req'[q])] = [q \in Requests |-> WishOf(req[q])]
<1>1. req'[r] = Idle /\ \A q \in Requests \ {r} : req'[q] = req[q]
  BY DEF Finish, TypeOK
<1> QED BY <1>1, IdleWishes

-----------------------------------------------------------------------------
LEMMA ClientsRefine ==
  ASSUME TypeOK, ClientSteps
  PROVE  Lifecycle!Next
<1> DEFINE Silent == docs' = docs /\ req' = req /\ answer' = NoAnswer
<1>1. PICK s \in Slugs :
        \/ \E k \in Keys, m \in Manifests, t \in Tokens : PublishInit(k, s, m, t)
        \/ \E b \in Blobs : PutBlob(s, b)
        \/ \E m \in Manifests, p \in Manifests \cup {NoParent}, t \in Tokens :
             UpdateInit(s, m, p, t)
        \/ \E k \in Keys : CommitFindsPublished(k, s)
        \/ \E m \in Manifests, t \in Tokens : UpdateAlreadyApplied(s, m, t)
  BY DEF ClientSteps
<1>2. ASSUME Silent PROVE Lifecycle!Next
  BY <1>2, QuietStep DEF Lifecycle!Next
<1>3. ASSUME NEW k \in Keys, NEW m \in Manifests, NEW t \in Tokens,
             PublishInitInserts(k, s, m, t)
      PROVE  Lifecycle!Mint(s, m, t)
  <2> DEFINE row == PendingRow(k, m, t, now)
  <2>1. docs' = [docs EXCEPT ![s] = row] /\ docs[s] = NoRow /\ req' = req
        /\ answer' = NoAnswer
    BY <1>3 DEF PublishInitInserts
  <2>2. row.status = "pending" /\ row.manifest = m /\ row.token = t /\ row # NoRow
    BY DEF PendingRow, NoRow
  <2>3. /\ PageOf(row) = PageOf(docs[s]) /\ DraftOf(row) = m
        /\ OwnerOf(row) = {t} /\ OwnerOf(docs[s]) = {}
    <3> HIDE DEF row
    <3> QED BY <2>1, <2>2, Reading
  <2>4. [u \in Slugs |-> PageOf(docs'[u])] = [u \in Slugs |-> PageOf(docs[u])]
    <3>1. docs'[s] = row /\ \A u \in Slugs \ {s} : docs'[u] = docs[u]
      BY <2>1 DEF TypeOK
    <3> QED BY <2>3, <3>1
  <2>5. /\ [u \in Slugs |-> DraftOf(docs'[u])] =
             [[u \in Slugs |-> DraftOf(docs[u])] EXCEPT ![s] = m]
        /\ [u \in Slugs |-> OwnerOf(docs'[u])] =
             [[u \in Slugs |-> OwnerOf(docs[u])] EXCEPT ![s] = {t}]
    <3>1. docs' = [docs EXCEPT ![s] = row] /\ DraftOf(row) = m /\ OwnerOf(row) = {t}
      BY <2>1, <2>3
    <3> HIDE DEF row
    <3>2. /\ [u \in Slugs |-> DraftOf(docs'[u])] =
               [[u \in Slugs |-> DraftOf(docs[u])] EXCEPT ![s] = DraftOf(row)]
          /\ [u \in Slugs |-> OwnerOf(docs'[u])] =
               [[u \in Slugs |-> OwnerOf(docs[u])] EXCEPT ![s] = OwnerOf(row)]
      BY <3>1, OneRow
    <3> QED BY <3>1, <3>2
  <2>6. [r \in Requests |-> WishOf(req'[r])] = [r \in Requests |-> WishOf(req[r])]
    BY <2>1
  <2> QED BY <2>1, <2>3, <2>4, <2>5, <2>6
          DEF Lifecycle!Mint, Lifecycle!NoOwner, Lifecycle!Silence, NoAnswer
<1>4. ASSUME docs' = docs, req' = req, docs[s].status = "published",
             NEW op \in {"publish", "update"}, Answered(op, s, docs[s].manifest)
      PROVE  Lifecycle!Confirm(op, s)
  <2>1. PageOf(docs[s]) = [is |-> "live", m |-> docs[s].manifest]
    BY <1>4, Reading
  <2> QED BY <1>4, <2>1 DEF Lifecycle!Confirm, Lifecycle!IsLive, Lifecycle!Says, Answered
<1>5. ASSUME NEW k \in Keys, CommitFindsPublished(k, s)
      PROVE  Lifecycle!Confirm("publish", s)
  BY <1>4, <1>5 DEF CommitFindsPublished
<1>6. ASSUME NEW m \in Manifests, NEW t \in Tokens, UpdateAlreadyApplied(s, m, t)
      PROVE  Lifecycle!Confirm("update", s)
  <2>1. docs[s].status = "published" /\ docs[s].manifest = m
    BY <1>6 DEF UpdateAlreadyApplied, Editable, ClassifyUpdate
  <2> QED BY <1>4, <1>6, <2>1 DEF UpdateAlreadyApplied
<1>7. ASSUME NEW k, NEW m, PublishInitAgain(k, s, m) PROVE Silent
  BY <1>7 DEF PublishInitAgain
<1>8. ASSUME NEW b, PutBlob(s, b) PROVE Silent
  BY <1>8 DEF PutBlob
<1>9. ASSUME NEW m, NEW p, NEW t, UpdateInit(s, m, p, t) PROVE Silent
  BY <1>9 DEF UpdateInit
<1> QED BY <1>1, <1>2, <1>3, <1>5, <1>6, <1>7, <1>8, <1>9
        DEF PublishInit, Lifecycle!Next

-----------------------------------------------------------------------------
(* The reads of a request: a publish wishes nothing, for its slug has no    *)
(* reader yet; an edit is admitted.                                        *)
LEMMA CommitReadsRefines ==
  ASSUME TypeOK, NEW r \in Requests, NEW k \in Keys, NEW s \in Slugs, CommitReads(r, k, s)
  PROVE  Lifecycle!Quiet
<1>1. /\ docs' = docs /\ answer' = NoAnswer /\ req[r] = Idle
      /\ req'[r].op = "publish" /\ req'[r] # Idle
      /\ \A q \in Requests \ {r} : req'[q] = req[q]
  <2>1. PICK q : q.op = "publish" /\ q.pc = "head" /\ req' = [req EXCEPT ![r] = q]
    BY DEF CommitReads, Start
  <2>2. req'[r] = q /\ \A u \in Requests \ {r} : req'[u] = req[u]
    BY <2>1 DEF TypeOK
  <2> QED BY <2>1, <2>2 DEF CommitReads, Start, Idle
<1>2. WishOf(req'[r]) = [op |-> "none"] /\ WishOf(req[r]) = [op |-> "none"]
  BY <1>1, Wishing, IdleWishes
<1> QED BY <1>1, <1>2, QuietStep

LEMMA Admitting ==
  ASSUME TypeOK, NEW r \in Requests, NEW s \in Slugs, NEW w, w.slug = s,
         w \in Lifecycle!Edits, docs' = docs, answer' = NoAnswer,
         PageOf(docs[s]).is = "live", w.token \in OwnerOf(docs[s]),
         req[r] = Idle, WishOf(req'[r]) = w,
         \A q \in Requests \ {r} : req'[q] = req[q]
  PROVE  Lifecycle!Admit(r)
<1>1. WishOf(req[r]) = [op |-> "none"]
  BY IdleWishes
<1>2. [q \in Requests |-> WishOf(req'[q])] =
        [[q \in Requests |-> WishOf(req[q])] EXCEPT ![r] = w]
  OBVIOUS
<1>3. [q \in Requests |-> WishOf(req'[q])] =
        [[q \in Requests |-> WishOf(req[q])]
           EXCEPT ![r] = [q \in Requests |-> WishOf(req'[q])][r]]
  BY <1>2
<1>4. [q \in Requests |-> WishOf(req'[q])][r] = w
  OBVIOUS
<1>5. [q \in Requests |-> WishOf(req[q])][r] = [op |-> "none"]
  BY <1>1
<1>6. [u \in Slugs |-> PageOf(docs[u])][w.slug].is = "live"
      /\ w.token \in [u \in Slugs |-> OwnerOf(docs[u])][w.slug]
  OBVIOUS
<1>7. answer' = [op |-> "none"]
  BY DEF NoAnswer
<1> QED BY <1>3, <1>4, <1>5, <1>6, <1>7
        DEF Lifecycle!Admit, Lifecycle!NoWish, Lifecycle!Silence,
            Lifecycle!IsLive, Lifecycle!HoldsToken

LEMMA UpdateReadsRefines ==
  ASSUME TypeOK, NEW r \in Requests, NEW s \in Slugs, NEW m \in Manifests,
         NEW p \in Manifests \cup {NoParent}, NEW t \in Tokens, UpdateReads(r, s, m, p, t)
  PROVE  Lifecycle!Admit(r)
<1> DEFINE w == [op |-> "update", slug |-> s, m |-> m, parent |-> p, token |-> t]
<1>1. /\ docs' = docs /\ answer' = NoAnswer /\ req[r] = Idle
      /\ docs[s].status = "published" /\ docs[s].token = t
  BY DEF UpdateReads, Editable, MatchesEditToken, Start
<1>2. /\ req'[r] # Idle /\ WishOf(req'[r]) = w
      /\ \A q \in Requests \ {r} : req'[q] = req[q]
  <2>1. PICK q : /\ q.op = "update" /\ q.pc = "head" /\ q.slug = s /\ q.m = m
                 /\ q.parent = p /\ q.token = t /\ req' = [req EXCEPT ![r] = q]
    BY DEF UpdateReads, Start
  <2>2. req'[r] = q /\ \A u \in Requests \ {r} : req'[u] = req[u]
    BY <2>1 DEF TypeOK
  <2>3. q # Idle
    BY <2>1 DEF Idle
  <2> QED BY <2>1, <2>2, <2>3, Wishing
<1>3. w \in Lifecycle!Edits
  BY DEF Lifecycle!Edits
<1>4. /\ PageOf(docs[s]) = [is |-> "live", m |-> docs[s].manifest]
      /\ t \in OwnerOf(docs[s])
  BY <1>1, Reading DEF NoRow
<1>5. w.slug = s /\ w.token = t
  OBVIOUS
<1> HIDE DEF w
<1> QED BY <1>1, <1>2, <1>3, <1>4, <1>5, Admitting

LEMMA DeleteReadsRefines ==
  ASSUME TypeOK, NEW r \in Requests, NEW s \in Slugs, NEW t \in Tokens, DeleteReads(r, s, t)
  PROVE  Lifecycle!Admit(r)
<1> DEFINE w == [op |-> "delete", slug |-> s, token |-> t]
<1>1. /\ docs' = docs /\ answer' = NoAnswer /\ req[r] = Idle
      /\ docs[s].status = "published" /\ docs[s].token = t
  BY DEF DeleteReads, Editable, MatchesEditToken, Start
<1>2. /\ req'[r] # Idle /\ WishOf(req'[r]) = w
      /\ \A q \in Requests \ {r} : req'[q] = req[q]
  <2>1. PICK q : /\ q.op = "delete" /\ q.pc = "write" /\ q.slug = s
                 /\ q.token = t /\ req' = [req EXCEPT ![r] = q]
    BY DEF DeleteReads, Start
  <2>2. req'[r] = q /\ \A u \in Requests \ {r} : req'[u] = req[u]
    BY <2>1 DEF TypeOK
  <2>3. q # Idle
    BY <2>1 DEF Idle
  <2> QED BY <2>1, <2>2, <2>3, Wishing
<1>3. w \in Lifecycle!Edits
  BY DEF Lifecycle!Edits
<1>4. /\ PageOf(docs[s]) = [is |-> "live", m |-> docs[s].manifest]
      /\ t \in OwnerOf(docs[s])
  BY <1>1, Reading DEF NoRow
<1>5. w.slug = s /\ w.token = t
  OBVIOUS
<1> HIDE DEF w
<1> QED BY <1>1, <1>2, <1>3, <1>4, <1>5, Admitting

(* A HEAD and a lost race change no wish.                                  *)
LEMMA VerifyingRefines ==
  ASSUME TypeOK, NEW r \in Requests,
         UpdateLosesRace(r) \/ \E b \in Blobs : HeadBlob(r, b)
  PROVE  Lifecycle!Quiet
<1>1. docs' = docs /\ answer' = NoAnswer
  BY DEF UpdateLosesRace, HeadBlob
<1>2. req[r] # Idle /\ req[r] \in InFlight
  <2>1. req[r].pc \in {"head", "write"}
    BY DEF UpdateLosesRace, HeadBlob
  <2> QED BY <2>1 DEF TypeOK, Idle
<1>3. PICK todo, pc, expires :
        req' = [req EXCEPT ![r].todo = todo, ![r].pc = pc, ![r].expires = expires]
  <2>1. CASE UpdateLosesRace(r)
    <3>1. req' = [req EXCEPT ![r].todo = req[r].todo, ![r].pc = "reconcile",
                             ![r].expires = req[r].expires]
      <4>1. req' = [req EXCEPT ![r].pc = "reconcile"]
        BY <2>1 DEF UpdateLosesRace
      <4>2. [req[r] EXCEPT !.pc = "reconcile"] =
              [req[r] EXCEPT !.todo = req[r].todo, !.pc = "reconcile",
                             !.expires = req[r].expires]
        BY <1>2 DEF InFlight
      <4> QED BY <4>1, <4>2 DEF TypeOK
    <3> QED BY <3>1
  <2>2. CASE \E b \in Blobs : HeadBlob(r, b)
    <3>1. PICK b \in Blobs : HeadBlob(r, b)
      BY <2>2
    <3>2. req' = [req EXCEPT ![r].todo = req[r].todo \ {b},
                             ![r].pc = IF req[r].todo = {b} THEN "write" ELSE req[r].pc,
                             ![r].expires = IF req[r].todo = {b}
                                            THEN now + Lifetime ELSE req[r].expires]
      <4>1. req' = [req EXCEPT ![r].todo = @ \ {b},
                               ![r].pc = IF req[r].todo = {b} THEN "write" ELSE @,
                               ![r].expires = IF req[r].todo = {b}
                                              THEN now + Lifetime ELSE @]
        BY <3>1 DEF HeadBlob
      <4> QED BY <1>2, <4>1 DEF TypeOK, InFlight
    <3> QED BY <3>2
  <2> QED BY <2>1, <2>2
<1>4. /\ req'[r].op = req[r].op /\ req'[r].slug = req[r].slug /\ req'[r].m = req[r].m
      /\ req'[r].parent = req[r].parent /\ req'[r].token = req[r].token
      /\ req'[r] # Idle
  BY <1>2, <1>3 DEF TypeOK, InFlight, Idle
<1>5. WishOf(req'[r]) = WishOf(req[r])
  <2>1. req[r].op \in {"publish", "update", "delete"}
    BY <1>2 DEF InFlight
  <2> QED BY <1>2, <1>4, <2>1, Wishing
<1>6. \A q \in Requests \ {r} : req'[q] = req[q]
  BY <1>3 DEF TypeOK
<1> QED BY <1>1, <1>5, <1>6, QuietStep

-----------------------------------------------------------------------------
(* The writes of a request, each at one instant.                           *)
LEMMA CommitPublishRefines ==
  ASSUME IInv, NEW r \in Requests, CommitPublish(r)
  PROVE  \E s \in Slugs : Lifecycle!Publish(s) \/ Lifecycle!Confirm("publish", s)
<1> DEFINE s == req[r].slug
<1>0. TypeOK
  BY DEF IInv
<1>1. s \in Slugs /\ docs[s] \in Row /\ req[r].expires \in Nat /\ now \in Nat
  BY InHand DEF IInv, CommitPublish, TypeOK
<1>2. req[r] # Idle /\ req[r].op = "publish" /\ Finish(r)
  BY DEF CommitPublish, Idle
<1>3. [q \in Requests |-> WishOf(req'[q])] = [q \in Requests |-> WishOf(req[q])]
  BY <1>0, <1>2, Wishing, NothingForgotten
<1>4. CASE Publishable(docs[s])
  <2> DEFINE row == PublishedRow(docs[s], req[r].expires, now)
  <2>1. /\ docs' = [docs EXCEPT ![s] = row] /\ docs[s].status = "pending"
        /\ answer' = [op |-> "publish", slug |-> s, m |-> docs[s].manifest]
    BY <1>4 DEF CommitPublish, Publishable, WriteRow, Answered
  <2>2. /\ row \in Row /\ row.status = "published"
        /\ row.manifest = docs[s].manifest /\ row.token = docs[s].token
    BY <1>1, PublishedRowFacts DEF PublishedRow, Row
  <2>3. /\ PageOf(docs[s]) = [is |-> "unpublished"] /\ DraftOf(docs[s]) = docs[s].manifest
        /\ OwnerOf(docs[s]) = {docs[s].token}
    BY <1>1, <2>1, NoRowIsNoRow, Reading
  <2> HIDE DEF row
  <2>4. /\ PageOf(row) = [is |-> "live", m |-> docs[s].manifest]
        /\ DraftOf(row) = NoParent /\ OwnerOf(row) = {docs[s].token}
    BY <2>2, NoRowIsNoRow, Reading
  <2>5. /\ [u \in Slugs |-> PageOf(docs'[u])] =
             [[u \in Slugs |-> PageOf(docs[u])] EXCEPT ![s] = PageOf(row)]
        /\ [u \in Slugs |-> DraftOf(docs'[u])] =
             [[u \in Slugs |-> DraftOf(docs[u])] EXCEPT ![s] = DraftOf(row)]
    BY <1>0, <1>1, <2>1, OneRow
  <2>6. [u \in Slugs |-> OwnerOf(docs'[u])] = [u \in Slugs |-> OwnerOf(docs[u])]
    <3>1. docs'[s] = row /\ \A u \in Slugs \ {s} : docs'[u] = docs[u]
      BY <1>0, <1>1, <2>1 DEF TypeOK
    <3> QED BY <2>3, <2>4, <3>1
  <2>7. Lifecycle!Publish(s)
    BY <1>1, <1>3, <2>1, <2>3, <2>4, <2>5, <2>6
       DEF Lifecycle!Publish, Lifecycle!Unpublished, Lifecycle!NoOwner, Lifecycle!Turns,
           Lifecycle!Live, Lifecycle!NoDraft, Lifecycle!Says
  <2> QED BY <1>1, <2>7
<1>5. CASE ~Publishable(docs[s])
  <2>1. /\ docs' = [docs EXCEPT ![s] = docs[s]] /\ docs[s].status = "published"
        /\ answer' = [op |-> "publish", slug |-> s, m |-> docs[s].manifest]
    BY <1>5 DEF CommitPublish, WriteRow, Answered
  <2>2. docs' = docs
    BY <1>0, <2>1 DEF TypeOK
  <2>3. PageOf(docs[s]) = [is |-> "live", m |-> docs[s].manifest]
    BY <2>1, Reading
  <2>4. Lifecycle!Confirm("publish", s)
    BY <1>1, <1>3, <2>1, <2>2, <2>3
       DEF Lifecycle!Confirm, Lifecycle!IsLive, Lifecycle!Says
  <2> QED BY <1>1, <2>4
<1> QED BY <1>4, <1>5

LEMMA ApplyUpdateRefines ==
  ASSUME IInv, EditsHoldToken, NEW r \in Requests, ApplyUpdate(r)
  PROVE  Lifecycle!Update(r)
<1> DEFINE s == req[r].slug
           row == UpdatedRow(docs[s], req[r].m, req[r].expires, now)
           w == [op |-> "update", slug |-> s, m |-> req[r].m,
                 parent |-> req[r].parent, token |-> req[r].token]
<1>0. TypeOK
  BY DEF IInv
<1>1. /\ s \in Slugs /\ docs[s] \in Row /\ req[r].expires \in Nat /\ now \in Nat
      /\ req[r] # Idle /\ req[r].m \in Manifests
  BY InHand DEF IInv, ApplyUpdate, TypeOK, InFlight
<1>2. /\ req[r].op = "update" /\ Finish(r)
      /\ docs' = [docs EXCEPT ![s] = row]
      /\ answer' = [op |-> "update", slug |-> s, m |-> req[r].m]
      /\ docs[s].status = "published"
      /\ req[r].parent = NoParent \/ docs[s].manifest = req[r].parent
  BY DEF ApplyUpdate, Updatable, WriteRow, Answered
<1>3. WishOf(req[r]) = w
  BY <1>1, <1>2, Wishing
<1>4. [q \in Requests |-> WishOf(req'[q])] =
        [[q \in Requests |-> WishOf(req[q])] EXCEPT ![r] = [op |-> "none"]]
  BY <1>0, <1>2, Forgotten
<1>5. docs[s].token = req[r].token
  BY <1>1, <1>2 DEF EditsHoldToken
<1>6. row \in Row /\ row.status = "published" /\ row.manifest = req[r].m
      /\ row.token = docs[s].token
  BY <1>1, <1>2, UpdatedRowFacts DEF UpdatedRow, Row
<1> HIDE DEF row
<1>7. /\ PageOf(row) = [is |-> "live", m |-> req[r].m] /\ DraftOf(row) = NoParent
      /\ OwnerOf(row) = {docs[s].token}
  BY <1>6, NoRowIsNoRow, Reading
<1>8. /\ PageOf(docs[s]) = [is |-> "live", m |-> docs[s].manifest]
      /\ DraftOf(docs[s]) = NoParent /\ OwnerOf(docs[s]) = {docs[s].token}
  BY <1>1, <1>2, NoRowIsNoRow, Reading
<1>9. [u \in Slugs |-> PageOf(docs'[u])] =
        [[u \in Slugs |-> PageOf(docs[u])] EXCEPT ![s] = PageOf(row)]
  BY <1>0, <1>1, <1>2, OneRow
<1>10. /\ [u \in Slugs |-> DraftOf(docs'[u])] = [u \in Slugs |-> DraftOf(docs[u])]
       /\ [u \in Slugs |-> OwnerOf(docs'[u])] = [u \in Slugs |-> OwnerOf(docs[u])]
  <2>1. docs'[s] = row /\ \A u \in Slugs \ {s} : docs'[u] = docs[u]
    BY <1>0, <1>1, <1>2 DEF TypeOK
  <2> QED BY <1>7, <1>8, <2>1
<1>11. /\ [q \in Requests |-> WishOf(req[q])][r] = w
       /\ [u \in Slugs |-> PageOf(docs[u])][s] = [is |-> "live", m |-> docs[s].manifest]
       /\ req[r].token \in [u \in Slugs |-> OwnerOf(docs[u])][s]
  BY <1>1, <1>3, <1>5, <1>8
<1>12. /\ w.op = "update" /\ w.slug = s /\ w.m = req[r].m /\ w.token = req[r].token
       /\ w.parent \in {NoParent, docs[s].manifest} /\ w # [op |-> "none"]
  BY <1>2
<1> HIDE DEF w
<1>13. /\ w.slug \in Slugs
       /\ [u \in Slugs |-> PageOf(docs[u])][w.slug].is = "live"
       /\ w.parent \in {NoParent, [u \in Slugs |-> PageOf(docs[u])][w.slug].m}
       /\ w.token \in [u \in Slugs |-> OwnerOf(docs[u])][w.slug]
  BY <1>1, <1>11, <1>12
<1>14. [u \in Slugs |-> PageOf(docs'[u])] =
         [[u \in Slugs |-> PageOf(docs[u])] EXCEPT ![w.slug] = [is |-> "live", m |-> w.m]]
  BY <1>7, <1>9, <1>12
<1>15. answer' = [op |-> "update", slug |-> w.slug, m |-> w.m]
  BY <1>2, <1>12
<1>16. [q \in Requests |-> WishOf(req[q])][r] = w /\ w.op = "update" /\ w # [op |-> "none"]
  BY <1>11, <1>12
<1> QED BY <1>4, <1>10, <1>13, <1>14, <1>15, <1>16
        DEF Lifecycle!Update, Lifecycle!NoWish, Lifecycle!HoldsToken, Lifecycle!IsLive,
            Lifecycle!Turns, Lifecycle!Live, Lifecycle!Says, Lifecycle!Forgets

LEMMA ReconcileRefines ==
  ASSUME IInv, WishesHold, NEW r \in Requests, ReconcileUpdate(r)
  PROVE  Lifecycle!ConfirmAdmitted(r)
<1> DEFINE s == req[r].slug
           w == [op |-> "update", slug |-> s, m |-> req[r].m,
                 parent |-> req[r].parent, token |-> req[r].token]
<1>1. s \in Slugs /\ req[r] # Idle /\ TypeOK
  BY InHand DEF IInv, ReconcileUpdate
<1>2. /\ Finish(r) /\ docs' = docs /\ req[r].op = "update"
      /\ answer' = [op |-> "update", slug |-> s, m |-> req[r].m]
      /\ docs[s].status = "published" /\ docs[s].manifest = req[r].m
  BY <1>1 DEF ReconcileUpdate, Answered, WishesHold, ReconcilesAreUpdates
<1>3. WishOf(req[r]) = w
  BY <1>1, <1>2, Wishing
<1>4. [q \in Requests |-> WishOf(req'[q])] =
        [[q \in Requests |-> WishOf(req[q])] EXCEPT ![r] = [op |-> "none"]]
  BY <1>1, <1>2, Forgotten
<1>5. PageOf(docs[s]) = [is |-> "live", m |-> req[r].m]
  BY <1>2, Reading
<1>6. w.op = "update" /\ w.slug = s /\ w.m = req[r].m /\ w # [op |-> "none"]
  OBVIOUS
<1> HIDE DEF w
<1>7. /\ [q \in Requests |-> WishOf(req[q])][r] = w
      /\ [u \in Slugs |-> PageOf(docs[u])][w.slug] = [is |-> "live", m |-> w.m]
  BY <1>1, <1>3, <1>5, <1>6
<1>8. answer' = [op |-> "update", slug |-> w.slug, m |-> w.m]
  BY <1>2, <1>6
<1> QED BY <1>2, <1>4, <1>6, <1>7, <1>8
        DEF Lifecycle!ConfirmAdmitted, Lifecycle!NoWish, Lifecycle!Live,
            Lifecycle!Says, Lifecycle!Forgets

(* A delete may find the row gone already, and leaves it so.               *)
LEMMA SoftDeleteRefines ==
  ASSUME IInv, JInv, WishesHold, NEW r \in Requests, SoftDelete(r)
  PROVE  Lifecycle!Delete(r)
<1> DEFINE s == req[r].slug
           row == DeletedRow(docs[s], now)
           w == [op |-> "delete", slug |-> s, token |-> req[r].token]
<1>1. /\ s \in Slugs /\ docs[s] \in Row /\ now \in Nat /\ req[r] # Idle /\ TypeOK
  BY InHand DEF IInv, SoftDelete, TypeOK
<1>2. /\ req[r].op = "delete" /\ Finish(r)
      /\ docs' = [docs EXCEPT ![s] = row] /\ answer' = [op |-> "none"]
  BY DEF SoftDelete, WriteRow, NoAnswer
<1>3. WishOf(req[r]) = w
  BY <1>1, <1>2, Wishing
<1>4. [q \in Requests |-> WishOf(req'[q])] =
        [[q \in Requests |-> WishOf(req[q])] EXCEPT ![r] = [op |-> "none"]]
  BY <1>1, <1>2, Forgotten
<1>5. docs[s].token = req[r].token
  BY <1>1, <1>2 DEF WishesHold, EditsHoldToken
<1>6. row \in Row /\ row.status = "deleted" /\ row.token = docs[s].token
  BY <1>1, TerminalRowFacts DEF DeletedRow, Row
<1>7. docs[s].status \in {"published"} \cup Gone
  BY <1>1, <1>2 DEF JInv, DeletesWerePublic
<1> HIDE DEF row
<1>8. /\ PageOf(row) = [is |-> "gone"] /\ DraftOf(row) = NoParent
      /\ OwnerOf(row) = {docs[s].token}
  BY <1>6, NoRowIsNoRow, Reading DEF Gone
<1>9. DraftOf(docs[s]) = NoParent /\ OwnerOf(docs[s]) = {docs[s].token}
  BY <1>1, <1>7, NoRowIsNoRow, Reading DEF Gone
<1>10. [u \in Slugs |-> PageOf(docs'[u])] =
         [[u \in Slugs |-> PageOf(docs[u])] EXCEPT ![s] = PageOf(row)]
  BY <1>1, <1>2, OneRow
<1>11. /\ [u \in Slugs |-> DraftOf(docs'[u])] = [u \in Slugs |-> DraftOf(docs[u])]
       /\ [u \in Slugs |-> OwnerOf(docs'[u])] = [u \in Slugs |-> OwnerOf(docs[u])]
  <2>1. docs'[s] = row /\ \A u \in Slugs \ {s} : docs'[u] = docs[u]
    BY <1>1, <1>2 DEF TypeOK
  <2> QED BY <1>8, <1>9, <2>1
<1>12. w.op = "delete" /\ w.slug = s /\ w.token = req[r].token /\ w # [op |-> "none"]
  OBVIOUS
<1> HIDE DEF w
<1>13. /\ [q \in Requests |-> WishOf(req[q])][r] = w
       /\ w.token \in [u \in Slugs |-> OwnerOf(docs[u])][w.slug]
  BY <1>1, <1>3, <1>5, <1>9, <1>12
<1>14. [u \in Slugs |-> PageOf(docs'[u])] =
         [[u \in Slugs |-> PageOf(docs[u])] EXCEPT ![w.slug] = [is |-> "gone"]]
  BY <1>8, <1>10, <1>12
<1> QED BY <1>2, <1>4, <1>11, <1>12, <1>13, <1>14
        DEF Lifecycle!Delete, Lifecycle!NoWish, Lifecycle!HoldsToken, Lifecycle!Silence,
            Lifecycle!Turns, Lifecycle!Withdrawn, Lifecycle!Forgets

LEMMA RequestFailsRefines ==
  ASSUME TypeOK, NEW r \in Requests, RequestFails(r)
  PROVE  Lifecycle!GiveUp(r) \/ Lifecycle!Quiet
<1>1. docs' = docs /\ answer' = [op |-> "none"] /\ Finish(r)
  BY DEF RequestFails, NoAnswer
<1>2. CASE WishOf(req[r]) = [op |-> "none"]
  <2>1. [q \in Requests |-> WishOf(req'[q])] = [q \in Requests |-> WishOf(req[q])]
    BY <1>1, <1>2, NothingForgotten
  <2> QED BY <1>1, <2>1 DEF Lifecycle!Quiet, Lifecycle!Silence
<1>3. CASE WishOf(req[r]) # [op |-> "none"]
  <2>1. [q \in Requests |-> WishOf(req'[q])] =
          [[q \in Requests |-> WishOf(req[q])] EXCEPT ![r] = [op |-> "none"]]
    BY <1>1, Forgotten
  <2>2. [q \in Requests |-> WishOf(req[q])][r] # [op |-> "none"]
    BY <1>3
  <2> QED BY <1>1, <2>1, <2>2
          DEF Lifecycle!GiveUp, Lifecycle!NoWish, Lifecycle!Forgets, Lifecycle!Silence
<1> QED BY <1>2, <1>3

LEMMA RequestsRefine ==
  ASSUME IInv, JInv, WishesHold, RequestSteps
  PROVE  Lifecycle!Next
<1>0. TypeOK /\ EditsHoldToken
  BY DEF IInv, WishesHold
<1>1. PICK r \in Requests :
        \/ \E s \in Slugs :
             \/ \E k \in Keys : CommitReads(r, k, s)
             \/ \E t \in Tokens : DeleteReads(r, s, t)
             \/ \E m \in Manifests, p \in Manifests \cup {NoParent}, t \in Tokens :
                  UpdateReads(r, s, m, p, t)
        \/ \E b \in Blobs : HeadBlob(r, b)
        \/ CommitPublish(r) \/ ApplyUpdate(r) \/ UpdateLosesRace(r)
        \/ ReconcileUpdate(r) \/ SoftDelete(r) \/ RequestFails(r)
  BY DEF RequestSteps
<1>2. CASE \E s \in Slugs :
             \/ \E k \in Keys : CommitReads(r, k, s)
             \/ \E t \in Tokens : DeleteReads(r, s, t)
             \/ \E m \in Manifests, p \in Manifests \cup {NoParent}, t \in Tokens :
                  UpdateReads(r, s, m, p, t)
  <2>1. Lifecycle!Quiet \/ Lifecycle!Admit(r)
    BY <1>0, <1>2, CommitReadsRefines, DeleteReadsRefines, UpdateReadsRefines
  <2> QED BY <2>1 DEF Lifecycle!Next
<1>3. CASE UpdateLosesRace(r) \/ \E b \in Blobs : HeadBlob(r, b)
  BY <1>0, <1>3, VerifyingRefines DEF Lifecycle!Next
<1>4. CASE CommitPublish(r)
  BY <1>4, CommitPublishRefines DEF Lifecycle!Next
<1>5. CASE ApplyUpdate(r) \/ ReconcileUpdate(r) \/ SoftDelete(r) \/ RequestFails(r)
  <2>1. \/ Lifecycle!Update(r) \/ Lifecycle!ConfirmAdmitted(r)
        \/ Lifecycle!Delete(r) \/ Lifecycle!GiveUp(r) \/ Lifecycle!Quiet
    BY <1>0, <1>5, ApplyUpdateRefines, ReconcileRefines, SoftDeleteRefines,
       RequestFailsRefines
  <2> QED BY <2>1 DEF Lifecycle!Next
<1> QED BY <1>1, <1>2, <1>3, <1>4, <1>5

-----------------------------------------------------------------------------
(* The GC pass: expiry retires a batch, abandonment loses one, and what it *)
(* does to R2 and to blobs_deleted shows to nobody.                        *)
LEMMA MarkExpiredRefines ==
  ASSUME TypeOK, MarkExpired
  PROVE  \E S \in SUBSET Slugs : Lifecycle!Retire(S)
<1>1. req' = req /\ answer' = [op |-> "none"]
  BY DEF MarkExpired, NoAnswer
<1>2. PICK locked \in SUBSET Contended :
        LET due == {u \in Slugs \ locked : ExpireDue(docs[u], gc.start)} IN
        \E C \in Batches(due, [u \in due |-> docs[u].expires_at], BatchSize) :
          docs' = [u \in Slugs |-> IF u \in C THEN ExpiredRow(docs[u], now) ELSE docs[u]]
  BY DEF MarkExpired
<1> DEFINE due == {u \in Slugs \ locked : ExpireDue(docs[u], gc.start)}
<1>3. PICK C \in Batches(due, [u \in due |-> docs[u].expires_at], BatchSize) :
        docs' = [u \in Slugs |-> IF u \in C THEN ExpiredRow(docs[u], now) ELSE docs[u]]
  BY <1>2
<1>4. C \subseteq due
  BY BatchesAreSubsets
<1>5. ASSUME NEW u \in C
      PROVE  /\ u \in Slugs /\ PageOf(docs[u]).is = "live" /\ PageOf(docs'[u]) = [is |-> "gone"]
             /\ DraftOf(docs'[u]) = DraftOf(docs[u]) /\ OwnerOf(docs'[u]) = OwnerOf(docs[u])
  <2>1. u \in Slugs /\ docs[u].status = "published" /\ docs'[u] = ExpiredRow(docs[u], now)
    BY <1>3, <1>4, <1>5 DEF ExpireDue
  <2>2. docs[u] \in Row
    BY <2>1, NoRowIsNoRow DEF TypeOK
  <2>3. docs'[u].status = "expired" /\ docs'[u].token = docs[u].token /\ docs'[u] # NoRow
    BY <2>1, <2>2 DEF ExpiredRow, Row, NoRow
  <2>4. PageOf(docs'[u]) = [is |-> "gone"] /\ DraftOf(docs'[u]) = NoParent
        /\ OwnerOf(docs'[u]) = {docs[u].token}
    BY <2>3, Reading DEF Gone
  <2>5. PageOf(docs[u]).is = "live" /\ DraftOf(docs[u]) = NoParent
        /\ OwnerOf(docs[u]) = {docs[u].token}
    BY <2>1, <2>2, NoRowIsNoRow, Reading
  <2> QED BY <2>1, <2>4, <2>5
<1>6. \A u \in Slugs \ C : docs'[u] = docs[u]
  BY <1>3
<1>7. C \subseteq Slugs
  BY <1>4
<1> HIDE DEF due
<1>8. /\ \A u \in C : [v \in Slugs |-> PageOf(docs[v])][u].is = "live"
      /\ [u \in Slugs |-> PageOf(docs'[u])] =
           [u \in Slugs |-> IF u \in C THEN [is |-> "gone"]
                                       ELSE [v \in Slugs |-> PageOf(docs[v])][u]]
      /\ [u \in Slugs |-> DraftOf(docs'[u])] = [u \in Slugs |-> DraftOf(docs[u])]
      /\ [u \in Slugs |-> OwnerOf(docs'[u])] = [u \in Slugs |-> OwnerOf(docs[u])]
  BY <1>5, <1>6, <1>7
<1>9. [q \in Requests |-> WishOf(req'[q])] = [q \in Requests |-> WishOf(req[q])]
  BY <1>1
<1>10. Lifecycle!Retire(C)
  BY <1>1, <1>8, <1>9
     DEF Lifecycle!Retire, Lifecycle!IsLive, Lifecycle!Withdrawn, Lifecycle!Silence
<1> QED BY <1>7, <1>10

LEMMA MarkAbandonedRefines ==
  ASSUME TypeOK, MarkAbandoned
  PROVE  \E S \in SUBSET Slugs : Lifecycle!Lose(S)
<1>1. req' = req /\ answer' = [op |-> "none"]
  BY DEF MarkAbandoned, NoAnswer
<1>2. PICK locked \in SUBSET Contended :
        LET due == {u \in Slugs \ locked : AbandonDue(docs[u], gc.start, AbandonGrace)} IN
        \E C \in Batches(due, [u \in due |-> docs[u].created_at], BatchSize) :
          docs' = [u \in Slugs |-> IF u \in C THEN AbandonedRow(docs[u], now) ELSE docs[u]]
  BY DEF MarkAbandoned
<1> DEFINE due == {u \in Slugs \ locked : AbandonDue(docs[u], gc.start, AbandonGrace)}
<1>3. PICK C \in Batches(due, [u \in due |-> docs[u].created_at], BatchSize) :
        docs' = [u \in Slugs |-> IF u \in C THEN AbandonedRow(docs[u], now) ELSE docs[u]]
  BY <1>2
<1>4. C \subseteq due
  BY BatchesAreSubsets
<1>5. ASSUME NEW u \in C
      PROVE  /\ u \in Slugs /\ PageOf(docs[u]) = [is |-> "unpublished"]
             /\ OwnerOf(docs[u]) # {} /\ PageOf(docs'[u]) = [is |-> "lost"]
             /\ DraftOf(docs'[u]) = NoParent /\ OwnerOf(docs'[u]) = OwnerOf(docs[u])
  <2>1. u \in Slugs /\ docs[u].status = "pending" /\ docs'[u] = AbandonedRow(docs[u], now)
    BY <1>3, <1>4, <1>5 DEF AbandonDue
  <2>2. docs[u] \in Row
    BY <2>1, NoRowIsNoRow DEF TypeOK
  <2>3. docs'[u].status = "abandoned" /\ docs'[u].token = docs[u].token /\ docs'[u] # NoRow
    BY <2>1, <2>2 DEF AbandonedRow, Row, NoRow
  <2>4. PageOf(docs'[u]) = [is |-> "lost"] /\ DraftOf(docs'[u]) = NoParent
        /\ OwnerOf(docs'[u]) = {docs[u].token}
    BY <2>3, Reading
  <2>5. PageOf(docs[u]) = [is |-> "unpublished"] /\ OwnerOf(docs[u]) = {docs[u].token}
    BY <2>1, <2>2, NoRowIsNoRow, Reading
  <2> QED BY <2>1, <2>4, <2>5
<1>6. \A u \in Slugs \ C : docs'[u] = docs[u]
  BY <1>3
<1>7. C \subseteq Slugs
  BY <1>4
<1> HIDE DEF due
<1>8. /\ \A u \in C : /\ [v \in Slugs |-> PageOf(docs[v])][u] = [is |-> "unpublished"]
                      /\ [v \in Slugs |-> OwnerOf(docs[v])][u] # {}
      /\ [u \in Slugs |-> PageOf(docs'[u])] =
           [u \in Slugs |-> IF u \in C THEN [is |-> "lost"]
                                       ELSE [v \in Slugs |-> PageOf(docs[v])][u]]
      /\ [u \in Slugs |-> DraftOf(docs'[u])] =
           [u \in Slugs |-> IF u \in C THEN NoParent
                                       ELSE [v \in Slugs |-> DraftOf(docs[v])][u]]
      /\ [u \in Slugs |-> OwnerOf(docs'[u])] = [u \in Slugs |-> OwnerOf(docs[u])]
  BY <1>5, <1>6, <1>7
<1>9. [q \in Requests |-> WishOf(req'[q])] = [q \in Requests |-> WishOf(req[q])]
  BY <1>1
<1>10. Lifecycle!Lose(C)
  BY <1>1, <1>8, <1>9
     DEF Lifecycle!Lose, Lifecycle!Unpublished, Lifecycle!NoOwner, Lifecycle!Lost,
         Lifecycle!NoDraft, Lifecycle!Silence
<1> QED BY <1>7, <1>10

LEMMA StampRefines ==
  ASSUME IInv, SetBlobsDeletedAt
  PROVE  Lifecycle!Quiet
<1> DEFINE row == SweptRow(docs[gc.slug])
<1>1. gc.slug \in Slugs /\ docs[gc.slug] \in Row /\ TypeOK
  BY InHand DEF IInv, SetBlobsDeletedAt
<1>2. docs' = [docs EXCEPT ![gc.slug] = row] /\ req' = req /\ answer' = [op |-> "none"]
  BY DEF SetBlobsDeletedAt, NoAnswer
<1>3. /\ row.status = docs[gc.slug].status /\ row.manifest = docs[gc.slug].manifest
      /\ row.token = docs[gc.slug].token /\ row # NoRow
  BY <1>1 DEF SweptRow, Row, NoRow
<1> HIDE DEF row
<1>4. /\ PageOf(row) = PageOf(docs[gc.slug]) /\ DraftOf(row) = DraftOf(docs[gc.slug])
      /\ OwnerOf(row) = OwnerOf(docs[gc.slug])
  BY <1>1, <1>3, NoRowIsNoRow DEF PageOf, DraftOf, OwnerOf
<1>5. /\ [u \in Slugs |-> PageOf(docs'[u])] = [u \in Slugs |-> PageOf(docs[u])]
      /\ [u \in Slugs |-> DraftOf(docs'[u])] = [u \in Slugs |-> DraftOf(docs[u])]
      /\ [u \in Slugs |-> OwnerOf(docs'[u])] = [u \in Slugs |-> OwnerOf(docs[u])]
  BY <1>1, <1>2, <1>4, SameReading
<1>6. [q \in Requests |-> WishOf(req'[q])] = [q \in Requests |-> WishOf(req[q])]
  BY <1>2
<1> QED BY <1>2, <1>5, <1>6 DEF Lifecycle!Quiet, Lifecycle!Silence

-----------------------------------------------------------------------------
LEMMA StepRefines ==
  ASSUME IInv, JInv, WishesHold, [Next]_vars
  PROVE  [Lifecycle!Next]_(Lifecycle!vars)
<1>1. ASSUME docs' = docs, req' = req, answer' = NoAnswer
      PROVE  Lifecycle!Next
  BY <1>1, QuietStep DEF Lifecycle!Next
<1>2. CASE ClientSteps
  BY <1>2, ClientsRefine DEF IInv
<1>3. CASE RequestSteps
  BY <1>3, RequestsRefine
<1>4. CASE GCSteps
  <2>1. TypeOK
    BY DEF IInv
  <2>2. MarkExpired \/ MarkAbandoned \/ SetBlobsDeletedAt => Lifecycle!Next
    BY <2>1, MarkExpiredRefines, MarkAbandonedRefines, StampRefines DEF Lifecycle!Next
  <2> QED BY <1>1, <1>4, <2>2, GCFrame
<1>5. CASE Tick \/ \E s \in Slugs : PurgeDone(s)
  <2>1. docs' = docs /\ req' = req /\ answer' = NoAnswer
    BY <1>5 DEF Tick, PurgeDone
  <2> QED BY <1>1, <2>1
<1>6. CASE UNCHANGED vars
  <2>1. docs' = docs /\ req' = req /\ answer' = answer
    BY <1>6 DEF vars
  <2> QED BY <2>1 DEF Lifecycle!vars
<1> QED BY <1>2, <1>3, <1>4, <1>5, <1>6 DEF Next

LEMMA InitRefines == Init => Lifecycle!Init
BY Reading, IdleWishes
   DEF Init, Lifecycle!Init, Lifecycle!Unpublished, Lifecycle!NoDraft, Lifecycle!NoOwner,
       Lifecycle!NoWish, Lifecycle!Silence, NoAnswer

(* The server implements the register: whatever requests, failures and GC  *)
(* passes interleave, readers and authors see edits that each take effect  *)
(* at one instant between admission and answer.                            *)
THEOREM ServerImplementsLifecycle == Spec => ImplementsLifecycle
<1>1. Init => WishesHold
  BY DEF Init, WishesHold, EditsHoldToken, ReconcilesAreUpdates
<1>2. IInv /\ WishesHold /\ [Next]_vars => WishesHold'
  BY TokensKept, ReconcilesKept DEF WishesHold
<1>3. IInv /\ JInv /\ WishesHold /\ [Next]_vars => [Lifecycle!Next]_(Lifecycle!vars)
  BY StepRefines
<1> QED BY <1>1, <1>2, <1>3, InitRefines, Invariant, PTL
        DEF Spec, ImplementsLifecycle, Lifecycle!Spec
=============================================================================
