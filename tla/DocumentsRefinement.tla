------------------------ MODULE DocumentsRefinement -------------------------
(***************************************************************************)
(* The document server implements DocumentLifecycle: a row is read as a    *)
(* page, a draft and an owner, and a request past its first read as the    *)
(* wish it was admitted for.                                               *)
(***************************************************************************)
EXTENDS DocumentServer

PageOf(row) ==
  CASE row.status = "published" -> [is |-> "live", m |-> row.manifest]
    [] row.status \in Gone      -> [is |-> "gone"]
    [] row.status = "abandoned" -> [is |-> "lost"]
    [] OTHER                    -> [is |-> "unpublished"]

DraftOf(row) == IF row.status = "pending" THEN row.manifest ELSE NoParent

OwnerOf(row) == IF row = NoRow THEN {} ELSE {row.token}

WishOf(q) ==
  CASE q = Idle        -> [op |-> "none"]
    [] q # Idle /\ q.op = "update" ->
         [op |-> "update", slug |-> q.slug, m |-> q.m, parent |-> q.parent,
          token |-> q.token]
    [] q # Idle /\ q.op = "delete" ->
         [op |-> "delete", slug |-> q.slug, token |-> q.token]
    [] q # Idle /\ q.op = "publish" -> [op |-> "none"]

Lifecycle == INSTANCE DocumentLifecycle WITH
  page   <- [s \in Slugs |-> PageOf(docs[s])],
  draft  <- [s \in Slugs |-> DraftOf(docs[s])],
  owner  <- [s \in Slugs |-> OwnerOf(docs[s])],
  wish   <- [r \in Requests |-> WishOf(req[r])],
  answer <- answer

(* Every step of the server is one step of the register, or none: the web  *)
(* requests, the GC pass and their failures, however they interleave, look *)
(* to a reader and to an author like edits that each take effect at one    *)
(* instant between admission and answer.                                   *)
ImplementsLifecycle == Lifecycle!Spec
=============================================================================
