-------------------------- MODULE DocumentLifecycle --------------------------
(***************************************************************************)
(* What the document server promises of a slug, with no table, bucket,     *)
(* clock or job in it: a register that is empty until its one publish,     *)
(* holds the published manifest, is replaced whole by edits that name what *)
(* they replace, and ends gone or, never published, lost.  An edit is a    *)
(* wish its author holds from the moment the server admits it to the       *)
(* moment it takes effect at one instant or is withdrawn.                  *)
(***************************************************************************)
CONSTANTS Slugs, Manifests, Tokens, Requests, NoParent

VARIABLES
  page,    \* per slug, what a reader gets
  draft,   \* per slug not published yet, what its publish will serve
  owner,   \* per slug, the Edit Token it was minted with, if it was
  wish,    \* per request, the edit it was admitted for
  answer   \* the success given last, if the last step gave one

vars == <<page, draft, owner, wish, answer>>

Unpublished == [is |-> "unpublished"]
Withdrawn   == [is |-> "gone"]
Lost        == [is |-> "lost"]
Live(m)     == [is |-> "live", m |-> m]
NoOwner     == {}
NoDraft     == NoParent
NoWish      == [op |-> "none"]
Silence     == [op |-> "none"]

IsLive(s) == page[s].is = "live"

Edits ==
  [op : {"update"}, slug : Slugs, m : Manifests,
   parent : Manifests \cup {NoParent}, token : Tokens]
    \cup [op : {"delete"}, slug : Slugs, token : Tokens]

Init ==
  /\ page = [s \in Slugs |-> Unpublished]
  /\ draft = [s \in Slugs |-> NoDraft]
  /\ owner = [s \in Slugs |-> NoOwner]
  /\ wish = [r \in Requests |-> NoWish]
  /\ answer = Silence

HoldsToken(w) == w.token \in owner[w.slug]

Says(op, s, m) == answer' = [op |-> op, slug |-> s, m |-> m]

Turns(s, p) == page' = [page EXCEPT ![s] = p]

Mint(s, m, t) ==
  /\ owner[s] = NoOwner
  /\ owner' = [owner EXCEPT ![s] = {t}]
  /\ draft' = [draft EXCEPT ![s] = m]
  /\ answer' = Silence
  /\ UNCHANGED <<page, wish>>

Publish(s) ==
  /\ page[s] = Unpublished /\ owner[s] # NoOwner
  /\ Turns(s, Live(draft[s]))
  /\ draft' = [draft EXCEPT ![s] = NoDraft]
  /\ Says("publish", s, draft[s])
  /\ UNCHANGED <<owner, wish>>

(* An edit of a live document is admitted for a holder of its Edit Token.  *)
Admit(r) ==
  /\ wish[r] = NoWish
  /\ wish'[r] \in Edits
  /\ IsLive(wish'[r].slug) /\ HoldsToken(wish'[r])
  /\ wish' = [wish EXCEPT ![r] = wish'[r]]
  /\ answer' = Silence
  /\ UNCHANGED <<page, draft, owner>>

Forgets(r) == wish' = [wish EXCEPT ![r] = NoWish]

Update(r) ==
  LET w == wish[r] IN
  /\ w # NoWish /\ w.op = "update"
  /\ HoldsToken(w) /\ IsLive(w.slug) /\ w.parent \in {NoParent, page[w.slug].m}
  /\ Turns(w.slug, Live(w.m))
  /\ Says("update", w.slug, w.m)
  /\ Forgets(r)
  /\ UNCHANGED <<draft, owner>>

Delete(r) ==
  LET w == wish[r] IN
  /\ w # NoWish /\ w.op = "delete" /\ HoldsToken(w)
  /\ Turns(w.slug, Withdrawn)
  /\ answer' = Silence
  /\ Forgets(r)
  /\ UNCHANGED <<draft, owner>>

(* A success that writes nothing: what it names is what is served.         *)
Confirm(op, s) ==
  /\ IsLive(s)
  /\ Says(op, s, page[s].m)
  /\ UNCHANGED <<page, draft, owner, wish>>

(* The same for an admitted update that finds its own manifest served.     *)
ConfirmAdmitted(r) ==
  LET w == wish[r] IN
  /\ w # NoWish /\ w.op = "update" /\ page[w.slug] = Live(w.m)
  /\ Says("update", w.slug, w.m)
  /\ Forgets(r)
  /\ UNCHANGED <<page, draft, owner>>

GiveUp(r) ==
  /\ wish[r] # NoWish
  /\ Forgets(r)
  /\ answer' = Silence
  /\ UNCHANGED <<page, draft, owner>>

(* The sweep retires any live documents and loses any unpublished ones.    *)
Retire(S) ==
  /\ \A s \in S : IsLive(s)
  /\ page' = [s \in Slugs |-> IF s \in S THEN Withdrawn ELSE page[s]]
  /\ answer' = Silence
  /\ UNCHANGED <<draft, owner, wish>>

Lose(S) ==
  /\ \A s \in S : page[s] = Unpublished /\ owner[s] # NoOwner
  /\ page' = [s \in Slugs |-> IF s \in S THEN Lost ELSE page[s]]
  /\ draft' = [s \in Slugs |-> IF s \in S THEN NoDraft ELSE draft[s]]
  /\ answer' = Silence
  /\ UNCHANGED <<owner, wish>>

Quiet == answer' = Silence /\ UNCHANGED <<page, draft, owner, wish>>

Next ==
  \/ \E s \in Slugs :
       \/ \E m \in Manifests, t \in Tokens : Mint(s, m, t)
       \/ Publish(s)
       \/ \E op \in {"publish", "update"} : Confirm(op, s)
  \/ \E r \in Requests :
       \/ Admit(r) \/ Update(r) \/ Delete(r) \/ ConfirmAdmitted(r)
       \/ GiveUp(r)
  \/ \E S \in SUBSET Slugs : Retire(S) \/ Lose(S)
  \/ Quiet

Spec == Init /\ [][Next]_vars
=============================================================================
