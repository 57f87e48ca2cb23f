------------------------------ MODULE Documents ------------------------------
(***************************************************************************)
(* The documents table of mdfly: one row per minted slug, and what each    *)
(* SQL statement of internal/server/db/documents.go selects and writes.    *)
(* Every statement is atomic in Postgres, so a statement is a guard on one *)
(* row (its WHERE clause) and a function from the old row to the new one   *)
(* (its SET clause).  The actions that run them are in DocumentServer.     *)
(*                                                                         *)
(* Abstractions: a manifest is the set of blobs its files resolve to, and  *)
(* its hash is the manifest itself; an Edit Token and its SHA256 are the   *)
(* same value; instants are natural numbers, with 0 for SQL's NULL; of     *)
(* blobs_deleted_at only IS NULL is ever read, so it is a Boolean.         *)
(***************************************************************************)
EXTENDS Naturals, FiniteSets

CONSTANTS
  Slugs,       \* public handles the server can mint
  Keys,        \* idempotency keys clients send
  Blobs,       \* (content hash, extension) pairs, each naming one R2 object
  Manifests,   \* bundle manifests, as sets of blobs
  Tokens       \* Edit Tokens

(* A bundle has at least its root file (validateBundle, manifest.FromDTO). *)
ASSUME ManifestsAssumption ==
  Manifests \subseteq (SUBSET Blobs) \ {{}}

NULL     == 0    \* a timestamp column holding SQL NULL; instants start at 1
NoParent == {}   \* the empty parent_manifest_hash of --force, never a manifest

(* The documents.status column, and its groups: Gone rows serve 410, while *)
(* pending and abandoned ones, which no URL ever resolved, serve 404.      *)
Gone     == {"deleted", "expired"}
Terminal == Gone \cup {"abandoned"}
Status   == {"pending", "published"} \cup Terminal

Row == [status        : Status,
        key           : Keys,
        manifest      : Manifests,
        token         : Tokens,
        created_at    : Nat,
        updated_at    : Nat,
        expires_at    : Nat,
        deleted_at    : Nat,
        blobs_deleted : BOOLEAN]

NoRow == [status |-> "none"]     \* the slug has not been minted

-----------------------------------------------------------------------------
(* InsertPending: the row it inserts when the idempotency key is new.  On  *)
(* a conflict it inserts nothing and returns the row that holds the key.   *)
PendingRow(k, m, t, now) ==
  [status |-> "pending", key |-> k, manifest |-> m, token |-> t,
   created_at |-> now, updated_at |-> now, expires_at |-> NULL,
   deleted_at |-> NULL, blobs_deleted |-> FALSE]

HasKey(row, k) == row # NoRow /\ row.key = k

(* GetBySlug: what a reader of the slug is told.                           *)
Served(row) ==
  CASE row.status = "published" -> "200"
    [] row.status \in Gone      -> "410"
    [] OTHER                    -> "404"

(* MatchesEditToken, which the services ask once the row is loaded.        *)
MatchesEditToken(row, t) == row.token = t

(* Mutant: Publish without AND status = 'pending'.                         *)
PublishableAnyStatus(row) == row # NoRow

(* Publish: UPDATE ... WHERE idempotency_key = $1 AND status = 'pending'.  *)
Publishable(row) == row.status = "pending"

PublishedRow(row, expires, now) ==
  [row EXCEPT !.status = "published", !.expires_at = expires,
              !.updated_at = now]

(* Mutant: UpdateManifest without the parent in its WHERE clause.          *)
UpdatableUnguarded(row, parent) == row.status = "published"

(* UpdateManifest: WHERE status = 'published' AND (the parent is NULL OR   *)
(* manifest_hash = parent).                                                *)
Updatable(row, parent) ==
  /\ row.status = "published"
  /\ parent = NoParent \/ row.manifest = parent

(* Mutant: UpdateManifest that leaves expires_at as it was.                *)
UpdatedRowKeepsExpiry(row, m, expires, now) ==
  [row EXCEPT !.manifest = m, !.updated_at = now]

UpdatedRow(row, m, expires, now) ==
  [row EXCEPT !.manifest = m, !.expires_at = expires, !.updated_at = now]

(* SoftDelete: WHERE slug = $1, whatever the status.                       *)
DeletedRow(row, now) ==
  [row EXCEPT !.status = "deleted",
              !.deleted_at = IF @ = NULL THEN now ELSE @,
              !.updated_at = now]

(* MarkExpired, for a pass that started at pass.                           *)
ExpireDue(row, pass) ==
  /\ row.status = "published"
  /\ row.expires_at # NULL
  /\ row.deleted_at = NULL
  /\ row.expires_at <= pass

ExpiredRow(row, now) ==
  [row EXCEPT !.status = "expired", !.updated_at = now]

(* Mutant: MarkAbandoned called with now instead of now - AbandonGrace.    *)
AbandonDueAtOnce(row, pass, grace) ==
  row.status = "pending" /\ row.created_at <= pass

(* MarkAbandoned: pending rows created at or before pass - grace.          *)
AbandonDue(row, pass, grace) ==
  /\ row.status = "pending"
  /\ row.created_at + grace <= pass

(* Mutant: a status the column's CHECK constraint does not know.           *)
AbandonedRowUnknownStatus(row, now) ==
  [row EXCEPT !.status = "abandon", !.updated_at = now]

AbandonedRow(row, now) ==
  [row EXCEPT !.status = "abandoned", !.updated_at = now]

(* Mutant: the status list forgets 'abandoned'.                            *)
BlobGCDueGoneOnly(row, pass, grace) ==
  /\ row.status \in Gone
  /\ ~row.blobs_deleted
  /\ row.updated_at + grace <= pass

(* ListBlobGCCandidates: terminal rows whose blobs still need deleting.    *)
BlobGCDue(row, pass, grace) ==
  /\ row.status \in Terminal
  /\ ~row.blobs_deleted
  /\ row.status = "abandoned" \/ row.updated_at + grace <= pass

(* SetBlobsDeletedAt.                                                      *)
SweptRow(row) == [row EXCEPT !.blobs_deleted = TRUE]

IsSwept(row) == row # NoRow /\ row.blobs_deleted

(* LIMIT n on the rows (or keys) S: everything, or n of them.              *)
Pages(S, n) ==
  {C \in SUBSET S : Cardinality(C) = n \/ (C = S /\ Cardinality(S) <= n)}

(* ORDER BY at LIMIT n: the rows with the smallest instants, ties either   *)
(* way.                                                                    *)
Batches(S, at, n) ==
  {C \in Pages(S, n) : \A s \in C, u \in S \ C : at[s] <= at[u]}
=============================================================================
