# A TLA+ development of mdfly

mdfly publishes Markdown bundles. A CLI sends a manifest to a Go server, PUTs the
blobs straight to Cloudflare R2 with presigned URLs, and commits; readers fetch
the rendered page through Cloudflare's cache. Metadata is one Postgres table; a
separate jobs process expires, abandons and sweeps documents and drains a queue
of CDN purges. This directory models that system, checks it with TLC and proves
the safety of each part with TLAPS.

## Inventory

Paths are relative to `src/`; `server/` and `cli/` stand for `internal/server/`
and `internal/cli/`.

| Component | Code | State it keeps | Operations | Talks to |
|---|---|---|---|---|
| documents table | `server/db/documents.go`, `migrations/0001` | one row per minted slug: status, key, manifest, token hash, instants | InsertPending, Publish, UpdateManifest, SoftDelete, MarkExpired, MarkAbandoned, ListBlobGCCandidates, SetBlobsDeletedAt, reads | used by every service |
| publish/update service | `server/service/publish` | none between requests; a request holds what it read | init, commit, update/init, update/commit | documents, R2, purge queue (one transaction), inline purge |
| document service | `server/service/document` | as above | delete | as above |
| lifecycle GC | `server/service/gc` | the pass: start instant, work-list | expire, abandon, list, delete prefix, stamp | documents, R2 |
| blob storage | `server/storage` | R2 objects, signed PUTs in circulation | PresignPUT, HEAD, LIST/DELETE pages | R2 |
| purge queue and service | `server/db/purge.go`, `server/service/purge` | queue rows (attempts, next attempt); inline attempts and the drain pass | enqueue, inline attempt, claim, clear, back off | Cloudflare |
| jobs runner | `server/jobs`, `server/db/jobruns.go` | one goroutine per job, quit channel | Start, Stop, tick, record | GC, drain |
| rate limiter | `server/ratelimit`, `server/redis`, `server/middleware` | counters per subject, window and bucket | Allow | Redis |
| view/raw services | `server/service/view`, `raw`, `server/filetree`, `server/manifest` | none | resolve a URL to a node, rewrite references, list, sidebar | documents, R2 |
| CLI walk | `cli/walk`, `cli/input` | queue, visited paths, files by key | crawl, boundary check, keys | the disk |
| HTTP layer | `server/app.go`, `routes.go`, `handlers`, `httpx` | which services run in which process | routing, shutdown | all services |
| CLI publish client | `cli/publish` | one publish or update in progress | init, PUT (six at a time), commit, each retried up to three times | server, R2, local state |
| CLI local state | `cli/localstate`, `cli/cmd` | `state.json` and `credentials`, each with its own lock | upsert, prune, save and delete a token | files |
| deployment | `deploy/deploy.sh`, `Caddyfile`, `compose.yaml` | the live slot, the jobs container, a bookmark | swap, migrate, rollback, abort | docker, Caddy |

What makes them hard, and what makes them correct:

* *Documents, services, GC.* Nothing locks a document across calls: a commit reads
  its row, HEADs each blob, and writes later; the GC decides by an instant and a
  list it took earlier; clients keep presigned URLs for ten minutes (`presignTTL`), and
  may ask for new ones by an init at any time. Correct: a served
  page is whole; no deletion falls on a live document; answers are true; no update
  is lost; a slug goes 404, 200, 410 and never back; nothing expires early; a swept
  prefix stays empty; every pending or terminal row is dealt with in the end.
* *Purge queue.* A write, its inline attempt and the drain race on one row, told
  apart by `attempts` only. Correct: a page a write made stale keeps a purge
  queued; a stale claim neither deletes nor delays a newer one; a slug that fails
  for ever does not stop the others.
* *Walk and viewer.* The CLI keys files by what it sees on the disk, the server keys
  references by what it reads in the text, and a URL names a key a third way.
  Correct: the three agree; nothing from outside the project is published; the walk
  ends on a cyclic graph of pages and symlinks; a click lands where it points.
* *Jobs runner.* Ticks, panics and Stop race. Correct: passes of one job never
  overlap, none starts once Stop has returned, a panic stops neither ticker.
* *Rate limiter.* Correct: at most `Limit` requests per window, fails open, and the
  wait it names is one after which the same window admits the client.
* *CLI.* Requests that time out at the client and go on at the server; crashes and
  concurrent commands between two files. Correct: success and conflict are reported
  truly; a record that says it has a token has one; a token of a live document is
  not lost silently.
* *Deployment.* Correct: exactly one web slot and one jobs process in the end.

`PROJECT.json` lists the hazards one by one with their lines.

## Modules

| Module | What it is |
|---|---|
| `Documents` | the row of the documents table, and each SQL statement as a guard (WHERE) and a function of the row (SET) |
| `DocumentServer` | publish, PUT, update, delete and the GC pass over the table and the bucket; the safety and liveness of the document lifecycle |
| `DocumentLifecycle` | the abstract specification: a register per slug, edited by wishes that take effect at one instant |
| `DocumentsRefinement` | the refinement mapping from `DocumentServer` to it |
| `DocumentServerProofs` | facts about the row functions; the inductive invariant and four theorems |
| `DocumentStepsProofs` | what one step may do to a row; the action properties, true answers, swept prefixes |
| `RefinementProofs` | that `DocumentServer` implements `DocumentLifecycle`, step by step |
| `PurgeQueue`, `PurgeQueueProofs` | the queue, inline attempts, the drain, the edge cache; its theorems |
| `UpdateWire`, `UpdateWireProofs` | the update command with its retries against the update service; its theorems |
| `LocalState`, `LocalStateProofs` | the CLI's ledger and credentials, their locks, and the commands that write them; theorems |
| `Paths` | keys and rooted paths: cleaning, joining, making relative |
| `BundleWalk` | the walk of the CLI over a file system with symlinks |
| `Viewer` | what the server makes of a set of keys: URLs, references, listings, sidebar, raw |
| `PublishedBundle` | the two composed with a reader who follows links |
| `BundleProofs` | paths, the walk's invariant and the reader's; the bundle's seven safety theorems |
| `RateLimit`, `RateLimitProofs` | the fixed windows counted in Redis; their theorems |
| `MC*` | values and symmetry for TLC |

### DocumentServer and the code

A step is one Postgres statement or transaction, or one R2 call, with the local
computation that follows it. `req[r]` is a commit, update/commit or delete that has
done its first read: `pc` is `head` while `verifyBlobs` is at work, `write` when the
transaction is next, `reconcile` after a guarded UPDATE touched no row. It carries
the manifest and token it was admitted with, so the model keeps every stale read
the code has. `gc` is the local state of `Sweep`. Init and update/init touch shared
state once and are single steps.

* Publishing: `PublishInit` (insert, or find the key and presign again), `PutBlob`,
  `CommitFindsPublished`, `CommitReads`, `HeadBlob`, `CommitPublish`.
* Updating: `UpdateInit`, `UpdateAlreadyApplied`, `UpdateReads`, `HeadBlob`,
  `ApplyUpdate`, or `UpdateLosesRace` then `ReconcileUpdate`.
* Deleting: `DeleteReads`, `SoftDelete`.
* `RequestFails` ends a request at any point: an error answer, a failed call, or
  the process. A commit whose response is lost is the successful step: the client's
  own view of it is not part of this module.
* GC: `GCStart`, `MarkExpired`, `MarkAbandoned`, `ListBlobGCCandidates`, then per
  candidate `NextCandidate`, `DeleteObjects`, `NextPage`, `SetBlobsDeletedAt`, and
  `GCEnds`; `MarkFails`, `DeleteObjectsFails` (any part of the page is gone),
  `CandidateFails` and `JobsCrash` are the failures. SKIP LOCKED is a choice of
  rows to leave out among those a transaction may hold.

`answer` is the success the last step answered. Two history variables: `owed` is the
expiry computed by the last publish or update of a slug; `late` holds the slugs for
which an init signed URLs that outlive the grace of the row it found (`SignsLate`):
`Service.Init` signs again for a matching payload whatever the row's status or age.
Abstractions: a manifest
is the set of its blobs and is its own hash; a token is its own hash; a blob is
content-addressed and the PUT signs its size, so a key holds one value; instants
are naturals with 0 for NULL; all processes share one clock.

### PurgeQueue and the code

`queue[s]` is the row's `attempts`; `wait[s]` the time left until
`next_attempt_at`, and `due` the rows already due in its order. `Write` is the
transaction with its enqueue, followed by `purgeSoon` unless the process dies.
`PurgeSoonUnqueued` is the update that lost its race to an identical one and purges
without having enqueued. `pass` is `Drain`: claimed tasks, the age of its clock, and
which rows were due and have not moved since (the backoff is counted from the
pass's own clock, so it may end in the past but behind those). `PurgePrefixes` may
fail after it took effect. The edge fills in two steps, read and store; a page read
before a write and stored after it is `late`, the residual race ADR-0012 accepts,
and is kept apart from the `stale` pages of which the queue makes its promise.
`fenceGap` is a history variable: the last write fell between a purge's answer and
its clear at attempts 0.

`DocumentServer` keeps of the queue the set of queued slugs only; `PurgeDone` drops
one at any time.

### DocumentLifecycle and the refinement

A slug is a register: nothing, then the published manifest, then what edits that
name their parent (or none) make of it, then gone; or lost, never published. A
request is a wish from its admission until it takes effect or is withdrawn.
`DocumentsRefinement` reads a row as page, draft and owner and a request past its
first read as its wish (the owner is the set of the tokens minted, empty before);
blobs, presigned URLs, clocks, the GC pass and the queue have
no counterpart. `DocumentLifecycle!Delete` may rewrite a page that is gone already:
the code lets two deletes that read the same row both write (see *Known divergences*).

### UpdateWire and the code

One live document and several machines that hold its token. `cmd[c]` is the
`runUpdate` in progress: `init` (a step, since update/init writes nothing), `upload`,
`commit`. `wire` holds the update/commit requests the server has, each at one of the
three places where it touches the row: classify (`sent`), the guarded UPDATE
(`checked`), the re-read (`raced`). `TimesOut` is the client giving up on an attempt
that stays on the wire; an answer reaches its client only if that attempt is the one
it still waits for. `Reconcile` is the re-read after a lost race with both its ends:
what it reads decides the answer, or it fails and the answer is 409 too, as in
`Service.Commit`. `seen`, `foreign` and `unread` are history variables: what was live
while the command ran, whether anything but the command itself changed the document
since its parent, and whether its conflict comes of a re-read that failed (the client
cannot tell).

### BundleWalk, Viewer, PublishedBundle and the code

A world is a file system: directories, files with the references in them, symlinks,
a device. `BundleWalk` is `walker.crawl`: `Visit` takes one target, looks at what is
there, files it under `relKey` and queues its references that stay in the root.
The queue is a set taken from in a fixed order; what is found does not depend on the
order. `Viewer` has `resolveKey`, `slugPageURL`, `nodeHref`, `filetree.Classify`,
listing, tree and breadcrumb as operators on the set of manifest keys.
In `PublishedBundle`, once the walk is done, `OpenDocument` and `Follow` ask for a URL,
possibly decorated with a slash or a tracking query; `RedirectTrailingSlash`,
`RedirectCanonicalQuery` and `Serve` are the handler.
`Name` is any set without `.` and `..`, and a path is a sequence of names with those two.
A link is written by `PageURL` with its names as they are, as the code does, and read by
`Parsed`: `ReadAs` says what a name is read as where it stands in a URL unescaped, another
name (`50%41.md` is `50A.md`), or one that ends the path and starts a query or a fragment
(`a?b.md`, `c#.md`). `own` is the `up=` a reference's own query may carry, which
`appendSuffix` puts behind the key's. Names that decode to a slash (`%2F`) are left out. `freeName` never
runs out of names; `Synthetic` is the part of them a model has, and `WalkEnds` waits
for one that is left (`NameLeft`).

### RateLimit and the code

A request takes its time in `Arrive` (`Limiter.Allow` reads the clock) and is counted
later, by `Allows`, `Denies` or `ReplyLost` (the script has run, and go-redis, whose
retries are modelled as an external part, sends it again or gives up), or `FailsOpen`.
`Tick` also expires counters; it waits for requests that the store's timeouts
(`MaxLag`) would have ended. `LoseCounter` is an eviction or a restart of Redis.
`asked` and `admitted` are history variables per bucket. The subject is the bearer
token or the IP that Caddy lets through.

### LocalState and the code

`files` holds `state` (slug to manifest hash) and `credentials` (slug to token);
`holder` the two flocks. A command is what it read (`parent`, `token`), what it
still has to write (`todo`, a sequence of entries: `PersistPublish`, `Entering` for
persistUpdate, `PruneLocal`) and, between lock and rename, the copy of the file it
will write back (`snap`). `MutateReads` and `MutateWrites` are the two halves of
`mutate` and `mutateCredentials`; `MutateFails` is an error in either, after which
`AfterFailure` says what the caller does (a publish rolls back, a prune goes on).
`Dies` is a crash, and also a server that has acted and whose answer is lost.
`loose` is a history variable: records a prune missed or an update put back. The
server is reduced to the manifest of each document. A command may name a slug the
ledger holds, or one whose publish has told its user (--slug).

## What is checked

| Run | Question | Size |
|---|---|---|
| `documents_race` | two requests, one slug, pages of one, three manifests to choose from: whole documents, good HEADs, true answers, no lost update, sweeps on terminal rows only, served forward, no early expiry | 1.23M states |
| `documents_register` | two tokens: the server implements `DocumentLifecycle`; every visible change but expiry is queued; under graces that cover the life of a URL a swept prefix stays empty but for late inits | 0.42M |
| `documents_live` | fairness: pending rows settle, terminal rows are swept | 9.9k |
| `purge_queue` | two slugs, one refused for ever, batch of one: stale pages stay queued but for the fence's gap; a retried claim spares a newer write; the accepted slug is purged | 0.15M |
| `purge_pending` | finding: the fence lets a clear delete a newer write's row | violation |
| `update_wire` | two machines, two attempts per request, two commands: success is true, conflict is true but where the re-read failed, uploads suffice, commands end | 1.26M |
| `update_conflict` | finding: a command is told of a conflict with its own earlier attempt | violation |
| `local_race` | two commands, two documents: no lost entry, no token of a live document thrown away, records without token only where `loose`, no write without its lock | 0.65M |
| `local_token` | finding: a failed prune still deletes the token | violation |
| `bundle` | 23 file systems, file and text sources, with and without -r: nothing from outside, nothing unreferenced, the walk ends, references and clicks arrive, redirects end, raw mirrors the viewer, the sidebar shows the page | 42k |
| `bundle_fragment` | finding: a "#part" reference in a folder becomes a link to the folder | violation |
| `rate_limit` | three requests, two subjects, two windows: counters remember, limits hold, refusals are deserved, waiting helps | 1.7M |

### Findings

1. A reference that is only a fragment passes `pageResolver`'s check for an empty
   one. On a page in a folder its empty path resolves to that folder, and the link
   within the page becomes a link to the folder's listing. At the root the empty key
   is no directory, and the reference is left alone.
2. The purge fence compares `attempts`, which is 0 both for a first purge and for
   the row a later write leaves. Write, inline purge answered by the CDN, edge fills,
   write again, inline clear: the second write's row is deleted and the edge
   stays stale with no purge pending (unless the second write's own inline
   attempt, which is only an optimisation, gets through).
   The same gap lets a drain's failed claim push the newer row out by a backoff.
3. `pruneLocal` deletes the token even when pruning the record failed, which leaves
   a record with `has_token` and no token. A second way to the same state: an update
   that persists after a delete or remove has pruned.

4. `Service.Commit` answers 409 on any error of the re-read after a lost race, not only
   when someone else's update is found (update.go:170). A command whose first attempt was
   applied, and whose second loses the guard to it and then fails to re-read, is told that
   someone else updated the document.

`StaleIsQueuedButForGap`, `RetriedClaimSparesWrite` and `ConflictIsForeignButIfUnread`
state what does hold: once a claim has been retried (attempts > 0) the fence works, and a
conflict that was read is someone else's.

### Known divergences

Modelled as the code has them, and claimed by no property:

* `SoftDelete` has no status in its WHERE clause: a second delete, or a delete that
  races expiry, rewrites a gone row and restarts its blob grace, though the comments
  at `documents.go:321` and `document.go:33` call it a no-op.
* An update whose manifest is already live succeeds without refreshing `expires_at`,
  which CONTEXT.md:289 says every update does.
* A forced update (no parent) whose client has timed out may land after a later
  update of the same client and undo it: there is no parent to check it against.
* A Text Publish without `-r` whose text links to `index.md` has that name taken by
  its own synthesized root, for the markdown file is not uploaded.
* `Service.Init` presigns again for a matching payload whatever its row has become, so a PUT
  can put a blob under a prefix that was swept, or is about to be, and no later pass lists
  that row: the blob stays for ever. A row is swept at once when it is abandoned, so an init
  shortly before its grace ends is enough. `SweptStaysEmptyButForLateInit` leaves out the
  slugs of such inits (`late`) and shows that no other PUT comes after the sweep.
* `slugPageURL` and `nodeHref` write names into a URL without escaping, and a reference's
  own query is appended as it is. A link to `c#.md`, `a?b.md` or `50%41.md`, or a reference
  with an `up=` of its own to a file inside the project, leads elsewhere, though an escaped
  URL would name the node. `ClicksArrive` leaves these out by name (`Misread`); each of the
  exceptions is needed in `bundle`.
* Three kinds of node have a link and no URL; `ClicksArrive` leaves them out by name
  (`Nameless`): a bare folder above the project root, which has no name to put in a URL; a
  node more than `MaxUp` folders above it (`manifest.go:14` says that no real bundle nests
  this deep); and a folder shadowed by a synthesized root.
* The last comes about because `freeName` looks for its name among the files only: a
  folder `index-1.md` whose files are in the bundle leaves that name free. The root
  then hides the folder's listing, and the sidebar, which prefers a folder to a file of
  the same name, marks the folder beside the root's page (`ShadowedByRoot`).
* `WithinLimit` is of requests counted while their bucket runs, by a counter that Redis has
  kept: when Redis does not answer the limiter fails open, and a lost counter starts anew.
* A request counted after its bucket has ended re-arms a counter that may have
  expired, and can be admitted past that ended bucket's limit; `admitted` counts only
  what is admitted by a count made in its bucket. And an hour that is used up exactly
  by the request that waited out a minute refuses the next one: Retry-After promises
  new buckets for the windows that refused, no more.

### Bounds

* `MaxTime` 2 stops the clock. With graces and TTL of one, and a lifetime of one or
  none, it is enough for a row to be written, fall due and be swept; the liveness
  properties speak only of rows that fall due before it.
* Two blobs. `documents_race` has the manifests {b1}, {b2} and {b1, b2}: an update can re-use
  a blob, add one and drop one, and a lost update takes three. `documents_register` has {b1}
  and {b2}, so that a manifest leaves nothing of another; `documents_live` has {b1, b2} only.
  Pages of one make the LIST of a prefix with two blobs take two calls. There is one slug,
  so batches are never partial and rows do not compete: the order of the work-list, and
  what its limit does to the rows behind, is not examined.
* `documents_race` takes requests and blobs up to permutation: no definition tells
  them apart, and its properties are invariants and steps, no liveness.
* Two requests: every pair of racing writers. A third adds no kind of race, for
  each property relates one writer to one other actor.
* `documents_live` has a lifetime of 0: a published row falls due at the tick it is
  written in. Inits may sign URLs at any time in every run.
* `MaxWrites`: a write and one in the gap (2, and 3 in `purge_pending`). `Inlines` are the
  attempts in flight together, two in `purge_pending` and one in `purge_queue`, where the
  drain is the other; the proofs are for any number. `MaxAttempts` saturates the count
  where the backoff has reached its ceiling (assumed, and evaluated by TLC), past which
  counts behave alike.
* Two commands and two documents in `LocalState`: each property relates a command
  to one other, or an entry to one other; `remove --all` is several removes.
* In `UpdateWire` two commands on two machines, or one after another on one: each
  property relates a command to one other writer. Two attempts are enough to leave
  one behind. Three manifests: the first, one that re-uses its blob, one that drops it.
* The worlds of `bundle` have a root page with one of twelve kinds of reference (climbing
  out and back, absolute, through a symlink, dangling, escaping, with a query, with an up=
  of its own, into a folder named like a synthesized root), with or without a link to a page
  in a folder that has five of its own; the folder has a symlink to the project, which makes
  the graph of paths infinite but for `MaxLinks`, the system's own bound on symlinks, here 2.
  Three names read otherwise in a URL, one each as a name, a query and a fragment. No symlink
  leads to another. `MaxUp` is the code's.
* `MaxClock` 4 with windows of two and four ticks: every bucket of the short window
  is followed by another, and a request can be counted one bucket late. Three requests
  are one more than the larger limit. `MaxLost` 1.
* Deadlock is not checked: with the clock stopped and every row swept the models
  may have nothing left to do, as a quiet server has.

### Fairness

The clock runs. The jobs process ticks for ever (`Runner.loop`), so the GC steps are
weakly fair together; each successful step is strongly fair, which says that R2
and Postgres do not refuse that step for ever, that the process is not killed at
the same place for ever and that a row is not locked at every pass. The last page of
a prefix (`DeleteObjects /\ ~gc.truncated`) is such a step of its own, for clients may PUT
again what a pass that was cut short has deleted. Nothing is
assumed of clients. In `purge_queue` the CDN is only assumed to accept the purges
of `Accepted` now and then; all the others may fail for ever. In `UpdateWire` a
client's own steps are weakly fair together: every request has `httpClientTimeout`, so
the client is never stuck; nothing is assumed of the server or the network. In
`bundle` the walk goes on by itself.

## What is proved

For all constants that satisfy the assumptions of `Documents` and `DocumentServer`
(manifests are non-empty sets of blobs, times are naturals, graces are positive as
`gc.validateConfig` demands), `DocumentServerProofs` proves of `Spec`:

* `TypeCorrect`: `[]TypeOK`;
* `PublishedDocumentsAreWhole`: `[]PublishedBlobsPresent`;
* `CommitsWriteOnGoodHeads`: `[]HeadsStayGood`;
* `LiveBlobsAreNotSwept`: `[]SweepsOnlyTerminal`.

The argument. A published row got its blobs by HEADs made earlier, so
`PublishedBlobsPresent` alone is not inductive: one has to know that what a request
has HEADed is still there when it writes. `HeadsStayGood` says so for as long as the
row is not terminal. The only step that removes blobs is the sweep's, so it needs
that every slug the sweep holds is terminal, `SweepsOnlyTerminal`, which in turn
holds since terminal rows stay terminal (`RowsMoveForward`): Publish and
UpdateManifest are guarded by the status in their WHERE clause, the re-check in the
database that makes the stale reads above it harmless. The three with `TypeOK` are
the inductive invariant `IInv`, which the runs check too. The lemmas `StepTypes`,
`HeadsKept`, `SweepKept` and `BlobsKept` show one conjunct each to be preserved.

`DocumentStepsProofs` and `RefinementProofs` go on from `IInv` under the same assumptions.

* `RowSteps` lists what a step may do to a row, and who did it: nothing, insert,
  publish, update, soft-delete, expire, abandon or stamp. `AnswersMoveForward`
  (`ServedMovesForward`), `UpdatesAreNotLost` (`NoLostUpdate`), `LifetimesAreHonoured`
  (`LifetimeHonoured`) and `ChangesAreQueued` (`VisibleChangeIsQueued`) follow from it
  case by case. They need `JInv`: a delete in flight has read a row that was public, a
  published row holds the expiry that was promised (`OwedIsExpiry`), and a pass started
  no later than now. `SuccessIsLive` is `[]AnswersAreLive`.
* `SweptPrefixesStayEmpty` (`[]SweptStaysEmptyButForLateInit` if `GracesCoverUploads`). A
  slug that is held by a pass or stamped is `Dead`: terminal, and past the end of all URLs
  that were signed for it, or late. This needs a bound on URLs by what the row says of their
  age (`UrlsLapse`, `RowsAge`), and that what is left of a prefix under the pass is on pages
  to come (`PagesCover`). With those, `SInv` is inductive; an init may be run again at any
  time, and one that breaks the bound makes its slug late by that very step (`UrlStep`).
* `ServerImplementsLifecycle` (`ImplementsLifecycle`). The initial state maps to the
  initial state, and there is a lemma for each handler and statement that says which
  step of the register, or which stutter, it is. The stale reads matter in one place: an
  edit is allowed by the register only if its token is the owner's when it takes
  effect, and the code checks the token calls earlier. `EditsHoldToken` carries the check
  to the write, since no statement changes the token of a row that has one.

`PurgeQueueProofs` proves `StaleIsQueued` (`[]StaleIsQueuedButForGap`). A queue row goes
only by a clear, and a clear follows a purge that emptied the edge of the slug. For the
page to be stale again a write must have come since, and a write resets `attempts` to 0:
a clear that carries more finds no match, and one that carries 0 is in the gap the
property names. `InlineFenced` and `DrainFenced` say so of the clears in flight.
`TypeCorrect` and `RetriesSpareWrites` (`RetriedClaimSparesWrite`) go with a second
invariant, `QInv`: the order of due rows has each of them once whatever is inserted,
dropped or comes due (`Rows`, on lemmas about sequences), so a pass claims a slug
once (`Claimed`), and the row of a slug written since has its count from zero
(`Newer`), which no claim that was retried matches.

`LocalStateProofs` proves `TypeCorrect`, `LocksAreReleased` (`LocksHeldWhileWriting`),
`RecordsHaveTokens` (`RecordHasTokenButIfLoose`), `EntriesAreSpared`
(`WritesSpareOthers`) and `TokensOutlive` (`TokenOutlivesDocument`). The strengthening
says what a writing command relies on (`Good`): the copy it will write back is the file as
it is while it holds the lock; a publish writes the token before the record, a prune the
record before the token; and a document whose publish is under way (`Fresh`) is
worked on by that command alone (`Apart`).

`UpdateWireProofs` proves, for any clients, manifests and numbers of attempts and
commands that satisfy `WireAssumption`, `TypeCorrect`, `SuccessIsTrue`
(`SuccessWasLive`), `ConflictIsTrueIfRead` (`ConflictIsForeignButIfUnread`) and
`UploadsAreEnough` (`UploadsSuffice`). A client that is told "ok" or "conflict" for one attempt may have
others on the wire, so none is inductive. The strengthening, `Good`, says what a
running command may rely on: while nothing foreign has happened the document is live
and has the command's parent or what it wants, and a request of its own that has lost
its race then finds what it wants (`OwnRequest`). That ids of commands are unique
(`IdsApart`) keeps a stale request of an ended command from counting as one's own, and
`BlobsKept`, that every request on the wire has its blobs, gives `UploadsSuffice`.

`RateLimitProofs` proves, for any windows, limits, subjects and requests that satisfy
`LimitAssumption`, `CountersAreKept` (`CountersRemember`), `LimitHolds`
(`WithinLimit`) and `RefusalsAreDeserved` (`RefusalsDeserved`). The argument is about
time. A counter is armed for a whole window each time it is bumped, so it outlives
its bucket (`Outlive`); a bucket that has not begun has no counter (`Fresh`); so the
counter of the current bucket is what was asked of it (`Remember`), and a request
admitted in its bucket finds all that was admitted before it in the counter (`Below`).
Lemmas about division carry it: two instants of one bucket are less than a
window apart (`StepSpan`). `TypeCorrect` and `WaitsAreHonest` (`WaitingHelps`) need that
there is a longest wait: a finite set of numbers has a greatest (`HasGreatest`, from
the well-foundedness of inclusion among finite sets), and a wait of a window ends with
its bucket (`WaitEnds`).

`BundleProofs` proves every safety property of the bundle, for any names, file systems,
sources, `MaxLinks` and `MaxUp`: `NothingFromOutsideHolds`, `OnlyReferencedIsUploadedHolds`,
`ReferencesReachTheirFileHolds`, `ClicksArriveHolds`, `RedirectsEndHolds`,
`RawMirrorsViewHolds` and `SidebarShowsPageHolds`. It assumes that a file system is a tree of
directories with `/` at its root, that a file given to publish lies in the directory that
becomes the project root, and that no name is `.` or `..`.

* *Paths.* `Clean` and `Resolve` are recursive functions of the length of a path, and the
  library's induction theorems cannot be applied. An induction along one path can: the
  lengths up to n that a fact holds for are a set, and a least length outside it is absurd
  (`Counting`, from the well-foundedness of `<` on the naturals). In this way a recursive
  definition is shown to denote a function at all (`Recursion`), cleaning a path twice or
  in pieces changes nothing (`CleanOfClean`, `CleanConcat`), `..` takes names off a
  path (`CleanClimb`), and joining undoes `Rel` (`RelInverse`), so a key names one path
  (`RelInjective`).
* *The walk*, `WalkInv`. Every file but a synthesized root is filed under the key of the
  path it was read from (`FromDisk`); whatever is queued or visited passed `InRoot` and is
  named by a page already read (`FoundInside`); and whatever the pages read so far lead to is
  queued or visited (`Closed`), so all of it is visited once the queue is empty. The last
  gives `ReferencesReachTheirFile`, with the lemma that the CLI's and the server's
  computation of a key agree (`KeysAgree`).
* *The reader*, `ReadInv`. The page shown is what its key classifies as; a URL in flight has
  at most two redirects before it, one for its slash and one for its query; and
  unless the node wanted is `Nameless` or the link `Misread`, what the URL will be served is
  that node (`Arrives`). `LinksAre` says what every link a page can have is, and `LinkAsked`
  that one which is not misread is asked for as it was written; a redirect keeps the
  parts of a URL that address a node (`SameAddress`). That a file's key is never
  also a folder's, but for a synthesized root (`FilesAreNoFolders`), is what the disk gives:
  a path is not both. `TreeNodes` and `PageTree` carry it to the sidebar.

Both invariants were checked by TLC on the worlds of `bundle` before they were proved. The
proof found the exceptions in `Nameless` and `ShadowedByRoot`, which earlier worlds
did not have; `bundle` has a folder `index-1.md` since. It also showed that the
guards of `Classify`, `Rewritten`, `Step` and `ClassifyUpdate` overlapped, as the
code's chains of `if` do; they are `IF` chains now, in the code's order.

Only model-checked: the liveness properties (`WalkTerminates`, `PendingSettles`,
`TerminalIsSwept`, `AcceptedAreDrained`, `CommandsEnd`), which with ENABLED are out of the
prover's reach. Every other property of a passing run is a theorem.

## What is not modelled

Rendering and markdown beyond the references of a page; headers and the decoding of
requests; request validation, which changes nothing; the connection pool; clock skew
between Postgres, the servers and R2; two jobs processes, which the code rules out
by deployment; multipart or partial PUTs, which R2 makes atomic; the jobs runner's
Start and Stop, panics and record of runs (a pass that is cut short at any step is
`JobsCrash`); the deployment script, sequential and outside the program; the CLI's
output and configuration; the retries of a first publish, whose init is idempotent by its key
(`PublishInit`); the landing site.

## Plan

Done: `Documents`, `DocumentServer` and proofs; `DocumentLifecycle`, the refinement
and its proof; `PurgeQueue`, `LocalState`, `UpdateWire`, `RateLimit` and proofs; the
bundle and its proof. Left, most important first:

1. `JobsRunner`: ticks against Stop and panics.
2. The starvation of the blob work-list by a limit of rows that always fail.
