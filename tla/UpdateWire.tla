------------------------------ MODULE UpdateWire ------------------------------
(***************************************************************************)
(* The update wire as the CLI uses it: update/init, the uploads, and       *)
(* update/commit, each tried a few times over a network that loses answers *)
(* and delays requests.  A client that has timed out does not take back    *)
(* what it sent: the attempt may still be at work on the server while the  *)
(* next one, or the next command, is.                                      *)
(*                                                                         *)
(* One document, edited from several machines that hold its Edit Token.    *)
(* An answer arrives at once or not at all; whatever happens while it is   *)
(* under way happens before the client's next step just as well.           *)
(***************************************************************************)
EXTENDS Naturals, FiniteSets

CONSTANTS
  Clients,      \* machines, one command at a time each
  Manifests,    \* what the document may consist of
  First,        \* its manifest at the start
  Blobs,
  BlobsOf,      \* the blobs of each manifest
  NoParent,     \* parent_manifest_hash "": --force, or no local record
  MaxAttempts,  \* maxAttempts of withRetry
  MaxCommands   \* bound: commands run

ASSUME WireAssumption ==
  /\ First \in Manifests
  /\ NoParent \notin Manifests
  /\ BlobsOf \in [Manifests -> SUBSET Blobs]
  /\ MaxAttempts \in Nat \ {0}
  /\ MaxCommands \in Nat

VARIABLES
  doc,   \* the row: whether it is live, and its manifest
  r2,    \* blobs under the slug's prefix
  cmd,   \* each client's command, or its last one, and its local record
  wire,  \* update/commit requests at the server
  used   \* commands run so far

vars == <<doc, r2, cmd, wire, used>>

Outcomes == {"none", "ok", "conflict", "gone", "missing", "failed"}

(* History: seen is what has been live while the command ran; foreign,      *)
(* whether anything else has changed the document since the command's      *)
(* parent; unread, that its conflict is a re-read that failed.             *)
Command ==
  [pc : {"idle", "init", "upload", "commit"}, id : 0..MaxCommands,
   want : Manifests, parent : Manifests \cup {NoParent},
   tries : 0..MaxAttempts, waiting : BOOLEAN, todo : SUBSET Blobs,
   outcome : Outcomes, record : Manifests,
   seen : SUBSET Manifests, foreign : BOOLEAN, unread : BOOLEAN]

Request ==
  [by : 1..MaxCommands, try : 1..MaxAttempts, want : Manifests,
   parent : Manifests \cup {NoParent}, stage : {"sent", "checked", "raced"}]

TypeOK ==
  /\ doc \in [live : BOOLEAN, manifest : Manifests]
  /\ r2 \subseteq Blobs
  /\ cmd \in [Clients -> Command]
  /\ wire \subseteq Request
  /\ used \in 0..MaxCommands

Init ==
  /\ doc = [live |-> TRUE, manifest |-> First]
  /\ r2 = BlobsOf[First]
  /\ cmd = [c \in Clients |->
              [pc |-> "idle", id |-> 0, want |-> First, parent |-> NoParent,
               tries |-> 0, waiting |-> FALSE, todo |-> {}, outcome |-> "none",
               record |-> First, seen |-> {}, foreign |-> FALSE, unread |-> FALSE]]
  /\ wire = {}
  /\ used = 0

-----------------------------------------------------------------------------
(* Mutant: the parent is looked at before what is live already.            *)
ClassifyUpdateParentFirst(current, parent, next) ==
  IF parent \notin {NoParent, current} THEN "conflict"
  ELSE IF current = next THEN "applied" ELSE "apply"

(* classifyUpdate.                                                         *)
ClassifyUpdate(current, parent, next) ==
  IF current = next THEN "applied"
  ELSE IF parent \in {NoParent, current} THEN "apply" ELSE "conflict"

(* Mutant: the diff goes the other way.                                    *)
PresignNewBlobsReversed(incoming, stored) == BlobsOf[stored] \ BlobsOf[incoming]

PresignNewBlobs(incoming, stored) == BlobsOf[incoming] \ BlobsOf[stored]

-----------------------------------------------------------------------------
(* The client.                                                             *)
Ended(k, outcome) ==
  [k EXCEPT !.pc = "idle", !.waiting = FALSE, !.outcome = outcome]

(* Mutant: one attempt too many.                                           *)
RetriedOnceMore(k) ==
  IF k.tries > MaxAttempts THEN Ended(k, "failed") ELSE [k EXCEPT !.waiting = FALSE]

(* withRetry after a 5xx or a network failure.                             *)
Retried(k) ==
  IF k.tries = MaxAttempts THEN Ended(k, "failed") ELSE [k EXCEPT !.waiting = FALSE]

(* runUpdate, up to the request.                                           *)
Begin(c, m, force) ==
  LET parent == IF force THEN NoParent ELSE cmd[c].record IN
  /\ cmd[c].pc = "idle"
  /\ used < MaxCommands
  /\ used' = used + 1
  /\ cmd' = [cmd EXCEPT ![c] =
               [pc |-> "init", id |-> used', want |-> m, parent |-> parent,
                tries |-> 0, waiting |-> FALSE, todo |-> {}, outcome |-> "none",
                record |-> @.record, seen |-> {doc.manifest},
                foreign |-> ~doc.live \/ parent \notin {NoParent, doc.manifest},
                unread |-> FALSE]]
  /\ UNCHANGED <<doc, r2, wire>>

(* doUpdateInit and UpdateInit: an attempt that is answered.  init writes  *)
(* nothing, so it is one step.                                             *)
UpdateInit(c) ==
  LET k == cmd[c] IN
  /\ k.pc = "init"
  /\ cmd' = [cmd EXCEPT ![c] =
       IF ~doc.live THEN Ended(k, "gone")
       ELSE IF ClassifyUpdate(doc.manifest, k.parent, k.want) = "conflict"
       THEN Ended(k, "conflict")
       ELSE [k EXCEPT !.pc = "upload", !.tries = 0,
                      !.todo = PresignNewBlobs(k.want, doc.manifest)]]
  /\ UNCHANGED <<doc, r2, wire, used>>

(* One that is not, or that is refused outright (401, 403, 429).           *)
UpdateInitFails(c) ==
  LET k == [cmd[c] EXCEPT !.tries = @ + 1] IN
  /\ cmd[c].pc = "init"
  /\ \E after \in {Retried(k), Ended(k, "failed")} : cmd' = [cmd EXCEPT ![c] = after]
  /\ UNCHANGED <<doc, r2, wire, used>>

(* uploadBlobs: each presigned blob is PUT, in any order.                  *)
PutBlob(c, b) ==
  /\ cmd[c].pc = "upload" /\ b \in cmd[c].todo
  /\ r2' = r2 \cup {b}
  /\ cmd' = [cmd EXCEPT ![c].todo = @ \ {b}]
  /\ UNCHANGED <<doc, wire, used>>

(* A PUT fails for good: the others are cancelled, or just make it.        *)
UploadFails(c) ==
  /\ cmd[c].pc = "upload" /\ cmd[c].todo # {}
  /\ \E landed \in SUBSET cmd[c].todo : r2' = r2 \cup landed
  /\ cmd' = [cmd EXCEPT ![c] = Ended(@, "failed")]
  /\ UNCHANGED <<doc, wire, used>>

UploadEnds(c) ==
  /\ cmd[c].pc = "upload" /\ cmd[c].todo = {}
  /\ cmd' = [cmd EXCEPT ![c].pc = "commit"]
  /\ UNCHANGED <<doc, r2, wire, used>>

Sent(k) ==
  [by |-> k.id, try |-> k.tries, want |-> k.want, parent |-> k.parent,
   stage |-> "sent"]

(* Mutant: attempts are not counted.                                       *)
SendCommitUncounted(c) ==
  LET k == [cmd[c] EXCEPT !.tries = 1, !.waiting = TRUE] IN
  /\ cmd[c].pc = "commit" /\ ~cmd[c].waiting
  /\ cmd' = [cmd EXCEPT ![c] = k]
  /\ wire' = wire \cup {Sent(k)}
  /\ UNCHANGED <<doc, r2, used>>

(* doUpdateCommit: an attempt is sent.                                     *)
SendCommit(c) ==
  LET k == [cmd[c] EXCEPT !.tries = @ + 1, !.waiting = TRUE] IN
  /\ cmd[c].pc = "commit" /\ ~cmd[c].waiting
  /\ cmd' = [cmd EXCEPT ![c] = k]
  /\ wire' = wire \cup {Sent(k)}
  /\ UNCHANGED <<doc, r2, used>>

(* The connection breaks or httpClientTimeout runs out; the request stays. *)
TimesOut(c) ==
  /\ cmd[c].waiting
  /\ cmd' = [cmd EXCEPT ![c] = Retried(@)]
  /\ UNCHANGED <<doc, r2, wire, used>>

(* What the client does with an answer to update/commit.  On success the   *)
(* local record is written, or that fails and is only warned about.  The   *)
(* client cannot tell "unread" from any other 409.                         *)
Reactions(k, answer) ==
  CASE answer = "ok"    -> {[Ended(k, "ok") EXCEPT !.record = m] :
                              m \in {k.want, k.record}}
    [] answer = "error" -> {Retried(k)}
    [] answer = "unread" -> {[Ended(k, "conflict") EXCEPT !.unread = TRUE]}
    [] OTHER            -> {Ended(k, answer)}

Awaits(c, r) ==
  /\ cmd[c].pc = "commit" /\ cmd[c].waiting
  /\ cmd[c].id = r.by /\ cmd[c].tries = r.try

(* The request is done with; its answer reaches the client, if that still  *)
(* waits for it, or is lost.  known is cmd with what the step has changed. *)
Answers(known, r, answer) ==
  /\ wire' = wire \ {r}
  /\ \/ cmd' = known
     \/ \E c \in Clients : \E after \in Reactions(known[c], answer) :
          Awaits(c, r) /\ cmd' = [known EXCEPT ![c] = after]

-----------------------------------------------------------------------------
(* The server.                                                             *)
Moved(r, stage) == wire' = (wire \ {r}) \cup {[r EXCEPT !.stage = stage]}

(* UpdateCommit: the row is read, the update classified, the blobs HEADed. *)
CommitAnswers(r) ==
  LET class == ClassifyUpdate(doc.manifest, r.parent, r.want) IN
  /\ r.stage = "sent"
  /\ \/ ~doc.live /\ Answers(cmd, r, "gone")
     \/ doc.live /\ class = "applied" /\ Answers(cmd, r, "ok")
     \/ doc.live /\ class = "conflict" /\ Answers(cmd, r, "conflict")
     \/ /\ doc.live /\ class = "apply" /\ ~(BlobsOf[r.want] \subseteq r2)
        /\ Answers(cmd, r, "missing")
  /\ UNCHANGED <<doc, r2, used>>

CommitGoesOn(r) ==
  /\ r.stage = "sent" /\ doc.live
  /\ ClassifyUpdate(doc.manifest, r.parent, r.want) = "apply"
  /\ BlobsOf[r.want] \subseteq r2
  /\ Moved(r, "checked")
  /\ UNCHANGED <<doc, r2, cmd, used>>

(* What the other commands know of a write, or of the document's end.      *)
Witnessed(seen, by) ==
  [c \in Clients |->
     IF cmd[c].pc = "idle" THEN cmd[c]
     ELSE [cmd[c] EXCEPT !.seen = @ \cup seen, !.foreign = @ \/ cmd[c].id # by]]

Updatable(r) == doc.live /\ r.parent \in {NoParent, doc.manifest}

(* applyUpdate: the guarded UPDATE.                                        *)
ApplyUpdate(r) ==
  /\ r.stage = "checked" /\ Updatable(r)
  /\ doc' = [doc EXCEPT !.manifest = r.want]
  /\ Answers(Witnessed({r.want}, r.by), r, "ok")
  /\ UNCHANGED <<r2, used>>

UpdateLosesRace(r) ==
  /\ r.stage = "checked" /\ ~Updatable(r)
  /\ Moved(r, "raced")
  /\ UNCHANGED <<doc, r2, cmd, used>>

(* Mutant: losing to any writer counts as having applied.                  *)
ReconcileBlindly(r) ==
  /\ r.stage = "raced"
  /\ Answers(cmd, r, "ok")
  /\ UNCHANGED <<doc, r2, used>>

(* reconcileConcurrentUpdate: a document that is gone by now is a conflict *)
(* too, and so is a re-read that fails, whatever is live.                  *)
Reconcile(r) ==
  /\ r.stage = "raced"
  /\ \/ Answers(cmd, r, IF doc.live /\ doc.manifest = r.want
                       THEN "ok" ELSE "conflict")
     \/ Answers(cmd, r, "unread")
  /\ UNCHANGED <<doc, r2, used>>

(* A 5xx: the service's own when a read, a HEAD or the write fails, before *)
(* it knows of a lost race; the proxy's whenever the process dies.         *)
ServerFails(r) ==
  /\ Answers(cmd, r, "error")
  /\ UNCHANGED <<doc, r2, used>>

(* The document is deleted, or expires.                                    *)
DocumentGoes ==
  /\ doc.live
  /\ doc' = [doc EXCEPT !.live = FALSE]
  /\ cmd' = Witnessed({}, 0)
  /\ UNCHANGED <<r2, wire, used>>

-----------------------------------------------------------------------------
ClientSteps(c) ==
  \/ UpdateInit(c) \/ UpdateInitFails(c)
  \/ (\E b \in Blobs : PutBlob(c, b)) \/ UploadFails(c) \/ UploadEnds(c)
  \/ SendCommit(c) \/ TimesOut(c)

ServerSteps(r) ==
  \/ CommitAnswers(r) \/ CommitGoesOn(r) \/ ApplyUpdate(r)
  \/ UpdateLosesRace(r) \/ Reconcile(r) \/ ServerFails(r)

Next ==
  \/ \E c \in Clients :
       \/ \E m \in Manifests, force \in BOOLEAN : Begin(c, m, force)
       \/ ClientSteps(c)
  \/ \E r \in wire : ServerSteps(r)
  \/ DocumentGoes

Spec == Init /\ [][Next]_vars

(* A client goes on by itself: it is never left waiting without a timeout. *)
FairSpec == Spec /\ \A c \in Clients : WF_vars(ClientSteps(c))

-----------------------------------------------------------------------------
(* A command that reports success tells the truth: what it published was   *)
(* live at some moment while it ran, whichever of its attempts put it      *)
(* there and whichever was answered.                                       *)
SuccessWasLive ==
  \A c \in Clients : cmd[c].outcome = "ok" => cmd[c].want \in cmd[c].seen

(* A 409 means that the document was "updated elsewhere since you started" *)
(* (ADR-0006): a conflict is never the work of the command's own earlier   *)
(* attempt, applied but not answered.  The code breaks it: the re-read     *)
(* after a lost race answers 409 when it fails, whoever won the race.      *)
ConflictIsForeign ==
  \A c \in Clients : cmd[c].outcome = "conflict" => cmd[c].foreign

(* What is left of it: every other conflict, from classifyUpdate at init   *)
(* or commit or from a re-read that was made, is foreign, whichever        *)
(* attempt is answered and however late the others land.                   *)
ConflictIsForeignButIfUnread ==
  \A c \in Clients :
    cmd[c].outcome = "conflict" => cmd[c].foreign \/ cmd[c].unread

(* What init asked to be uploaded is all that commit needs, though the     *)
(* manifest it was diffed with may have been replaced in between.          *)
UploadsSuffice == \A c \in Clients : cmd[c].outcome # "missing"

(* A command ends, whatever the server and the network do.                 *)
CommandsEnd == \A c \in Clients : cmd[c].pc # "idle" ~> cmd[c].pc = "idle"
=============================================================================
