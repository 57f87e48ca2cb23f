------------------------------ MODULE LocalState ------------------------------
(***************************************************************************)
(* The CLI's local state: state.json (the ledger, keyed by slug) and       *)
(* credentials (the Edit Tokens), two files with a lock each, under the    *)
(* commands publish, update, delete and remove.  Commands run at the same  *)
(* time, fail, and die anywhere; the server may expire a document.         *)
(*                                                                         *)
(* A step is one read of a file, one exchange with the server, the start   *)
(* of a locked read-modify-write (lock and read) or its end (rename and    *)
(* unlock).  Files are replaced by rename, so a reader sees a whole file   *)
(* and a crash leaves the old one; flock goes with its process.            *)
(*                                                                         *)
(* Abstractions: of a record only the manifest hash is kept, for has_token *)
(* is true in every record written (an update the server accepted had a    *)
(* token to show); a slug has one token; a file maps each slug to its      *)
(* entry or to Absent.                                                     *)
(***************************************************************************)
EXTENDS Sequences

CONSTANTS
  Slugs,      \* documents the CLI may publish
  Manifests,  \* manifest hashes
  Commands,   \* invocations of the CLI that may run at the same time
  Unminted,   \* the server has no document
  Gone,       \* the document is deleted or expired
  Absent,     \* no entry for the slug
  Token,      \* the entry of a slug's Edit Token
  NoParent,   \* the empty parent hash of --force, or of a missing record
  NoOne       \* nobody holds the lock

ASSUME ValuesAssumption ==
  /\ Unminted \notin Manifests /\ Gone \notin Manifests /\ Unminted # Gone
  /\ Absent \notin Manifests \cup {Token} /\ NoParent \notin Manifests
  /\ NoOne \notin Commands

VARIABLES
  server,   \* the manifest of each live document, Unminted or Gone
  files,    \* the two files
  holder,   \* who holds each file's lock
  cmd,      \* the commands in progress
  printed,  \* slugs whose publish has told its user
  loose     \* history: records that a prune missed or an update put back

vars == <<server, files, holder, cmd, printed, loose>>

File  == {"state", "credentials"}
Entry == Manifests \cup {Absent, Token}
Write == [file : File, entry : Entry]   \* a mutation of the slug's entry

Idle == [pc |-> "idle"]

(* A command in progress: what it read, what it still has to write, and    *)
(* the file as it read it under the lock.                                  *)
Running ==
  [pc     : {"token", "send", "mutate", "write"},
   verb   : {"publish", "update", "delete", "remove"},
   slug   : Slugs,
   m      : Manifests \cup {Absent},
   parent : Manifests \cup {NoParent},
   token  : BOOLEAN,
   todo   : Seq(Write),
   snap   : [Slugs -> Entry]]

NoSnap == [s \in Slugs |-> Absent]

TypeOK ==
  /\ server \in [Slugs -> Manifests \cup {Unminted, Gone}]
  /\ files \in [File -> [Slugs -> Entry]]
  /\ holder \in [File -> Commands \cup {NoOne}]
  /\ cmd \in [Commands -> Running \cup {Idle}]
  /\ \A c \in Commands :
       cmd[c].pc \in {"mutate", "write"} => cmd[c].todo # <<>>
  /\ printed \subseteq Slugs
  /\ loose \subseteq Slugs

Init ==
  /\ server = [s \in Slugs |-> Unminted]
  /\ files = [f \in File |-> NoSnap]
  /\ holder = [f \in File |-> NoOne]
  /\ cmd = [c \in Commands |-> Idle]
  /\ printed = {}
  /\ loose = {}

-----------------------------------------------------------------------------
(* Mutant: an update that leaves nothing to write.                         *)
EnteringNothing(entry) == <<>>

(* persistUpdate: the record, whatever the ledger holds by then.           *)
Entering(entry) == <<[file |-> "state", entry |-> entry]>>

(* Mutant: the record before the token.                                    *)
PersistPublishRecordFirst(m) ==
  <<[file |-> "state", entry |-> m],
    [file |-> "credentials", entry |-> Token]>>

(* persistPublish: the token before the record.                            *)
PersistPublish(m) ==
  <<[file |-> "credentials", entry |-> Token],
    [file |-> "state", entry |-> m]>>

(* pruneLocal: the record before the token.                                *)
PruneLocal ==
  <<[file |-> "state", entry |-> Absent],
    [file |-> "credentials", entry |-> Absent]>>

Starts(c, verb, s, m, parent, pc, todo) ==
  /\ cmd[c] = Idle
  /\ cmd' = [cmd EXCEPT ![c] =
               [pc |-> pc, verb |-> verb, slug |-> s, m |-> m,
                parent |-> parent, token |-> FALSE, todo |-> todo,
                snap |-> NoSnap]]

(* What a slug argument, a path or --slug can name.                        *)
Target(s) == files["state"][s] # Absent \/ s \in printed

-----------------------------------------------------------------------------
(* Run: the document is committed; then persistPublish.                    *)
Publish(c, s, m) ==
  /\ server[s] = Unminted
  /\ server' = [server EXCEPT ![s] = m]
  /\ Starts(c, "publish", s, m, NoParent, "mutate", PersistPublish(m))
  /\ UNCHANGED <<files, holder, printed, loose>>

(* runUpdate loads the ledger, and with it the parent it will name.        *)
Update(c, s, m, force) ==
  LET record == files["state"][s] IN
  /\ Target(s)
  /\ Starts(c, "update", s, m,
            IF force \/ record = Absent THEN NoParent ELSE record,
            "token", <<>>)
  /\ UNCHANGED <<server, files, holder, printed, loose>>

(* runDelete loads the ledger and asks for confirmation.                   *)
Delete(c, s) ==
  /\ Target(s)
  /\ Starts(c, "delete", s, Absent, NoParent, "token", <<>>)
  /\ UNCHANGED <<server, files, holder, printed, loose>>

(* runRemove forgets a tracked document without asking the server; --all   *)
(* is one after another of those it listed.                                *)
Remove(c, s) ==
  /\ files["state"][s] # Absent
  /\ Starts(c, "remove", s, Absent, NoParent, "mutate", PruneLocal)
  /\ UNCHANGED <<server, files, holder, printed, loose>>

LoadToken(c) ==
  /\ cmd[c].pc = "token"
  /\ cmd' = [cmd EXCEPT ![c].pc = "send",
               ![c].token = (files["credentials"][cmd[c].slug] = Token)]
  /\ UNCHANGED <<server, files, holder, printed, loose>>

(* After the server's answer the command goes on to write todo, or ends.   *)
Persists(c, todo) ==
  cmd' = [cmd EXCEPT ![c].pc = "mutate", ![c].todo = todo]
Ends(c) == cmd' = [cmd EXCEPT ![c] = Idle]

(* RunUpdate: 410 prunes; a missing token or a stale parent is an error    *)
(* that changes nothing; else the document is overwritten and persistUpdate*)
(* follows.                                                                *)
UpdateSends(c) ==
  LET s == cmd[c].slug IN
  /\ cmd[c].pc = "send" /\ cmd[c].verb = "update"
  /\ \/ /\ server[s] = Gone
        /\ Persists(c, PruneLocal)
        /\ UNCHANGED server
     \/ /\ server[s] # Gone
        /\ ~cmd[c].token \/ cmd[c].parent \notin {NoParent, server[s]}
        /\ Ends(c)
        /\ UNCHANGED server
     \/ /\ server[s] # Gone
        /\ cmd[c].token
        /\ cmd[c].parent \in {NoParent, server[s]} \/ cmd[c].m = server[s]
        /\ server' = [server EXCEPT ![s] = cmd[c].m]
        /\ Persists(c, Entering(cmd[c].m))
  /\ UNCHANGED <<files, holder, printed, loose>>

(* Mutant: an authentication error prunes as a 404 or 410 does.            *)
DeleteSendsPruningAnyway(c) ==
  /\ cmd[c].pc = "send" /\ cmd[c].verb = "delete"
  /\ \/ cmd[c].token /\ server' = [server EXCEPT ![cmd[c].slug] = Gone]
     \/ UNCHANGED server
  /\ Persists(c, PruneLocal)
  /\ UNCHANGED <<files, holder, printed, loose>>

(* DeleteDocument: the server asks for the token of a gone document too.   *)
DeleteSends(c) ==
  /\ cmd[c].pc = "send" /\ cmd[c].verb = "delete"
  /\ \/ /\ cmd[c].token
        /\ server' = [server EXCEPT ![cmd[c].slug] = Gone]
        /\ Persists(c, PruneLocal)
     \/ ~cmd[c].token /\ Ends(c) /\ UNCHANGED server
  /\ UNCHANGED <<files, holder, printed, loose>>

-----------------------------------------------------------------------------
Current(c) == Head(cmd[c].todo)

(* What is left to write once the current write is done with; a publish    *)
(* with nothing left tells its user, whether it could persist or not.      *)
Continues(c, todo) ==
  IF todo = <<>>
  THEN /\ Ends(c)
       /\ printed' = IF cmd[c].verb = "publish"
                     THEN printed \cup {cmd[c].slug} ELSE printed
  ELSE /\ cmd' = [cmd EXCEPT ![c].pc = "mutate", ![c].todo = todo,
                             ![c].snap = NoSnap]
       /\ UNCHANGED printed

(* Mutant: mutate reads the file without taking its lock.                  *)
MutateReadsUnlocked(c) ==
  /\ cmd[c].pc = "mutate"
  /\ cmd' = [cmd EXCEPT ![c].pc = "write",
                        ![c].snap = files[Current(c).file]]
  /\ UNCHANGED <<server, files, holder, printed, loose>>

(* mutate and mutateCredentials: lock and read.                            *)
MutateReads(c) ==
  /\ cmd[c].pc = "mutate"
  /\ holder[Current(c).file] = NoOne
  /\ holder' = [holder EXCEPT ![Current(c).file] = c]
  /\ cmd' = [cmd EXCEPT ![c].pc = "write",
                        ![c].snap = files[Current(c).file]]
  /\ UNCHANGED <<server, files, printed, loose>>

Unlocks(c) == holder' = [f \in File |-> IF holder[f] = c THEN NoOne ELSE holder[f]]

(* writeAtomic and unlock.                                                 *)
MutateWrites(c) ==
  LET f == Current(c).file
      s == cmd[c].slug
  IN
  /\ cmd[c].pc = "write"
  /\ files' = [files EXCEPT ![f] = [cmd[c].snap EXCEPT ![s] = Current(c).entry]]
  /\ loose' = IF f = "credentials" THEN loose
              ELSE IF cmd[c].verb = "update" /\ Current(c).entry # Absent
              THEN IF cmd[c].snap[s] = Absent THEN loose \cup {s} ELSE loose
              ELSE loose \ {s}
  /\ Unlocks(c)
  /\ Continues(c, Tail(cmd[c].todo))
  /\ UNCHANGED server

(* What a command does when a write fails: publish rolls its token back if *)
(* the record failed and gives up otherwise, pruneLocal goes on.           *)
AfterFailure(c) ==
  CASE cmd[c].verb = "publish" /\ Current(c).file = "state" ->
         <<[file |-> "credentials", entry |-> Absent]>>
    [] cmd[c].verb = "publish" /\ Current(c).file # "state" -> <<>>
    [] OTHER -> Tail(cmd[c].todo)

(* Mutant: the error path returns without unlocking.                       *)
MutateFailsHoldingLock(c) ==
  /\ cmd[c].pc \in {"mutate", "write"}
  /\ loose' = IF Current(c) = PruneLocal[1] THEN loose \cup {cmd[c].slug}
              ELSE loose
  /\ Continues(c, AfterFailure(c))
  /\ UNCHANGED <<server, files, holder>>

(* The lock, the read or the write fails.                                  *)
MutateFails(c) ==
  /\ cmd[c].pc \in {"mutate", "write"}
  /\ loose' = IF Current(c) = PruneLocal[1] THEN loose \cup {cmd[c].slug}
              ELSE loose
  /\ Unlocks(c)
  /\ Continues(c, AfterFailure(c))
  /\ UNCHANGED <<server, files>>

(* The command dies, or gives up on a server that does not answer.         *)
Dies(c) ==
  /\ cmd[c] # Idle
  /\ Ends(c)
  /\ Unlocks(c)
  /\ UNCHANGED <<server, files, printed, loose>>

(* The document expires, or is deleted from elsewhere.                     *)
ServerForgets(s) ==
  /\ server[s] \in Manifests
  /\ server' = [server EXCEPT ![s] = Gone]
  /\ UNCHANGED <<files, holder, cmd, printed, loose>>

Begins(c) ==
  \E s \in Slugs :
    \/ Delete(c, s) \/ Remove(c, s)
    \/ \E m \in Manifests :
         Publish(c, s, m) \/ \E force \in BOOLEAN : Update(c, s, m, force)

Proceeds(c) ==
  \/ LoadToken(c) \/ UpdateSends(c) \/ DeleteSends(c)
  \/ MutateReads(c) \/ MutateWrites(c) \/ MutateFails(c)

Next ==
  \/ \E c \in Commands : Begins(c) \/ Proceeds(c) \/ Dies(c)
  \/ \E s \in Slugs : ServerForgets(s)

Spec == Init /\ [][Next]_vars

-----------------------------------------------------------------------------
HasToken(s) == files["credentials"][s] = Token

(* A record without its token arises in two ways only, whatever commands   *)
(* interleave, fail or die: a prune that failed to write the ledger and    *)
(* went on to the token, or an update that puts a pruned record back.      *)
RecordHasTokenButIfLoose ==
  \A s \in Slugs :
    files["state"][s] # Absent => HasToken(s) \/ s \in loose

(* A token is thrown away only when its document is gone, by remove, or by *)
(* a publish that could not record it: no error of the server, no racing   *)
(* command and no crash costs the owner the only copy.                     *)
TokenOutlivesDocument ==
  [][\A s \in Slugs :
       (HasToken(s) /\ ~HasToken(s)') =>
         \/ server[s] = Gone
         \/ \E c \in Commands :
              cmd[c].pc = "write" /\ cmd[c].slug = s
                /\ cmd[c].verb \in {"remove", "publish"}]_vars

(* Commands do not lose each other's entries: a command's write changes    *)
(* the entry of its own slug and no other, though each rewrites the file.  *)
WritesSpareOthers ==
  [][\A f \in File, s \in Slugs :
       files'[f][s] # files[f][s] =>
         \E c \in Commands : cmd[c].pc = "write" /\ cmd[c].slug = s]_vars

(* A lock is held only by a command between its read and its write, which  *)
(* takes no other lock and waits for nothing: no command waits for ever on *)
(* a lock that another left behind, on an error path or by dying.          *)
LocksHeldWhileWriting ==
  \A f \in File, c \in Commands :
    holder[f] = c <=> cmd[c].pc = "write" /\ Current(c).file = f

(* What persistPublish says of a record, and the other commands break: one *)
(* with has_token set never exists without its token.                      *)
RecordHasToken ==
  \A s \in Slugs : files["state"][s] # Absent => HasToken(s)
=============================================================================
