-------------------------- MODULE LocalStateProofs ---------------------------
(***************************************************************************)
(* Proofs about LocalState, for any number of commands and documents: what *)
(* the two files say of each other and of the server, and the locks.       *)
(*                                                                         *)
(* No property of the files is inductive by itself: a command that writes  *)
(* relies on what it found or did earlier.  Good says what that is, and    *)
(* Apart that a document being published has one command only, for nothing *)
(* names it yet (Fresh).                                                   *)
(***************************************************************************)
EXTENDS LocalState, TLAPS

TokenLeft == <<[file |-> "credentials", entry |-> Absent]>>

Working(c) == cmd[c].pc \in {"mutate", "write"}

Record(s) == files["state"][s]

(* A publish writes the token, then the record, or takes the token back.   *)
Publishing(c) ==
  /\ Working(c) /\ cmd[c].verb = "publish"
  /\ cmd[c].todo \in {PersistPublish(cmd[c].m), Entering(cmd[c].m), TokenLeft}
  /\ cmd[c].todo = Entering(cmd[c].m) => HasToken(cmd[c].slug)
  /\ cmd[c].slug \notin printed /\ Record(cmd[c].slug) = Absent

(* A prune is for a gone document or by remove, and comes to the token     *)
(* when it has done with the record.                                       *)
Pruning(c) ==
  /\ Working(c) /\ cmd[c].verb # "publish"
  /\ cmd[c].verb = "remove" \/ server[cmd[c].slug] = Gone
  /\ \/ cmd[c].todo = PruneLocal
     \/ /\ cmd[c].todo = TokenLeft
        /\ Record(cmd[c].slug) = Absent \/ cmd[c].slug \in loose

Good(c) ==
  cmd[c] # Idle =>
    /\ server[cmd[c].slug] # Unminted
    /\ cmd[c].verb \in {"publish", "update"} => cmd[c].m \in Manifests
    /\ \/ cmd[c].pc \in {"token", "send"} /\ cmd[c].verb \in {"update", "delete"}
       \/ Publishing(c)
       \/ Pruning(c)
       \/ Working(c) /\ cmd[c].verb = "update" /\ cmd[c].todo = Entering(cmd[c].m)
    /\ cmd[c].pc = "write" => cmd[c].snap = files[Current(c).file]

Apart ==
  \A c, d \in Commands :
    c # d /\ cmd[c] # Idle /\ cmd[d] # Idle /\ cmd[c].slug = cmd[d].slug =>
      cmd[c].verb # "publish"

Fresh ==
  \A s \in Slugs : server[s] = Unminted =>
    /\ s \notin printed /\ Record(s) = Absent
    /\ \A c \in Commands : cmd[c] # Idle => cmd[c].slug # s

IInv ==
  /\ TypeOK
  /\ \A c \in Commands : Good(c)
  /\ Apart
  /\ Fresh
  /\ \A s \in Slugs : Record(s) \in Manifests \cup {Absent}
  /\ LocksHeldWhileWriting
  /\ RecordHasTokenButIfLoose

-----------------------------------------------------------------------------
(* What a command has to write, and what is left once it is written.       *)
LEMMA Todos ==
  ASSUME NEW m
  PROVE  /\ Head(PersistPublish(m)) = [file |-> "credentials", entry |-> Token]
         /\ Tail(PersistPublish(m)) = Entering(m)
         /\ Head(PruneLocal) = [file |-> "state", entry |-> Absent]
         /\ PruneLocal[1] = [file |-> "state", entry |-> Absent]
         /\ Tail(PruneLocal) = TokenLeft
         /\ Head(Entering(m)) = [file |-> "state", entry |-> m]
         /\ Tail(Entering(m)) = <<>>
         /\ Head(TokenLeft) = [file |-> "credentials", entry |-> Absent]
         /\ Tail(TokenLeft) = <<>>
BY DEF PersistPublish, Entering, PruneLocal, TokenLeft

LEMMA TodoTypes ==
  ASSUME NEW m \in Manifests
  PROVE  /\ {PersistPublish(m), Entering(m), TokenLeft, PruneLocal} \subseteq Seq(Write)
         /\ <<>> \in Seq(Write)
         /\ <<>> \notin {PersistPublish(m), Entering(m), TokenLeft, PruneLocal}
BY DEF PersistPublish, Entering, PruneLocal, TokenLeft, Write, File, Entry

(* A command that is running has the fields of one.                        *)
LEMMA Runs ==
  ASSUME TypeOK, NEW c \in Commands
  PROVE  /\ cmd[c] # Idle <=> cmd[c].pc # "idle"
         /\ cmd[c] # Idle => cmd[c] \in Running
BY DEF TypeOK, Running, Idle

-----------------------------------------------------------------------------
(* A step of one command that leaves the files and the history alone.      *)
LEMMA OnlyMine ==
  ASSUME IInv, TypeOK', NEW c \in Commands,
         UNCHANGED <<files, printed, loose>>,
         \A d \in Commands \ {c} : cmd'[d] = cmd[d],
         \A s \in Slugs : /\ server[s] = Gone => server'[s] = Gone
                          /\ server'[s] = Unminted => server[s] = Unminted,
         cmd'[c] # Idle =>
           /\ server'[cmd'[c].slug] # Unminted
           /\ \/ cmd[c] # Idle /\ cmd'[c].slug = cmd[c].slug /\ cmd'[c].verb = cmd[c].verb
              \/ \A d \in Commands : cmd[d] # Idle /\ cmd[d].slug = cmd'[c].slug =>
                   cmd[d].verb # "publish" /\ cmd'[c].verb # "publish",
         Good(c)', LocksHeldWhileWriting'
  PROVE  IInv'
<1>1. ASSUME NEW d \in Commands PROVE Good(d)'
  <2>1. CASE d = c
    BY <2>1
  <2>2. CASE d # c
    <3>1. cmd'[d] = cmd[d] /\ Good(d)
      BY <2>2 DEF IInv
    <3>2. cmd[d] # Idle => cmd[d] \in Running
      BY Runs DEF IInv
    <3> QED BY <3>1, <3>2 DEF Good, Publishing, Pruning, Working, Record, HasToken, Current, Running
  <2> QED BY <2>1, <2>2
<1>2. Apart'
  BY DEF IInv, Apart
<1>3. ASSUME NEW s \in Slugs, server'[s] = Unminted
      PROVE  /\ s \notin printed' /\ Record(s)' = Absent
             /\ \A d \in Commands : cmd'[d] # Idle => cmd'[d].slug # s
  <2>1. server[s] = Unminted
    BY <1>3
  <2>2. s \notin printed /\ Record(s) = Absent
        /\ \A d \in Commands : cmd[d] # Idle => cmd[d].slug # s
    BY <2>1 DEF IInv, Fresh
  <2> QED BY <1>3, <2>2 DEF Record
<1>4. RecordHasTokenButIfLoose'
  BY DEF IInv, RecordHasTokenButIfLoose, HasToken
<1>5. \A s \in Slugs : Record(s)' \in Manifests \cup {Absent}
  BY DEF IInv, Record
<1> QED BY <1>1, <1>2, <1>3, <1>4, <1>5 DEF IInv, Fresh
-----------------------------------------------------------------------------
LEMMA BeginsKeeps ==
  ASSUME IInv, NEW c \in Commands, Begins(c)
  PROVE  IInv'
<1> DEFINE Begun(s) ==
      /\ cmd[c] = Idle
      /\ cmd' = [cmd EXCEPT ![c] = cmd'[c]]
      /\ cmd'[c] \in Running /\ cmd'[c].slug = s
      /\ UNCHANGED <<files, holder, printed, loose>>
<1>0. /\ cmd \in [Commands -> Running \cup {Idle}] /\ NoSnap \in [Slugs -> Entry]
      /\ files \in [File -> [Slugs -> Entry]]
      /\ PruneLocal \in Seq(Write) /\ <<>> \in Seq(Write) /\ PruneLocal # <<>>
      /\ \A m \in Manifests : PersistPublish(m) \in Seq(Write) /\ PersistPublish(m) # <<>>
  <2>1. PruneLocal \in Seq(Write) /\ <<>> \in Seq(Write) /\ PruneLocal # <<>>
    BY DEF PruneLocal, Write, File, Entry
  <2> QED BY <2>1, TodoTypes DEF IInv, TypeOK, NoSnap, Entry
<1>1. ASSUME NEW s \in Slugs, Begun(s), UNCHANGED server,
             server[s] # Unminted, \A d \in Commands : cmd[d] # Idle /\ cmd[d].slug = s =>
                                      cmd[d].verb # "publish",
             cmd'[c].verb # "publish", cmd'[c].pc \in {"token", "mutate"},
             cmd'[c].pc = "mutate" => cmd'[c].todo # <<>>, Good(c)'
      PROVE  IInv'
  <2>1. TypeOK'
    BY <1>1 DEF IInv, TypeOK
  <2>2. cmd[c].pc # "write" /\ cmd'[c].pc # "write"
        /\ \A d \in Commands \ {c} : cmd'[d] = cmd[d]
    BY <1>0, <1>1 DEF Idle
  <2>3. LocksHeldWhileWriting'
    BY <1>1, <2>2 DEF IInv, LocksHeldWhileWriting, Current
  <2> QED BY <1>1, <2>1, <2>2, <2>3, OnlyMine
<1>2. ASSUME NEW s \in Slugs, Target(s)
      PROVE  /\ server[s] # Unminted
             /\ \A d \in Commands : cmd[d] # Idle /\ cmd[d].slug = s =>
                  cmd[d].verb # "publish"
  <2>1. server[s] # Unminted
    BY <1>2 DEF IInv, Fresh, Target, Record
  <2>2. ASSUME NEW d \in Commands, cmd[d] # Idle, cmd[d].slug = s
        PROVE  cmd[d].verb # "publish"
    <3>1. Good(d) /\ cmd[d] \in Running
      BY <2>2, Runs DEF IInv
    <3>2. cmd[d].verb = "publish" => Publishing(d)
      BY <2>2, <3>1 DEF Good, Pruning, Running
    <3> QED BY <1>2, <2>2, <3>2 DEF Publishing, Target, Record
  <2> QED BY <2>1, <2>2
<1>3. ASSUME NEW s \in Slugs, NEW m \in Manifests, Publish(c, s, m)
      PROVE  IInv'
  <2>1. Begun(s) /\ server[s] = Unminted /\ server' = [server EXCEPT ![s] = m]
        /\ cmd'[c].verb = "publish" /\ cmd'[c].pc = "mutate" /\ cmd'[c].m = m
        /\ cmd'[c].todo = PersistPublish(m)
    BY <1>0, <1>3 DEF Publish, Starts, Running
  <2>2. TypeOK'
    BY <1>0, <2>1 DEF IInv, TypeOK
  <2>3. cmd[c].pc # "write" /\ cmd'[c].pc # "write"
        /\ \A d \in Commands \ {c} : cmd'[d] = cmd[d]
    BY <1>0, <2>1 DEF Idle
  <2>4. LocksHeldWhileWriting'
    BY <2>1, <2>3 DEF IInv, LocksHeldWhileWriting, Current
  <2>5. s \notin printed /\ Record(s) = Absent
        /\ \A d \in Commands : cmd[d] # Idle => cmd[d].slug # s
    BY <2>1 DEF IInv, Fresh
  <2>6. PersistPublish(m) # Entering(m)
    BY DEF PersistPublish, Entering
  <2>7. server'[s] # Unminted
    BY <2>1, ValuesAssumption DEF IInv, TypeOK
  <2>8. Good(c)'
    BY <2>1, <2>5, <2>6, <2>7 DEF Good, Publishing, Working, Record
  <2>9. \A t \in Slugs : /\ server[t] = Gone => server'[t] = Gone
                         /\ server'[t] = Unminted => server[t] = Unminted
    BY <2>1, ValuesAssumption DEF IInv, TypeOK
  <2>10. /\ cmd'[c].slug = s /\ UNCHANGED <<files, printed, loose>>
         /\ server'[cmd'[c].slug] # Unminted
         /\ \A d \in Commands : cmd[d] # Idle /\ cmd[d].slug = cmd'[c].slug =>
              cmd[d].verb # "publish" /\ cmd'[c].verb # "publish"
    BY <2>1, <2>5, <2>7
  <2> QED BY <2>2, <2>3, <2>4, <2>8, <2>9, <2>10, OnlyMine
<1>4. ASSUME NEW s \in Slugs, NEW m \in Manifests, NEW force \in BOOLEAN,
             Update(c, s, m, force)
      PROVE  IInv'
  <2>1. (IF force \/ Record(s) = Absent THEN NoParent ELSE Record(s))
          \in Manifests \cup {NoParent}
    BY DEF IInv
  <2>2. Begun(s) /\ UNCHANGED server /\ Target(s)
        /\ cmd'[c].verb = "update" /\ cmd'[c].pc = "token" /\ cmd'[c].m = m
    BY <1>0, <1>4, <2>1 DEF Update, Starts, Running, Record
  <2>3. server[s] # Unminted
        /\ \A d \in Commands : cmd[d] # Idle /\ cmd[d].slug = s => cmd[d].verb # "publish"
    BY <1>2, <2>2
  <2>4. Good(c)'
    BY <2>2, <2>3 DEF Good
  <2> QED BY <1>1, <2>2, <2>3, <2>4
<1>5. ASSUME NEW s \in Slugs, Delete(c, s)
      PROVE  IInv'
  <2>1. Begun(s) /\ UNCHANGED server /\ Target(s)
        /\ cmd'[c].verb = "delete" /\ cmd'[c].pc = "token"
    BY <1>0, <1>5 DEF Delete, Starts, Running
  <2>2. server[s] # Unminted
        /\ \A d \in Commands : cmd[d] # Idle /\ cmd[d].slug = s => cmd[d].verb # "publish"
    BY <1>2, <2>1
  <2>3. Good(c)'
    BY <2>1, <2>2 DEF Good
  <2> QED BY <1>1, <2>1, <2>2, <2>3
<1>6. ASSUME NEW s \in Slugs, Remove(c, s)
      PROVE  IInv'
  <2>1. Begun(s) /\ UNCHANGED server /\ Target(s)
        /\ cmd'[c].verb = "remove" /\ cmd'[c].pc = "mutate" /\ cmd'[c].todo = PruneLocal
    BY <1>0, <1>6 DEF Remove, Starts, Running, Target
  <2>2. server[s] # Unminted
        /\ \A d \in Commands : cmd[d] # Idle /\ cmd[d].slug = s => cmd[d].verb # "publish"
    BY <1>2, <2>1
  <2>3. Good(c)'
    BY <2>1, <2>2 DEF Good, Pruning, Working
  <2> QED BY <1>0, <1>1, <2>1, <2>2, <2>3
<1> QED BY <1>3, <1>4, <1>5, <1>6 DEF Begins
-----------------------------------------------------------------------------
(* A step of a running command that takes no lock and changes no file.     *)
LEMMA Goes ==
  ASSUME IInv, NEW c \in Commands, cmd[c] # Idle, NEW r,
         cmd' = [cmd EXCEPT ![c] = r],
         \/ r = Idle
         \/ /\ r \in Running /\ r.slug = cmd[c].slug /\ r.verb = cmd[c].verb
            /\ r.pc # "write" /\ (r.pc = "mutate" => r.todo # <<>>),
         server' \in [Slugs -> Manifests \cup {Unminted, Gone}],
         \A s \in Slugs : /\ server[s] = Gone => server'[s] = Gone
                          /\ server'[s] = Unminted => server[s] = Unminted,
         holder' = [f \in File |-> IF holder[f] = c THEN NoOne ELSE holder[f]],
         UNCHANGED <<files, printed, loose>>,
         Good(c)'
  PROVE  IInv'
<1>1. /\ cmd \in [Commands -> Running \cup {Idle}] /\ holder \in [File -> Commands \cup {NoOne}]
      /\ cmd[c] \in Running
  BY Runs DEF IInv, TypeOK
<1>2. cmd'[c] = r /\ \A d \in Commands \ {c} : cmd'[d] = cmd[d]
  BY <1>1
<1>3. r.pc # "write" /\ (r.pc = "mutate" => r.todo # <<>>)
  BY DEF Idle
<1>4. TypeOK'
  BY <1>1, <1>2, <1>3 DEF IInv, TypeOK
<1>5. \A f \in File, d \in Commands : holder'[f] = d <=> holder[f] = d /\ d # c
  BY <1>1, ValuesAssumption
<1>6. LocksHeldWhileWriting'
  BY <1>2, <1>3, <1>5 DEF IInv, LocksHeldWhileWriting, Current
<1>7. cmd'[c] # Idle =>
        /\ server'[cmd'[c].slug] # Unminted
        /\ cmd'[c].slug = cmd[c].slug /\ cmd'[c].verb = cmd[c].verb
  BY <1>1, <1>2 DEF IInv, Good, Running
<1> QED BY <1>2, <1>4, <1>6, <1>7, OnlyMine

LEMMA HoldsNothing ==
  ASSUME IInv, NEW c \in Commands, cmd[c].pc # "write", UNCHANGED holder
  PROVE  holder' = [f \in File |-> IF holder[f] = c THEN NoOne ELSE holder[f]]
BY DEF IInv, TypeOK, LocksHeldWhileWriting

LEMMA LoadTokenKeeps ==
  ASSUME IInv, NEW c \in Commands, LoadToken(c)
  PROVE  IInv'
<1>1. cmd[c] # Idle /\ cmd[c] \in Running /\ cmd \in [Commands -> Running \cup {Idle}]
  BY Runs DEF IInv, TypeOK, LoadToken, Idle
<1>2. cmd' = [cmd EXCEPT ![c] = cmd'[c]] /\ cmd'[c] \in Running /\ cmd'[c].pc = "send"
      /\ \A f \in {"slug", "verb", "m"} : cmd'[c][f] = cmd[c][f]
  BY <1>1 DEF LoadToken, Running
<1>3. cmd[c].verb \in {"update", "delete"} /\ server[cmd[c].slug] # Unminted
      /\ (cmd[c].verb \in {"publish", "update"} => cmd[c].m \in Manifests)
  BY <1>1 DEF IInv, Good, Publishing, Pruning, Working, LoadToken
<1>4. Good(c)'
  BY <1>2, <1>3 DEF Good, LoadToken
<1>5. cmd[c].pc # "write" /\ UNCHANGED <<server, files, holder, printed, loose>>
  BY DEF LoadToken
<1>6. server' \in [Slugs -> Manifests \cup {Unminted, Gone}]
  BY <1>5 DEF IInv, TypeOK
<1> QED BY <1>1, <1>2, <1>4, <1>5, <1>6, HoldsNothing, Goes

LEMMA UpdateSendsKeeps ==
  ASSUME IInv, NEW c \in Commands, UpdateSends(c)
  PROVE  IInv'
<1>1. /\ cmd[c] # Idle /\ cmd[c] \in Running /\ cmd \in [Commands -> Running \cup {Idle}]
      /\ server \in [Slugs -> Manifests \cup {Unminted, Gone}]
  BY Runs DEF IInv, TypeOK, UpdateSends, Idle
<1>2. /\ cmd[c].verb = "update" /\ cmd[c].pc # "write"
      /\ UNCHANGED <<files, holder, printed, loose>>
      /\ cmd[c].m \in Manifests /\ server[cmd[c].slug] # Unminted
  BY <1>1 DEF IInv, Good, UpdateSends
<1>3. CASE Ends(c) /\ UNCHANGED server
  <2>1. Good(c)'
    BY <1>1, <1>3 DEF Good, Ends
  <2> QED BY <1>1, <1>2, <1>3, <2>1, HoldsNothing, Goes DEF Ends
<1>4. ASSUME NEW todo, Persists(c, todo),
             \/ /\ todo = PruneLocal /\ server[cmd[c].slug] = Gone /\ UNCHANGED server
             \/ /\ todo = Entering(cmd[c].m) /\ server[cmd[c].slug] # Gone
                /\ server' = [server EXCEPT ![cmd[c].slug] = cmd[c].m]
      PROVE  IInv'
  <2>1. todo \in Seq(Write) /\ todo # <<>>
    BY <1>2, <1>4, TodoTypes
  <2>2. /\ cmd' = [cmd EXCEPT ![c] = cmd'[c]] /\ cmd'[c] \in Running
        /\ cmd'[c].pc = "mutate" /\ cmd'[c].todo = todo
        /\ \A f \in {"slug", "verb", "m"} : cmd'[c][f] = cmd[c][f]
    BY <1>1, <1>4, <2>1 DEF Persists, Running
  <2>3. /\ server' \in [Slugs -> Manifests \cup {Unminted, Gone}]
        /\ server'[cmd[c].slug] # Unminted
        /\ \A s \in Slugs : /\ server[s] = Gone => server'[s] = Gone
                            /\ server'[s] = Unminted => server[s] = Unminted
    BY <1>1, <1>2, <1>4, ValuesAssumption DEF Running
  <2>4. Good(c)'
    BY <1>2, <1>4, <2>2, <2>3 DEF Good, Pruning, Working
  <2>5. holder' = [f \in File |-> IF holder[f] = c THEN NoOne ELSE holder[f]]
    BY <1>2, HoldsNothing
  <2>6. cmd'[c].slug = cmd[c].slug /\ cmd'[c].verb = cmd[c].verb
    BY <2>2
  <2> QED BY <1>1, <1>2, <2>1, <2>2, <2>3, <2>4, <2>5, <2>6, Goes
<1> QED BY <1>3, <1>4 DEF UpdateSends

LEMMA DeleteSendsKeeps ==
  ASSUME IInv, NEW c \in Commands, DeleteSends(c)
  PROVE  IInv'
<1>1. /\ cmd[c] # Idle /\ cmd[c] \in Running /\ cmd \in [Commands -> Running \cup {Idle}]
      /\ server \in [Slugs -> Manifests \cup {Unminted, Gone}]
  BY Runs DEF IInv, TypeOK, DeleteSends, Idle
<1>2. /\ cmd[c].verb = "delete" /\ cmd[c].pc # "write"
      /\ UNCHANGED <<files, holder, printed, loose>>
      /\ server[cmd[c].slug] # Unminted
  BY <1>1 DEF IInv, Good, DeleteSends
<1>3. CASE Ends(c) /\ UNCHANGED server
  <2>1. Good(c)'
    BY <1>1, <1>3 DEF Good, Ends
  <2> QED BY <1>1, <1>2, <1>3, <2>1, HoldsNothing, Goes DEF Ends
<1>4. CASE server' = [server EXCEPT ![cmd[c].slug] = Gone] /\ Persists(c, PruneLocal)
  <2>1. PruneLocal \in Seq(Write) /\ PruneLocal # <<>>
    BY DEF PruneLocal, Write, File, Entry
  <2>2. /\ cmd' = [cmd EXCEPT ![c] = cmd'[c]] /\ cmd'[c] \in Running
        /\ cmd'[c].pc = "mutate" /\ cmd'[c].todo = PruneLocal
        /\ cmd'[c].slug = cmd[c].slug /\ cmd'[c].verb = cmd[c].verb
    BY <1>1, <1>4, <2>1 DEF Persists, Running
  <2>3. /\ server' \in [Slugs -> Manifests \cup {Unminted, Gone}]
        /\ server'[cmd[c].slug] = Gone
        /\ \A s \in Slugs : /\ server[s] = Gone => server'[s] = Gone
                            /\ server'[s] = Unminted => server[s] = Unminted
    BY <1>1, <1>4, ValuesAssumption DEF Running
  <2>4. Good(c)'
    BY <1>2, <2>2, <2>3, ValuesAssumption DEF Good, Pruning, Working
  <2>5. holder' = [f \in File |-> IF holder[f] = c THEN NoOne ELSE holder[f]]
    BY <1>2, HoldsNothing
  <2> QED BY <1>1, <1>2, <2>1, <2>2, <2>3, <2>4, <2>5, Goes
<1> QED BY <1>3, <1>4 DEF DeleteSends

LEMMA DiesKeeps ==
  ASSUME IInv, NEW c \in Commands, Dies(c)
  PROVE  IInv'
<1>1. cmd \in [Commands -> Running \cup {Idle}]
      /\ server \in [Slugs -> Manifests \cup {Unminted, Gone}]
  BY DEF IInv, TypeOK
<1>2. Good(c)'
  BY <1>1 DEF Good, Dies, Ends
<1> QED BY <1>1, <1>2, Goes DEF Dies, Ends, Unlocks
-----------------------------------------------------------------------------
LEMMA MutateReadsKeeps ==
  ASSUME IInv, NEW c \in Commands, MutateReads(c)
  PROVE  IInv'
<1>1. /\ cmd[c] # Idle /\ cmd[c] \in Running /\ cmd \in [Commands -> Running \cup {Idle}]
      /\ cmd[c].todo # <<>> /\ cmd[c].todo \in Seq(Write)
      /\ files \in [File -> [Slugs -> Entry]] /\ holder \in [File -> Commands \cup {NoOne}]
  BY Runs DEF IInv, TypeOK, MutateReads, Idle, Running
<1>2. Current(c).file \in File /\ files[Current(c).file] \in [Slugs -> Entry]
  <2>1. Head(cmd[c].todo) \in Write
    BY <1>1
  <2> QED BY <1>1, <2>1 DEF Current, Write
<1>3. /\ cmd'[c] \in Running /\ cmd'[c].pc = "write"
      /\ cmd'[c].snap = files[Current(c).file]
      /\ \A x \in {"slug", "verb", "m", "todo"} : cmd'[c][x] = cmd[c][x]
      /\ \A d \in Commands \ {c} : cmd'[d] = cmd[d]
      /\ cmd' \in [Commands -> Running \cup {Idle}]
  BY <1>1, <1>2 DEF MutateReads, Running
<1>4. /\ holder[Current(c).file] = NoOne /\ cmd[c].pc = "mutate"
      /\ holder' = [holder EXCEPT ![Current(c).file] = c]
      /\ UNCHANGED <<server, files, printed, loose>>
  BY DEF MutateReads
<1>5. TypeOK'
  BY <1>1, <1>3, <1>4 DEF IInv, TypeOK
<1>6. Current(c)' = Current(c)
  BY <1>3 DEF Current
<1>7. LocksHeldWhileWriting'
  <2>1. ASSUME NEW f \in File, NEW d \in Commands
        PROVE  holder'[f] = d <=> cmd'[d].pc = "write" /\ Current(d)'.file = f
    <3>1. holder[f] = d <=> cmd[d].pc = "write" /\ Current(d).file = f
      BY DEF IInv, LocksHeldWhileWriting
    <3>2. CASE d = c
      BY <1>1, <1>2, <1>3, <1>4, <1>6, <3>1, <3>2
    <3>3. CASE d # c
      <4>1. cmd'[d] = cmd[d] /\ Current(d)' = Current(d)
        BY <1>3, <3>3 DEF Current
      <4>2. f = Current(c).file => holder[f] # d
        BY <1>4, ValuesAssumption
      <4> QED BY <1>1, <1>4, <3>1, <3>3, <4>1, <4>2
    <3> QED BY <3>2, <3>3
  <2> QED BY <2>1 DEF LocksHeldWhileWriting
<1>8. Good(c)
  BY DEF IInv
<1>9. Good(c)'
  BY <1>1, <1>3, <1>4, <1>6, <1>8
  DEF Good, Publishing, Pruning, Working, Record, HasToken, MutateReads
<1>10. server'[cmd'[c].slug] # Unminted /\ cmd'[c].slug = cmd[c].slug
       /\ cmd'[c].verb = cmd[c].verb
  BY <1>1, <1>3, <1>4, <1>8 DEF Good
<1> QED BY <1>1, <1>3, <1>4, <1>5, <1>7, <1>9, <1>10, OnlyMine

LEMMA ServerForgetsKeeps ==
  ASSUME IInv, NEW s \in Slugs, ServerForgets(s)
  PROVE  IInv'
<1>1. /\ server \in [Slugs -> Manifests \cup {Unminted, Gone}]
      /\ server[s] \in Manifests /\ server' = [server EXCEPT ![s] = Gone]
      /\ UNCHANGED <<files, holder, cmd, printed, loose>>
  BY DEF IInv, TypeOK, ServerForgets
<1>2. TypeOK'
  BY <1>1 DEF IInv, TypeOK
<1>3. \A t \in Slugs : /\ server[t] = Gone => server'[t] = Gone
                      /\ server'[t] = Unminted => server[t] = Unminted
  BY <1>1, ValuesAssumption
<1>4. ASSUME NEW c \in Commands PROVE Good(c)'
  <2>1. Good(c) /\ (cmd[c] # Idle => cmd[c].slug \in Slugs)
    BY Runs DEF IInv, Running
  <2> QED BY <1>1, <1>3, <2>1 DEF Good, Publishing, Pruning, Working, Record, HasToken, Current
<1>5. Fresh'
  BY <1>1, <1>3 DEF IInv, Fresh, Record
<1> QED BY <1>1, <1>2, <1>4, <1>5
        DEF IInv, Apart, LocksHeldWhileWriting, RecordHasTokenButIfLoose, Record, HasToken, Current

-----------------------------------------------------------------------------
(* A command is done with a write, one way or the other, and goes on to    *)
(* todo.  What it may do to its own slug's entries, to loose and with what *)
(* is left is all that the invariant asks; other slugs it does not touch.  *)
LEMMA MovesOn ==
  ASSUME IInv, NEW c \in Commands, Working(c), NEW s \in Slugs, s = cmd[c].slug,
         NEW todo, Continues(c, todo), Unlocks(c), UNCHANGED server,
         files' \in [File -> [Slugs -> Entry]],
         loose' \subseteq Slugs,
         \A f \in File :
           files'[f] = files[f] \/ (cmd[c].pc = "write" /\ Current(c).file = f),
         \A t \in Slugs \ {s} :
           /\ \A f \in File : files'[f][t] = files[f][t]
           /\ t \in loose' <=> t \in loose,
         Record(s)' \in Manifests \cup {Absent},
         Record(s)' # Absent => HasToken(s)' \/ s \in loose',
         cmd[c].verb # "publish" =>
           (Record(s) = Absent \/ s \in loose => Record(s)' = Absent \/ s \in loose'),
         \/ todo = <<>>
         \/ /\ cmd[c].verb = "publish"
            /\ Record(s)' = Absent
            /\ todo = TokenLeft \/ (todo = Entering(cmd[c].m) /\ HasToken(s)')
         \/ /\ cmd[c].verb # "publish"
            /\ cmd[c].verb = "remove" \/ server[s] = Gone
            /\ todo = TokenLeft /\ (Record(s)' = Absent \/ s \in loose')
  PROVE  IInv'
<1>1. /\ cmd[c] # Idle /\ cmd[c] \in Running /\ cmd \in [Commands -> Running \cup {Idle}]
      /\ holder \in [File -> Commands \cup {NoOne}] /\ printed \subseteq Slugs
      /\ NoSnap \in [Slugs -> Entry]
  BY Runs DEF IInv, TypeOK, Working, Idle, NoSnap, Entry
<1>2. /\ server[s] # Unminted
      /\ cmd[c].verb \in {"publish", "update"} => cmd[c].m \in Manifests
      /\ cmd[c].verb = "publish" => s \notin printed
  BY <1>1 DEF IInv, Good, Publishing, Pruning, Working
<1>3. todo \in Seq(Write)
  <2>1. TokenLeft \in Seq(Write) /\ <<>> \in Seq(Write)
    BY DEF TokenLeft, Write, File, Entry
  <2>2. cmd[c].verb = "publish" => Entering(cmd[c].m) \in Seq(Write)
    BY <1>2, TodoTypes
  <2> QED BY <2>1, <2>2
<1>4. /\ cmd' \in [Commands -> Running \cup {Idle}]
      /\ \A d \in Commands \ {c} : cmd'[d] = cmd[d]
      /\ \/ todo = <<>> /\ cmd'[c] = Idle
         \/ /\ todo # <<>> /\ cmd'[c] \in Running
            /\ cmd'[c].pc = "mutate" /\ cmd'[c].todo = todo
            /\ \A x \in {"slug", "verb", "m"} : cmd'[c][x] = cmd[c][x]
            /\ UNCHANGED printed
  <2>1. CASE todo = <<>>
    BY <1>1, <2>1 DEF Continues, Ends
  <2>2. CASE todo # <<>>
    <3>1. /\ cmd' = [cmd EXCEPT ![c].pc = "mutate", ![c].todo = todo, ![c].snap = NoSnap]
          /\ UNCHANGED printed
      BY <2>2 DEF Continues
    <3>2. cmd'[c] = [cmd[c] EXCEPT !.pc = "mutate", !.todo = todo, !.snap = NoSnap]
      BY <1>1, <3>1
    <3>3. /\ cmd'[c] \in Running /\ cmd'[c].pc = "mutate" /\ cmd'[c].todo = todo
          /\ \A x \in {"slug", "verb", "m"} : cmd'[c][x] = cmd[c][x]
      <4> DEFINE r == cmd[c]
      <4> DEFINE q == cmd'[c]
      <4>1. q = [r EXCEPT !.pc = "mutate", !.todo = todo, !.snap = NoSnap] /\ r \in Running
        BY <1>1, <3>2
      <4>2. NoSnap \in [Slugs -> Entry] /\ todo \in Seq(Write)
        BY <1>1, <1>3
      <4> HIDE DEF r, q
      <4>3. q \in Running
        BY <4>1, <4>2 DEF Running
      <4>4. q.pc = "mutate" /\ q.todo = todo /\ q.slug = r.slug /\ q.verb = r.verb /\ q.m = r.m
        BY <4>1 DEF Running
      <4> QED BY <4>3, <4>4 DEF r, q
    <3>4. /\ cmd' \in [Commands -> Running \cup {Idle}]
          /\ \A d \in Commands \ {c} : cmd'[d] = cmd[d]
      <4>1. cmd' = [cmd EXCEPT ![c] = cmd'[c]]
        BY <1>1, <3>1
      <4> QED BY <1>1, <3>3, <4>1
    <3> QED BY <2>2, <3>1, <3>3, <3>4
  <2> QED BY <2>1, <2>2
<1>5. /\ \A t \in Slugs \ {s} : t \in printed' <=> t \in printed
      /\ cmd[c].verb # "publish" => printed' = printed
      /\ printed' \subseteq Slugs
  BY <1>1 DEF Continues
<1>6. cmd'[c].pc # "write" /\ (cmd'[c].pc = "mutate" => cmd'[c].todo # <<>>)
  BY <1>4 DEF Idle
<1>7. \A f \in File, d \in Commands : holder'[f] = d <=> holder[f] = d /\ d # c
  BY <1>1, ValuesAssumption DEF Unlocks
<1>8. TypeOK'
  <2>1. holder' \in [File -> Commands \cup {NoOne}]
    BY <1>1 DEF Unlocks
  <2> QED BY <1>4, <1>5, <1>6, <2>1 DEF IInv, TypeOK
<1>9. LocksHeldWhileWriting'
  BY <1>4, <1>6, <1>7 DEF IInv, LocksHeldWhileWriting, Current
<1>10. Good(c)'
  <2>1. CASE cmd'[c] = Idle
    BY <2>1 DEF Good
  <2>2. CASE cmd'[c] # Idle
    <3>1. TokenLeft # Entering(cmd[c].m)
      BY DEF TokenLeft, Entering
    <3>2. /\ todo # <<>> /\ cmd'[c].todo = todo /\ cmd'[c].pc = "mutate"
          /\ cmd'[c].slug = s /\ cmd'[c].verb = cmd[c].verb /\ cmd'[c].m = cmd[c].m
          /\ UNCHANGED printed
      BY <1>4, <2>2
    <3>3. CASE cmd[c].verb = "publish"
      <4>1. Publishing(c)'
        BY <1>2, <3>1, <3>2, <3>3 DEF Publishing, Working
      <4> QED BY <1>2, <3>2, <4>1 DEF Good
    <3>4. CASE cmd[c].verb # "publish"
      <4>1. Pruning(c)'
        BY <3>2, <3>4 DEF Pruning, Working
      <4> QED BY <1>2, <3>2, <4>1 DEF Good
    <3> QED BY <3>3, <3>4
  <2> QED BY <2>1, <2>2
<1>11. ASSUME NEW d \in Commands \ {c} PROVE Good(d)'
  <2>1. CASE cmd[d] = Idle
    BY <1>4, <2>1 DEF Good
  <2>2. CASE cmd[d] # Idle
    <3>1. Good(d) /\ cmd[d] \in Running /\ cmd'[d] = cmd[d]
      BY <1>4, <2>2, Runs DEF IInv
    <3>2. cmd[d].slug = s => cmd[c].verb # "publish" /\ cmd[d].verb # "publish"
      BY <1>1, <2>2 DEF IInv, Apart
    <3>3. Current(d)' = Current(d)
      BY <3>1 DEF Current
    <3>4. cmd[d].pc = "write" => cmd[d].snap = files'[Current(d).file]
      <4>1. ASSUME cmd[d].pc = "write"
            PROVE  Current(d).file \in File /\ (cmd[c].pc = "write" => Current(c).file # Current(d).file)
        <5>1. cmd[d].todo \in Seq(Write) /\ cmd[d].todo # <<>>
          BY <3>1, <4>1 DEF IInv, TypeOK, Running
        <5>2. Head(cmd[d].todo) \in Write
          BY <5>1
        <5>3. Current(d).file \in File
          BY <5>2 DEF Current, Write
        <5> QED BY <4>1, <5>3 DEF IInv, LocksHeldWhileWriting
      <4> QED BY <3>1, <2>2, <4>1 DEF Good
    <3>5. ASSUME Publishing(d) PROVE Publishing(d)'
      <4>1. cmd[d].slug \in Slugs \ {s}
        BY <3>1, <3>2, <3>5 DEF Running, Publishing
      <4> QED BY <1>5, <3>1, <3>5, <4>1 DEF Publishing, Working, Record, HasToken, File
    <3>6. ASSUME Pruning(d) PROVE Pruning(d)'
      <4>1. CASE cmd[d].slug = s
        BY <3>1, <3>2, <3>6, <4>1 DEF Pruning, Working
      <4>2. CASE cmd[d].slug # s
        BY <3>1, <3>6, <4>2 DEF Pruning, Working, Record, Running, File
      <4> QED BY <4>1, <4>2
    <3> QED BY <2>2, <3>1, <3>3, <3>4, <3>5, <3>6 DEF Good, Working
  <2> QED BY <2>1, <2>2
<1>12. Apart'
  BY <1>1, <1>4 DEF IInv, Apart
<1>13. Fresh'
  <2>1. ASSUME NEW t \in Slugs, server'[t] = Unminted
        PROVE  /\ t \notin printed' /\ Record(t)' = Absent
               /\ \A d \in Commands : cmd'[d] # Idle => cmd'[d].slug # t
    <3>1. t # s
      BY <1>2, <2>1
    <3> QED BY <1>1, <1>4, <1>5, <2>1, <3>1 DEF IInv, Fresh, Record, File
  <2> QED BY <2>1 DEF Fresh
<1>14. \A t \in Slugs : Record(t)' \in Manifests \cup {Absent}
  BY DEF IInv, Record, File
<1>15. RecordHasTokenButIfLoose'
  <2>1. ASSUME NEW t \in Slugs \ {s}, Record(t)' # Absent
        PROVE  HasToken(t)' \/ t \in loose'
    BY <2>1 DEF IInv, RecordHasTokenButIfLoose, Record, HasToken, File
  <2> QED BY <2>1 DEF RecordHasTokenButIfLoose, Record
<1> QED BY <1>8, <1>9, <1>10, <1>11, <1>12, <1>13, <1>14, <1>15 DEF IInv
-----------------------------------------------------------------------------
(* What a command that has something to write may be about.                *)
LEMMA Plans ==
  ASSUME IInv, NEW c \in Commands, Working(c), NEW s, s = cmd[c].slug
  PROVE  /\ cmd[c] # Idle /\ cmd[c] \in Running /\ s \in Slugs
         /\ cmd[c].pc = "write" => cmd[c].snap = files[Current(c).file]
         /\ \/ /\ cmd[c].verb = "publish" /\ cmd[c].m \in Manifests /\ Record(s) = Absent
               /\ \/ cmd[c].todo = PersistPublish(cmd[c].m)
                  \/ cmd[c].todo = Entering(cmd[c].m) /\ HasToken(s)
                  \/ cmd[c].todo = TokenLeft
            \/ /\ cmd[c].verb = "update" /\ cmd[c].m \in Manifests
               /\ cmd[c].todo = Entering(cmd[c].m)
            \/ /\ cmd[c].verb # "publish"
               /\ cmd[c].verb = "remove" \/ server[s] = Gone
               /\ \/ cmd[c].todo = PruneLocal
                  \/ cmd[c].todo = TokenLeft /\ (Record(s) = Absent \/ s \in loose)
<1>1. cmd[c] # Idle /\ cmd[c] \in Running /\ s \in Slugs
  BY Runs DEF IInv, Working, Idle, Running
<1>2. Good(c)
  BY DEF IInv
<1> QED BY <1>1, <1>2 DEF Good, Publishing, Pruning, Working

(* A write replaces one entry of one file as it is now, for its lock has   *)
(* kept the file as the command read it.                                   *)
LEMMA Replaces ==
  ASSUME IInv, NEW c \in Commands, MutateWrites(c),
         NEW f, f = Current(c).file, NEW s, s = cmd[c].slug
  PROVE  /\ f \in File /\ s \in Slugs /\ Working(c)
         /\ files' \in [File -> [Slugs -> Entry]]
         /\ files'[f][s] = Current(c).entry
         /\ \A g \in File : g # f => files'[g] = files[g]
         /\ \A t \in Slugs \ {s} : \A g \in File : files'[g][t] = files[g][t]
         /\ cmd[c].snap[s] = files[f][s]
<1>1. Working(c) /\ cmd[c].pc = "write"
  BY DEF MutateWrites, Working
<1>2. cmd[c] \in Running /\ s \in Slugs /\ cmd[c].snap = files[f]
  BY <1>1, Plans
<1>3. cmd[c].todo \in Seq(Write) /\ cmd[c].todo # <<>>
  BY <1>1, <1>2 DEF IInv, TypeOK, Running
<1>4. Current(c) \in Write
  BY <1>3 DEF Current
<1>5. f \in File /\ Current(c).entry \in Entry /\ files \in [File -> [Slugs -> Entry]]
  BY <1>4 DEF Write, IInv, TypeOK
<1>6. files' = [files EXCEPT ![f] = [files[f] EXCEPT ![s] = Current(c).entry]]
  BY <1>2 DEF MutateWrites
<1> QED BY <1>1, <1>2, <1>5, <1>6

LEMMA MutateWritesKeeps ==
  ASSUME IInv, NEW c \in Commands, NEW s, s = cmd[c].slug, MutateWrites(c)
  PROVE  IInv'
<1> DEFINE f == Current(c).file
           todo == Tail(cmd[c].todo)
<1>1. /\ f \in File /\ s \in Slugs /\ Working(c)
      /\ files' \in [File -> [Slugs -> Entry]]
      /\ files'[f][s] = Current(c).entry
      /\ \A g \in File : g # f => files'[g] = files[g]
      /\ \A t \in Slugs \ {s} : \A g \in File : files'[g][t] = files[g][t]
      /\ cmd[c].snap[s] = files[f][s]
  BY Replaces
<1>2. /\ cmd[c].pc = "write" /\ Continues(c, todo) /\ Unlocks(c) /\ UNCHANGED server
      /\ loose' = IF f = "credentials" THEN loose
                  ELSE IF cmd[c].verb = "update" /\ Current(c).entry # Absent
                  THEN IF cmd[c].snap[s] = Absent THEN loose \cup {s} ELSE loose
                  ELSE loose \ {s}
  BY DEF MutateWrites
<1>3. loose' \subseteq Slugs /\ \A t \in Slugs \ {s} : t \in loose' <=> t \in loose
  BY <1>1, <1>2 DEF IInv, TypeOK
<1>4. /\ Record(s) # Absent => HasToken(s) \/ s \in loose
      /\ Record(s) \in Manifests \cup {Absent}
  BY <1>1 DEF IInv, RecordHasTokenButIfLoose, Record
<1> DEFINE Outcome ==
      /\ Record(s)' \in Manifests \cup {Absent}
      /\ Record(s)' # Absent => HasToken(s)' \/ s \in loose'
      /\ cmd[c].verb # "publish" =>
           (Record(s) = Absent \/ s \in loose => Record(s)' = Absent \/ s \in loose')
      /\ \/ todo = <<>>
         \/ /\ cmd[c].verb = "publish"
            /\ Record(s)' = Absent
            /\ todo = TokenLeft \/ (todo = Entering(cmd[c].m) /\ HasToken(s)')
         \/ /\ cmd[c].verb # "publish"
            /\ cmd[c].verb = "remove" \/ server[s] = Gone
            /\ todo = TokenLeft /\ (Record(s)' = Absent \/ s \in loose')
<1>5. ASSUME cmd[c].verb = "publish" /\ cmd[c].todo = PersistPublish(cmd[c].m) /\ Record(s) = Absent
      PROVE  Outcome
  <2>1. f = "credentials" /\ Current(c).entry = Token /\ todo = Entering(cmd[c].m)
    BY <1>5, Todos DEF Current
  <2>2. Outcome
    BY <1>1, <1>2, <1>5, <2>1 DEF Record, HasToken, File
  <2> QED BY <2>2
<1>6. ASSUME /\ cmd[c].verb = "publish" /\ cmd[c].todo = Entering(cmd[c].m)
             /\ cmd[c].m \in Manifests /\ HasToken(s)
      PROVE  Outcome
  <2>1. f = "state" /\ Current(c).entry = cmd[c].m /\ todo = <<>>
    BY <1>6, Todos DEF Current
  <2>2. Outcome
    BY <1>1, <1>2, <1>6, <2>1 DEF Record, HasToken, File
  <2> QED BY <2>2
<1>7. ASSUME /\ cmd[c].todo = TokenLeft
             /\ Record(s) = Absent \/ (cmd[c].verb # "publish" /\ s \in loose)
      PROVE  Outcome
  <2>1. f = "credentials" /\ Current(c).entry = Absent /\ todo = <<>>
    BY <1>7, Todos DEF Current
  <2>2. Outcome
    BY <1>1, <1>2, <1>4, <1>7, <2>1 DEF Record, HasToken, File
  <2> QED BY <2>2
<1>8. ASSUME /\ cmd[c].verb = "update" /\ cmd[c].todo = Entering(cmd[c].m)
             /\ cmd[c].m \in Manifests
      PROVE  Outcome
  <2>1. f = "state" /\ Current(c).entry = cmd[c].m /\ todo = <<>>
    BY <1>8, Todos DEF Current
  <2>2. Record(s)' = cmd[c].m /\ HasToken(s)' = HasToken(s) /\ cmd[c].snap[s] = Record(s)
    BY <1>1, <2>1 DEF Record, HasToken, File
  <2>3. cmd[c].m # Absent
    BY <1>8, ValuesAssumption
  <2>4. loose' = IF Record(s) = Absent THEN loose \cup {s} ELSE loose
    BY <1>2, <1>8, <2>1, <2>2, <2>3
  <2>5. Outcome
    BY <1>4, <1>8, <2>1, <2>2, <2>4
  <2> QED BY <2>5
<1>9. ASSUME /\ cmd[c].verb # "publish" /\ cmd[c].todo = PruneLocal
             /\ cmd[c].verb = "remove" \/ server[s] = Gone
      PROVE  Outcome
  <2>1. f = "state" /\ Current(c).entry = Absent /\ todo = TokenLeft
    BY <1>9, Todos DEF Current
  <2>2. Outcome
    BY <1>1, <1>9, <2>1 DEF Record, HasToken
  <2> QED BY <2>2
<1>10. Outcome
  <2> QED BY <1>1, <1>5, <1>6, <1>7, <1>8, <1>9, Plans
<1>11. \A g \in File : files'[g] = files[g] \/ (cmd[c].pc = "write" /\ Current(c).file = g)
  BY <1>1, <1>2
<1>12. \A t \in Slugs \ {s} : /\ \A g \in File : files'[g][t] = files[g][t]
                              /\ t \in loose' <=> t \in loose
  BY <1>1, <1>3
<1> HIDE DEF f, todo
<1> QED BY <1>1, <1>2, <1>3, <1>10, <1>11, <1>12, MovesOn

LEMMA MutateFailsKeeps ==
  ASSUME IInv, NEW c \in Commands, NEW s, s = cmd[c].slug, MutateFails(c)
  PROVE  IInv'
<1> DEFINE todo == AfterFailure(c)
<1>1. /\ Working(c) /\ Continues(c, todo) /\ Unlocks(c) /\ UNCHANGED <<server, files>>
      /\ loose' = IF Current(c) = PruneLocal[1] THEN loose \cup {s} ELSE loose
  BY DEF MutateFails, Working
<1>2. s \in Slugs
  BY <1>1, Plans
<1>3. loose' \subseteq Slugs /\ \A t \in Slugs \ {s} : t \in loose' <=> t \in loose
  BY <1>1, <1>2 DEF IInv, TypeOK
<1>4. /\ Record(s) # Absent => HasToken(s) \/ s \in loose
      /\ Record(s) \in Manifests \cup {Absent}
      /\ files \in [File -> [Slugs -> Entry]]
  BY <1>2 DEF IInv, TypeOK, RecordHasTokenButIfLoose, Record
<1>5. Record(s)' = Record(s) /\ HasToken(s)' = HasToken(s) /\ (s \in loose => s \in loose')
  BY <1>1 DEF Record, HasToken
<1> DEFINE Left ==
      \/ todo = <<>>
      \/ /\ cmd[c].verb = "publish"
         /\ Record(s)' = Absent
         /\ todo = TokenLeft \/ (todo = Entering(cmd[c].m) /\ HasToken(s)')
      \/ /\ cmd[c].verb # "publish"
         /\ cmd[c].verb = "remove" \/ server[s] = Gone
         /\ todo = TokenLeft /\ (Record(s)' = Absent \/ s \in loose')
<1>6. ASSUME cmd[c].verb = "publish" /\ cmd[c].todo = PersistPublish(cmd[c].m)
      PROVE  Left
  BY <1>6, Todos DEF Current, AfterFailure
<1>7. ASSUME cmd[c].verb = "publish" /\ cmd[c].todo = Entering(cmd[c].m) /\ Record(s) = Absent
      PROVE  Left
  <2>1. todo = TokenLeft
    BY <1>7, Todos DEF Current, AfterFailure, TokenLeft
  <2> QED BY <1>5, <1>7, <2>1
<1>8. ASSUME cmd[c].todo = TokenLeft
      PROVE  Left
  BY <1>8, Todos DEF Current, AfterFailure
<1>9. ASSUME cmd[c].verb = "update" /\ cmd[c].todo = Entering(cmd[c].m)
      PROVE  Left
  BY <1>9, Todos DEF AfterFailure
<1>10. ASSUME /\ cmd[c].verb # "publish" /\ cmd[c].todo = PruneLocal
              /\ cmd[c].verb = "remove" \/ server[s] = Gone
       PROVE  Left
  <2>1. todo = TokenLeft /\ Current(c) = PruneLocal[1]
    BY <1>10, Todos DEF Current, AfterFailure
  <2> QED BY <1>1, <1>10, <2>1
<1>11. Left
  <2> QED BY <1>1, <1>6, <1>7, <1>8, <1>9, <1>10, Plans
<1>12. /\ \A f \in File : files'[f] = files[f]
       /\ \A t \in Slugs \ {s} : /\ \A f \in File : files'[f][t] = files[f][t]
                                /\ t \in loose' <=> t \in loose
       /\ files' \in [File -> [Slugs -> Entry]]
  BY <1>1, <1>3, <1>4
<1>13. /\ Record(s)' \in Manifests \cup {Absent}
       /\ Record(s)' # Absent => HasToken(s)' \/ s \in loose'
       /\ Record(s) = Absent \/ s \in loose => Record(s)' = Absent \/ s \in loose'
  BY <1>4, <1>5
<1> HIDE DEF todo
<1> QED BY <1>1, <1>2, <1>3, <1>11, <1>12, <1>13, MovesOn
-----------------------------------------------------------------------------
LEMMA InitGood == Init => IInv
<1> SUFFICES ASSUME Init PROVE IInv
  OBVIOUS
<1>1. /\ \A c \in Commands : cmd[c] = Idle /\ cmd[c].pc = "idle"
      /\ \A s \in Slugs : Record(s) = Absent
  BY DEF Init, Idle, Record, File, NoSnap
<1>2. TypeOK
  BY <1>1 DEF Init, TypeOK, NoSnap, Entry
<1>3. LocksHeldWhileWriting
  BY <1>1, ValuesAssumption DEF Init, LocksHeldWhileWriting
<1> QED BY <1>1, <1>2, <1>3
        DEF Init, IInv, Good, Apart, Fresh, RecordHasTokenButIfLoose, Record

LEMMA StepGood == IInv /\ [Next]_vars => IInv'
<1> SUFFICES ASSUME IInv, [Next]_vars PROVE IInv'
  OBVIOUS
<1>1. ASSUME NEW c \in Commands, Proceeds(c) PROVE IInv'
  BY <1>1, LoadTokenKeeps, UpdateSendsKeeps, DeleteSendsKeeps, MutateReadsKeeps,
     MutateWritesKeeps, MutateFailsKeeps DEF Proceeds
<1>2. CASE UNCHANGED vars
  BY <1>2 DEF vars, IInv, TypeOK, Good, Publishing, Pruning, Working, Record, HasToken,
              Current, Apart, Fresh, LocksHeldWhileWriting, RecordHasTokenButIfLoose
<1> QED BY <1>1, <1>2, BeginsKeeps, DiesKeeps, ServerForgetsKeeps DEF Next

LEMMA Invariant == Spec => []IInv
<1> QED BY InitGood, StepGood, PTL DEF Spec

(* Type correctness.                                                       *)
THEOREM TypeCorrect == Spec => []TypeOK
<1>1. IInv => TypeOK
  BY DEF IInv
<1> QED BY <1>1, Invariant, PTL

(* A lock is held by the command that is writing its file and by nobody    *)
(* else, whichever way commands fail or die.                               *)
THEOREM LocksAreReleased == Spec => []LocksHeldWhileWriting
<1>1. IInv => LocksHeldWhileWriting
  BY DEF IInv
<1> QED BY <1>1, Invariant, PTL

(* A record is without its token only where a prune missed the record or   *)
(* an update put it back.                                                  *)
THEOREM RecordsHaveTokens == Spec => []RecordHasTokenButIfLoose
<1>1. IInv => RecordHasTokenButIfLoose
  BY DEF IInv
<1> QED BY <1>1, Invariant, PTL

-----------------------------------------------------------------------------
(* The files change by the writes of commands only.                        *)
LEMMA OnlyWritesWrite ==
  ASSUME IInv, Next, files' # files
  PROVE  \E c \in Commands : MutateWrites(c)
<1>1. ASSUME NEW c \in Commands, Begins(c) PROVE files' = files
  BY <1>1 DEF Begins, Delete, Remove, Publish, Update
<1>2. ASSUME NEW c \in Commands, Dies(c) PROVE files' = files
  BY <1>2 DEF Dies
<1>3. ASSUME NEW c \in Commands, Proceeds(c), ~MutateWrites(c) PROVE files' = files
  BY <1>3 DEF Proceeds, LoadToken, UpdateSends, DeleteSends, MutateReads, MutateFails
<1>4. ASSUME NEW s \in Slugs, ServerForgets(s) PROVE files' = files
  BY <1>4 DEF ServerForgets
<1> QED BY <1>1, <1>2, <1>3, <1>4 DEF Next

(* A command's write changes the entry of its own document and no other.   *)
THEOREM EntriesAreSpared == Spec => WritesSpareOthers
<1>1. IInv /\ [Next]_vars =>
        [\A f \in File, s \in Slugs :
           files'[f][s] # files[f][s] =>
             \E c \in Commands : cmd[c].pc = "write" /\ cmd[c].slug = s]_vars
  <2> SUFFICES ASSUME IInv, Next, NEW f \in File, NEW s \in Slugs,
                      files'[f][s] # files[f][s]
               PROVE  \E c \in Commands : cmd[c].pc = "write" /\ cmd[c].slug = s
    OBVIOUS
  <2>1. PICK c \in Commands : MutateWrites(c)
    BY OnlyWritesWrite
  <2>2. cmd[c].pc = "write"
    BY <2>1 DEF MutateWrites
  <2>3. cmd[c].slug = s
    BY <2>1, Replaces
  <2> QED BY <2>2, <2>3
<1> QED BY <1>1, Invariant, PTL DEF Spec, WritesSpareOthers

(* A token is thrown away only when its document is gone, by remove, or by *)
(* a publish that could not record it.                                     *)
THEOREM TokensOutlive == Spec => TokenOutlivesDocument
<1>1. IInv /\ [Next]_vars =>
        [\A s \in Slugs :
           (HasToken(s) /\ ~HasToken(s)') =>
             \/ server[s] = Gone
             \/ \E c \in Commands :
                  cmd[c].pc = "write" /\ cmd[c].slug = s
                    /\ cmd[c].verb \in {"remove", "publish"}]_vars
  <2> SUFFICES ASSUME IInv, Next, NEW s \in Slugs, HasToken(s), ~HasToken(s)',
                      server[s] # Gone
               PROVE  \E c \in Commands :
                        cmd[c].pc = "write" /\ cmd[c].slug = s
                          /\ cmd[c].verb \in {"remove", "publish"}
    OBVIOUS
  <2>1. PICK c \in Commands : MutateWrites(c)
    BY OnlyWritesWrite DEF HasToken
  <2>2. cmd[c].pc = "write" /\ Working(c)
    BY <2>1 DEF MutateWrites, Working
  <2>3. cmd[c].slug = s
    BY <2>1, Replaces DEF HasToken, File
  <2>4. Current(c).file = "credentials"
    BY <2>1, Replaces DEF HasToken, File
  <2>5. \A m : Head(Entering(m)).file = "state"
    BY Todos
  <2>6. cmd[c].todo # Entering(cmd[c].m)
    BY <2>4, <2>5 DEF Current
  <2>7. cmd[c].verb \in {"remove", "publish"}
    BY <2>2, <2>3, <2>6, Plans
  <2> QED BY <2>2, <2>3, <2>7
<1> QED BY <1>1, Invariant, PTL DEF Spec, TokenOutlivesDocument
=============================================================================
