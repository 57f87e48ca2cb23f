-------------------------- MODULE PurgeQueueProofs ---------------------------
(***************************************************************************)
(* Proofs about PurgeQueue, for any number of slugs, inline attempts and   *)
(* writes, and whatever the backoffs.                                      *)
(*                                                                         *)
(* A page that is stale at the edge has its purge queued but for the       *)
(* fence's one gap (IInv).  A row is deleted by a clear only, so what      *)
(* matters is what a clear finds (InlineFenced, DrainFenced): its purge    *)
(* emptied the edge, and for the page to be stale again a write has reset  *)
(* the row's attempts since.                                               *)
(*                                                                         *)
(* The queue is well typed, and a failed claim that had been retried does  *)
(* not put off a write (QInv).  The due rows are in the order once each    *)
(* (Rows), so a pass claims each slug once (Claimed), and nobody but its   *)
(* own task raises the count a write has reset (Newer).                    *)
(***************************************************************************)
EXTENDS PurgeQueue, FiniteSetTheorems, TLAPS

Shapes ==
  /\ queue \in [Slugs -> {NotQueued} \cup Nat]
  /\ DOMAIN edge = Slugs /\ DOMAIN fenceGap = Slugs
  /\ inline \in [Inlines -> Attempt \cup {Idle}]
  /\ DOMAIN pass = {"pc", "todo", "age", "waiting", "since"}

(* A clear of s, made for a row with these attempts, would delete the row  *)
(* of a page that is stale only in the gap.                                *)
Fenced(s, attempts) ==
  edge[s] = "stale" /\ queue[s] = attempts /\ attempts # NotQueued =>
    attempts = 0 /\ fenceGap[s]

InlineFenced ==
  \A i \in Inlines, s \in Slugs :
    inline[i] = [pc |-> "clear", slug |-> s] => Fenced(s, 0)

DrainFenced ==
  \A s \in Slugs :
    pass.pc = "clear" /\ Current.slug = s => Fenced(s, Current.attempts)

IInv == Shapes /\ InlineFenced /\ DrainFenced /\ StaleIsQueuedButForGap

-----------------------------------------------------------------------------
(* What a step owes slugs whose page it does not make stale: the promise,  *)
(* and what a clear may rely on.                                           *)
LEMMA NothingStale ==
  ASSUME IInv, NEW s \in Slugs,
         edge'[s] = "stale" => edge[s] = "stale" /\ (fenceGap[s] => fenceGap'[s]),
         queue'[s] = queue[s]
  PROVE  /\ \A a : Fenced(s, a) => Fenced(s, a)'
         /\ edge'[s] = "stale" => queue'[s] # NotQueued \/ fenceGap'[s]
BY DEF IInv, Fenced, StaleIsQueuedButForGap

(* A step that leaves the queue alone, makes no page stale, and takes      *)
(* nobody to a clear.                                                      *)
LEMMA QuietStep ==
  ASSUME IInv, Shapes', UNCHANGED queue,
         \A s \in Slugs : edge'[s] = "stale" =>
           edge[s] = "stale" /\ (fenceGap[s] => fenceGap'[s]),
         \A i \in Inlines, s \in Slugs :
           inline'[i] = [pc |-> "clear", slug |-> s] =>
             inline[i] = inline'[i] \/ edge'[s] # "stale",
         pass'.pc = "clear" =>
           pass'.todo = pass.todo /\ (pass.pc = "clear" \/ edge'[Current.slug] # "stale")
  PROVE  IInv'
<1>1. \A s \in Slugs : (\A a : Fenced(s, a) => Fenced(s, a)')
         /\ (edge'[s] = "stale" => queue'[s] # NotQueued \/ fenceGap'[s])
  BY NothingStale
<1>2. \A s \in Slugs : edge'[s] # "stale" => \A a : Fenced(s, a)'
  BY DEF Fenced
<1>3. InlineFenced'
  <2>1. ASSUME NEW i \in Inlines, NEW s \in Slugs, inline'[i] = [pc |-> "clear", slug |-> s]
        PROVE  Fenced(s, 0)'
    <3>1. CASE inline[i] = inline'[i]
      <4>1. Fenced(s, 0)
        BY <2>1, <3>1 DEF IInv, InlineFenced
      <4> QED BY <1>1, <4>1
    <3>2. CASE edge'[s] # "stale"
      BY <1>2, <3>2
    <3> QED BY <2>1, <3>1, <3>2
  <2> QED BY <2>1 DEF InlineFenced
<1>4. DrainFenced'
  <2>1. ASSUME NEW s \in Slugs, pass'.pc = "clear", Current'.slug = s
        PROVE  Fenced(s, Current.attempts)'
    <3>1. Current' = Current
      BY <2>1 DEF Current
    <3>2. CASE pass.pc = "clear"
      <4>1. Fenced(s, Current.attempts)
        BY <2>1, <3>1, <3>2 DEF IInv, DrainFenced
      <4>2. Fenced(s, Current.attempts) => Fenced(s, Current.attempts)'
        BY <1>1, <3>1 DEF Fenced
      <4> QED BY <4>1, <4>2
    <3>3. CASE edge'[Current.slug] # "stale"
      BY <2>1, <3>1, <3>3 DEF Fenced
    <3> QED BY <2>1, <3>2, <3>3
  <2> QED BY <2>1 DEF DrainFenced
<1>5. StaleIsQueuedButForGap'
  BY <1>1 DEF StaleIsQueuedButForGap
<1> QED BY <1>3, <1>4, <1>5 DEF IInv

-----------------------------------------------------------------------------
LEMMA IdleIsNotClear == \A s : Idle # [pc |-> "clear", slug |-> s]
<1>1. \A s : Idle.pc # [pc |-> "clear", slug |-> s].pc
  BY DEF Idle
<1> QED BY <1>1

LEMMA WriteKeeps ==
  ASSUME IInv, NEW s \in Slugs, Write(s)
  PROVE  IInv'
<1>1. queue' = [queue EXCEPT ![s] = 0]
  BY DEF Write, Enqueue
<1>2. \/ edge' = [edge EXCEPT ![s] = Aged(@)]
      \/ edge' = edge
  BY DEF Write
<1>3. fenceGap' = [fenceGap EXCEPT ![s] = edge'[s] = "stale" /\ Unfenced(s)]
  BY DEF Write
<1>4. pass' = [pass EXCEPT !.since = IF pass.pc = "idle" THEN {} ELSE @ \cup {s}]
  BY DEF Write
<1>5. AttemptInline(s) \/ UNCHANGED inline
  BY DEF Write
<1>6. DOMAIN pass' = DOMAIN pass /\ pass'.pc = pass.pc /\ pass'.todo = pass.todo
  BY <1>4 DEF IInv, Shapes
<1>7. inline' \in [Inlines -> Attempt \cup {Idle}]
      /\ \A i \in Inlines, t \in Slugs :
           inline'[i] = [pc |-> "clear", slug |-> t] =>
             inline[i] = [pc |-> "clear", slug |-> t]
  <2>1. CASE UNCHANGED inline
    BY <2>1 DEF IInv, Shapes
  <2>2. CASE AttemptInline(s)
    <3>1. PICK j \in Inlines : inline' = [inline EXCEPT ![j] = [pc |-> "purge", slug |-> s]]
      BY <2>2 DEF AttemptInline
    <3>2. [pc |-> "purge", slug |-> s] \in Attempt
      BY DEF Attempt
    <3>3. \A t : [pc |-> "purge", slug |-> s] # [pc |-> "clear", slug |-> t]
      <4>1. \A t : [pc |-> "purge", slug |-> s].pc # [pc |-> "clear", slug |-> t].pc
        OBVIOUS
      <4> QED BY <4>1
    <3> QED BY <3>1, <3>2, <3>3 DEF IInv, Shapes
  <2> QED BY <1>5, <2>1, <2>2
<1>8. Shapes'
  BY <1>1, <1>2, <1>3, <1>6, <1>7 DEF IInv, Shapes
<1>9. ASSUME NEW t \in Slugs, t # s
      PROVE  queue'[t] = queue[t] /\ edge'[t] = edge[t] /\ (fenceGap'[t] <=> fenceGap[t])
  BY <1>1, <1>2, <1>3, <1>9 DEF IInv, Shapes
<1>10. queue'[s] = 0 /\ queue'[s] # NotQueued
  BY <1>1 DEF IInv, Shapes, NotQueued
<1>11. Unfenced(s) /\ edge'[s] = "stale" => fenceGap'[s]
  BY <1>3 DEF IInv, Shapes
<1>12. InlineFenced'
  <2>1. ASSUME NEW i \in Inlines, NEW t \in Slugs, inline'[i] = [pc |-> "clear", slug |-> t]
        PROVE  Fenced(t, 0)'
    <3>1. inline[i] = [pc |-> "clear", slug |-> t]
      BY <1>7, <2>1
    <3>2. CASE t = s
      BY <1>11, <3>1, <3>2 DEF Unfenced, Fenced
    <3>3. CASE t # s
      BY <1>9, <3>1, <3>3 DEF IInv, InlineFenced, Fenced
    <3> QED BY <3>2, <3>3
  <2> QED BY <2>1 DEF InlineFenced
<1>13. DrainFenced'
  <2>1. Current' = Current
    BY <1>6 DEF Current
  <2>2. ASSUME NEW t \in Slugs, pass.pc = "clear", Current.slug = t
        PROVE  Fenced(t, Current.attempts)'
    <3>1. CASE t = s
      <4>1. Current.attempts = 0 => Unfenced(s)
        BY <2>2, <3>1 DEF Unfenced, Current
      <4> QED BY <1>10, <1>11, <2>1, <3>1, <4>1 DEF Fenced
    <3>2. CASE t # s
      BY <1>9, <2>1, <2>2, <3>2 DEF IInv, DrainFenced, Fenced
    <3> QED BY <3>1, <3>2
  <2> QED BY <1>6, <2>1, <2>2 DEF DrainFenced
<1>14. StaleIsQueuedButForGap'
  BY <1>9, <1>10 DEF IInv, StaleIsQueuedButForGap
<1> QED BY <1>8, <1>12, <1>13, <1>14 DEF IInv

(* A clear deletes the row of a stale page in the gap only.                *)
LEMMA ClearKeeps ==
  ASSUME IInv, Shapes', NEW s, NEW a, Fenced(s, a) \/ s \notin Slugs,
         MarkPurgeDone(s, a), UNCHANGED <<edge, fenceGap>>,
         \A i \in Inlines : inline'[i] = inline[i] \/ inline'[i] = Idle,
         UNCHANGED pass \/ pass'.pc # "clear"
  PROVE  IInv'
<1>1. ASSUME NEW t \in Slugs
      PROVE  \/ queue'[t] = queue[t]
             \/ t = s /\ queue[t] = a /\ queue'[t] = NotQueued
  BY DEF MarkPurgeDone, IInv, Shapes
<1>2. ASSUME NEW t \in Slugs, NEW b, Fenced(t, b)
      PROVE  edge[t] = "stale" /\ queue'[t] = b /\ b # NotQueued => b = 0 /\ fenceGap[t]
  BY <1>1, <1>2 DEF Fenced
<1>3. InlineFenced'
  <2>1. ASSUME NEW i \in Inlines, NEW t \in Slugs, inline'[i] = [pc |-> "clear", slug |-> t]
        PROVE  Fenced(t, 0)'
    <3>1. inline[i] = [pc |-> "clear", slug |-> t]
      BY <2>1, IdleIsNotClear
    <3>2. Fenced(t, 0)
      BY <3>1 DEF IInv, InlineFenced
    <3> QED BY <1>2, <3>2 DEF Fenced
  <2> QED BY <2>1 DEF InlineFenced
<1>4. DrainFenced'
  <2>1. ASSUME NEW t \in Slugs, pass'.pc = "clear", Current'.slug = t
        PROVE  Fenced(t, Current.attempts)'
    <3>1. UNCHANGED pass /\ Current' = Current
      BY <2>1 DEF Current
    <3>2. Fenced(t, Current.attempts)
      BY <2>1, <3>1 DEF IInv, DrainFenced
    <3> QED BY <1>2, <3>1, <3>2 DEF Fenced
  <2> QED BY <2>1 DEF DrainFenced
<1>5. ASSUME NEW t \in Slugs, edge[t] = "stale", queue'[t] = NotQueued
      PROVE  fenceGap[t]
  <2>1. CASE queue'[t] = queue[t]
    BY <1>5, <2>1 DEF IInv, StaleIsQueuedButForGap
  <2>2. CASE t = s /\ queue[t] = a /\ queue'[t] = NotQueued
    <3>1. CASE a = NotQueued
      BY <1>5, <2>2, <3>1 DEF IInv, StaleIsQueuedButForGap
    <3>2. CASE a # NotQueued
      BY <1>5, <2>2, <3>2 DEF Fenced
    <3> QED BY <3>1, <3>2
  <2> QED BY <1>1, <2>1, <2>2
<1>6. StaleIsQueuedButForGap'
  BY <1>5 DEF StaleIsQueuedButForGap
<1> QED BY <1>3, <1>4, <1>6 DEF IInv

-----------------------------------------------------------------------------
(* A purge that has gone through leaves nothing stale.                     *)
LEMMA PurgeEmpties ==
  ASSUME IInv, NEW s, PurgePrefixes(s)
  PROVE  /\ DOMAIN edge' = Slugs /\ DOMAIN fenceGap' = Slugs
         /\ s \in Slugs => edge'[s] # "stale"
         /\ \A t \in Slugs : edge'[t] = "stale" =>
              edge[t] = "stale" /\ (fenceGap[t] => fenceGap'[t])
BY DEF PurgePrefixes, IInv, Shapes

LEMMA PassAfterShape ==
  ASSUME IInv, pass' = PassAfter
  PROVE  DOMAIN pass' = {"pc", "todo", "age", "waiting", "since"} /\ pass'.pc # "clear"
<1>1. CASE pass' = PassIdle
  BY <1>1 DEF PassIdle
<1>2. CASE pass' = [pass EXCEPT !.pc = "purge", !.todo = Tail(@),
                                !.waiting = @ \ {Current.slug}]
  BY <1>2 DEF IInv, Shapes
<1> QED BY <1>1, <1>2 DEF PassAfter

LEMMA InlinePurgesKeeps ==
  ASSUME IInv, NEW i \in Inlines, InlinePurges(i)
  PROVE  IInv'
<1> DEFINE s == inline[i].slug
<1>1. inline[i] \in Attempt
  BY DEF InlinePurges, IInv, Shapes, Idle
<1>2. s \in Slugs
  BY <1>1 DEF Attempt
<1>3. [inline[i] EXCEPT !.pc = "clear"] = [pc |-> "clear", slug |-> s]
  BY <1>1 DEF Attempt
<1>4. inline' = [inline EXCEPT ![i] = [pc |-> "clear", slug |-> s]]
  BY <1>3 DEF InlinePurges
<1>5. PurgePrefixes(s) /\ UNCHANGED <<queue, pass>>
  BY DEF InlinePurges
<1> HIDE DEF s
<1>6. [pc |-> "clear", slug |-> s] \in Attempt
  BY <1>2 DEF Attempt
<1>7. Shapes'
  BY <1>4, <1>5, <1>6, PurgeEmpties DEF IInv, Shapes
<1>8. \A j \in Inlines, t \in Slugs :
        inline'[j] = [pc |-> "clear", slug |-> t] =>
          inline[j] = inline'[j] \/ edge'[t] # "stale"
  <2>1. ASSUME NEW t \in Slugs, [pc |-> "clear", slug |-> s] = [pc |-> "clear", slug |-> t]
        PROVE  s = t
    <3>1. [pc |-> "clear", slug |-> s].slug = [pc |-> "clear", slug |-> t].slug
      BY <2>1
    <3> QED BY <3>1
  <2> QED BY <1>2, <1>4, <1>5, <2>1, PurgeEmpties DEF IInv, Shapes
<1> QED BY <1>5, <1>7, <1>8, PurgeEmpties, QuietStep

LEMMA InlineClearsKeeps ==
  ASSUME IInv, NEW i \in Inlines, InlineClears(i)
  PROVE  IInv'
<1> DEFINE s == inline[i].slug
<1>1. inline[i] \in Attempt /\ inline[i].pc = "clear"
  BY DEF InlineClears, IInv, Shapes, Idle
<1>2. s \in Slugs /\ inline[i] = [pc |-> "clear", slug |-> s]
  BY <1>1 DEF Attempt
<1>3. Fenced(s, 0)
  BY <1>2 DEF IInv, InlineFenced
<1>4. MarkPurgeDone(s, 0) /\ inline' = [inline EXCEPT ![i] = Idle]
      /\ UNCHANGED <<pass, edge, fenceGap>>
  BY DEF InlineClears
<1> HIDE DEF s
<1>5. Shapes' /\ \A j \in Inlines : inline'[j] = inline[j] \/ inline'[j] = Idle
  BY <1>4 DEF IInv, Shapes, MarkPurgeDone
<1> QED BY <1>3, <1>4, <1>5, ClearKeeps

LEMMA InlineIsLostKeeps ==
  ASSUME IInv, NEW i \in Inlines, InlineIsLost(i)
  PROVE  IInv'
<1>1. inline' = [inline EXCEPT ![i] = Idle] /\ UNCHANGED <<queue, pass>>
  BY DEF InlineIsLost
<1>2. PurgePrefixes(inline[i].slug) \/ UNCHANGED <<edge, fenceGap>>
  BY DEF InlineIsLost, PurgePrefixesFails
<1>3. Shapes'
  BY <1>1, <1>2, PurgeEmpties DEF IInv, Shapes
<1>4. \A j \in Inlines, t \in Slugs :
        inline'[j] = [pc |-> "clear", slug |-> t] => inline[j] = inline'[j]
  BY <1>1, IdleIsNotClear DEF IInv, Shapes
<1>5. \A t \in Slugs : edge'[t] = "stale" => edge[t] = "stale" /\ (fenceGap[t] => fenceGap'[t])
  BY <1>2, PurgeEmpties
<1> QED BY <1>1, <1>3, <1>4, <1>5, QuietStep

LEMMA PurgeSoonUnqueuedKeeps ==
  ASSUME IInv, NEW s \in Slugs, PurgeSoonUnqueued(s)
  PROVE  IInv'
<1>1. PICK j \in Inlines : inline' = [inline EXCEPT ![j] = [pc |-> "purge", slug |-> s]]
  BY DEF PurgeSoonUnqueued, AttemptInline
<1>2. [pc |-> "purge", slug |-> s] \in Attempt
  BY DEF Attempt
<1>3. \A t : [pc |-> "purge", slug |-> s] # [pc |-> "clear", slug |-> t]
  <2>1. \A t : [pc |-> "purge", slug |-> s].pc # [pc |-> "clear", slug |-> t].pc
    OBVIOUS
  <2> QED BY <2>1
<1>4. UNCHANGED <<queue, pass, edge, fenceGap>>
  BY DEF PurgeSoonUnqueued
<1>5. Shapes'
  BY <1>1, <1>2, <1>4 DEF IInv, Shapes
<1>6. \A i \in Inlines, t \in Slugs :
        inline'[i] = [pc |-> "clear", slug |-> t] => inline[i] = inline'[i]
  BY <1>1, <1>3 DEF IInv, Shapes
<1> QED BY <1>4, <1>5, <1>6, QuietStep

-----------------------------------------------------------------------------
LEMMA DrainPurgesKeeps ==
  ASSUME IInv, NEW s \in Slugs, DrainPurges(s)
  PROVE  IInv'
<1>1. pass' = [pass EXCEPT !.pc = "clear"] /\ Current.slug = s /\ PurgePrefixes(s)
      /\ UNCHANGED <<queue, inline>>
  BY DEF DrainPurges
<1>2. DOMAIN pass' = DOMAIN pass /\ pass'.todo = pass.todo
  BY <1>1 DEF IInv, Shapes
<1>3. Shapes'
  BY <1>1, <1>2, PurgeEmpties DEF IInv, Shapes
<1>4. edge'[Current.slug] # "stale"
  BY <1>1, PurgeEmpties
<1> QED BY <1>1, <1>2, <1>3, <1>4, PurgeEmpties, QuietStep

(* Steps that leave the queue and the inline attempts alone, purge or not, *)
(* and take the pass to no clear.                                          *)
LEMMA DrainMovesOn ==
  ASSUME IInv, NEW s, PurgePrefixes(s) \/ UNCHANGED <<edge, fenceGap>>,
         UNCHANGED <<queue, inline>>,
         DOMAIN pass' = {"pc", "todo", "age", "waiting", "since"}, pass'.pc # "clear"
  PROVE  IInv'
<1>1. Shapes'
  BY PurgeEmpties DEF IInv, Shapes
<1>2. \A t \in Slugs : edge'[t] = "stale" => edge[t] = "stale" /\ (fenceGap[t] => fenceGap'[t])
  BY PurgeEmpties
<1> QED BY <1>1, <1>2, QuietStep

LEMMA DrainClearsKeeps ==
  ASSUME IInv, DrainClears
  PROVE  IInv'
<1>1. pass.pc = "clear" /\ MarkPurgeDone(Current.slug, Current.attempts) /\ pass' = PassAfter
      /\ UNCHANGED <<inline, edge, fenceGap>>
  BY DEF DrainClears
<1>2. Fenced(Current.slug, Current.attempts) \/ Current.slug \notin Slugs
  BY <1>1 DEF IInv, DrainFenced
<1>3. DOMAIN pass' = {"pc", "todo", "age", "waiting", "since"} /\ pass'.pc # "clear"
  BY <1>1, PassAfterShape
<1>4. Shapes'
  BY <1>1, <1>3 DEF IInv, Shapes, MarkPurgeDone
<1> QED BY <1>1, <1>2, <1>3, <1>4, ClearKeeps

(* A backoff takes no row away, and of a stale page's row it makes none    *)
(* that a first purge could clear.                                         *)
LEMMA DrainBacksOffKeeps ==
  ASSUME IInv, DrainBacksOff
  PROVE  IInv'
<1> DEFINE s == Current.slug
<1>1. pass' = PassAfter /\ UNCHANGED <<inline, edge, fenceGap>>
  BY DEF DrainBacksOff
<1>2. \/ queue' = queue
      \/ queue' = [queue EXCEPT ![s] = IF queue[s] < MaxAttempts THEN queue[s] + 1 ELSE queue[s]]
  BY DEF DrainBacksOff, BackoffPurge
<1> HIDE DEF s
<1>3. DOMAIN pass' = {"pc", "todo", "age", "waiting", "since"} /\ pass'.pc # "clear"
  BY <1>1, PassAfterShape
<1>4. ASSUME NEW t \in Slugs
      PROVE  /\ queue'[t] = queue[t] \/ queue'[t] = queue[t] + 1
             /\ queue[t] = NotQueued \/ queue[t] \in Nat
             /\ queue'[t] \in {NotQueued} \cup Nat
  <2>1. queue[t] = NotQueued \/ queue[t] \in Nat
    BY DEF IInv, Shapes
  <2>2. queue'[t] = queue[t] \/ queue'[t] = queue[t] + 1
    BY <1>2 DEF IInv, Shapes
  <2> QED BY <2>1, <2>2 DEF NotQueued
<1>5. queue' \in [Slugs -> {NotQueued} \cup Nat]
  <2>1. DOMAIN queue' = Slugs /\ queue' = [t \in Slugs |-> queue'[t]]
    BY <1>2 DEF IInv, Shapes
  <2> QED BY <1>4, <2>1
<1>6. Shapes'
  BY <1>1, <1>3, <1>5 DEF IInv, Shapes
<1>7. InlineFenced'
  <2>1. ASSUME NEW i \in Inlines, NEW t \in Slugs, inline'[i] = [pc |-> "clear", slug |-> t],
               edge[t] = "stale", queue'[t] = 0
        PROVE  fenceGap[t]
    <3>1. Fenced(t, 0)
      BY <1>1, <2>1 DEF IInv, InlineFenced
    <3>2. queue[t] = 0 \/ queue[t] = NotQueued
      BY <1>4, <2>1 DEF NotQueued
    <3>3. CASE queue[t] = 0
      BY <2>1, <3>1, <3>3 DEF Fenced, NotQueued
    <3>4. CASE queue[t] = NotQueued
      BY <2>1, <3>4 DEF IInv, StaleIsQueuedButForGap
    <3> QED BY <3>2, <3>3, <3>4
  <2> QED BY <1>1, <2>1 DEF InlineFenced, Fenced
<1>8. DrainFenced'
  BY <1>3 DEF DrainFenced
<1>9. StaleIsQueuedButForGap'
  <2>1. ASSUME NEW t \in Slugs, queue[t] # NotQueued
        PROVE  queue'[t] # NotQueued
    BY <1>4, <2>1 DEF NotQueued
  <2> QED BY <1>1, <2>1 DEF IInv, StaleIsQueuedButForGap
<1> QED BY <1>6, <1>7, <1>8, <1>9 DEF IInv

LEMMA DrainKeeps ==
  ASSUME IInv,
         \/ DrainClaims \/ DrainPurgeFails \/ DrainClearFails
         \/ DrainBackoffFails \/ JobsCrash
  PROVE  IInv'
<1>1. CASE DrainClaims
  <2>1. DOMAIN pass' = {"pc", "todo", "age", "waiting", "since"} /\ pass'.pc # "clear"
    BY <1>1 DEF DrainClaims
  <2> QED BY <1>1, <2>1, DrainMovesOn DEF DrainClaims
<1>2. CASE DrainPurgeFails
  <2>1. DOMAIN pass' = {"pc", "todo", "age", "waiting", "since"} /\ pass'.pc # "clear"
    BY <1>2 DEF DrainPurgeFails, IInv, Shapes
  <2>2. PurgePrefixes(Current.slug) \/ UNCHANGED <<edge, fenceGap>>
    BY <1>2 DEF DrainPurgeFails, PurgePrefixesFails
  <2>3. UNCHANGED <<queue, inline>>
    BY <1>2 DEF DrainPurgeFails
  <2> QED BY <2>1, <2>2, <2>3, DrainMovesOn
<1>3. CASE DrainClearFails
  <2>1. DOMAIN pass' = {"pc", "todo", "age", "waiting", "since"} /\ pass'.pc # "clear"
    BY <1>3 DEF DrainClearFails, IInv, Shapes
  <2> QED BY <1>3, <2>1, DrainMovesOn DEF DrainClearFails
<1>4. CASE DrainBackoffFails
  <2>1. pass' = PassAfter
    BY <1>4 DEF DrainBackoffFails
  <2> QED BY <1>4, <2>1, PassAfterShape, DrainMovesOn DEF DrainBackoffFails
<1>5. CASE JobsCrash
  <2>1. DOMAIN pass' = {"pc", "todo", "age", "waiting", "since"} /\ pass'.pc # "clear"
    BY <1>5 DEF JobsCrash, PassIdle
  <2> QED BY <1>5, <2>1, DrainMovesOn DEF JobsCrash
<1> QED BY <1>1, <1>2, <1>3, <1>4, <1>5

LEMMA TickKeeps ==
  ASSUME IInv, Tick
  PROVE  IInv'
<1>1. pass' = [pass EXCEPT !.age = IF pass.pc # "idle" /\ @ < MaxBackoff THEN @ + 1 ELSE @]
      /\ UNCHANGED <<queue, inline, edge, fenceGap>>
  BY DEF Tick
<1>2. DOMAIN pass' = DOMAIN pass /\ pass'.pc = pass.pc /\ pass'.todo = pass.todo
  BY <1>1 DEF IInv, Shapes
<1>3. Shapes'
  BY <1>1, <1>2 DEF IInv, Shapes
<1> QED BY <1>1, <1>2, <1>3, QuietStep

LEMMA EdgeKeeps ==
  ASSUME IInv, NEW s \in Slugs, EdgeReads(s) \/ EdgeFills(s) \/ EdgeExpires(s)
  PROVE  IInv'
<1>1. UNCHANGED <<queue, inline, pass>>
  BY DEF EdgeReads, EdgeFills, EdgeExpires
<1>2. /\ DOMAIN edge' = Slugs /\ DOMAIN fenceGap' = Slugs
      /\ \A t \in Slugs : edge'[t] = "stale" =>
           edge[t] = "stale" /\ (fenceGap[t] => fenceGap'[t])
  <2>1. CASE EdgeReads(s)
    BY <2>1 DEF EdgeReads, IInv, Shapes
  <2>2. CASE EdgeFills(s)
    BY <2>2 DEF EdgeFills, IInv, Shapes
  <2>3. CASE EdgeExpires(s)
    BY <2>3 DEF EdgeExpires, IInv, Shapes
  <2> QED BY <2>1, <2>2, <2>3
<1>3. Shapes'
  BY <1>1, <1>2 DEF IInv, Shapes
<1> QED BY <1>1, <1>2, <1>3, QuietStep

-----------------------------------------------------------------------------
LEMMA InitHolds == Init => IInv
<1> SUFFICES ASSUME Init PROVE IInv
  OBVIOUS
<1>1. queue = [s \in Slugs |-> NotQueued] /\ edge = [s \in Slugs |-> "none"]
      /\ fenceGap = [s \in Slugs |-> FALSE] /\ inline = [i \in Inlines |-> Idle]
      /\ pass = PassIdle
  BY DEF Init
<1>2. DOMAIN pass = {"pc", "todo", "age", "waiting", "since"} /\ pass.pc = "idle"
  BY <1>1 DEF PassIdle
<1>3. Shapes
  BY <1>1, <1>2 DEF Shapes
<1>4. InlineFenced
  BY <1>1, IdleIsNotClear DEF InlineFenced
<1>5. DrainFenced /\ StaleIsQueuedButForGap
  BY <1>1, <1>2 DEF DrainFenced, StaleIsQueuedButForGap
<1> QED BY <1>3, <1>4, <1>5 DEF IInv

LEMMA StepHolds == IInv /\ [Next]_vars => IInv'
<1> SUFFICES ASSUME IInv, [Next]_vars PROVE IInv'
  OBVIOUS
<1>1. ASSUME NEW s \in Slugs, Write(s) PROVE IInv'
  BY <1>1, WriteKeeps
<1>2. ASSUME NEW s \in Slugs, PurgeSoonUnqueued(s) PROVE IInv'
  BY <1>2, PurgeSoonUnqueuedKeeps
<1>3. ASSUME NEW s \in Slugs, DrainPurges(s) PROVE IInv'
  BY <1>3, DrainPurgesKeeps
<1>4. ASSUME NEW s \in Slugs, EdgeReads(s) \/ EdgeFills(s) \/ EdgeExpires(s) PROVE IInv'
  BY <1>4, EdgeKeeps
<1>5. ASSUME NEW i \in Inlines, InlinePurges(i) PROVE IInv'
  BY <1>5, InlinePurgesKeeps
<1>6. ASSUME NEW i \in Inlines, InlineClears(i) PROVE IInv'
  BY <1>6, InlineClearsKeeps
<1>7. ASSUME NEW i \in Inlines, InlineIsLost(i) PROVE IInv'
  BY <1>7, InlineIsLostKeeps
<1>8. ASSUME DrainClaims \/ DrainPurgeFails \/ DrainClearFails \/ DrainBackoffFails \/ JobsCrash
      PROVE  IInv'
  BY <1>8, DrainKeeps
<1>9. ASSUME DrainClears PROVE IInv'
  BY <1>9, DrainClearsKeeps
<1>10. ASSUME DrainBacksOff PROVE IInv'
  BY <1>10, DrainBacksOffKeeps
<1>11. ASSUME Tick PROVE IInv'
  BY <1>11, TickKeeps
<1>12. ASSUME UNCHANGED vars PROVE IInv'
  <2>1. UNCHANGED <<queue, inline, pass, edge, fenceGap>>
    BY <1>12 DEF vars
  <2>2. Shapes'
    BY <2>1 DEF IInv, Shapes
  <2> QED BY <2>1, <2>2, QuietStep
<1> QED
  BY <1>1, <1>2, <1>3, <1>4, <1>5, <1>6, <1>7, <1>8, <1>9, <1>10, <1>11, <1>12 DEF Next

(* A page that a write made stale has its purge queued, unless the write   *)
(* fell between a first purge's answer and its clear.                      *)
THEOREM StaleIsQueued == Spec => []StaleIsQueuedButForGap
<1>1. IInv => StaleIsQueuedButForGap
  BY DEF IInv
<1> QED BY <1>1, InitHolds, StepHolds, PTL DEF Spec

-----------------------------------------------------------------------------
(* The order of the due rows.  An order names each of a set of slugs once; *)
(* dropping a slug, putting one in, and adding the rows that come due      *)
(* keep it one.                                                            *)
Orders(q, S) == q \in Seq(Slugs) /\ IsInjective(q) /\ ToSet(q) = S

LEMMA OrderOf ==
  ASSUME NEW q \in Seq(Slugs), NEW S
  PROVE  Orders(q, S) <=>
           /\ \A i, j \in 1..Len(q) : q[i] = q[j] => i = j
           /\ \A i \in 1..Len(q) : q[i] \in S
           /\ \A s \in S : \E i \in 1..Len(q) : q[i] = s
<1>1. DOMAIN q = 1..Len(q)
  OBVIOUS
<1>2. IsInjective(q) <=> \A i, j \in 1..Len(q) : q[i] = q[j] => i = j
  BY <1>1 DEF IsInjective
<1>3. ToSet(q) = S <=>
        /\ \A i \in 1..Len(q) : q[i] \in S
        /\ \A s \in S : \E i \in 1..Len(q) : q[i] = s
  BY <1>1 DEF ToSet
<1> QED BY <1>2, <1>3 DEF Orders

LEMMA RemovedOrder ==
  ASSUME NEW S, Orders(due, S), NEW s
  PROVE  Orders(Without(s), S \ {s})
<1>1. due \in Seq(Slugs) /\ ToSet(due) = S
  BY DEF Orders
<1>2. CASE s \notin S
  BY <1>1, <1>2 DEF Without, Orders
<1>3. CASE s \in S
  <2> DEFINE k == CHOOSE j \in DOMAIN due : due[j] = s
             q == RemoveAt(due, k)
             a == SubSeq(due, 1, k - 1)
             b == SubSeq(due, k + 1, Len(due))
  <2>1. \E j \in DOMAIN due : due[j] = s
    BY <1>1, <1>3 DEF ToSet
  <2>2. k \in 1..Len(due) /\ due[k] = s
    BY <1>1, <2>1
  <2> HIDE DEF k
  <2>3. /\ a \in Seq(Slugs) /\ Len(a) = k - 1 /\ \A i \in 1..(k - 1) : a[i] = due[i]
        /\ b \in Seq(Slugs) /\ Len(b) = Len(due) - k
        /\ \A i \in 1..(Len(due) - k) : b[i] = due[k + i]
    BY <1>1, <2>2
  <2> HIDE DEF a, b
  <2>4. q = a \o b
    BY DEF RemoveAt, a, b
  <2>5. q \in Seq(Slugs) /\ Len(q) = Len(due) - 1
    BY <2>2, <2>3, <2>4, <1>1
  <2>6. \A i \in 1..Len(q) : q[i] = due[IF i < k THEN i ELSE i + 1]
    BY <2>2, <2>3, <2>4, <2>5, <1>1
  <2> HIDE DEF q
  <2>7. /\ \A i, j \in 1..Len(due) : due[i] = due[j] => i = j
        /\ \A i \in 1..Len(due) : due[i] \in S
        /\ \A u \in S : \E i \in 1..Len(due) : due[i] = u
    BY <1>1, OrderOf
  <2>8. \A i, j \in 1..Len(q) : q[i] = q[j] => i = j
    <3> DEFINE at(i) == IF i < k THEN i ELSE i + 1
    <3>1. \A i \in 1..Len(q) : at(i) \in 1..Len(due) /\ q[i] = due[at(i)]
      BY <1>1, <2>2, <2>5, <2>6
    <3>2. \A i, j \in 1..Len(q) : at(i) = at(j) => i = j
      BY <1>1, <2>2, <2>5
    <3> HIDE DEF at
    <3> QED BY <2>7, <3>1, <3>2
  <2>9. \A i \in 1..Len(q) : q[i] \in S \ {s}
    BY <1>1, <2>2, <2>5, <2>6, <2>7
  <2>10. ASSUME NEW u \in S \ {s}
         PROVE  \E i \in 1..Len(q) : q[i] = u
    <3>1. PICK j \in 1..Len(due) : due[j] = u
      BY <2>7
    <3>2. CASE j < k
      <4>1. j \in 1..Len(q) /\ q[j] = u
        BY <1>1, <2>2, <2>5, <2>6, <3>1, <3>2
      <4> QED BY <4>1
    <3>3. CASE j > k
      <4>1. j - 1 \in 1..Len(q) /\ q[j - 1] = u
        BY <1>1, <2>2, <2>5, <2>6, <3>1, <3>3
      <4> QED BY <4>1
    <3>4. j # k
      BY <2>2, <2>10, <3>1
    <3> QED BY <2>2, <3>2, <3>3, <3>4
  <2>11. Orders(q, S \ {s})
    BY <2>5, <2>8, <2>9, <2>10, OrderOf
  <2> QED BY <1>1, <1>3, <2>11 DEF Without, q, k
<1> QED BY <1>2, <1>3

LEMMA JoinedOrder ==
  ASSUME NEW S, NEW T, NEW p, NEW q, Orders(p, S), Orders(q, T), S \cap T = {}
  PROVE  Orders(p \o q, S \cup T)
<1>1. p \in Seq(Slugs) /\ q \in Seq(Slugs)
  BY DEF Orders
<1> DEFINE r == p \o q
<1>2. /\ r \in Seq(Slugs) /\ Len(r) = Len(p) + Len(q)
      /\ \A i \in 1..Len(p) : r[i] = p[i]
      /\ \A i \in 1..Len(q) : r[Len(p) + i] = q[i]
  BY <1>1
<1>3. \A i \in 1..Len(r) : i \in 1..Len(p) \/ i - Len(p) \in 1..Len(q)
  BY <1>1, <1>2
<1>4. \A i \in 1..Len(r) : i - Len(p) \in 1..Len(q) => r[i] = q[i - Len(p)]
  BY <1>1, <1>2
<1> HIDE DEF r
<1>5. /\ \A i, j \in 1..Len(p) : p[i] = p[j] => i = j
      /\ \A i \in 1..Len(p) : p[i] \in S
      /\ \A s \in S : \E i \in 1..Len(p) : p[i] = s
  BY <1>1, OrderOf
<1>6. /\ \A i, j \in 1..Len(q) : q[i] = q[j] => i = j
      /\ \A i \in 1..Len(q) : q[i] \in T
      /\ \A s \in T : \E i \in 1..Len(q) : q[i] = s
  BY <1>1, OrderOf
<1>7. \A i, j \in 1..Len(r) : r[i] = r[j] => i = j
  <2>1. TAKE i, j \in 1..Len(r)
  <2>2. HAVE r[i] = r[j]
  <2>3. CASE i \in 1..Len(p) /\ j \in 1..Len(p)
    BY <1>2, <1>5, <2>2, <2>3
  <2>4. CASE i - Len(p) \in 1..Len(q) /\ j - Len(p) \in 1..Len(q)
    <3>1. i - Len(p) = j - Len(p)
      BY <1>4, <1>6, <2>2, <2>4
    <3> QED BY <1>1, <1>2, <3>1
  <2>5. CASE i \in 1..Len(p) /\ j - Len(p) \in 1..Len(q)
    <3>1. r[i] \in S /\ r[j] \in T
      BY <1>2, <1>4, <1>5, <1>6, <2>5
    <3> QED BY <2>2, <3>1
  <2>6. CASE j \in 1..Len(p) /\ i - Len(p) \in 1..Len(q)
    <3>1. r[j] \in S /\ r[i] \in T
      BY <1>2, <1>4, <1>5, <1>6, <2>6
    <3> QED BY <2>2, <3>1
  <2> QED BY <1>3, <2>3, <2>4, <2>5, <2>6
<1>8. \A i \in 1..Len(r) : r[i] \in S \cup T
  BY <1>2, <1>3, <1>4, <1>5, <1>6
<1>9. ASSUME NEW s \in S \cup T
      PROVE  \E i \in 1..Len(r) : r[i] = s
  <2>1. CASE s \in S
    <3>1. PICK i \in 1..Len(p) : p[i] = s
      BY <1>5, <2>1
    <3>2. i \in 1..Len(r) /\ r[i] = s
      BY <1>1, <1>2, <3>1
    <3> QED BY <3>2
  <2>2. CASE s \in T
    <3>1. PICK i \in 1..Len(q) : q[i] = s
      BY <1>6, <2>2
    <3>2. Len(p) + i \in 1..Len(r) /\ r[Len(p) + i] = s
      BY <1>1, <1>2, <3>1
    <3> QED BY <3>2
  <2> QED BY <2>1, <2>2
<1>10. Orders(r, S \cup T)
  BY <1>2, <1>7, <1>8, <1>9, OrderOf
<1> QED BY <1>10 DEF r

LEMMA OneOrder ==
  ASSUME NEW s \in Slugs
  PROVE  Orders(<<s>>, {s})
BY DEF Orders, IsInjective, ToSet

(* A prefix and the rest are orders of two parts.                          *)
LEMMA SplitOrder ==
  ASSUME NEW S, NEW q, Orders(q, S), NEW j \in 1..(Len(q) + 1)
  PROVE  \E A, B : /\ A \cup B = S /\ A \cap B = {}
                   /\ Orders(SubSeq(q, 1, j - 1), A) /\ Orders(SubSeq(q, j, Len(q)), B)
<1> DEFINE a == SubSeq(q, 1, j - 1)
           b == SubSeq(q, j, Len(q))
           A == {q[i] : i \in 1..(j - 1)}
           B == {q[i] : i \in j..Len(q)}
<1>1. q \in Seq(Slugs)
  BY DEF Orders
<1>2. /\ a \in Seq(Slugs) /\ Len(a) = j - 1 /\ \A i \in 1..(j - 1) : a[i] = q[i]
      /\ b \in Seq(Slugs) /\ Len(b) = Len(q) - j + 1
      /\ \A i \in 1..(Len(q) - j + 1) : b[i] = q[j - 1 + i]
  BY <1>1
<1> HIDE DEF a, b
<1>3. /\ \A i, k \in 1..Len(q) : q[i] = q[k] => i = k
      /\ \A i \in 1..Len(q) : q[i] \in S
      /\ \A s \in S : \E i \in 1..Len(q) : q[i] = s
  BY <1>1, OrderOf
<1>4. Orders(a, A)
  <2>1. \A i, k \in 1..Len(a) : a[i] = a[k] => i = k
    BY <1>1, <1>2, <1>3
  <2>2. \A i \in 1..Len(a) : a[i] \in A
    BY <1>1, <1>2
  <2>3. ASSUME NEW s \in A
        PROVE  \E i \in 1..Len(a) : a[i] = s
    <3>1. PICK i \in 1..(j - 1) : q[i] = s
      OBVIOUS
    <3>2. i \in 1..Len(a) /\ a[i] = s
      BY <1>1, <1>2, <3>1
    <3> QED BY <3>2
  <2> QED BY <1>2, <2>1, <2>2, <2>3, OrderOf
<1>5. Orders(b, B)
  <2> DEFINE at(i) == j - 1 + i
  <2>4. \A i \in 1..Len(b) : at(i) \in j..Len(q) /\ at(i) \in 1..Len(q) /\ b[i] = q[at(i)]
    BY <1>1, <1>2
  <2>1. \A i, k \in 1..Len(b) : b[i] = b[k] => i = k
    <3>1. \A i, k \in 1..Len(b) : at(i) = at(k) => i = k
      BY <1>1, <1>2
    <3>2. ASSUME NEW i \in 1..Len(b), NEW k \in 1..Len(b), b[i] = b[k]
          PROVE  at(i) = at(k)
      <4>1. at(i) \in 1..Len(q) /\ at(k) \in 1..Len(q) /\ q[at(i)] = q[at(k)]
        BY <2>4, <3>2
      <4> HIDE DEF at
      <4> QED BY <1>3, <4>1
    <3> HIDE DEF at
    <3> QED BY <3>1, <3>2
  <2>2. \A i \in 1..Len(b) : b[i] \in B
    <3> HIDE DEF at
    <3> QED BY <2>4
  <2>3. ASSUME NEW s \in B
        PROVE  \E i \in 1..Len(b) : b[i] = s
    <3>1. PICK i \in j..Len(q) : q[i] = s
      OBVIOUS
    <3>2. i - j + 1 \in 1..Len(b) /\ b[i - j + 1] = s
      BY <1>1, <1>2, <3>1
    <3> QED BY <3>2
  <2> QED BY <1>2, <2>1, <2>2, <2>3, OrderOf
<1>6. A \cup B = S
  BY <1>1, <1>3
<1>7. A \cap B = {}
  BY <1>1, <1>3
<1> QED BY <1>4, <1>5, <1>6, <1>7 DEF a, b

LEMMA InsertedOrder ==
  ASSUME NEW S, NEW q, Orders(q, S), NEW s \in Slugs \ S, NEW j \in 1..(Len(q) + 1)
  PROVE  Orders(InsertAt(q, j, s), S \cup {s})
<1>1. PICK A, B : /\ A \cup B = S /\ A \cap B = {}
                  /\ Orders(SubSeq(q, 1, j - 1), A) /\ Orders(SubSeq(q, j, Len(q)), B)
  BY SplitOrder
<1>2. Orders(SubSeq(q, 1, j - 1) \o <<s>>, A \cup {s})
  BY <1>1, OneOrder, JoinedOrder
<1>3. Orders((SubSeq(q, 1, j - 1) \o <<s>>) \o SubSeq(q, j, Len(q)), (A \cup {s}) \cup B)
  BY <1>1, <1>2, JoinedOrder
<1>4. (A \cup {s}) \cup B = S \cup {s}
  BY <1>1
<1> QED BY <1>3, <1>4 DEF InsertAt

LEMMA AppendedOrder ==
  ASSUME NEW S, NEW q, Orders(q, S), NEW s \in Slugs \ S
  PROVE  Orders(Append(q, s), S \cup {s})
<1>1. Append(q, s) = q \o <<s>>
  BY DEF Orders
<1>2. S \cap {s} = {}
  OBVIOUS
<1>3. Orders(<<s>>, {s})
  BY OneOrder
<1>4. Orders(q \o <<s>>, S \cup {s})
  BY <1>2, <1>3, JoinedOrder
<1> QED BY <1>1, <1>4

LEMMA AnyOrder ==
  ASSUME NEW S, S \subseteq Slugs, NEW q \in SetToSeqs(S)
  PROVE  Orders(q, S)
<1> DEFINE n == Cardinality(S)
<1>1. IsFiniteSet(S)
  BY PurgeAssumption, FS_Subset
<1>2. n \in Nat
  BY <1>1, FS_CardinalityType
<1>3. q \in [1..n -> S] /\ \A i, j \in 1..n : i # j => q[i] # q[j]
  BY DEF SetToSeqs
<1> HIDE DEF n
<1>4. q \in Injection(1..n, S)
  BY <1>3 DEF Injection, IsInjective
<1>5. Cardinality(1..n) = n
  BY <1>2, FS_Interval
<1>6. q \in Surjection(1..n, S)
  BY <1>1, <1>4, <1>5, FS_Injection DEF n
<1>7. \A s \in S : \E i \in 1..n : q[i] = s
  BY <1>6 DEF Surjection
<1>8. q \in Seq(Slugs) /\ Len(q) = n
  BY <1>2, <1>3
<1> QED BY <1>3, <1>7, <1>8, OrderOf

-----------------------------------------------------------------------------
(* The rows of the queue: their counts, their waits and their order.       *)
DueRows == {s \in Slugs : queue[s] # NotQueued /\ wait[s] = 0}

Rows ==
  /\ queue \in [Slugs -> {NotQueued} \cup 0..MaxAttempts]
  /\ wait \in [Slugs -> 0..MaxBackoff]
  /\ \A s \in Slugs : queue[s] = NotQueued => wait[s] = 0
  /\ Orders(due, DueRows)

LEMMA EnqueueRows ==
  ASSUME Rows, NEW s \in Slugs, Enqueue(s)
  PROVE  Rows'
<1>1. queue' \in [Slugs -> {NotQueued} \cup 0..MaxAttempts]
  BY PurgeAssumption DEF Rows, Enqueue
<1>2. wait' \in [Slugs -> 0..MaxBackoff]
  BY PurgeAssumption DEF Rows, Enqueue
<1>3. \A t \in Slugs : queue'[t] = NotQueued => wait'[t] = 0
  BY DEF Rows, Enqueue
<1>4. DueRows' = (DueRows \ {s}) \cup {s}
  BY DEF Rows, Enqueue, DueRows, NotQueued
<1>5. Orders(Without(s), DueRows \ {s})
  BY RemovedOrder DEF Rows
<1>6. Orders(due', (DueRows \ {s}) \cup {s})
  BY <1>5, AppendedOrder DEF Enqueue
<1> QED BY <1>1, <1>2, <1>3, <1>4, <1>6 DEF Rows

LEMMA ClearRows ==
  ASSUME Rows, NEW s \in Slugs, NEW a, MarkPurgeDone(s, a)
  PROVE  Rows'
<1>1. CASE UNCHANGED <<queue, wait, due>>
  BY <1>1 DEF Rows, DueRows
<1>2. CASE /\ queue' = [queue EXCEPT ![s] = NotQueued]
           /\ wait' = [wait EXCEPT ![s] = 0]
           /\ due' = Without(s)
  <2>1. queue' \in [Slugs -> {NotQueued} \cup 0..MaxAttempts]
    BY <1>2 DEF Rows
  <2>2. wait' \in [Slugs -> 0..MaxBackoff]
    BY <1>2, PurgeAssumption DEF Rows
  <2>3. \A t \in Slugs : queue'[t] = NotQueued => wait'[t] = 0
    BY <1>2 DEF Rows
  <2>4. DueRows' = DueRows \ {s}
    BY <1>2 DEF Rows, DueRows
  <2>5. Orders(due', DueRows \ {s})
    BY <1>2, RemovedOrder DEF Rows
  <2> QED BY <2>1, <2>2, <2>3, <2>4, <2>5 DEF Rows
<1> QED BY <1>1, <1>2 DEF MarkPurgeDone

LEMMA BackoffInRange == \A a : BackoffFor(a) \in 1..MaxBackoff
BY PurgeAssumption DEF BackoffFor

LEMMA BackoffRows ==
  ASSUME Rows, NEW s \in Slugs, NEW a \in 0..MaxAttempts, pass.age \in 0..MaxBackoff,
         BackoffPurge(s, a)
  PROVE  Rows'
<1>1. CASE UNCHANGED <<queue, wait, due>>
  BY <1>1 DEF Rows, DueRows
<1>2. CASE /\ queue[s] = a
           /\ queue' = [queue EXCEPT ![s] = IF @ < MaxAttempts THEN @ + 1 ELSE @]
           /\ Reschedule(s, BackoffFor(a))
  <2> DEFINE delay == BackoffFor(a)
             left == IF delay > pass.age THEN delay - pass.age ELSE 0
  <2>1. left \in 0..MaxBackoff
    BY BackoffInRange, PurgeAssumption
  <2>2. wait' = [wait EXCEPT ![s] = left]
    BY <1>2 DEF Reschedule
  <2>3. \/ left > 0 /\ due' = Without(s)
        \/ left = 0 /\ \E j \in 1..(Len(Without(s)) + 1) : due' = InsertAt(Without(s), j, s)
    BY <1>2 DEF Reschedule
  <2> HIDE DEF left, delay
  <2>4. queue' \in [Slugs -> {NotQueued} \cup 0..MaxAttempts]
    <3>1. (IF queue[s] < MaxAttempts THEN queue[s] + 1 ELSE queue[s]) \in 0..MaxAttempts
      BY <1>2, PurgeAssumption
    <3> QED BY <1>2, <3>1 DEF Rows
  <2>5. queue'[s] # NotQueued /\ queue[s] # NotQueued
    BY <1>2, PurgeAssumption DEF Rows, NotQueued
  <2>6. wait' \in [Slugs -> 0..MaxBackoff]
    BY <2>1, <2>2 DEF Rows
  <2>7. \A t \in Slugs : queue'[t] = NotQueued => wait'[t] = 0
    BY <1>2, <2>2, <2>5 DEF Rows
  <2>8. Orders(Without(s), DueRows \ {s})
    BY RemovedOrder DEF Rows
  <2>9. CASE left > 0 /\ due' = Without(s)
    <3>1. DueRows' = DueRows \ {s}
      BY <1>2, <2>1, <2>2, <2>5, <2>9 DEF Rows, DueRows
    <3> QED BY <2>4, <2>6, <2>7, <2>8, <2>9, <3>1 DEF Rows
  <2>10. CASE left = 0 /\ \E j \in 1..(Len(Without(s)) + 1) : due' = InsertAt(Without(s), j, s)
    <3>1. DueRows' = (DueRows \ {s}) \cup {s}
      BY <1>2, <2>2, <2>5, <2>10 DEF Rows, DueRows
    <3>2. Orders(due', (DueRows \ {s}) \cup {s})
      BY <2>8, <2>10, InsertedOrder
    <3> QED BY <2>4, <2>6, <2>7, <3>1, <3>2 DEF Rows
  <2> QED BY <2>3, <2>9, <2>10
<1> QED BY <1>1, <1>2 DEF BackoffPurge

LEMMA TickRows ==
  ASSUME Rows, Tick
  PROVE  Rows'
<1> DEFINE S == {s \in Slugs : wait[s] = 1}
<1>1. PICK order \in SetToSeqs(S) : due' = due \o order
  BY DEF Tick
<1>2. wait' = [s \in Slugs |-> IF wait[s] > 0 THEN wait[s] - 1 ELSE 0] /\ queue' = queue
  BY DEF Tick
<1>3. wait' \in [Slugs -> 0..MaxBackoff]
  BY <1>2, PurgeAssumption DEF Rows
<1>4. \A t \in Slugs : queue'[t] = NotQueued => wait'[t] = 0
  BY <1>2 DEF Rows
<1>5. \A t \in Slugs : wait'[t] = 0 <=> wait[t] \in {0, 1}
  BY <1>2, PurgeAssumption DEF Rows
<1>6. DueRows' = DueRows \cup S
  BY <1>2, <1>5 DEF Rows, DueRows
<1>7. DueRows \cap S = {}
  BY DEF DueRows
<1>8. S \subseteq Slugs
  OBVIOUS
<1> HIDE DEF S
<1>9. Orders(order, S)
  BY <1>8, AnyOrder
<1>10. Orders(due', DueRows \cup S)
  BY <1>1, <1>7, <1>9, JoinedOrder DEF Rows
<1> QED BY <1>2, <1>3, <1>4, <1>6, <1>10 DEF Rows

-----------------------------------------------------------------------------
(* The pass: it claimed each slug once, and of a slug that was written     *)
(* since, the row that is left, if any, starts its count afresh.           *)
Claimed ==
  \A i, j \in DOMAIN pass.todo : pass.todo[i].slug = pass.todo[j].slug => i = j

PassOK ==
  /\ pass \in Pass
  /\ (pass.pc = "idle") <=> (pass.todo = <<>>)
  /\ Claimed

Newer ==
  \A i \in DOMAIN pass.todo :
    pass.todo[i].slug \in pass.since => queue[pass.todo[i].slug] \in {NotQueued, 0}

LEMMA AtATask ==
  ASSUME PassOK, pass.pc # "idle"
  PROVE  /\ pass.todo \in Seq(Task) /\ pass.todo # <<>>
         /\ 1 \in DOMAIN pass.todo /\ Current = pass.todo[1]
         /\ Current.slug \in Slugs /\ Current.attempts \in 0..MaxAttempts
<1>1. pass.todo \in Seq(Task) /\ pass.todo # <<>>
  BY DEF PassOK, Pass
<1>2. 1 \in DOMAIN pass.todo /\ Current = pass.todo[1] /\ pass.todo[1] \in Task
  BY <1>1 DEF Current
<1> QED BY <1>1, <1>2 DEF Task

(* A step within a task: only where the pass is, the time and the slugs    *)
(* written since change.                                                   *)
LEMMA SameTasks ==
  ASSUME PassOK, pass' = [f \in DOMAIN pass |-> pass'[f]], pass'.todo = pass.todo,
         pass'.pc \in {"idle", "purge", "clear", "backoff"},
         pass'.pc = "idle" <=> pass.pc = "idle",
         pass'.age \in 0..MaxBackoff, pass'.waiting = pass.waiting,
         pass'.since \in SUBSET Slugs
  PROVE  PassOK'
<1>1. DOMAIN pass = {"pc", "todo", "age", "waiting", "since"}
  BY DEF PassOK, Pass
<1>2. pass' = [pc |-> pass'.pc, todo |-> pass'.todo, age |-> pass'.age,
               waiting |-> pass'.waiting, since |-> pass'.since]
  BY <1>1
<1>3. pass.todo \in Seq(Task) /\ pass.waiting \in SUBSET Slugs
  BY DEF PassOK, Pass
<1>4. pass' \in Pass
  BY <1>2, <1>3 DEF Pass
<1> QED BY <1>4 DEF PassOK, Claimed

LEMMA IdleIsOK ==
  ASSUME pass' = PassIdle
  PROVE  PassOK' /\ Newer'
<1>1. PassIdle \in Pass
  BY PurgeAssumption DEF PassIdle, Pass
<1>2. PassIdle.pc = "idle" /\ PassIdle.todo = <<>> /\ DOMAIN PassIdle.todo = {}
  BY DEF PassIdle
<1> QED BY <1>1, <1>2 DEF PassOK, Claimed, Newer

(* The pass goes on to its next task, having done with this one.           *)
LEMMA NextTask ==
  ASSUME PassOK, Newer, pass.pc # "idle", pass' = PassAfter,
         \A s \in Slugs \ {Current.slug} : queue'[s] = queue[s]
  PROVE  PassOK' /\ Newer'
<1>1. CASE Len(pass.todo) = 1
  BY <1>1, IdleIsOK DEF PassAfter
<1>2. CASE Len(pass.todo) # 1
  <2> DEFINE n == Len(pass.todo)
             rest == Tail(pass.todo)
  <2>1. pass' = [pass EXCEPT !.pc = "purge", !.todo = Tail(@),
                             !.waiting = @ \ {Current.slug}]
    BY <1>2 DEF PassAfter
  <2>2. pass \in Pass /\ pass.todo \in Seq(Task) /\ pass.todo # <<>>
    BY AtATask DEF PassOK
  <2>3. /\ rest \in Seq(Task) /\ rest # <<>> /\ DOMAIN rest = 1..(n - 1)
        /\ n \in Nat /\ n > 1 /\ DOMAIN pass.todo = 1..n
        /\ \A i \in 1..(n - 1) : rest[i] = pass.todo[i + 1]
    <3>1. n \in Nat /\ n > 1 /\ DOMAIN pass.todo = 1..n
      <4> DEFINE q == pass.todo
      <4>1. q \in Seq(Task) /\ q # <<>> /\ Len(q) # 1
        BY <1>2, <2>2
      <4> HIDE DEF q
      <4>2. Len(q) \in Nat /\ Len(q) > 1 /\ DOMAIN q = 1..Len(q)
        BY <4>1
      <4> QED BY <4>2 DEF q
    <3>2. /\ rest \in Seq(Task) /\ Len(rest) = n - 1
          /\ \A i \in 1..(n - 1) : rest[i] = pass.todo[i + 1]
      BY <2>2
    <3> HIDE DEF rest, n
    <3>3. rest # <<>> /\ DOMAIN rest = 1..(n - 1)
      BY <3>1, <3>2
    <3> QED BY <3>1, <3>2, <3>3
  <2>4. /\ pass'.pc = "purge" /\ pass'.todo = rest /\ pass'.since = pass.since
        /\ pass'.age = pass.age /\ pass'.waiting = pass.waiting \ {Current.slug}
        /\ DOMAIN pass' = DOMAIN pass
    BY <2>1, <2>2 DEF Pass
  <2> HIDE DEF rest, n
  <2>5. pass' \in Pass
    <3>1. DOMAIN pass' = {"pc", "todo", "age", "waiting", "since"}
      BY <2>2, <2>4 DEF Pass
    <3>2. pass' = [pc |-> pass'.pc, todo |-> pass'.todo, age |-> pass'.age,
                   waiting |-> pass'.waiting, since |-> pass'.since]
      <4>1. pass' = [f \in DOMAIN pass' |-> pass'[f]]
        BY <2>1
      <4> QED BY <3>1, <4>1
    <3>3. pass.age \in 0..MaxBackoff /\ pass.waiting \in SUBSET Slugs
          /\ pass.since \in SUBSET Slugs
      BY <2>2 DEF Pass
    <3> QED BY <2>3, <2>4, <3>2, <3>3 DEF Pass
  <2>6. ASSUME NEW i \in DOMAIN rest, NEW j \in DOMAIN rest, rest[i].slug = rest[j].slug
        PROVE  i = j
    <3>1. i + 1 \in DOMAIN pass.todo /\ j + 1 \in DOMAIN pass.todo
      BY <2>3
    <3>2. pass.todo[i + 1].slug = pass.todo[j + 1].slug
      BY <2>3, <2>6
    <3>3. i + 1 = j + 1
      BY <3>1, <3>2 DEF PassOK, Claimed
    <3> QED BY <2>3, <3>3
  <2>7. ASSUME NEW i \in DOMAIN rest, rest[i].slug \in pass.since
        PROVE  queue'[rest[i].slug] \in {NotQueued, 0}
    <3>1. i + 1 \in DOMAIN pass.todo /\ i + 1 # 1 /\ rest[i] = pass.todo[i + 1]
      BY <2>3
    <3>2. rest[i].slug # Current.slug
      BY <3>1, AtATask DEF PassOK, Claimed
    <3>3. rest[i].slug \in Slugs
      <4>1. rest[i] \in Task
        BY <2>3
      <4> QED BY <4>1 DEF Task
    <3>4. queue[rest[i].slug] \in {NotQueued, 0}
      BY <2>7, <3>1 DEF Newer
    <3> QED BY <3>2, <3>3, <3>4
  <2>8. PassOK'
    BY <2>3, <2>4, <2>5, <2>6 DEF PassOK, Claimed
  <2>9. Newer'
    BY <2>4, <2>7 DEF Newer
  <2> QED BY <2>8, <2>9
<1> QED BY <1>1, <1>2

LEMMA ClaimsAreApart ==
  ASSUME Rows, DrainClaims
  PROVE  PassOK' /\ Newer'
<1> DEFINE n == IF Len(due) < BatchSize THEN Len(due) ELSE BatchSize
           todo == [j \in 1..n |-> [slug |-> due[j], attempts |-> queue[due[j]]]]
<1>1. pass' = [pc |-> "purge", todo |-> todo, age |-> 0,
               waiting |-> ToSet(due), since |-> {}]
  BY DEF DrainClaims
<1>2. due \in Seq(Slugs) /\ due # <<>> /\ ToSet(due) = DueRows
  BY DEF DrainClaims, Rows, Orders
<1>3. n \in Nat /\ n >= 1 /\ n <= Len(due)
  BY <1>2, PurgeAssumption
<1> HIDE DEF n
<1>4. ASSUME NEW j \in 1..n
      PROVE  [slug |-> due[j], attempts |-> queue[due[j]]] \in Task
  <2>1. j \in 1..Len(due) /\ due[j] \in Slugs /\ due[j] \in ToSet(due)
    BY <1>2, <1>3 DEF ToSet
  <2>2. queue[due[j]] \in 0..MaxAttempts
    BY <1>2, <2>1 DEF DueRows, Rows
  <2> QED BY <2>1, <2>2 DEF Task
<1>5. todo \in Seq(Task) /\ todo # <<>> /\ DOMAIN todo = 1..n
  <2>1. todo \in [1..n -> Task]
    BY <1>4
  <2>2. todo \in Seq(Task) /\ Len(todo) = n
    <3> HIDE DEF todo
    <3> QED BY <1>3, <2>1
  <2> QED BY <1>3, <2>2
<1>6. ASSUME NEW i \in 1..n, NEW j \in 1..n, todo[i].slug = todo[j].slug
      PROVE  i = j
  <2>1. due[i] = due[j] /\ i \in 1..Len(due) /\ j \in 1..Len(due)
    BY <1>2, <1>3, <1>6
  <2> QED BY <1>2, <2>1, OrderOf DEF Rows
<1> HIDE DEF todo
<1>7. ToSet(due) \in SUBSET Slugs
  BY <1>2 DEF DueRows
<1>8. pass' \in Pass
  BY <1>1, <1>5, <1>7, PurgeAssumption DEF Pass
<1>9. pass'.pc = "purge" /\ pass'.todo = todo /\ pass'.since = {}
  BY <1>1
<1> QED BY <1>5, <1>6, <1>8, <1>9 DEF PassOK, Claimed, Newer

-----------------------------------------------------------------------------
(* The rest of the types: what the edge holds, and the counts.             *)
Pages ==
  /\ edge \in [Slugs -> {"none", "fresh", "stale", "late"}]
  /\ fill \in [Slugs -> {"none", "fresh", "stale"}]
  /\ fenceGap \in [Slugs -> BOOLEAN]
  /\ writes \in 0..MaxWrites

QInv == Rows /\ PassOK /\ Newer /\ Pages

LEMMA QInvTypes ==
  ASSUME QInv, IInv
  PROVE  TypeOK
<1>1. due \in Seq(Slugs) /\ IsInjective(due) /\ ToSet(due) = DueRows
  BY DEF QInv, Rows, Orders
<1>2. inline \in [Inlines -> Attempt \cup {Idle}]
  BY DEF IInv, Shapes
<1> QED BY <1>1, <1>2 DEF QInv, Rows, DueRows, PassOK, Pages, TypeOK

LEMMA PagesPurged ==
  ASSUME Pages, NEW s, PurgePrefixes(s) \/ UNCHANGED <<edge, fenceGap>>,
         UNCHANGED <<fill, writes>>
  PROVE  Pages'
BY DEF PurgePrefixes, Pages

LEMMA SameRows ==
  ASSUME Rows, UNCHANGED <<queue, wait, due>>
  PROVE  Rows'
BY DEF Rows, DueRows

LEMMA SamePass ==
  ASSUME PassOK, Newer, UNCHANGED <<queue, pass>>
  PROVE  PassOK' /\ Newer'
BY DEF PassOK, Claimed, Newer

(* A step within a task that writes no row.                                *)
LEMMA PassMoves ==
  ASSUME PassOK, Newer, UNCHANGED queue, pass.pc # "idle",
         \E pc \in {"clear", "backoff"} : pass' = [pass EXCEPT !.pc = pc]
  PROVE  PassOK' /\ Newer'
<1>1. DOMAIN pass = {"pc", "todo", "age", "waiting", "since"} /\ pass.age \in 0..MaxBackoff
      /\ pass.since \in SUBSET Slugs
  BY DEF PassOK, Pass
<1>2. /\ pass' = [f \in DOMAIN pass |-> pass'[f]]
      /\ pass'.pc \in {"clear", "backoff"} /\ pass'.todo = pass.todo
      /\ pass'.age = pass.age /\ pass'.waiting = pass.waiting /\ pass'.since = pass.since
  BY <1>1
<1>3. PassOK'
  BY <1>1, <1>2, SameTasks
<1>4. Newer'
  BY <1>2 DEF Newer
<1> QED BY <1>3, <1>4

LEMMA WriteTypes ==
  ASSUME QInv, NEW s \in Slugs, Write(s)
  PROVE  QInv'
<1>1. Rows'
  BY EnqueueRows DEF QInv, Write
<1>2. /\ queue' = [queue EXCEPT ![s] = 0]
      /\ pass' = [pass EXCEPT !.since = IF pass.pc = "idle" THEN {} ELSE @ \cup {s}]
  BY DEF Write, Enqueue
<1>3. DOMAIN pass = {"pc", "todo", "age", "waiting", "since"} /\ pass.age \in 0..MaxBackoff
      /\ pass.since \in SUBSET Slugs /\ pass.pc \in {"idle", "purge", "clear", "backoff"}
      /\ pass.todo \in Seq(Task)
  BY DEF QInv, PassOK, Pass
<1>4. /\ pass' = [f \in DOMAIN pass |-> pass'[f]]
      /\ pass'.pc = pass.pc /\ pass'.todo = pass.todo
      /\ pass'.age = pass.age /\ pass'.waiting = pass.waiting
      /\ pass'.since \subseteq pass.since \cup {s}
  BY <1>2, <1>3
<1>5. PassOK'
  BY <1>3, <1>4, SameTasks DEF QInv
<1>6. Newer'
  <2>1. ASSUME NEW i \in DOMAIN pass.todo, pass.todo[i].slug \in pass.since \cup {s}
        PROVE  queue'[pass.todo[i].slug] \in {NotQueued, 0}
    <3>1. queue[pass.todo[i].slug] \in {NotQueued, 0} \/ pass.todo[i].slug = s
      BY <2>1 DEF QInv, Newer
    <3> QED BY <1>2, <3>1 DEF QInv, Rows
  <2> QED BY <1>4, <2>1 DEF Newer
<1>7. Pages'
  <2>1. \A p \in {"none", "fresh", "stale", "late"} : Aged(p) \in {"none", "stale"}
    BY DEF Aged
  <2>2. edge' \in [Slugs -> {"none", "fresh", "stale", "late"}]
        /\ fill' \in [Slugs -> {"none", "fresh", "stale"}]
    <3>1. CASE UNCHANGED <<edge, fill>>
      BY <3>1 DEF QInv, Pages
    <3>2. CASE edge' = [edge EXCEPT ![s] = Aged(@)] /\ fill' = [fill EXCEPT ![s] = Aged(@)]
      BY <2>1, <3>2 DEF QInv, Pages
    <3> QED BY <3>1, <3>2 DEF Write
  <2>3. writes' \in 0..MaxWrites
    BY PurgeAssumption DEF QInv, Pages, Write
  <2>4. fenceGap' \in [Slugs -> BOOLEAN]
    BY DEF QInv, Pages, Write
  <2> QED BY <2>2, <2>3, <2>4 DEF Pages
<1> QED BY <1>1, <1>5, <1>6, <1>7 DEF QInv

LEMMA ClearedQueue ==
  ASSUME Rows, NEW s \in Slugs, NEW a, MarkPurgeDone(s, a)
  PROVE  \A t \in Slugs : queue'[t] = queue[t] \/ (t = s /\ queue'[t] = NotQueued)
<1>1. CASE UNCHANGED queue
  BY <1>1
<1>2. CASE queue' = [queue EXCEPT ![s] = NotQueued]
  BY <1>2 DEF Rows
<1> QED BY <1>1, <1>2 DEF MarkPurgeDone

LEMMA InlineTypes ==
  ASSUME QInv, IInv, NEW i \in Inlines,
         InlinePurges(i) \/ InlineClears(i) \/ InlineIsLost(i)
  PROVE  QInv'
<1>1. CASE InlineClears(i)
  <2> DEFINE s == inline[i].slug
  <2>1. inline[i] \in Attempt
    BY <1>1 DEF InlineClears, IInv, Shapes, Idle
  <2>2. s \in Slugs
    BY <2>1 DEF Attempt
  <2>3. MarkPurgeDone(s, 0) /\ UNCHANGED <<pass, edge, writes, fill, fenceGap>>
    BY <1>1 DEF InlineClears
  <2> HIDE DEF s
  <2>4. Rows'
    BY <2>2, <2>3, ClearRows DEF QInv
  <2>5. PassOK'
    BY <2>3 DEF QInv, PassOK, Claimed
  <2>6. Newer'
    <3>1. ASSUME NEW j \in DOMAIN pass.todo, pass.todo[j].slug \in pass.since
          PROVE  queue'[pass.todo[j].slug] \in {NotQueued, 0}
      <4>1. pass.todo[j].slug \in Slugs
        BY <3>1 DEF QInv, PassOK, Pass
      <4>2. queue[pass.todo[j].slug] \in {NotQueued, 0}
        BY <3>1 DEF QInv, Newer
      <4> QED BY <2>2, <2>3, <4>1, <4>2, ClearedQueue DEF QInv
    <3> QED BY <2>3, <3>1 DEF Newer
  <2>7. Pages'
    BY <2>3 DEF QInv, Pages
  <2> QED BY <2>4, <2>5, <2>6, <2>7 DEF QInv
<1>2. CASE InlinePurges(i) \/ InlineIsLost(i)
  <2>1. /\ PurgePrefixes(inline[i].slug) \/ UNCHANGED <<edge, fenceGap>>
        /\ UNCHANGED <<queue, wait, due, pass, writes, fill>>
    BY <1>2 DEF InlinePurges, InlineIsLost, PurgePrefixesFails
  <2> QED BY <2>1, SameRows, SamePass, PagesPurged DEF QInv
<1> QED BY <1>1, <1>2

LEMMA DrainTypes ==
  ASSUME QInv,
         \/ \E s \in Slugs : DrainPurges(s)
         \/ DrainClaims \/ DrainPurgeFails \/ DrainClears \/ DrainClearFails
         \/ DrainBacksOff \/ DrainBackoffFails \/ JobsCrash
  PROVE  QInv'
<1>1. CASE DrainClaims
  <2>1. UNCHANGED <<queue, wait, due, edge, writes, fill, fenceGap>>
    BY <1>1 DEF DrainClaims
  <2> QED BY <1>1, <2>1, ClaimsAreApart, SameRows DEF QInv, Pages
<1>2. CASE (\E s \in Slugs : DrainPurges(s)) \/ DrainPurgeFails
  <2>1. /\ PurgePrefixes(Current.slug) \/ UNCHANGED <<edge, fenceGap>>
        /\ UNCHANGED <<queue, wait, due, writes, fill>>
        /\ pass.pc # "idle" /\ \E pc \in {"clear", "backoff"} : pass' = [pass EXCEPT !.pc = pc]
    BY <1>2 DEF DrainPurges, DrainPurgeFails, PurgePrefixesFails
  <2> QED BY <2>1, SameRows, PassMoves, PagesPurged DEF QInv
<1>3. CASE DrainClearFails
  <2>1. /\ UNCHANGED <<queue, wait, due, edge, writes, fill, fenceGap>>
        /\ pass.pc # "idle" /\ \E pc \in {"clear", "backoff"} : pass' = [pass EXCEPT !.pc = pc]
    BY <1>3 DEF DrainClearFails
  <2> QED BY <2>1, SameRows, PassMoves DEF QInv, Pages
<1>4. CASE DrainClears
  <2>1. /\ MarkPurgeDone(Current.slug, Current.attempts) /\ pass' = PassAfter
        /\ UNCHANGED <<edge, writes, fill, fenceGap>> /\ pass.pc # "idle"
    BY <1>4 DEF DrainClears
  <2>2. Current.slug \in Slugs
    BY <2>1, AtATask DEF QInv
  <2>3. \A t \in Slugs \ {Current.slug} : queue'[t] = queue[t]
    BY <2>1, <2>2, ClearedQueue DEF QInv
  <2> QED BY <2>1, <2>2, <2>3, ClearRows, NextTask DEF QInv, Pages
<1>5. CASE DrainBacksOff
  <2>1. /\ BackoffPurge(Current.slug, Current.attempts) /\ pass' = PassAfter
        /\ UNCHANGED <<edge, writes, fill, fenceGap>> /\ pass.pc # "idle"
    BY <1>5 DEF DrainBacksOff
  <2>2. /\ Current.slug \in Slugs /\ Current.attempts \in 0..MaxAttempts
        /\ pass.age \in 0..MaxBackoff
    BY <2>1, AtATask DEF QInv, PassOK, Pass
  <2>3. \A t \in Slugs \ {Current.slug} : queue'[t] = queue[t]
    BY <2>1, <2>2 DEF BackoffPurge, QInv, Rows
  <2> QED BY <2>1, <2>2, <2>3, BackoffRows, NextTask DEF QInv, Pages
<1>6. CASE DrainBackoffFails
  <2>1. UNCHANGED <<queue, wait, due, edge, writes, fill, fenceGap>> /\ pass' = PassAfter
        /\ pass.pc # "idle"
    BY <1>6 DEF DrainBackoffFails
  <2> QED BY <2>1, SameRows, NextTask DEF QInv, Pages
<1>7. CASE JobsCrash
  <2>1. UNCHANGED <<queue, wait, due, edge, writes, fill, fenceGap>> /\ pass' = PassIdle
    BY <1>7 DEF JobsCrash
  <2> QED BY <2>1, SameRows, IdleIsOK DEF QInv, Pages
<1> QED BY <1>1, <1>2, <1>3, <1>4, <1>5, <1>6, <1>7

LEMMA TickTypes ==
  ASSUME QInv, Tick
  PROVE  QInv'
<1>1. Rows'
  BY TickRows DEF QInv
<1>2. /\ UNCHANGED <<queue, edge, writes, fill, fenceGap>>
      /\ pass' = [pass EXCEPT !.age =
                    IF pass.pc # "idle" /\ @ < MaxBackoff THEN @ + 1 ELSE @]
  BY DEF Tick
<1>3. DOMAIN pass = {"pc", "todo", "age", "waiting", "since"} /\ pass.age \in 0..MaxBackoff
      /\ pass.since \in SUBSET Slugs /\ pass.pc \in {"idle", "purge", "clear", "backoff"}
  BY DEF QInv, PassOK, Pass
<1>4. /\ pass' = [f \in DOMAIN pass |-> pass'[f]]
      /\ pass'.pc = pass.pc /\ pass'.todo = pass.todo
      /\ pass'.waiting = pass.waiting /\ pass'.since = pass.since
  BY <1>2, <1>3
<1>5. pass'.age \in 0..MaxBackoff
  BY <1>2, <1>3, PurgeAssumption
<1>6. PassOK'
  BY <1>3, <1>4, <1>5, SameTasks DEF QInv
<1>7. Newer'
  BY <1>2, <1>4 DEF QInv, Newer
<1> QED BY <1>1, <1>2, <1>6, <1>7 DEF QInv, Pages

LEMMA EdgeTypes ==
  ASSUME QInv, NEW s \in Slugs,
         EdgeReads(s) \/ EdgeFills(s) \/ EdgeExpires(s) \/ PurgeSoonUnqueued(s)
  PROVE  QInv'
<1>1. UNCHANGED <<queue, wait, due, pass, writes>>
  BY DEF EdgeReads, EdgeFills, EdgeExpires, PurgeSoonUnqueued
<1>2. Pages'
  BY DEF EdgeReads, EdgeFills, EdgeExpires, PurgeSoonUnqueued, QInv, Pages
<1> QED BY <1>1, <1>2, SameRows, SamePass DEF QInv

LEMMA InitTypes == Init => QInv
<1> SUFFICES ASSUME Init
             PROVE  QInv
  OBVIOUS
<1>1. Orders(<<>>, {})
  BY DEF Orders, IsInjective, ToSet
<1>2. DueRows = {}
  BY DEF Init, DueRows
<1>3. Rows
  BY <1>1, <1>2, PurgeAssumption DEF Init, Rows
<1>4. PassIdle \in Pass
  BY PurgeAssumption DEF PassIdle, Pass
<1>5. PassOK /\ Newer
  BY <1>4 DEF Init, PassOK, Newer, Claimed, PassIdle
<1>6. Pages
  BY PurgeAssumption DEF Init, Pages
<1> QED BY <1>3, <1>5, <1>6 DEF QInv

LEMMA StepTypes == IInv /\ QInv /\ [Next]_vars => QInv'
<1> SUFFICES ASSUME IInv, QInv, [Next]_vars
             PROVE  QInv'
  OBVIOUS
<1>1. ASSUME NEW s \in Slugs, Write(s) PROVE QInv'
  BY <1>1, WriteTypes
<1>2. ASSUME NEW s \in Slugs,
             EdgeReads(s) \/ EdgeFills(s) \/ EdgeExpires(s) \/ PurgeSoonUnqueued(s)
      PROVE  QInv'
  BY <1>2, EdgeTypes
<1>3. ASSUME NEW i \in Inlines, InlinePurges(i) \/ InlineClears(i) \/ InlineIsLost(i)
      PROVE  QInv'
  BY <1>3, InlineTypes
<1>4. ASSUME \/ \E s \in Slugs : DrainPurges(s)
             \/ DrainClaims \/ DrainPurgeFails \/ DrainClears \/ DrainClearFails
             \/ DrainBacksOff \/ DrainBackoffFails \/ JobsCrash
      PROVE  QInv'
  BY <1>4, DrainTypes
<1>5. ASSUME Tick PROVE QInv'
  BY <1>5, TickTypes
<1>6. ASSUME UNCHANGED vars PROVE QInv'
  <2>1. UNCHANGED <<queue, wait, due, pass, edge, writes, fill, fenceGap>>
    BY <1>6 DEF vars
  <2> QED BY <2>1, SameRows, SamePass DEF QInv, Pages
<1> QED BY <1>1, <1>2, <1>3, <1>4, <1>5, <1>6 DEF Next

LEMMA Invariant == Spec => [](IInv /\ QInv)
BY InitHolds, StepHolds, InitTypes, StepTypes, PTL DEF Spec

(* The queue and the pass are well typed: every due row is in the order    *)
(* once, and no wait is longer than the ceiling of the backoff.            *)
THEOREM TypeCorrect == Spec => []TypeOK
<1>1. IInv /\ QInv => TypeOK
  BY QInvTypes
<1> QED BY <1>1, Invariant, PTL

(* A backoff of a claim that had been retried does not put off the purge   *)
(* of a write that came since.                                             *)
THEOREM RetriesSpareWrites == Spec => RetriedClaimSparesWrite
<1> DEFINE Spares ==
      \A s \in Slugs :
        (pass.pc = "backoff" /\ Current.slug = s /\ Current.attempts > 0
           /\ s \in pass.since)
          => ~Delayed(s)
<1>1. ASSUME IInv, QInv, [Next]_vars
      PROVE  Spares
  <2> SUFFICES ASSUME NEW s \in Slugs, pass.pc = "backoff", Current.slug = s,
                      Current.attempts > 0, s \in pass.since, Delayed(s)
               PROVE  FALSE
    OBVIOUS
  <2>1. queue'[s] # NotQueued /\ wait'[s] > wait[s]
    BY DEF Delayed
  <2>2. DOMAIN wait = Slugs /\ \A t \in Slugs : wait[t] \in Nat
    <3>1. \A n \in 0..MaxBackoff : n \in Nat
      BY PurgeAssumption
    <3> QED BY <1>1, <3>1 DEF QInv, Rows
  <2>3. queue[s] \in {NotQueued, 0}
    <3>1. 1 \in DOMAIN pass.todo /\ pass.todo[1].slug = s
      BY <1>1, AtATask DEF QInv
    <3> QED BY <1>1, <3>1 DEF QInv, Newer
  <2>4. CASE DrainBacksOff
    <3>1. BackoffPurge(s, Current.attempts)
      BY <2>4 DEF DrainBacksOff
    <3>2. queue[s] # Current.attempts
      <4>1. NotQueued < 0
        BY DEF NotQueued
      <4>2. Current.attempts \in 0..MaxAttempts
        BY <1>1, AtATask DEF QInv
      <4> QED BY <2>3, <4>1, <4>2 DEF NotQueued
    <3>3. wait' = wait
      BY <3>1, <3>2 DEF BackoffPurge
    <3> QED BY <2>1, <2>2, <3>3
  <2>5. ASSUME NEW t \in Slugs, wait' = [wait EXCEPT ![t] = 0]
        PROVE  FALSE
    BY <2>1, <2>2, <2>5
  <2>6. CASE UNCHANGED wait
    BY <2>1, <2>2, <2>6
  <2>7. CASE DrainClears
    <3>1. UNCHANGED wait \/ wait' = [wait EXCEPT ![s] = 0]
      BY <2>7 DEF DrainClears, MarkPurgeDone
    <3> QED BY <2>5, <2>6, <3>1
  <2>8. ASSUME NEW i \in Inlines, InlineClears(i)
        PROVE  FALSE
    <3>1. UNCHANGED wait \/ wait' = [wait EXCEPT ![inline[i].slug] = 0]
      BY <2>8 DEF InlineClears, MarkPurgeDone
    <3>2. inline[i].slug \in Slugs
      <4>1. inline[i] \in Attempt
        BY <1>1, <2>8 DEF InlineClears, IInv, Shapes, Idle
      <4> QED BY <4>1 DEF Attempt
    <3> QED BY <2>5, <2>6, <3>1, <3>2
  <2>9. CASE Tick
    <3>1. wait'[s] = IF wait[s] > 0 THEN wait[s] - 1 ELSE 0
      BY <2>9 DEF Tick
    <3> QED BY <2>1, <2>2, <3>1
  <2>10. ASSUME NEW t \in Slugs, Write(t)
         PROVE  FALSE
    BY <2>5, <2>10 DEF Write, Enqueue
  <2>11. CASE UNCHANGED vars
    BY <2>6, <2>11 DEF vars
  <2>12. ASSUME \/ \E t \in Slugs : \/ PurgeSoonUnqueued(t) \/ DrainPurges(t)
                                    \/ EdgeReads(t) \/ EdgeFills(t) \/ EdgeExpires(t)
                \/ \E i \in Inlines : InlinePurges(i) \/ InlineIsLost(i)
                \/ DrainClaims \/ DrainPurgeFails \/ DrainClearFails
                \/ DrainBackoffFails \/ JobsCrash
         PROVE  FALSE
    <3>1. UNCHANGED wait
      BY <2>12 DEF PurgeSoonUnqueued, DrainPurges, EdgeReads, EdgeFills, EdgeExpires,
             InlinePurges, InlineIsLost, DrainClaims, DrainPurgeFails,
             DrainClearFails, DrainBackoffFails, JobsCrash
    <3> QED BY <2>6, <3>1
  <2>13. CASE Next
    BY <2>4, <2>7, <2>8, <2>9, <2>10, <2>12, <2>13 DEF Next
  <2> QED BY <1>1, <2>11, <2>13
<1> QED BY <1>1, Invariant, PTL DEF Spec, RetriedClaimSparesWrite
=============================================================================
