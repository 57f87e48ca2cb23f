------------------------------ MODULE PurgeQueue ------------------------------
(***************************************************************************)
(* CDN invalidation: the purge_queue table, the best-effort purge that     *)
(* follows a write (AttemptInline) and the drain pass of the jobs process, *)
(* over an edge cache that fills and expires on its own.                   *)
(*                                                                         *)
(* A step is one statement on the queue or one call to the CDN.  Instants  *)
(* are relative: a row keeps the time left until next_attempt_at, and the  *)
(* rows already due are kept in next_attempt_at order.                     *)
(***************************************************************************)
EXTENDS Integers, SequencesExt

CONSTANTS
  Slugs,        \* documents
  Inlines,      \* inline attempts the web tier can have in flight
  BatchSize,    \* Service.BatchSize, slugs per drain pass
  BaseBackoff,  \* Service.BaseBackoff
  MaxBackoff,   \* Service.MaxBackoff
  MaxAttempts,  \* bound: attempts are not told apart past it (see BackOff)
  MaxWrites,    \* bound: committed writes
  Accepted      \* slugs whose purges the CDN does not refuse for ever

ASSUME PurgeAssumption ==
  /\ BatchSize \in Nat \ {0} /\ BaseBackoff \in Nat \ {0}
  /\ MaxBackoff \in Nat \ {0} /\ MaxAttempts \in Nat \ {0}
  /\ MaxWrites \in Nat /\ Accepted \subseteq Slugs
  /\ IsFiniteSet(Slugs)

(* Past MaxAttempts the wait has reached its ceiling.                      *)
ASSUME MaxAttemptsAssumption == BaseBackoff * 2^MaxAttempts >= MaxBackoff

VARIABLES
  queue,   \* purge_queue.attempts of each slug, or NotQueued
  wait,    \* time left until next_attempt_at
  due,     \* the rows whose next attempt is due, in next_attempt_at order
  inline,  \* inline attempts in flight
  pass,    \* the drain pass
  edge,    \* what the edge holds for the slug
  writes,  \* committed writes so far
  fill,    \* the origin's answer to a read of the edge, on its way back
  fenceGap \* history: the last write fell where the fence cannot see it

vars == <<queue, wait, due, inline, pass, edge, writes, fill, fenceGap>>

NotQueued == -1
Idle == [pc |-> "idle"]

Attempt == [pc : {"purge", "clear"}, slug : Slugs]
Task    == [slug : Slugs, attempts : 0..MaxAttempts]

(* age is the time since Drain read its clock, waiting the rows that were  *)
(* due then and have not moved since, since the slugs written since.       *)
Pass == [pc : {"idle", "purge", "clear", "backoff"},
         todo : Seq(Task), age : 0..MaxBackoff,
         waiting : SUBSET Slugs, since : SUBSET Slugs]

PassIdle == [pc |-> "idle", todo |-> <<>>, age |-> 0,
             waiting |-> {}, since |-> {}]

TypeOK ==
  /\ queue \in [Slugs -> {NotQueued} \cup 0..MaxAttempts]
  /\ wait \in [Slugs -> 0..MaxBackoff]
  /\ due \in Seq(Slugs)
  /\ IsInjective(due)
  /\ ToSet(due) = {s \in Slugs : queue[s] # NotQueued /\ wait[s] = 0}
  /\ inline \in [Inlines -> Attempt \cup {Idle}]
  /\ pass \in Pass
  /\ (pass.pc = "idle") <=> (pass.todo = <<>>)
  /\ edge \in [Slugs -> {"none", "fresh", "stale", "late"}]
  /\ writes \in 0..MaxWrites
  /\ fill \in [Slugs -> {"none", "fresh", "stale"}]
  /\ fenceGap \in [Slugs -> BOOLEAN]

Init ==
  /\ queue = [s \in Slugs |-> NotQueued]
  /\ wait = [s \in Slugs |-> 0]
  /\ due = <<>>
  /\ inline = [i \in Inlines |-> Idle]
  /\ pass = PassIdle
  /\ edge = [s \in Slugs |-> "none"]
  /\ writes = 0
  /\ fill = [s \in Slugs |-> "none"]
  /\ fenceGap = [s \in Slugs |-> FALSE]

-----------------------------------------------------------------------------
(* The due rows but that of s.                                             *)
Without(s) ==
  IF s \in ToSet(due) THEN RemoveAt(due, CHOOSE j \in DOMAIN due : due[j] = s)
  ELSE due

(* EnqueuePurge: one row per slug, due now, its attempts reset.            *)
Enqueue(s) ==
  /\ queue' = [queue EXCEPT ![s] = 0]
  /\ wait' = [wait EXCEPT ![s] = 0]
  /\ due' = Append(Without(s), s)

(* A purge of s has returned from the CDN and is about to clear a row with *)
(* no attempts: it cannot tell the row of a write that lands now from the  *)
(* one it purged for.                                                      *)
Unfenced(s) ==
  \/ \E i \in Inlines : inline[i] = [pc |-> "clear", slug |-> s]
  \/ pass.pc = "clear" /\ Head(pass.todo).slug = s /\ Head(pass.todo).attempts = 0

(* purgeSoon: AttemptInline starts in the background.                      *)
AttemptInline(s) ==
  \E i \in Inlines :
    /\ inline[i] = Idle
    /\ inline' = [inline EXCEPT ![i] = [pc |-> "purge", slug |-> s]]

(* What a write makes of a page the edge holds or is about to hold.        *)
Aged(page) == IF page = "none" THEN "none" ELSE "stale"

(* A write commits with its row in the queue, and purgeSoon runs unless    *)
(* the process dies first.  A commit that finds its row published already  *)
(* enqueues all the same and changes no page.                              *)
Write(s) ==
  /\ writes < MaxWrites
  /\ writes' = writes + 1
  /\ Enqueue(s)
  /\ \/ /\ edge' = [edge EXCEPT ![s] = Aged(@)]
        /\ fill' = [fill EXCEPT ![s] = Aged(@)]
     \/ UNCHANGED <<edge, fill>>
  /\ fenceGap' = [fenceGap EXCEPT ![s] = edge'[s] = "stale" /\ Unfenced(s)]
  /\ pass' = [pass EXCEPT !.since =
                IF pass.pc = "idle" THEN {} ELSE @ \cup {s}]
  /\ AttemptInline(s) \/ UNCHANGED inline

(* An update that lost its race to an identical one runs purgeSoon without *)
(* having enqueued anything itself.                                        *)
PurgeSoonUnqueued(s) ==
  /\ writes > 0
  /\ AttemptInline(s)
  /\ UNCHANGED <<queue, wait, due, pass, edge, writes, fill, fenceGap>>

(* PurgePrefixes: the edge drops the slug's pages.                         *)
PurgePrefixes(s) ==
  /\ edge' = [edge EXCEPT ![s] = "none"]
  /\ fenceGap' = [fenceGap EXCEPT ![s] = FALSE]

(* PurgePrefixes answers an error, before or after it took effect.         *)
PurgePrefixesFails(s) ==
  PurgePrefixes(s) \/ UNCHANGED <<edge, fenceGap>>

(* Mutant: DELETE ... WHERE slug = $1, without the attempts.               *)
MarkPurgeDoneUnfenced(s, attempts) ==
  /\ queue' = [queue EXCEPT ![s] = NotQueued]
  /\ wait' = [wait EXCEPT ![s] = 0]
  /\ due' = Without(s)

(* MarkPurgeDone: DELETE ... WHERE slug = $1 AND attempts = $2.            *)
MarkPurgeDone(s, attempts) ==
  IF queue[s] = attempts
  THEN /\ queue' = [queue EXCEPT ![s] = NotQueued]
       /\ wait' = [wait EXCEPT ![s] = 0]
       /\ due' = Without(s)
  ELSE UNCHANGED <<queue, wait, due>>

-----------------------------------------------------------------------------
(* AttemptInline: Purge, fenced by attempts 0.                             *)
InlinePurges(i) ==
  /\ inline[i].pc = "purge"
  /\ PurgePrefixes(inline[i].slug)
  /\ inline' = [inline EXCEPT ![i].pc = "clear"]
  /\ UNCHANGED <<queue, wait, due, pass, writes, fill>>

InlineClears(i) ==
  /\ inline[i].pc = "clear"
  /\ MarkPurgeDone(inline[i].slug, 0)
  /\ inline' = [inline EXCEPT ![i] = Idle]
  /\ UNCHANGED <<pass, edge, writes, fill, fenceGap>>

(* The attempt fails, runs into inlineTimeout or dies with its process.    *)
InlineIsLost(i) ==
  /\ inline[i] # Idle
  /\ \/ inline[i].pc = "purge" /\ PurgePrefixesFails(inline[i].slug)
     \/ inline[i].pc = "clear" /\ UNCHANGED <<edge, fenceGap>>
  /\ inline' = [inline EXCEPT ![i] = Idle]
  /\ UNCHANGED <<queue, wait, due, pass, writes, fill>>

-----------------------------------------------------------------------------
(* Drain: ClaimPurgeDue reads the soonest due rows and leases none.        *)
DrainClaims ==
  /\ pass.pc = "idle"
  /\ due # <<>>
  /\ LET n == IF Len(due) < BatchSize THEN Len(due) ELSE BatchSize IN
     pass' = [pc |-> "purge",
              todo |-> [j \in 1..n |->
                          [slug |-> due[j], attempts |-> queue[due[j]]]],
              age |-> 0, waiting |-> ToSet(due), since |-> {}]
  /\ UNCHANGED <<queue, wait, due, inline, edge, writes, fill, fenceGap>>

(* The task the pass is at, and the pass when it is through with it.       *)
Current == Head(pass.todo)
PassAfter ==
  IF Len(pass.todo) = 1 THEN PassIdle
  ELSE [pass EXCEPT !.pc = "purge", !.todo = Tail(@),
                    !.waiting = @ \ {Current.slug}]

DrainPurges(s) ==
  /\ pass.pc = "purge" /\ Current.slug = s
  /\ PurgePrefixes(s)
  /\ pass' = [pass EXCEPT !.pc = "clear"]
  /\ UNCHANGED <<queue, wait, due, inline, writes, fill>>

DrainPurgeFails ==
  /\ pass.pc = "purge"
  /\ PurgePrefixesFails(Current.slug)
  /\ pass' = [pass EXCEPT !.pc = "backoff"]
  /\ UNCHANGED <<queue, wait, due, inline, writes, fill>>

DrainClears ==
  /\ pass.pc = "clear"
  /\ MarkPurgeDone(Current.slug, Current.attempts)
  /\ pass' = PassAfter
  /\ UNCHANGED <<inline, edge, writes, fill, fenceGap>>

(* A clear that fails makes the purge a failed one.                        *)
DrainClearFails ==
  /\ pass.pc = "clear"
  /\ pass' = [pass EXCEPT !.pc = "backoff"]
  /\ UNCHANGED <<queue, wait, due, inline, edge, writes, fill, fenceGap>>

(* backoffFor: the base, doubled once per attempt until it reaches the     *)
(* ceiling.                                                                *)
Doubled[attempts \in Nat] ==
  IF attempts = 0 THEN BaseBackoff
  ELSE LET delay == Doubled[attempts - 1] IN
       IF delay < MaxBackoff THEN 2 * delay ELSE delay

(* Mutant: the doubling without its ceiling.                               *)
UncappedBackoff(attempts) == BaseBackoff * 2^attempts

BackoffFor(attempts) ==
  IF Doubled[attempts] \in 1..MaxBackoff THEN Doubled[attempts] ELSE MaxBackoff

(* next_attempt_at is counted from the pass's clock, so a slow pass backs  *)
(* off to an instant already past: later than that of any row it found due *)
(* and left alone, in any order with the others.                           *)
Reschedule(s, delay) ==
  LET left == IF delay > pass.age THEN delay - pass.age ELSE 0
      rest == Without(s)
      unmoved == pass.waiting \ (pass.since \cup {s})
  IN /\ wait' = [wait EXCEPT ![s] = left]
     /\ \/ left > 0 /\ due' = rest
        \/ /\ left = 0
           /\ \E j \in 1..(Len(rest) + 1) :
                /\ \A u \in j..Len(rest) : rest[u] \notin unmoved
                /\ due' = InsertAt(rest, j, s)

(* Mutant: UPDATE ... WHERE slug = $1, without the attempts.               *)
BackoffPurgeUnfenced(s, attempts) ==
  IF queue[s] # NotQueued
  THEN /\ queue' = [queue EXCEPT ![s] =
                      IF @ < MaxAttempts THEN @ + 1 ELSE @]
       /\ Reschedule(s, BackoffFor(attempts))
  ELSE UNCHANGED <<queue, wait, due>>

(* Mutant: a failed purge is left as it is, at the head of the queue.      *)
BackoffPurgeSkipped(s, attempts) == UNCHANGED <<queue, wait, due>>

(* BackoffPurge: UPDATE ... WHERE slug = $1 AND attempts = $2.  Counts are *)
(* not told apart past MaxAttempts: only the row's own claim, or a write,  *)
(* moves them.                                                             *)
BackoffPurge(s, attempts) ==
  IF queue[s] = attempts
  THEN /\ queue' = [queue EXCEPT ![s] =
                      IF @ < MaxAttempts THEN @ + 1 ELSE @]
       /\ Reschedule(s, BackoffFor(attempts))
  ELSE UNCHANGED <<queue, wait, due>>

DrainBacksOff ==
  /\ pass.pc = "backoff"
  /\ BackoffPurge(Current.slug, Current.attempts)
  /\ pass' = PassAfter
  /\ UNCHANGED <<inline, edge, writes, fill, fenceGap>>

DrainBackoffFails ==
  /\ pass.pc = "backoff"
  /\ pass' = PassAfter
  /\ UNCHANGED <<queue, wait, due, inline, edge, writes, fill, fenceGap>>

(* The jobs process dies; the claim was no lease, so nothing is undone.    *)
JobsCrash ==
  /\ pass.pc # "idle"
  /\ pass' = PassIdle
  /\ UNCHANGED <<queue, wait, due, inline, edge, writes, fill, fenceGap>>

-----------------------------------------------------------------------------
(* Time passes: rows come closer to their next attempt, and those that     *)
(* reach it together are due in either order.                              *)
Tick ==
  /\ (\E s \in Slugs : wait[s] > 0) \/ (pass.pc # "idle" /\ pass.age < MaxBackoff)
  /\ wait' = [s \in Slugs |-> IF wait[s] > 0 THEN wait[s] - 1 ELSE 0]
  /\ \E order \in SetToSeqs({s \in Slugs : wait[s] = 1}) : due' = due \o order
  /\ pass' = [pass EXCEPT !.age =
                IF pass.pc # "idle" /\ @ < MaxBackoff THEN @ + 1 ELSE @]
  /\ UNCHANGED <<queue, inline, edge, writes, fill, fenceGap>>

(* The edge misses and reads the origin; the answer is stored later, or    *)
(* never, and the page may have changed by then (the residual race that    *)
(* ADR-0012 accepts): such a page is kept apart as "late".                 *)
EdgeReads(s) ==
  /\ edge[s] = "none" /\ fill[s] = "none"
  /\ fill' = [fill EXCEPT ![s] = "fresh"]
  /\ UNCHANGED <<queue, wait, due, inline, pass, edge, writes, fenceGap>>

EdgeFills(s) ==
  /\ fill[s] # "none"
  /\ \/ edge' = [edge EXCEPT ![s] = IF fill[s] = "stale" THEN "late"
                                    ELSE "fresh"]
     \/ UNCHANGED edge
  /\ fill' = [fill EXCEPT ![s] = "none"]
  /\ UNCHANGED <<queue, wait, due, inline, pass, writes, fenceGap>>

(* The edge drops a page when its s-maxage ends.                           *)
EdgeExpires(s) ==
  /\ edge[s] # "none"
  /\ edge' = [edge EXCEPT ![s] = "none"]
  /\ fenceGap' = [fenceGap EXCEPT ![s] = FALSE]
  /\ UNCHANGED <<queue, wait, due, inline, pass, writes, fill>>

Next ==
  \/ \E s \in Slugs :
       \/ Write(s) \/ PurgeSoonUnqueued(s) \/ DrainPurges(s)
       \/ EdgeReads(s) \/ EdgeFills(s) \/ EdgeExpires(s)
  \/ \E i \in Inlines : InlinePurges(i) \/ InlineClears(i) \/ InlineIsLost(i)
  \/ DrainClaims \/ DrainPurgeFails \/ DrainClears \/ DrainClearFails
  \/ DrainBacksOff \/ DrainBackoffFails \/ JobsCrash \/ Tick

Spec == Init /\ [][Next]_vars

(* The clock runs and the jobs process keeps ticking: it is not killed,    *)
(* and Postgres does not refuse it, at the same step for ever.  The CDN    *)
(* accepts the purges of Accepted now and then and may refuse all others.  *)
Fairness ==
  /\ WF_vars(Tick)
  /\ SF_vars(DrainClaims)
  /\ SF_vars(DrainPurgeFails \/ \E s \in Slugs : DrainPurges(s))
  /\ \A s \in Accepted : SF_vars(DrainPurges(s))
  /\ SF_vars(DrainClears)
  /\ SF_vars(DrainBacksOff)

FairSpec == Spec /\ Fairness

-----------------------------------------------------------------------------
(* The queue keeps its promise but for the fence's one gap: a page that a  *)
(* write made stale at the edge has its purge queued, whatever attempts    *)
(* failed, were lost or ran twice, unless the write fell between a first   *)
(* purge's answer and its clear.  A claim that has already been retried    *)
(* leaves no gap.                                                          *)
StaleIsQueuedButForGap ==
  \A s \in Slugs :
    edge[s] = "stale" => queue[s] # NotQueued \/ fenceGap[s]

(* A drain that gives up on a claim made after a retry does not put off    *)
(* the purge of a write that came since.                                   *)
Delayed(s) == queue'[s] # NotQueued /\ wait'[s] > wait[s]

RetriedClaimSparesWrite ==
  [][\A s \in Slugs :
       (pass.pc = "backoff" /\ Current.slug = s /\ Current.attempts > 0
          /\ s \in pass.since)
         => ~Delayed(s)]_vars

(* One slug whose purges keep failing does not keep the others from being  *)
(* purged, though a pass takes only a batch and the failed come round      *)
(* again: the backoff sends them behind those already due.                 *)
AcceptedAreDrained ==
  \A s \in Accepted : (queue[s] # NotQueued) ~> (queue[s] = NotQueued)

(* What softDelete and EnqueuePurge say of a write, and the fence breaks:  *)
(* a page that is stale at the edge always has a purge pending, in the     *)
(* queue or in flight.                                                     *)
StaleHasPendingPurge ==
  \A s \in Slugs :
    edge[s] = "stale" =>
      \/ queue[s] # NotQueued
      \/ \E i \in Inlines : inline[i] = [pc |-> "purge", slug |-> s]
      \/ pass.pc = "purge" /\ \E j \in DOMAIN pass.todo : pass.todo[j].slug = s
=============================================================================
