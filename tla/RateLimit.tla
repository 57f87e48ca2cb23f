------------------------------ MODULE RateLimit ------------------------------
(***************************************************************************)
(* The write-path rate limit: fixed windows per subject, counted in Redis  *)
(* by one script that bumps every window of a request.  The limiter reads  *)
(* the clock before it calls the store, so a request may be counted after  *)
(* its bucket has ended; a reply may be lost after the script has run, and *)
(* the store's client sends it again; counters expire, are evicted, or are *)
(* lost with Redis; and a store that fails lets the request through.       *)
(*                                                                         *)
(* Time is in ticks, PerSecond of them a second: the limiter and Redis     *)
(* count in whole seconds, and run on one machine.                         *)
(***************************************************************************)
EXTENDS Naturals, FiniteSets

CONSTANTS
  Callers,      \* who sends: [token, ip, viaEdge]
  NoToken, NoHeader,
  Caddy,        \* the address of the origin's own proxy
  Requests,     \* bound: requests sent
  WindowIds,
  Size,         \* of each window, in seconds
  Limit,        \* of each window
  PerSecond,
  MaxLag,       \* ticks the store's timeouts leave a request
  MaxSends,     \* times the store's client sends the script
  MaxClock,     \* bound: ticks
  MaxLost       \* bound: counters lost

ASSUME LimitAssumption ==
  /\ Size \in [WindowIds -> Nat \ {0}]
  /\ Limit \in [WindowIds -> Nat]
  /\ {PerSecond, MaxSends} \subseteq Nat \ {0}
  /\ {MaxLag, MaxClock, MaxLost} \subseteq Nat
  /\ IsFiniteSet(WindowIds)

VARIABLES
  clock,
  counters,  \* Redis: the counters that exist, by key
  request,
  asked,     \* by bucket, how often it was counted
  admitted,  \* by bucket, how many were allowed by a count made in it
  lost,      \* keys Redis has lost
  refused    \* the last refusal of each subject

vars == <<clock, counters, request, asked, admitted, lost, refused>>

-----------------------------------------------------------------------------
(* Who is charged.  Everything reaches the server through Caddy, which     *)
(* takes the connecting-IP header from what did not come through the edge. *)
ForwardedIP(c) == IF c.viaEdge THEN c.ip ELSE NoHeader

ClientIP(peer, claimed) ==
  IF claimed = NoHeader \/ peer # Caddy THEN peer ELSE claimed

Subject(c) ==
  IF c.token # NoToken THEN c.token ELSE ClientIP(Caddy, ForwardedIP(c))

Subjects == {Subject(c) : c \in Callers}

Unix(t) == t \div PerSecond

Step(w, t) == Unix(t) \div Size[w]

(* Mutant: the key leaves out the step, and lives while it is asked for.   *)
BucketKeyForever(s, w, t) == <<s, w, 0>>

BucketKey(s, w, t) == <<s, w, Step(w, t)>>

(* Mutant: a second too few.                                               *)
UntilNextWindowShort(w, t) == Size[w] - (Unix(t) % Size[w]) - 1

UntilNextWindow(w, t) == Size[w] - (Unix(t) % Size[w])

Buckets == UNION {{<<s, w, i>> : s \in Subjects, i \in 0..Step(w, MaxClock)} :
                    w \in WindowIds}

BucketsOf(s, t) == {<<s, w, Step(w, t)>> : w \in WindowIds}

Unsent == [pc |-> "unsent"]
Done == [pc |-> "done"]
NotRefused == [retry |-> 0]

TypeOK ==
  /\ clock \in 0..MaxClock
  /\ DOMAIN counters \subseteq Buckets
  /\ \A k \in DOMAIN counters : counters[k] \in [n : Nat \ {0}, dies : Nat]
  /\ request \in [Requests ->
       {Unsent, Done} \cup [pc : {"sent"}, subject : Subjects, at : 0..MaxClock,
                    sends : 0..MaxSends - 1]]
  /\ asked \in [Buckets -> Nat]
  /\ admitted \in [Buckets -> Nat]
  /\ lost \subseteq Buckets
  /\ \A s \in Subjects : refused[s] # NotRefused =>
       /\ refused[s].at \in 0..MaxClock
       /\ refused[s].over \in (SUBSET WindowIds) \ {{}}
       /\ \E w \in refused[s].over : refused[s].retry \in 1..Size[w]

Init ==
  /\ clock = 0
  /\ counters = [k \in {} |-> NotRefused]
  /\ request = [r \in Requests |-> Unsent]
  /\ asked = [b \in Buckets |-> 0]
  /\ admitted = [b \in Buckets |-> 0]
  /\ lost = {}
  /\ refused = [s \in Subjects |-> NotRefused]

-----------------------------------------------------------------------------
(* RateLimit and Allow, up to the call of the store.                       *)
Arrive(r, c) ==
  /\ request[r] = Unsent
  /\ request' = [request EXCEPT ![r] =
       [pc |-> "sent", subject |-> Subject(c), at |-> clock, sends |-> 0]]
  /\ UNCHANGED <<clock, counters, asked, admitted, lost, refused>>

Counted(k) == IF k \in DOMAIN counters THEN counters[k].n ELSE 0

(* Mutant: the windows are counted one by one, up to the first that is     *)
(* over.                                                                   *)
BumpedUntilOver(s, t) ==
  LET all == {<<BucketKey(s, w, t), w>> : w \in WindowIds}
      ks  == {a[1] : a \in {p \in all : \A q \in all :
                Size[q[2]] < Size[p[2]] => Counted(q[1]) < Limit[q[2]]}} IN
  [k \in DOMAIN counters \cup ks |->
     IF k \in ks THEN [n |-> Counted(k) + 1, dies |-> clock + Size[k[2]] * PerSecond]
     ELSE counters[k]]

(* incrementScript: INCR and EXPIRE of each key, or, on a failure, none.   *)
Bumped(s, t) ==
  LET ks == {BucketKey(s, w, t) : w \in WindowIds} IN
  [k \in DOMAIN counters \cup ks |->
     IF k \in ks THEN [n |-> Counted(k) + 1, dies |-> clock + Size[k[2]] * PerSecond]
     ELSE counters[k]]

(* Mutant: at the limit counts as within it once more.                     *)
OverLate(q) ==
  {w \in WindowIds : Bumped(q.subject, q.at)[BucketKey(q.subject, w, q.at)].n > Limit[w] + 1}

(* The windows that a request is over once it is counted.                  *)
Over(q) ==
  {w \in WindowIds : Bumped(q.subject, q.at)[BucketKey(q.subject, w, q.at)].n > Limit[w]}

(* Mutant: the first wait to end.                                          *)
RetryAfterShortest(over, t) ==
  CHOOSE n \in {UntilNextWindow(w, t) : w \in over} :
    \A w \in over : n <= UntilNextWindow(w, t)

(* decide: the longest wait of the windows that are over.                  *)
RetryAfter(over, t) ==
  CHOOSE n \in {UntilNextWindow(w, t) : w \in over} :
    \A w \in over : n >= UntilNextWindow(w, t)

CountsOnce(q) ==
  /\ counters' = Bumped(q.subject, q.at)
  /\ asked' = [b \in Buckets |->
       IF b \in BucketsOf(q.subject, q.at) THEN asked[b] + 1 ELSE asked[b]]

(* decide: allowed.                                                        *)
Allows(r) ==
  LET q == request[r] IN
  /\ q.pc = "sent" /\ CountsOnce(q) /\ Over(q) = {}
  /\ admitted' = [b \in Buckets |->
       IF b \in BucketsOf(q.subject, q.at) \cap BucketsOf(q.subject, clock)
       THEN admitted[b] + 1 ELSE admitted[b]]
  /\ request' = [request EXCEPT ![r] = Done]
  /\ UNCHANGED <<clock, lost, refused>>

(* decide and writeRateLimited: 429.                                       *)
Denies(r) ==
  LET q == request[r] IN
  /\ q.pc = "sent" /\ CountsOnce(q) /\ Over(q) # {}
  /\ refused' = [refused EXCEPT ![q.subject] =
       [at |-> q.at, over |-> Over(q), retry |-> RetryAfter(Over(q), q.at)]]
  /\ request' = [request EXCEPT ![r] = Done]
  /\ UNCHANGED <<clock, admitted, lost>>

(* The script runs and its reply is lost: it is sent again, or given up.   *)
ReplyLost(r) ==
  LET q == request[r] IN
  /\ q.pc = "sent" /\ CountsOnce(q)
  /\ request' = [request EXCEPT ![r] =
       IF q.sends + 1 = MaxSends THEN Done ELSE [q EXCEPT !.sends = @ + 1]]
  /\ UNCHANGED <<clock, admitted, lost, refused>>

(* The store cannot be reached, or refuses: the request goes through.      *)
FailsOpen(r) ==
  /\ request[r].pc = "sent"
  /\ request' = [request EXCEPT ![r] = Done]
  /\ UNCHANGED <<clock, counters, asked, admitted, lost, refused>>

(* A second's fraction passes; counters whose time is up are gone.         *)
Tick ==
  /\ clock < MaxClock
  /\ \A r \in Requests : request[r].pc = "sent" => clock < request[r].at + MaxLag
  /\ clock' = clock + 1
  /\ counters' = [k \in {k \in DOMAIN counters : counters[k].dies > clock'} |->
                    counters[k]]
  /\ UNCHANGED <<request, asked, admitted, lost, refused>>

(* volatile-lru evicts a counter, or a restart of Redis loses it.          *)
LoseCounter(k) ==
  /\ Cardinality(lost \cup {k}) <= MaxLost
  /\ counters' = [j \in DOMAIN counters \ {k} |-> counters[j]]
  /\ lost' = lost \cup {k}
  /\ UNCHANGED <<clock, request, asked, admitted, refused>>

Next ==
  \/ \E r \in Requests :
       \/ \E c \in Callers : Arrive(r, c)
       \/ Allows(r) \/ Denies(r) \/ ReplyLost(r) \/ FailsOpen(r)
  \/ Tick
  \/ \E k \in DOMAIN counters : LoseCounter(k)

Spec == Init /\ [][Next]_vars

-----------------------------------------------------------------------------
(* The counter of a bucket that has not ended holds every count made for   *)
(* it: refused requests spend all their windows, and no time to live ends  *)
(* before its bucket does.                                                 *)
CountersRemember ==
  \A s \in Subjects : \A b \in BucketsOf(s, clock) :
    b \in lost \/ Counted(b) = asked[b]

(* However requests race, a bucket admits no more than its limit.  Not     *)
(* among them: one let through because the store did not answer, one       *)
(* counted after its bucket has ended, and a bucket whose counter the      *)
(* store has lost; the code lets these pass the limit.                     *)
WithinLimit ==
  \A b \in Buckets : b \in lost \/ admitted[b] <= Limit[b[2]]

(* A subject is refused for what was counted for it in the bucket of its   *)
(* request, never for an earlier bucket or for another subject.            *)
RefusalsDeserved ==
  \A s \in Subjects : refused[s] # NotRefused =>
    \A w \in refused[s].over :
      asked[<<s, w, Step(w, refused[s].at)>>] > Limit[w]

(* Retry-After is honest: when it has run out, every window that refused   *)
(* the request has a new bucket, and a second before one had not.          *)
WaitingHelps ==
  \A s \in Subjects : refused[s] # NotRefused =>
    LET at    == refused[s].at
        until == at + refused[s].retry * PerSecond IN
    /\ \A w \in refused[s].over : Step(w, until) > Step(w, at)
    /\ \E w \in refused[s].over : Step(w, until - PerSecond) = Step(w, at)
=============================================================================
