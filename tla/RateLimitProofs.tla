--------------------------- MODULE RateLimitProofs ----------------------------
(***************************************************************************)
(* Proofs about RateLimit: a bucket admits no more than its limit, a       *)
(* refusal is earned in its own bucket, and the wait it names ends with    *)
(* it, for any windows, any number of requests and subjects, and whatever  *)
(* the store does to them.                                                 *)
(*                                                                         *)
(* The argument is about time.  A counter is armed for a whole window each *)
(* time it is bumped, so it outlives its bucket (Outlive); a bucket that   *)
(* has not begun has no counter and has not been asked for (Fresh); hence  *)
(* the counter of the current bucket has every count made for it.          *)
(***************************************************************************)
EXTENDS RateLimit, FiniteSetTheorems, TLAPS

-----------------------------------------------------------------------------
(* Division, as far as buckets need it.                                    *)
LEMMA DivBounds ==
  ASSUME NEW a \in Nat, NEW n \in Nat \ {0}
  PROVE  a \div n \in Nat /\ n * (a \div n) <= a /\ a < n * (a \div n) + n
OBVIOUS

LEMMA DivMonotone ==
  ASSUME NEW a \in Nat, NEW b \in Nat, a <= b, NEW n \in Nat \ {0}
  PROVE  a \div n <= b \div n
<1> DEFINE p == a \div n
           q == b \div n
<1>1. p \in Nat /\ q \in Nat /\ n * p <= a /\ b < n * q + n
  BY DivBounds
<1> HIDE DEF p, q
<1>2. SUFFICES ASSUME p >= q + 1
               PROVE  FALSE
  BY <1>1 DEF p, q
<1>3. n * p >= n * (q + 1)
  BY <1>1, <1>2
<1> QED BY <1>1, <1>3

LEMMA StepInNat ==
  ASSUME NEW w \in WindowIds, NEW t \in Nat
  PROVE  Step(w, t) \in Nat
BY LimitAssumption, DivBounds DEF Step, Unix

LEMMA StepMonotone ==
  ASSUME NEW w \in WindowIds, NEW t \in Nat, NEW u \in Nat, t <= u
  PROVE  Step(w, t) <= Step(w, u)
<1>1. Unix(t) \in Nat /\ Unix(u) \in Nat /\ Unix(t) <= Unix(u)
  BY LimitAssumption, DivBounds, DivMonotone DEF Unix
<1> QED BY <1>1, LimitAssumption, DivMonotone DEF Step

(* Two instants of one bucket are less than a window apart.                *)
LEMMA StepSpan ==
  ASSUME NEW w \in WindowIds, NEW t \in Nat, NEW u \in Nat,
         Step(w, t) = Step(w, u)
  PROVE  u < t + Size[w] * PerSecond
<1> DEFINE n == Size[w]
           p == PerSecond
           i == Step(w, t)
<1>1. n \in Nat \ {0} /\ p \in Nat \ {0} /\ i \in Nat
  BY LimitAssumption, StepInNat
<1>2. Unix(t) \in Nat /\ Unix(u) \in Nat
  BY LimitAssumption, DivBounds DEF Unix
<1>3. p * Unix(t) <= t /\ u < p * Unix(u) + p
  BY LimitAssumption, DivBounds DEF Unix
<1>4. n * i <= Unix(t) /\ Unix(u) < n * i + n
  BY <1>2, LimitAssumption, DivBounds DEF Step
<1> HIDE DEF n, p, i
<1>5. Unix(u) + 1 <= Unix(t) + n
  BY <1>1, <1>2, <1>4
<1>6. p * (Unix(u) + 1) <= p * (Unix(t) + n)
  BY <1>1, <1>2, <1>5
<1>7. p * (Unix(u) + 1) = p * Unix(u) + p /\ p * (Unix(t) + n) = p * Unix(t) + n * p
  BY <1>1, <1>2
<1>8. u < t + n * p
  BY <1>1, <1>2, <1>3, <1>6, <1>7
<1> QED BY <1>8 DEF n, p

-----------------------------------------------------------------------------
LEMMA BucketParts ==
  ASSUME NEW b \in Buckets
  PROVE  /\ b = <<b[1], b[2], b[3]>>
         /\ b[1] \in Subjects /\ b[2] \in WindowIds /\ b[3] \in Nat
<1>1. PICK w \in WindowIds : b \in {<<s, w, i>> : s \in Subjects, i \in 0..Step(w, MaxClock)}
  BY DEF Buckets
<1>2. PICK s \in Subjects, i \in 0..Step(w, MaxClock) : b = <<s, w, i>>
  BY <1>1
<1> QED BY <1>2

LEMMA BucketsAreBuckets ==
  ASSUME NEW s \in Subjects, NEW w \in WindowIds, NEW t \in 0..MaxClock
  PROVE  <<s, w, Step(w, t)>> \in Buckets
<1>1. t \in Nat /\ MaxClock \in Nat /\ t <= MaxClock
  BY LimitAssumption
<1>2. Step(w, t) \in 0..Step(w, MaxClock)
  BY <1>1, StepInNat, StepMonotone
<1> QED BY <1>2 DEF Buckets

(* A bucket is one of those of a subject at an instant if the subject and  *)
(* the step are right.                                                     *)
LEMMA InBucketsOf ==
  ASSUME NEW b \in Buckets, NEW s, NEW t
  PROVE  b \in BucketsOf(s, t) <=> b[1] = s /\ b[3] = Step(b[2], t)
BY BucketParts DEF BucketsOf

-----------------------------------------------------------------------------
RequestTypes ==
  /\ DOMAIN request = Requests
  /\ \A r \in Requests : request[r].pc = "sent" =>
       /\ request[r].subject \in Subjects
       /\ request[r].at \in 0..clock

RefusedTypes ==
  /\ DOMAIN refused = Subjects
  /\ \A s \in Subjects : refused[s] # NotRefused =>
       /\ refused[s].at \in 0..MaxClock
       /\ refused[s].over \subseteq WindowIds

Types ==
  /\ clock \in 0..MaxClock
  /\ DOMAIN counters \subseteq Buckets
  /\ \A k \in DOMAIN counters : counters[k].n \in Nat /\ counters[k].dies \in Nat
  /\ asked \in [Buckets -> Nat]
  /\ admitted \in [Buckets -> Nat]
  /\ RequestTypes /\ RefusedTypes

(* A counter lives as long as its bucket.                                  *)
Outlive ==
  \A k \in DOMAIN counters : \A t \in Nat :
    Step(k[2], t) = k[3] => t < counters[k].dies

(* A bucket that has not begun has nothing.                                *)
Fresh ==
  \A b \in Buckets : b[3] > Step(b[2], clock) =>
    asked[b] = 0 /\ b \notin DOMAIN counters

(* A counter, and what it has let through, is never more than was asked.   *)
Below ==
  \A b \in Buckets : Counted(b) <= asked[b] /\ admitted[b] <= asked[b]

(* CountersRemember, by bucket.                                            *)
Remember ==
  \A b \in Buckets : b[3] = Step(b[2], clock) => b \in lost \/ Counted(b) = asked[b]

IInv ==
  /\ Types /\ Outlive /\ Fresh /\ Below /\ Remember
  /\ WithinLimit /\ RefusalsDeserved

LEMMA CountedType ==
  ASSUME Types, NEW b
  PROVE  Counted(b) \in Nat
BY DEF Types, Counted

(* What a count does to a bucket.                                          *)
LEMMA CountEffect ==
  ASSUME IInv, NEW q, q.subject \in Subjects, q.at \in 0..clock, CountsOnce(q)
  PROVE  /\ DOMAIN counters' = DOMAIN counters \cup BucketsOf(q.subject, q.at)
         /\ DOMAIN counters' \subseteq Buckets
         /\ \A b \in Buckets :
              IF b \in BucketsOf(q.subject, q.at)
              THEN /\ counters'[b].n = Counted(b) + 1
                   /\ counters'[b].dies = clock + Size[b[2]] * PerSecond
                   /\ Counted(b)' = Counted(b) + 1
                   /\ asked'[b] = asked[b] + 1
              ELSE /\ counters'[b] = counters[b] \/ b \notin DOMAIN counters'
                   /\ Counted(b)' = Counted(b)
                   /\ asked'[b] = asked[b]
         /\ asked' \in [Buckets -> Nat]
<1> DEFINE K == BucketsOf(q.subject, q.at)
<1>1. K = {BucketKey(q.subject, w, q.at) : w \in WindowIds}
  BY DEF BucketsOf, BucketKey
<1>2. counters' = [k \in DOMAIN counters \cup K |->
        IF k \in K THEN [n |-> Counted(k) + 1, dies |-> clock + Size[k[2]] * PerSecond]
        ELSE counters[k]]
  BY <1>1 DEF CountsOnce, Bumped
<1>3. q.at \in 0..MaxClock
  BY LimitAssumption DEF IInv, Types
<1>4. K \subseteq Buckets
  BY <1>3, BucketsAreBuckets DEF BucketsOf
<1>5. asked' = [b \in Buckets |-> IF b \in K THEN asked[b] + 1 ELSE asked[b]]
  BY DEF CountsOnce
<1> HIDE DEF K
<1>6. DOMAIN counters' = DOMAIN counters \cup K /\ DOMAIN counters' \subseteq Buckets
  BY <1>2, <1>4 DEF IInv, Types
<1>7. asked' \in [Buckets -> Nat]
  BY <1>5 DEF IInv, Types
<1>8. ASSUME NEW b \in Buckets, b \in K
      PROVE  /\ counters'[b].n = Counted(b) + 1
             /\ counters'[b].dies = clock + Size[b[2]] * PerSecond
             /\ Counted(b)' = Counted(b) + 1
             /\ asked'[b] = asked[b] + 1
  <2>1. counters'[b] = [n |-> Counted(b) + 1, dies |-> clock + Size[b[2]] * PerSecond]
    BY <1>2, <1>8
  <2>2. Counted(b)' = counters'[b].n
    BY <1>6, <1>8 DEF Counted
  <2> QED BY <1>5, <1>8, <2>1, <2>2
<1>9. ASSUME NEW b \in Buckets, b \notin K
      PROVE  /\ counters'[b] = counters[b] \/ b \notin DOMAIN counters'
             /\ Counted(b)' = Counted(b)
             /\ asked'[b] = asked[b]
  BY <1>2, <1>5, <1>6, <1>9 DEF Counted
<1> QED BY <1>6, <1>7, <1>8, <1>9 DEF K

(* A count keeps what is known of counters and buckets.                    *)
LEMMA CountKeeps ==
  ASSUME IInv, NEW q, q.subject \in Subjects, q.at \in 0..clock, CountsOnce(q),
         UNCHANGED <<clock, lost>>
  PROVE  /\ \A k \in DOMAIN counters' : counters'[k].n \in Nat /\ counters'[k].dies \in Nat
         /\ Outlive' /\ Fresh' /\ Remember'
<1> DEFINE K == BucketsOf(q.subject, q.at)
<1>0. clock \in Nat /\ q.at \in Nat /\ q.at <= clock
  BY LimitAssumption DEF IInv, Types
<1>1. \A b \in Buckets : b[2] \in WindowIds /\ Size[b[2]] * PerSecond \in Nat
  BY BucketParts, LimitAssumption
<1>2. ASSUME NEW k \in DOMAIN counters'
      PROVE  /\ counters'[k].n \in Nat /\ counters'[k].dies \in Nat
             /\ \A t \in Nat : Step(k[2], t) = k[3] => t < counters'[k].dies
  <2>1. k \in Buckets
    BY CountEffect
  <2>2. CASE k \in K
    <3>1. counters'[k].n = Counted(k) + 1
          /\ counters'[k].dies = clock + Size[k[2]] * PerSecond
      BY <2>1, <2>2, CountEffect
    <3>2. k[3] = Step(k[2], q.at)
      BY <2>1, <2>2, InBucketsOf
    <3>3. ASSUME NEW t \in Nat, Step(k[2], t) = k[3]
          PROVE  t < counters'[k].dies
      <4>1. t < q.at + Size[k[2]] * PerSecond
        BY <1>0, <1>1, <2>1, <3>2, <3>3, StepSpan
      <4> QED BY <1>0, <1>1, <2>1, <3>1, <4>1
    <3> QED BY <1>0, <1>1, <2>1, <3>1, <3>3, CountedType DEF IInv
  <2>3. CASE k \notin K
    <3>1. k \in DOMAIN counters /\ counters'[k] = counters[k]
      BY <2>1, <2>3, CountEffect
    <3> QED BY <3>1 DEF IInv, Types, Outlive
  <2> QED BY <2>2, <2>3
<1>3. Outlive'
  BY <1>2 DEF Outlive
<1>4. ASSUME NEW b \in Buckets, b[3] > Step(b[2], clock)
      PROVE  asked'[b] = 0 /\ b \notin DOMAIN counters'
  <2>1. b[2] \in WindowIds /\ b[3] \in Nat
    BY BucketParts
  <2>2. Step(b[2], q.at) <= Step(b[2], clock)
    BY <1>0, <2>1, StepMonotone
  <2>3. b \notin K
    BY <1>0, <1>4, <2>1, <2>2, InBucketsOf, StepInNat
  <2> QED BY <1>4, <2>3, CountEffect DEF IInv, Fresh
<1>5. Fresh'
  BY <1>4 DEF Fresh, Step, Unix
<1>6. ASSUME NEW b \in Buckets, b[3] = Step(b[2], clock)
      PROVE  b \in lost \/ Counted(b)' = asked'[b]
  BY <1>6, CountEffect DEF IInv, Remember
<1>7. Remember'
  BY <1>6 DEF Remember, Step, Unix
<1> QED BY <1>2, <1>3, <1>5, <1>7

(* Counts are only added to: what was refused stays deserved.              *)
LEMMA RefusalsKeep ==
  ASSUME IInv, UNCHANGED refused, \A b \in Buckets : asked'[b] >= asked[b],
         asked' \in [Buckets -> Nat]
  PROVE  RefusedTypes' /\ RefusalsDeserved'
<1>1. RefusedTypes'
  BY DEF IInv, Types, RefusedTypes
<1>2. ASSUME NEW s \in Subjects, refused[s] # NotRefused, NEW w \in refused[s].over
      PROVE  asked'[<<s, w, Step(w, refused[s].at)>>] > Limit[w]
  <2>1. refused[s].at \in 0..MaxClock /\ w \in WindowIds
    BY <1>2 DEF IInv, Types, RefusedTypes
  <2> DEFINE b == <<s, w, Step(w, refused[s].at)>>
  <2>2. b \in Buckets
    BY <2>1, BucketsAreBuckets
  <2>3. asked[b] > Limit[w]
    BY <1>2 DEF IInv, RefusalsDeserved
  <2>4. Limit[w] \in Nat /\ asked[b] \in Nat /\ asked'[b] \in Nat /\ asked'[b] >= asked[b]
    BY <2>1, <2>2, LimitAssumption DEF IInv, Types
  <2> QED BY <2>3, <2>4
<1>3. RefusalsDeserved'
  BY <1>2 DEF RefusalsDeserved, Step, Unix
<1> QED BY <1>1, <1>3

(* A request that is over, or is sent again, is typed.                     *)
LEMMA RequestsKeep ==
  ASSUME IInv, NEW r \in Requests, UNCHANGED clock, NEW v,
         request' = [request EXCEPT ![r] = v],
         v.pc = "sent" => v.subject \in Subjects /\ v.at \in 0..clock
  PROVE  RequestTypes'
BY DEF IInv, Types, RequestTypes

LEMMA CountIsSent ==
  ASSUME IInv, NEW r \in Requests, request[r].pc = "sent"
  PROVE  /\ request[r].subject \in Subjects
         /\ request[r].at \in 0..clock /\ request[r].at \in 0..MaxClock
         /\ request[r].at \in Nat
BY LimitAssumption DEF IInv, Types, RequestTypes

LEMMA DoneIsNotSent == Done.pc # "sent"
BY DEF Done

(* A count that admits nothing keeps the rest.                             *)
LEMMA CountAdmitsNone ==
  ASSUME IInv, NEW q, q.subject \in Subjects, q.at \in 0..clock, CountsOnce(q),
         UNCHANGED <<clock, lost, admitted>>
  PROVE  Below' /\ WithinLimit' /\ \A b \in Buckets : asked'[b] >= asked[b]
<1>1. ASSUME NEW b \in Buckets
      PROVE  /\ Counted(b)' <= asked'[b] /\ admitted'[b] <= asked'[b]
             /\ asked'[b] >= asked[b]
  <2>1. Counted(b) \in Nat /\ asked[b] \in Nat /\ admitted[b] \in Nat
    BY CountedType DEF IInv, Types
  <2>2. Counted(b) <= asked[b] /\ admitted[b] <= asked[b]
    BY DEF IInv, Below
  <2>3. \/ Counted(b)' = Counted(b) + 1 /\ asked'[b] = asked[b] + 1
        \/ Counted(b)' = Counted(b) /\ asked'[b] = asked[b]
    BY CountEffect
  <2> QED BY <2>1, <2>2, <2>3
<1>2. Below'
  BY <1>1 DEF Below
<1> QED BY <1>1, <1>2 DEF IInv, WithinLimit

-----------------------------------------------------------------------------
LEMMA ArriveKeeps ==
  ASSUME IInv, NEW r \in Requests, NEW c \in Callers, Arrive(r, c)
  PROVE  IInv'
<1>1. Subject(c) \in Subjects
  BY DEF Subjects
<1>2. clock \in 0..clock
  BY LimitAssumption DEF IInv, Types
<1> DEFINE v == [pc |-> "sent", subject |-> Subject(c), at |-> clock, sends |-> 0]
<1>3. v.subject \in Subjects /\ v.at \in 0..clock
  BY <1>1, <1>2
<1>4. request' = [request EXCEPT ![r] = v] /\ UNCHANGED <<clock, counters, asked, admitted, lost, refused>>
  BY DEF Arrive
<1> HIDE DEF v
<1>5. RequestTypes'
  BY <1>3, <1>4, RequestsKeep
<1> QED
  BY <1>4, <1>5 DEF IInv, Types, RefusedTypes, Outlive, Fresh, Below, Remember, Counted,
     WithinLimit, RefusalsDeserved, Step, Unix

LEMMA FailsOpenKeeps ==
  ASSUME IInv, NEW r \in Requests, FailsOpen(r)
  PROVE  IInv'
<1>1. RequestTypes'
  BY RequestsKeep, DoneIsNotSent DEF FailsOpen
<1> QED
  BY <1>1 DEF FailsOpen, IInv, Types, RefusedTypes, Outlive, Fresh, Below, Remember, Counted,
     WithinLimit, RefusalsDeserved, Step, Unix

LEMMA ReplyLostKeeps ==
  ASSUME IInv, NEW r \in Requests, ReplyLost(r)
  PROVE  IInv'
<1> DEFINE q == request[r]
           v == IF q.sends + 1 = MaxSends THEN Done ELSE [q EXCEPT !.sends = @ + 1]
<1>1. q.pc = "sent" /\ CountsOnce(q) /\ request' = [request EXCEPT ![r] = v]
      /\ UNCHANGED <<clock, admitted, lost, refused>>
  BY DEF ReplyLost
<1>2. q.subject \in Subjects /\ q.at \in 0..clock
  BY <1>1, CountIsSent
<1>3. v.pc = "sent" => v.subject \in Subjects /\ v.at \in 0..clock
  <2>1. [q EXCEPT !.sends = @ + 1].subject = q.subject /\ [q EXCEPT !.sends = @ + 1].at = q.at
    OBVIOUS
  <2> QED BY <1>2, <2>1, DoneIsNotSent
<1> HIDE DEF q, v
<1>4. RequestTypes'
  BY <1>1, <1>3, RequestsKeep
<1>5. /\ \A k \in DOMAIN counters' : counters'[k].n \in Nat /\ counters'[k].dies \in Nat
      /\ Outlive' /\ Fresh' /\ Remember'
  BY <1>1, <1>2, CountKeeps
<1>6. DOMAIN counters' \subseteq Buckets /\ asked' \in [Buckets -> Nat]
  BY <1>1, <1>2, CountEffect
<1>7. Below' /\ WithinLimit' /\ \A b \in Buckets : asked'[b] >= asked[b]
  BY <1>1, <1>2, CountAdmitsNone
<1>8. RefusedTypes' /\ RefusalsDeserved'
  BY <1>1, <1>6, <1>7, RefusalsKeep
<1>9. Types'
  BY <1>1, <1>4, <1>5, <1>6, <1>8 DEF IInv, Types
<1> QED BY <1>5, <1>7, <1>8, <1>9 DEF IInv

(* A refusal is for counts of its own bucket: the counter is over, and is  *)
(* no more than what was asked.                                            *)
LEMMA DeniesKeeps ==
  ASSUME IInv, NEW r \in Requests, Denies(r)
  PROVE  IInv'
<1> DEFINE q == request[r]
           v == [at |-> q.at, over |-> Over(q), retry |-> RetryAfter(Over(q), q.at)]
<1>1. q.pc = "sent" /\ CountsOnce(q) /\ request' = [request EXCEPT ![r] = Done]
      /\ refused' = [refused EXCEPT ![q.subject] = v]
      /\ UNCHANGED <<clock, admitted, lost>>
  BY DEF Denies
<1>2. q.subject \in Subjects /\ q.at \in 0..clock /\ q.at \in 0..MaxClock
  BY <1>1, CountIsSent
<1>3. v.at = q.at /\ v.over = Over(q) /\ Over(q) \subseteq WindowIds
  BY DEF Over
<1>4. ASSUME NEW w \in Over(q)
      PROVE  w \in WindowIds /\ counters'[<<q.subject, w, Step(w, q.at)>>].n > Limit[w]
  BY <1>1 DEF Over, CountsOnce, BucketKey
<1> HIDE DEF q, v
<1>5. RequestTypes'
  BY <1>1, RequestsKeep, DoneIsNotSent
<1>6. /\ \A k \in DOMAIN counters' : counters'[k].n \in Nat /\ counters'[k].dies \in Nat
      /\ Outlive' /\ Fresh' /\ Remember'
  BY <1>1, <1>2, CountKeeps
<1>7. DOMAIN counters' \subseteq Buckets /\ asked' \in [Buckets -> Nat]
  BY <1>1, <1>2, CountEffect
<1>8. Below' /\ WithinLimit' /\ \A b \in Buckets : asked'[b] >= asked[b]
  BY <1>1, <1>2, CountAdmitsNone
<1>9. ASSUME NEW s \in Subjects, refused'[s] # NotRefused
      PROVE  /\ refused'[s].at \in 0..MaxClock /\ refused'[s].over \subseteq WindowIds
             /\ \A w \in refused'[s].over :
                  asked'[<<s, w, Step(w, refused'[s].at)>>] > Limit[w]
  <2>1. CASE s = q.subject
    <3>1. refused'[s] = v
      BY <1>1, <1>2, <2>1 DEF IInv, Types, RefusedTypes
    <3>2. ASSUME NEW w \in Over(q)
          PROVE  asked'[<<q.subject, w, Step(w, q.at)>>] > Limit[w]
      <4> DEFINE b == <<q.subject, w, Step(w, q.at)>>
      <4>1. w \in WindowIds /\ counters'[b].n > Limit[w]
        BY <1>4
      <4>2. b \in Buckets /\ b \in BucketsOf(q.subject, q.at)
        BY <1>2, <4>1, BucketsAreBuckets DEF BucketsOf
      <4> HIDE DEF b
      <4>3. counters'[b].n = Counted(b) + 1 /\ asked'[b] = asked[b] + 1
        BY <1>1, <1>2, <4>2, CountEffect
      <4>4. Counted(b) <= asked[b] /\ Counted(b) \in Nat /\ asked[b] \in Nat /\ Limit[w] \in Nat
        BY <4>1, <4>2, CountedType, LimitAssumption DEF IInv, Below, Types
      <4>5. asked'[b] > Limit[w]
        BY <4>1, <4>3, <4>4
      <4> QED BY <4>5 DEF b
    <3> QED BY <1>2, <1>3, <2>1, <3>1, <3>2
  <2>2. CASE s # q.subject
    <3>1. refused'[s] = refused[s]
      BY <1>1, <2>2 DEF IInv, Types, RefusedTypes
    <3>2. refused[s].at \in 0..MaxClock /\ refused[s].over \subseteq WindowIds
      BY <1>9, <3>1 DEF IInv, Types, RefusedTypes
    <3>3. ASSUME NEW w \in refused[s].over
          PROVE  asked'[<<s, w, Step(w, refused[s].at)>>] > Limit[w]
      <4> DEFINE b == <<s, w, Step(w, refused[s].at)>>
      <4>1. b \in Buckets
        BY <3>2, BucketsAreBuckets
      <4>2. asked[b] > Limit[w]
        BY <1>9, <3>1 DEF IInv, RefusalsDeserved
      <4>3. Limit[w] \in Nat /\ asked[b] \in Nat /\ asked'[b] \in Nat /\ asked'[b] >= asked[b]
        BY <1>7, <1>8, <3>2, <4>1, LimitAssumption DEF IInv, Types
      <4> QED BY <4>2, <4>3
    <3> QED BY <3>1, <3>2, <3>3
  <2> QED BY <2>1, <2>2
<1>10. RefusalsDeserved'
  BY <1>9 DEF RefusalsDeserved, Step, Unix
<1>11. RefusedTypes'
  BY <1>1, <1>9 DEF IInv, Types, RefusedTypes
<1>12. Types'
  BY <1>1, <1>5, <1>6, <1>7, <1>11 DEF IInv, Types
<1> QED BY <1>6, <1>8, <1>10, <1>12 DEF IInv

(* What is admitted in the current bucket finds every count of it in the   *)
(* counter: it is the limit's last at most.                                *)
LEMMA AllowsKeeps ==
  ASSUME IInv, NEW r \in Requests, Allows(r)
  PROVE  IInv'
<1> DEFINE q == request[r]
           K == BucketsOf(q.subject, q.at)
           now == BucketsOf(q.subject, clock)
<1>1. q.pc = "sent" /\ CountsOnce(q) /\ Over(q) = {}
      /\ request' = [request EXCEPT ![r] = Done]
      /\ UNCHANGED <<clock, lost, refused>>
  BY DEF Allows
<1>2. admitted' = [b \in Buckets |->
        IF b \in K \cap now THEN admitted[b] + 1 ELSE admitted[b]]
  BY DEF Allows
<1>3. q.subject \in Subjects /\ q.at \in 0..clock /\ q.at \in 0..MaxClock
  BY <1>1, CountIsSent
<1>4. ASSUME NEW b \in Buckets, b \in K
      PROVE  ~(counters'[b].n > Limit[b[2]])
  <2>1. b = <<b[1], b[2], b[3]>> /\ b[1] = q.subject /\ b[2] \in WindowIds
        /\ b[3] = Step(b[2], q.at)
    BY <1>4, BucketParts, InBucketsOf
  <2>2. b = BucketKey(q.subject, b[2], q.at)
    BY <2>1 DEF BucketKey
  <2> QED BY <1>1, <2>1, <2>2 DEF Over, CountsOnce
<1> HIDE DEF q, K
<1>5. RequestTypes'
  BY <1>1, RequestsKeep, DoneIsNotSent
<1>6. /\ \A k \in DOMAIN counters' : counters'[k].n \in Nat /\ counters'[k].dies \in Nat
      /\ Outlive' /\ Fresh' /\ Remember'
  BY <1>1, <1>3, CountKeeps
<1>7. DOMAIN counters' \subseteq Buckets /\ asked' \in [Buckets -> Nat]
  BY <1>1, <1>3, CountEffect
<1>8. ASSUME NEW b \in Buckets
      PROVE  /\ Counted(b)' <= asked'[b] /\ admitted'[b] <= asked'[b]
             /\ asked'[b] >= asked[b] /\ admitted'[b] \in Nat
             /\ b \in lost \/ admitted'[b] <= Limit[b[2]]
  <2>1. Counted(b) \in Nat /\ asked[b] \in Nat /\ admitted[b] \in Nat /\ Limit[b[2]] \in Nat
    BY CountedType, BucketParts, LimitAssumption DEF IInv, Types
  <2>2. Counted(b) <= asked[b] /\ admitted[b] <= asked[b]
        /\ (b \in lost \/ admitted[b] <= Limit[b[2]])
    BY DEF IInv, Below, WithinLimit
  <2>3. CASE b \in K
    <3>1. counters'[b].n = Counted(b) + 1 /\ Counted(b)' = Counted(b) + 1
          /\ asked'[b] = asked[b] + 1
      BY <1>1, <1>3, <2>3, CountEffect DEF K
    <3>2. Counted(b) + 1 <= Limit[b[2]]
      BY <1>4, <2>1, <2>3, <3>1
    <3>3. CASE b \in now
      <4>1. admitted'[b] = admitted[b] + 1
        BY <1>2, <2>3, <3>3
      <4>2. b[3] = Step(b[2], clock)
        BY <3>3, InBucketsOf
      <4>3. b \in lost \/ Counted(b) = asked[b]
        BY <4>2 DEF IInv, Remember
      <4> QED BY <2>1, <2>2, <3>1, <3>2, <4>1, <4>3
    <3>4. CASE b \notin now
      <4>1. admitted'[b] = admitted[b]
        BY <1>2, <3>4
      <4> QED BY <2>1, <2>2, <3>1, <4>1
    <3> QED BY <3>3, <3>4
  <2>4. CASE b \notin K
    <3>1. Counted(b)' = Counted(b) /\ asked'[b] = asked[b]
      BY <1>1, <1>3, <2>4, CountEffect DEF K
    <3>2. admitted'[b] = admitted[b]
      BY <1>2, <2>4
    <3> QED BY <2>1, <2>2, <3>1, <3>2
  <2> QED BY <2>3, <2>4
<1>9. Below'
  BY <1>8 DEF Below
<1>10. WithinLimit'
  BY <1>1, <1>8 DEF WithinLimit
<1>11. admitted' \in [Buckets -> Nat]
  BY <1>2, <1>8
<1>12. RefusedTypes' /\ RefusalsDeserved'
  BY <1>1, <1>7, <1>8, RefusalsKeep
<1>13. Types'
  BY <1>1, <1>5, <1>6, <1>7, <1>11, <1>12 DEF IInv, Types
<1> QED BY <1>6, <1>9, <1>10, <1>12, <1>13 DEF IInv

(* Within a bucket its counter is alive; a bucket that begins has none and *)
(* has not been asked for.                                                 *)
LEMMA TickKeeps ==
  ASSUME IInv, Tick
  PROVE  IInv'
<1>1. clock \in Nat /\ clock' = clock + 1 /\ clock' \in 0..MaxClock /\ clock' \in Nat
  BY LimitAssumption DEF Tick, IInv, Types
<1>2. counters' = [k \in {k \in DOMAIN counters : counters[k].dies > clock'} |->
                     counters[k]]
      /\ UNCHANGED <<request, asked, admitted, lost, refused>>
  BY DEF Tick
<1>3. /\ DOMAIN counters' = {k \in DOMAIN counters : counters[k].dies > clock'}
      /\ \A k \in DOMAIN counters' : k \in DOMAIN counters /\ counters'[k] = counters[k]
  BY <1>2
<1>4. RequestTypes'
  <2>1. \A t \in 0..clock : t \in 0..clock'
    BY <1>1
  <2> QED BY <1>2, <2>1 DEF IInv, Types, RequestTypes
<1>5. Types'
  BY <1>1, <1>2, <1>3, <1>4 DEF IInv, Types, RefusedTypes
<1>6. Outlive'
  BY <1>3 DEF IInv, Outlive, Step, Unix
<1>7. ASSUME NEW b \in Buckets
      PROVE  /\ Counted(b)' = Counted(b) \/ Counted(b)' = 0
             /\ b \notin DOMAIN counters => Counted(b)' = 0
             /\ b \in DOMAIN counters' => Counted(b)' = Counted(b)
  BY <1>3 DEF Counted
<1>8. Below'
  <2>1. ASSUME NEW b \in Buckets
        PROVE  Counted(b)' <= asked'[b] /\ admitted'[b] <= asked'[b]
    <3>1. asked[b] \in Nat /\ Counted(b) <= asked[b] /\ admitted[b] <= asked[b]
      BY DEF IInv, Below, Types
    <3> QED BY <1>2, <1>7, <3>1
  <2> QED BY <2>1 DEF Below
<1>9. ASSUME NEW b \in Buckets
      PROVE  /\ b[2] \in WindowIds /\ b[3] \in Nat
             /\ Step(b[2], clock) \in Nat /\ Step(b[2], clock') \in Nat
             /\ Step(b[2], clock) <= Step(b[2], clock')
  <2>1. b[2] \in WindowIds /\ b[3] \in Nat
    BY BucketParts
  <2>2. clock <= clock'
    BY <1>1
  <2> QED BY <1>1, <2>1, <2>2, StepInNat, StepMonotone
<1>10. Fresh'
  <2>1. ASSUME NEW b \in Buckets, b[3] > Step(b[2], clock')
        PROVE  asked'[b] = 0 /\ b \notin DOMAIN counters'
    <3>1. b[3] > Step(b[2], clock)
      BY <1>9, <2>1
    <3> QED BY <1>2, <1>3, <3>1 DEF IInv, Fresh
  <2> QED BY <2>1 DEF Fresh, Step, Unix
<1>11. Remember'
  <2>1. ASSUME NEW b \in Buckets, b[3] = Step(b[2], clock'), b \notin lost
        PROVE  Counted(b)' = asked'[b]
    <3>1. CASE b[3] = Step(b[2], clock)
      <4>1. Counted(b) = asked[b]
        BY <2>1, <3>1 DEF IInv, Remember
      <4>2. CASE b \in DOMAIN counters
        <5>1. clock' < counters[b].dies /\ counters[b].dies \in Nat
          BY <1>1, <2>1, <4>2 DEF IInv, Outlive, Types
        <5>2. b \in DOMAIN counters'
          BY <1>1, <1>3, <4>2, <5>1
        <5> QED BY <1>2, <1>7, <4>1, <5>2
      <4>3. CASE b \notin DOMAIN counters
        <5>1. Counted(b) = 0 /\ Counted(b)' = 0
          BY <1>7, <4>3 DEF Counted
        <5> QED BY <1>2, <4>1, <5>1
      <4> QED BY <4>2, <4>3
    <3>2. CASE b[3] > Step(b[2], clock)
      <4>1. asked[b] = 0 /\ b \notin DOMAIN counters
        BY <3>2 DEF IInv, Fresh
      <4> QED BY <1>2, <1>7, <4>1
    <3> QED BY <1>9, <2>1, <3>1, <3>2
  <2> QED BY <1>2, <2>1 DEF Remember, Step, Unix
<1>12. WithinLimit' /\ RefusalsDeserved'
  BY <1>2 DEF IInv, WithinLimit, RefusalsDeserved, Step, Unix
<1> QED BY <1>5, <1>6, <1>8, <1>10, <1>11, <1>12 DEF IInv

LEMMA LoseCounterKeeps ==
  ASSUME IInv, NEW k \in DOMAIN counters, LoseCounter(k)
  PROVE  IInv'
<1>1. counters' = [j \in DOMAIN counters \ {k} |-> counters[j]] /\ lost' = lost \cup {k}
      /\ UNCHANGED <<clock, request, asked, admitted, refused>>
  BY DEF LoseCounter
<1>2. DOMAIN counters' = DOMAIN counters \ {k}
      /\ \A j \in DOMAIN counters' : counters'[j] = counters[j]
  BY <1>1
<1>3. Types'
  BY <1>1, <1>2 DEF IInv, Types, RequestTypes, RefusedTypes
<1>4. Outlive' /\ Fresh'
  BY <1>1, <1>2 DEF IInv, Outlive, Fresh, Step, Unix
<1>5. ASSUME NEW b \in Buckets
      PROVE  IF b = k THEN Counted(b)' = 0 ELSE Counted(b)' = Counted(b)
  BY <1>2 DEF Counted
<1>6. Below'
  <2>1. ASSUME NEW b \in Buckets
        PROVE  Counted(b)' <= asked'[b] /\ admitted'[b] <= asked'[b]
    <3>1. asked[b] \in Nat /\ Counted(b) <= asked[b] /\ admitted[b] <= asked[b]
      BY DEF IInv, Below, Types
    <3> QED BY <1>1, <1>5, <3>1
  <2> QED BY <2>1 DEF Below
<1>7. Remember'
  <2>1. ASSUME NEW b \in Buckets, b[3] = Step(b[2], clock), b \notin lost'
        PROVE  Counted(b)' = asked'[b]
    <3>1. b # k /\ b \notin lost
      BY <1>1, <2>1
    <3> QED BY <1>1, <1>5, <2>1, <3>1 DEF IInv, Remember
  <2> QED BY <1>1, <2>1 DEF Remember, Step, Unix
<1>8. WithinLimit' /\ RefusalsDeserved'
  BY <1>1 DEF IInv, WithinLimit, RefusalsDeserved, Step, Unix
<1> QED BY <1>3, <1>4, <1>6, <1>7, <1>8 DEF IInv

-----------------------------------------------------------------------------
LEMMA InitHolds == Init => IInv
<1> SUFFICES ASSUME Init PROVE IInv
  OBVIOUS
<1>1. clock = 0 /\ 0 \in 0..MaxClock
  BY LimitAssumption DEF Init
<1>2. DOMAIN counters = {}
  BY DEF Init
<1>3. /\ asked = [b \in Buckets |-> 0] /\ admitted = [b \in Buckets |-> 0]
      /\ refused = [s \in Subjects |-> NotRefused] /\ request = [r \in Requests |-> Unsent]
  BY DEF Init
<1>4. RequestTypes /\ RefusedTypes
  BY <1>3 DEF RequestTypes, RefusedTypes, Unsent
<1>5. Types
  BY <1>1, <1>2, <1>3, <1>4 DEF Types
<1>6. Outlive /\ Fresh
  BY <1>2, <1>3 DEF Outlive, Fresh
<1>7. \A b \in Buckets : Counted(b) = 0 /\ asked[b] = 0 /\ admitted[b] = 0
  BY <1>2, <1>3 DEF Counted
<1>8. Below /\ Remember
  BY <1>7 DEF Below, Remember
<1>9. WithinLimit
  <2>1. \A b \in Buckets : Limit[b[2]] \in Nat
    BY BucketParts, LimitAssumption
  <2> QED BY <1>7, <2>1 DEF WithinLimit
<1>10. RefusalsDeserved
  BY <1>3 DEF RefusalsDeserved
<1> QED BY <1>5, <1>6, <1>8, <1>9, <1>10 DEF IInv

LEMMA StepHolds == IInv /\ [Next]_vars => IInv'
<1> SUFFICES ASSUME IInv, [Next]_vars PROVE IInv'
  OBVIOUS
<1>1. ASSUME NEW r \in Requests, NEW c \in Callers, Arrive(r, c) PROVE IInv'
  BY <1>1, ArriveKeeps
<1>2. ASSUME NEW r \in Requests, Allows(r) PROVE IInv'
  BY <1>2, AllowsKeeps
<1>3. ASSUME NEW r \in Requests, Denies(r) PROVE IInv'
  BY <1>3, DeniesKeeps
<1>4. ASSUME NEW r \in Requests, ReplyLost(r) PROVE IInv'
  BY <1>4, ReplyLostKeeps
<1>5. ASSUME NEW r \in Requests, FailsOpen(r) PROVE IInv'
  BY <1>5, FailsOpenKeeps
<1>6. ASSUME Tick PROVE IInv'
  BY <1>6, TickKeeps
<1>7. ASSUME NEW k \in DOMAIN counters, LoseCounter(k) PROVE IInv'
  BY <1>7, LoseCounterKeeps
<1>8. ASSUME UNCHANGED vars PROVE IInv'
  BY <1>8 DEF vars, IInv, Types, RequestTypes, RefusedTypes, Outlive, Fresh, Below, Remember,
     Counted, WithinLimit, RefusalsDeserved, Step, Unix
<1> QED
  BY <1>1, <1>2, <1>3, <1>4, <1>5, <1>6, <1>7, <1>8 DEF Next

LEMMA Inductive == Spec => []IInv
BY InitHolds, StepHolds, PTL DEF Spec

(* The counter of a bucket that has not ended has every count made for it, *)
(* unless Redis lost it.                                                   *)
THEOREM CountersAreKept == Spec => []CountersRemember
<1>1. ASSUME IInv PROVE CountersRemember
  <2>1. ASSUME NEW s \in Subjects, NEW b \in BucketsOf(s, clock)
        PROVE  b \in lost \/ Counted(b) = asked[b]
    <3>1. PICK w \in WindowIds : b = <<s, w, Step(w, clock)>>
      BY DEF BucketsOf
    <3>2. b \in Buckets
      BY <1>1, <3>1, BucketsAreBuckets DEF IInv, Types
    <3> QED BY <1>1, <3>1, <3>2 DEF IInv, Remember
  <2> QED BY <2>1 DEF CountersRemember
<1> QED BY <1>1, Inductive, PTL

(* A bucket admits no more than its limit, however requests race.          *)
THEOREM LimitHolds == Spec => []WithinLimit
<1>1. IInv => WithinLimit
  BY DEF IInv
<1> QED BY <1>1, Inductive, PTL

(* Whoever is refused was counted over the limit in that bucket.           *)
THEOREM RefusalsAreDeserved == Spec => []RefusalsDeserved
<1>1. IInv => RefusalsDeserved
  BY DEF IInv
<1> QED BY <1>1, Inductive, PTL

-----------------------------------------------------------------------------
(* A finite set of numbers has a greatest: the one with fewest above it.   *)
LEMMA HasGreatest ==
  ASSUME NEW T, T \subseteq Nat, T # {}, IsFiniteSet(T)
  PROVE  \E n \in T : \A m \in T : m <= n
<1> DEFINE Above(n) == {m \in T : m > n}
           F == {Above(n) : n \in T}
           R == StrictSubsetOrdering(T)
<1>1. IsWellFoundedOn(R, FiniteSubsetsOf(T))
  BY FS_StrictSubsetOrderingWellFounded
<1>2. F \subseteq FiniteSubsetsOf(T) /\ F # {}
  <2>1. \A n \in T : Above(n) \in SUBSET T
    OBVIOUS
  <2>2. FiniteSubsetsOf(T) = SUBSET T
    BY FS_FiniteSubsetsOfFinite
  <2>3. F \subseteq SUBSET T
    BY <2>1
  <2>4. PICK n \in T : TRUE
    OBVIOUS
  <2>5. Above(n) \in F
    OBVIOUS
  <2> HIDE DEF F
  <2> QED BY <2>2, <2>3, <2>5
<1>3. PICK A \in F : \A B \in F : <<B, A>> \notin R
  <2> HIDE DEF F, R
  <2> QED BY <1>1, <1>2, WFMin
<1>4. PICK n \in T : A = Above(n)
  OBVIOUS
<1>5. ASSUME NEW m \in T, m > n
      PROVE  FALSE
  <2>1. Above(m) \in F
    OBVIOUS
  <2>2. Above(m) \subseteq Above(n)
    <3>1. \A x \in T : x > m => x > n
      BY <1>5
    <3> QED BY <3>1
  <2>3. m \in Above(n) /\ m \notin Above(m)
    BY <1>5
  <2>4. <<Above(m), A>> \in R
    <3> DEFINE B == Above(m)
    <3>1. B \subseteq A /\ B # A /\ B \in SUBSET T /\ A \in SUBSET T
      BY <1>4, <2>2, <2>3
    <3> HIDE DEF B
    <3>2. <<B, A>> \in R
      BY <3>1 DEF StrictSubsetOrdering
    <3> QED BY <3>2 DEF B
  <2> QED BY <1>3, <2>1, <2>4
<1>6. \A m \in T : m <= n
  BY <1>5
<1> QED BY <1>6

(* Division and remainder, as far as waits need it.                        *)
LEMMA ModBounds ==
  ASSUME NEW a \in Nat, NEW n \in Nat \ {0}
  PROVE  a % n \in 0..(n - 1) /\ a = n * (a \div n) + (a % n)
OBVIOUS

LEMMA DivIs ==
  ASSUME NEW n \in Nat \ {0}, NEW i \in Nat, NEW a \in Nat,
         n * i <= a, a < n * i + n
  PROVE  a \div n = i
<1> DEFINE p == a \div n
<1>1. p \in Nat /\ n * p <= a /\ a < n * p + n
  BY DivBounds
<1> HIDE DEF p
<1>2. ASSUME p < i
      PROVE  FALSE
  <2>1. n * (p + 1) <= n * i
    BY <1>1, <1>2
  <2> QED BY <1>1, <2>1
<1>3. ASSUME p > i
      PROVE  FALSE
  <2>1. n * (i + 1) <= n * p
    BY <1>1, <1>3
  <2> QED BY <1>1, <2>1
<1>4. p = i
  BY <1>1, <1>2, <1>3
<1> QED BY <1>4 DEF p

(* A wait of so many seconds is that many seconds later.                   *)
LEMMA UnixLater ==
  ASSUME NEW t \in Nat, NEW n \in Nat
  PROVE  Unix(t + n * PerSecond) = Unix(t) + n
<1> DEFINE p == PerSecond
           u == Unix(t)
<1>1. p \in Nat \ {0}
  BY LimitAssumption
<1>2. u \in Nat /\ p * u <= t /\ t < p * u + p
  BY <1>1, DivBounds DEF Unix
<1> HIDE DEF p, u
<1>3. n * p \in Nat /\ p * (u + n) = p * u + n * p
  BY <1>1, <1>2
<1>4. p * (u + n) <= t + n * p /\ t + n * p < p * (u + n) + p
  BY <1>1, <1>2, <1>3
<1>5. t + n * p \in Nat /\ u + n \in Nat
  BY <1>2, <1>3
<1>6. (t + n * p) \div p = u + n
  BY <1>1, <1>4, <1>5, DivIs
<1> QED BY <1>6 DEF p, u, Unix

(* The wait of a window ends with its bucket: that long is enough, and a   *)
(* second less is not.                                                     *)
LEMMA WaitEnds ==
  ASSUME NEW w \in WindowIds, NEW t \in Nat
  PROVE  /\ UntilNextWindow(w, t) \in 1..Size[w]
         /\ \A n \in Nat : n >= UntilNextWindow(w, t) =>
              Step(w, t + n * PerSecond) > Step(w, t)
         /\ LET n == UntilNextWindow(w, t) IN
              Step(w, t + (n - 1) * PerSecond) = Step(w, t)
<1> DEFINE z == Size[w]
           u == Unix(t)
           i == Step(w, t)
           k == UntilNextWindow(w, t)
<1>1. z \in Nat \ {0} /\ u \in Nat /\ i \in Nat
  BY LimitAssumption, DivBounds, StepInNat DEF Unix
<1>2. u % z \in 0..(z - 1) /\ u = z * i + (u % z)
  BY <1>1, ModBounds DEF Step
<1>3. k = z - (u % z)
  BY DEF UntilNextWindow
<1> HIDE DEF z, u, i, k
<1>4. k \in 1..z /\ u + k = z * i + z /\ z * i \in Nat
  BY <1>1, <1>2, <1>3
<1>5. ASSUME NEW n \in Nat, n >= k
      PROVE  Step(w, t + n * PerSecond) > i
  <2>1. Step(w, t + n * PerSecond) = (u + n) \div z
    BY UnixLater DEF Step, u, z
  <2> DEFINE q == (u + n) \div z
  <2>2. q \in Nat /\ u + n < z * q + z
    BY <1>1, DivBounds
  <2> HIDE DEF q
  <2>3. SUFFICES ASSUME q <= i
                 PROVE  FALSE
    BY <1>1, <2>1, <2>2 DEF q
  <2>4. z * q <= z * i
    BY <1>1, <2>2, <2>3
  <2> QED BY <1>1, <1>4, <1>5, <2>2, <2>4
<1>6. Step(w, t + (k - 1) * PerSecond) = i
  <2>1. k - 1 \in Nat
    BY <1>1, <1>4
  <2>2. Step(w, t + (k - 1) * PerSecond) = (u + (k - 1)) \div z
    BY <2>1, UnixLater DEF Step, u, z
  <2>3. z * i <= u + (k - 1) /\ u + (k - 1) < z * i + z /\ u + (k - 1) \in Nat
    BY <1>1, <1>2, <1>4
  <2>4. (u + (k - 1)) \div z = i
    BY <1>1, <2>3, DivIs
  <2> QED BY <2>2, <2>4
<1> QED BY <1>4, <1>5, <1>6 DEF z, i, k

(* The wait that is named is one of those of the windows that are over,    *)
(* and no other is longer.                                                 *)
LEMMA LongestWait ==
  ASSUME NEW over, over \subseteq WindowIds, over # {}, NEW t \in Nat
  PROVE  /\ \E w \in over : RetryAfter(over, t) = UntilNextWindow(w, t)
         /\ \A w \in over : RetryAfter(over, t) >= UntilNextWindow(w, t)
<1> DEFINE T == {UntilNextWindow(w, t) : w \in over}
<1>1. IsFiniteSet(over)
  BY LimitAssumption, FS_Subset
<1>2. IsFiniteSet(T)
  <2> DEFINE f == [w \in over |-> UntilNextWindow(w, t)]
  <2>1. f \in Surjection(over, T)
    BY DEF Surjection
  <2> QED BY <1>1, <2>1, FS_Surjection
<1>3. T \subseteq Nat /\ T # {}
  <2>1. \A w \in over : UntilNextWindow(w, t) \in 1..Size[w] /\ Size[w] \in Nat
    BY WaitEnds, LimitAssumption
  <2> QED BY <2>1
<1>4. \E n \in T : \A m \in T : m <= n
  <2> HIDE DEF T
  <2> QED BY <1>2, <1>3, HasGreatest
<1>5. \E n \in T : \A w \in over : n >= UntilNextWindow(w, t)
  <2>1. PICK n \in T : \A m \in T : m <= n
    BY <1>4
  <2>2. ASSUME NEW w \in over
        PROVE  n >= UntilNextWindow(w, t)
    <3>1. UntilNextWindow(w, t) \in T
      OBVIOUS
    <3>2. n \in Nat /\ UntilNextWindow(w, t) \in Nat /\ UntilNextWindow(w, t) <= n
      <4> HIDE DEF T
      <4> QED BY <1>3, <2>1, <3>1
    <3> QED BY <3>2
  <2> QED BY <2>2
<1>6. RetryAfter(over, t) \in T /\ \A w \in over : RetryAfter(over, t) >= UntilNextWindow(w, t)
  BY <1>5 DEF RetryAfter
<1> QED BY <1>6

-----------------------------------------------------------------------------
(* What TypeOK and WaitingHelps need beyond IInv: the wait a refusal names *)
(* is the longest of the windows that were over.                           *)
Sent == [pc : {"sent"}, subject : Subjects, at : 0..MaxClock, sends : 0..MaxSends - 1]

Waits ==
  \A s \in Subjects : refused[s] # NotRefused =>
    /\ refused[s].over \subseteq WindowIds /\ refused[s].over # {}
    /\ refused[s].at \in 0..MaxClock
    /\ refused[s].retry = RetryAfter(refused[s].over, refused[s].at)

TInv ==
  /\ \A k \in DOMAIN counters : counters[k] \in [n : Nat \ {0}, dies : Nat]
  /\ request \in [Requests -> {Unsent, Done} \cup Sent]
  /\ lost \subseteq Buckets
  /\ Waits

LEMMA TInvTypes ==
  ASSUME IInv, TInv
  PROVE  TypeOK
<1>1. ASSUME NEW s \in Subjects, refused[s] # NotRefused
      PROVE  /\ refused[s].at \in 0..MaxClock
             /\ refused[s].over \in (SUBSET WindowIds) \ {{}}
             /\ \E w \in refused[s].over : refused[s].retry \in 1..Size[w]
  <2>1. /\ refused[s].over \subseteq WindowIds /\ refused[s].over # {}
        /\ refused[s].at \in 0..MaxClock
        /\ refused[s].retry = RetryAfter(refused[s].over, refused[s].at)
    BY <1>1 DEF TInv, Waits
  <2>2. refused[s].at \in Nat
    BY <2>1, LimitAssumption
  <2>3. PICK w \in refused[s].over : refused[s].retry = UntilNextWindow(w, refused[s].at)
    <3> DEFINE over == refused[s].over
               at == refused[s].at
    <3> HIDE DEF over, at
    <3>1. \E w \in over : RetryAfter(over, at) = UntilNextWindow(w, at)
      <4>1. over \subseteq WindowIds /\ over # {} /\ at \in Nat
        BY <2>1, <2>2 DEF over, at
      <4> QED BY <4>1, LongestWait
    <3> QED BY <2>1, <3>1 DEF over, at
  <2>4. refused[s].retry \in 1..Size[w]
    BY <2>1, <2>2, <2>3, WaitEnds
  <2>5. \E v \in refused[s].over : refused[s].retry \in 1..Size[v]
    BY <2>3, <2>4
  <2>6. refused[s].over \in (SUBSET WindowIds) \ {{}}
    BY <2>1
  <2> QED BY <2>1, <2>5, <2>6
<1>2. Types
  BY DEF IInv
<1> QED BY <1>1, <1>2 DEF TInv, Types, TypeOK, Sent

LEMMA WaitsHelp ==
  ASSUME TInv
  PROVE  WaitingHelps
<1> SUFFICES ASSUME NEW s \in Subjects, refused[s] # NotRefused
             PROVE  LET at    == refused[s].at
                        until == at + refused[s].retry * PerSecond IN
                    /\ \A w \in refused[s].over : Step(w, until) > Step(w, at)
                    /\ \E w \in refused[s].over : Step(w, until - PerSecond) = Step(w, at)
  BY DEF WaitingHelps
<1> DEFINE at == refused[s].at
           over == refused[s].over
           n == refused[s].retry
<1>1. over \subseteq WindowIds /\ over # {} /\ at \in Nat /\ n = RetryAfter(over, at)
  BY LimitAssumption DEF TInv, Waits
<1> HIDE DEF at, over, n
<1>2. PICK w \in over : n = UntilNextWindow(w, at)
  BY <1>1, LongestWait
<1>3. n \in Nat /\ n >= 1
  <2>1. n \in 1..Size[w] /\ Size[w] \in Nat
    BY <1>1, <1>2, WaitEnds, LimitAssumption
  <2> QED BY <2>1
<1>4. ASSUME NEW v \in over
      PROVE  Step(v, at + n * PerSecond) > Step(v, at)
  BY <1>1, <1>3, LongestWait, WaitEnds
<1>5. (at + n * PerSecond) - PerSecond = at + (n - 1) * PerSecond
  BY <1>1, <1>3, LimitAssumption
<1>6. Step(w, (at + n * PerSecond) - PerSecond) = Step(w, at)
  BY <1>1, <1>2, <1>5, WaitEnds
<1> DEFINE until == at + n * PerSecond
<1>7. \A v \in over : Step(v, until) > Step(v, at)
  BY <1>4
<1>8. \E v \in over : Step(v, until - PerSecond) = Step(v, at)
  <2>1. w \in over /\ Step(w, until - PerSecond) = Step(w, at)
    BY <1>2, <1>6
  <2> HIDE DEF until
  <2> QED BY <2>1
<1>9. /\ \A v \in over : Step(v, until) > Step(v, at)
      /\ \E v \in over : Step(v, until - PerSecond) = Step(v, at)
  BY <1>7, <1>8
<1> QED BY <1>9, Zenon DEF at, over, n, until

LEMMA CountTypes ==
  ASSUME IInv, TInv, NEW q, q.subject \in Subjects, q.at \in 0..clock, CountsOnce(q)
  PROVE  \A k \in DOMAIN counters' : counters'[k] \in [n : Nat \ {0}, dies : Nat]
<1> DEFINE K == {BucketKey(q.subject, w, q.at) : w \in WindowIds}
<1>1. counters' = [k \in DOMAIN counters \cup K |->
        IF k \in K THEN [n |-> Counted(k) + 1, dies |-> clock + Size[k[2]] * PerSecond]
        ELSE counters[k]]
  BY DEF CountsOnce, Bumped
<1>2. ASSUME NEW k \in K
      PROVE  [n |-> Counted(k) + 1, dies |-> clock + Size[k[2]] * PerSecond]
               \in [n : Nat \ {0}, dies : Nat]
  <2>1. PICK w \in WindowIds : k = BucketKey(q.subject, w, q.at)
    OBVIOUS
  <2>2. k[2] = w
    BY <2>1 DEF BucketKey
  <2>3. Size[w] \in Nat /\ PerSecond \in Nat /\ clock \in Nat
    BY LimitAssumption DEF IInv, Types
  <2>4. Counted(k) + 1 \in Nat \ {0} /\ clock + Size[k[2]] * PerSecond \in Nat
    BY <2>2, <2>3, CountedType DEF IInv
  <2> QED BY <2>4
<1> HIDE DEF K
<1> QED BY <1>1, <1>2 DEF TInv

LEMMA SentIsSent ==
  ASSUME TInv, NEW r \in Requests, request[r].pc = "sent"
  PROVE  request[r] \in Sent
BY DEF TInv, Unsent, Done

LEMMA TStep ==
  ASSUME IInv, TInv, [Next]_vars
  PROVE  TInv'
<1>1. ASSUME NEW r \in Requests, NEW c \in Callers, Arrive(r, c)
      PROVE  TInv'
  <2>1. [pc |-> "sent", subject |-> Subject(c), at |-> clock, sends |-> 0] \in Sent
    BY LimitAssumption DEF Sent, Subjects, IInv, Types
  <2> QED BY <1>1, <2>1 DEF Arrive, TInv, Waits
<1>2. ASSUME NEW r \in Requests, Allows(r) \/ Denies(r) \/ ReplyLost(r)
      PROVE  TInv'
  <2> DEFINE q == request[r]
  <2>1. q \in Sent /\ q.subject \in Subjects /\ q.at \in 0..clock /\ q.at \in 0..MaxClock
    BY <1>2, SentIsSent, CountIsSent DEF Allows, Denies, ReplyLost
  <2>2. \A k \in DOMAIN counters' : counters'[k] \in [n : Nat \ {0}, dies : Nat]
    BY <1>2, <2>1, CountTypes DEF Allows, Denies, ReplyLost
  <2>3. request' \in [Requests -> {Unsent, Done} \cup Sent]
    <3>1. CASE request' = [request EXCEPT ![r] = Done]
      BY <3>1 DEF TInv
    <3>2. CASE q.sends + 1 # MaxSends /\ request' = [request EXCEPT ![r] =
                 [q EXCEPT !.sends = @ + 1]]
      <4>1. [q EXCEPT !.sends = @ + 1] \in Sent
        BY <2>1, <3>2, LimitAssumption DEF Sent
      <4> QED BY <3>2, <4>1 DEF TInv
    <3> QED BY <1>2, <3>1, <3>2 DEF Allows, Denies, ReplyLost
  <2>4. lost' \subseteq Buckets
    BY <1>2 DEF Allows, Denies, ReplyLost, TInv
  <2>5. Waits'
    <3>1. CASE UNCHANGED refused
      BY <3>1 DEF TInv, Waits
    <3>2. CASE Denies(r)
      <4> DEFINE v == [at |-> q.at, over |-> Over(q), retry |-> RetryAfter(Over(q), q.at)]
      <4>1. refused' = [refused EXCEPT ![q.subject] = v] /\ Over(q) # {}
        BY <3>2 DEF Denies
      <4>2. Over(q) \subseteq WindowIds
        BY DEF Over
      <4>3. /\ v.over \subseteq WindowIds /\ v.over # {} /\ v.at \in 0..MaxClock
            /\ v.retry = RetryAfter(v.over, v.at)
        BY <2>1, <4>1, <4>2
      <4>4. DOMAIN refused = Subjects
        BY DEF IInv, Types, RefusedTypes
      <4> HIDE DEF v
      <4>5. ASSUME NEW s \in Subjects
            PROVE  refused'[s] = refused[s] \/ refused'[s] = v
        BY <4>1, <4>4
      <4>6. ASSUME NEW s \in Subjects, refused'[s] # NotRefused
            PROVE  /\ refused'[s].over \subseteq WindowIds /\ refused'[s].over # {}
                   /\ refused'[s].at \in 0..MaxClock
                   /\ refused'[s].retry = RetryAfter(refused'[s].over, refused'[s].at)
        BY <4>3, <4>5, <4>6 DEF TInv, Waits
      <4> QED BY <4>6 DEF Waits, RetryAfter, UntilNextWindow, Unix
    <3> QED BY <1>2, <3>1, <3>2 DEF Allows, ReplyLost
  <2> QED BY <2>2, <2>3, <2>4, <2>5 DEF TInv
<1>3. ASSUME NEW r \in Requests, FailsOpen(r)
      PROVE  TInv'
  BY <1>3 DEF FailsOpen, TInv, Waits
<1>4. ASSUME Tick
      PROVE  TInv'
  BY <1>4 DEF Tick, TInv, Waits
<1>5. ASSUME NEW k \in DOMAIN counters, LoseCounter(k)
      PROVE  TInv'
  <2>1. k \in Buckets
    BY DEF IInv, Types
  <2> QED BY <1>5, <2>1 DEF LoseCounter, TInv, Waits
<1>6. CASE UNCHANGED vars
  BY <1>6 DEF vars, TInv, Waits
<1>7. CASE Next
  BY <1>1, <1>2, <1>3, <1>4, <1>5, <1>7 DEF Next
<1> QED BY <1>6, <1>7

LEMMA TInductive == Spec => [](IInv /\ TInv)
<1>1. Init => TInv
  <2>1. ASSUME Init
        PROVE  TInv
    <3>1. DOMAIN counters = {}
      BY <2>1 DEF Init
    <3> QED BY <2>1, <3>1 DEF Init, TInv, Waits
  <2> QED BY <2>1
<1>2. IInv /\ TInv /\ [Next]_vars => TInv'
  BY TStep
<1> QED BY <1>1, <1>2, InitHolds, StepHolds, PTL DEF Spec

(* The counters, the requests and the refusals are well typed.             *)
THEOREM TypeCorrect == Spec => []TypeOK
<1>1. IInv /\ TInv => TypeOK
  BY TInvTypes
<1> QED BY <1>1, TInductive, PTL

(* Retry-After is the time until every window that refused the request has *)
(* a new bucket, and no second longer.                                     *)
THEOREM WaitsAreHonest == Spec => []WaitingHelps
<1>1. TInv => WaitingHelps
  BY WaitsHelp
<1> QED BY <1>1, TInductive, PTL
=============================================================================
