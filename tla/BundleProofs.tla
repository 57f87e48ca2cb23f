---------------------------- MODULE BundleProofs -----------------------------
(***************************************************************************)
(* Theorems about PublishedBundle, for every set of file systems, sources  *)
(* and names that satisfies the assumptions of Paths, BundleWalk and       *)
(* Viewer:                                                                 *)
(*   - nothing from outside the project is uploaded, nothing that no page  *)
(*     refers to, and a reference reaches the file it names (WalkInv);     *)
(*   - a reader's redirects end, a click lands on the node it names, /raw/ *)
(*     mirrors the viewer, and the sidebar shows the page (ReadInv).       *)
(*                                                                         *)
(* The first half of the module is about paths.  Clean and Resolve are     *)
(* recursive functions of the length of a path; what is needed of them is  *)
(* proved by induction along one path (Counting), in which a fact is the   *)
(* set of the lengths it holds for.                                        *)
(***************************************************************************)
EXTENDS PublishedBundle, FiniteSetTheorems, SequenceTheorems,
        WellFoundedInduction, TLAPS

(* Induction up to N, on the set of the numbers a fact holds of.           *)
LEMMA Counting ==
  ASSUME NEW N \in Nat, NEW S, 0 \in S,
         \A n \in 0..(N - 1) : n \in S => (n + 1) \in S
  PROVE  0..N \subseteq S
<1> DEFINE R == OpToRel(<, Nat)
           T == {n \in 0..N : n \notin S}
<1> SUFFICES ASSUME T # {} PROVE FALSE
  OBVIOUS
<1>1. IsWellFoundedOn(R, Nat)
  BY NatLessThanWellFounded
<1>2. PICK x \in T : \A y \in T : <<y, x>> \notin R
  <2> T \subseteq Nat
    OBVIOUS
  <2> HIDE DEF T, R
  <2> QED BY <1>1, WFMin
<1>3. x # 0 /\ x - 1 \in 0..(N - 1)
  OBVIOUS
<1>4. <<x - 1, x>> \in R
  BY <1>3 DEF OpToRel
<1>5. x - 1 \in S
  <2> HIDE DEF R
  <2> SUFFICES ASSUME x - 1 \notin S PROVE FALSE
    OBVIOUS
  <2>1. x - 1 \in T
    BY <1>3
  <2> QED BY <1>2, <1>4, <2>1
<1>6. (x - 1) + 1 \in S
  BY <1>3, <1>5
<1> QED BY <1>3, <1>6

(* A function that gives its value at n from that at n - 1 exists: what    *)
(* the recursive definitions of Clean and Resolve denote.                  *)
LEMMA Recursion ==
  ASSUME NEW A, NEW a \in A, NEW N \in Nat, NEW F \in [1..N -> [A -> A]]
  PROVE  \E d \in [0..N -> A] :
           d[0] = a /\ \A n \in 1..N : d[n] = F[n][d[n - 1]]
<1> DEFINE Good(d, m) == d[0] = a /\ \A n \in 1..m : d[n] = F[n][d[n - 1]]
           S == {m \in 0..N : \E d \in [0..m -> A] : Good(d, m)}
<1>1. 0 \in S
  <2> DEFINE d == [n \in 0..0 |-> a]
  <2>1. Good(d, 0) /\ d \in [0..0 -> A]
    OBVIOUS
  <2> HIDE DEF d, Good
  <2> QED BY <2>1
<1>2. ASSUME NEW m \in 0..(N - 1), m \in S
      PROVE  (m + 1) \in S
  <2>1. PICK d \in [0..m -> A] : Good(d, m)
    BY <1>2
  <2> DEFINE e == [n \in 0..(m + 1) |-> IF n = m + 1 THEN F[m + 1][d[m]] ELSE d[n]]
  <2>2. F[m + 1][d[m]] \in A
    <3>1. d[m] \in A /\ m + 1 \in 1..N
      OBVIOUS
    <3> QED BY <3>1
  <2>3. e \in [0..(m + 1) -> A]
    BY <2>2
  <2>4. e[0] = a
    BY <2>1
  <2>5. ASSUME NEW n \in 1..(m + 1)
        PROVE  e[n] = F[n][e[n - 1]]
    <3>0. n \in 0..(m + 1) /\ n - 1 \in 0..(m + 1) /\ n - 1 # m + 1
      OBVIOUS
    <3>1. CASE n = m + 1
      BY <3>0, <3>1
    <3>2. CASE n \in 1..m
      <4>1. e[n] = d[n] /\ e[n - 1] = d[n - 1]
        BY <3>0, <3>2
      <4>2. d[n] = F[n][d[n - 1]]
        BY <2>1, <3>2
      <4> HIDE DEF e
      <4> QED BY <4>1, <4>2
    <3> QED BY <3>1, <3>2
  <2>6. Good(e, m + 1)
    BY <2>4, <2>5
  <2> HIDE DEF e, Good
  <2> QED BY <2>3, <2>6
<1>3. 0..N \subseteq S
  <2> HIDE DEF S
  <2> QED BY <1>1, <1>2, Counting
<1> QED BY <1>3

-----------------------------------------------------------------------------
(* Clean: its equation, name by name, and what it makes of clean paths.    *)
LEMMA Dots ==
  /\ Dot # DotDot
  /\ Dot \notin Name /\ DotDot \notin Name
  /\ Dot \in Component /\ DotDot \in Component /\ Name \subseteq Component
  /\ \A x \in Component : x = Dot \/ x = DotDot \/ x \in Name
BY PathsAssumption DEF Dot, DotDot, Component

LEMMA TopIsEmpty ==
  /\ Top \in CleanPaths /\ Len(Top) = 0
  /\ \A p \in CleanPaths : p # Top => Len(p) \in Nat \ {0}
BY DEF CleanPaths, Top

LEMMA CleanPathsAreWritten == CleanPaths \subseteq Seq(Component)
BY Dots DEF CleanPaths

LEMMA CleanStepType ==
  ASSUME NEW done \in CleanPaths, NEW name \in Component
  PROVE  CleanStep(done, name) \in CleanPaths
<1>0. name = Dot \/ name = DotDot \/ name \in Name
  BY Dots
<1>1. CASE name = Dot
  <2>1. CleanStep(done, name) = done
    BY <1>1, Dots DEF CleanStep
  <2> QED BY <2>1
<1>4. CASE name = DotDot /\ done = Top
  BY <1>4, Dots, TopIsEmpty DEF CleanStep
<1>2. CASE name = DotDot /\ done # Top
  BY <1>2, Dots DEF CleanStep, CleanPaths, Front, Top
<1>3. CASE name \in Name
  <2>1. CleanStep(done, name) = Append(done, name)
    BY <1>3, Dots DEF CleanStep
  <2> QED BY <1>3, <2>1 DEF CleanPaths
<1> QED BY <1>0, <1>1, <1>2, <1>3, <1>4

(* The paths Clean goes through.                                           *)
Cleaning(path, d) ==
  /\ d \in [0..Len(path) -> CleanPaths]
  /\ d[0] = Top
  /\ \A n \in 1..Len(path) : d[n] = CleanStep(d[n - 1], path[n])

LEMMA StepsExist ==
  ASSUME NEW N \in Nat, NEW names, \A n \in 1..N : names[n] \in Component
  PROVE  \E d \in [0..N -> CleanPaths] :
           d[0] = Top /\ \A n \in 1..N : d[n] = CleanStep(d[n - 1], names[n])
<1> DEFINE F == [n \in 1..N |-> [p \in CleanPaths |-> CleanStep(p, names[n])]]
<1>1. F \in [1..N -> [CleanPaths -> CleanPaths]]
  <2>1. \A n \in 1..N, p \in CleanPaths : CleanStep(p, names[n]) \in CleanPaths
    BY CleanStepType
  <2> QED BY <2>1
<1>2. PICK d \in [0..N -> CleanPaths] :
        d[0] = Top /\ \A n \in 1..N : d[n] = F[n][d[n - 1]]
  <2> HIDE DEF F
  <2> QED BY <1>1, TopIsEmpty, Recursion
<1>3. ASSUME NEW n \in 1..N
      PROVE  d[n] = CleanStep(d[n - 1], names[n])
  <2>1. d[n - 1] \in CleanPaths /\ n \in 1..N
    OBVIOUS
  <2>2. d[n] = F[n][d[n - 1]]
    BY <1>2
  <2> QED BY <2>1, <2>2
<1> QED BY <1>2, <1>3

LEMMA CleanIs ==
  ASSUME NEW path \in Seq(Component)
  PROVE  \E d : Cleaning(path, d) /\ Clean(path) = d[Len(path)]
<1> DEFINE N == Len(path)
           Body(g) == [n \in 0..N |->
                         IF n = 0 THEN Top ELSE CleanStep(g[n - 1], path[n])]
           done == CHOOSE g : g = Body(g)
<1>0. N \in Nat /\ \A n \in 1..N : path[n] \in Component
  OBVIOUS
<1>1. ASSUME NEW g
      PROVE  /\ Body(g)[0] = Top
             /\ \A n \in 1..N : Body(g)[n] = CleanStep(g[n - 1], path[n])
  <2>1. 0 \in 0..N /\ \A n \in 1..N : n \in 0..N /\ n # 0
    BY <1>0
  <2> QED BY <2>1, Zenon
<1>2. ASSUME NEW g
      PROVE  Body(g) = [n \in 0..N |-> Body(g)[n]]
  OBVIOUS
<1>3. Clean(path) = done[N]
  BY DEF Clean
<1> HIDE DEF Body, N
<1>4. \E g : g = Body(g)
  <2>1. PICK d : Cleaning(path, d)
    <3>1. \A n \in 1..Len(path) : path[n] \in Component
      OBVIOUS
    <3> QED BY <3>1, StepsExist DEF Cleaning
  <2>2. \A n \in 0..N : d[n] = Body(d)[n]
    BY <1>0, <1>1, <2>1 DEF Cleaning, N
  <2>3. d = [n \in 0..N |-> d[n]]
    BY <2>1 DEF Cleaning, N
  <2>4. d = Body(d)
    BY <1>2, <2>2, <2>3
  <2> QED BY <2>4
<1>5. done = Body(done)
  BY <1>4
<1> HIDE DEF done
<1>6. done[0] = Top
  BY <1>1, <1>5
<1>7. ASSUME NEW n \in 1..N
      PROVE  done[n] = CleanStep(done[n - 1], path[n])
  BY <1>1, <1>5
<1>8. \A n \in 0..N : done[n] \in CleanPaths
  <2> DEFINE S == {n \in 0..N : done[n] \in CleanPaths}
  <2>1. 0 \in S
    BY <1>0, <1>6, TopIsEmpty
  <2>2. ASSUME NEW n \in 0..(N - 1), n \in S
        PROVE  (n + 1) \in S
    <3>1. n + 1 \in 1..N /\ n + 1 \in 0..N /\ (n + 1) - 1 = n
      BY <1>0
    <3>2. done[n + 1] = CleanStep(done[n], path[n + 1])
      BY <1>7, <3>1
    <3> QED BY <1>0, <2>2, <3>1, <3>2, CleanStepType
  <2>3. 0..N \subseteq S
    <3> HIDE DEF S
    <3> QED BY <1>0, <2>1, <2>2, Counting
  <2> QED BY <2>3
<1>9. done \in [0..N -> CleanPaths]
  BY <1>2, <1>5, <1>8
<1> QED BY <1>3, <1>6, <1>7, <1>9 DEF Cleaning, N

LEMMA CleanType ==
  ASSUME NEW path \in Seq(Component)
  PROVE  Clean(path) \in CleanPaths
<1>1. PICK d : Cleaning(path, d) /\ Clean(path) = d[Len(path)]
  BY CleanIs
<1>2. Len(path) \in 0..Len(path)
  OBVIOUS
<1> QED BY <1>1, <1>2 DEF Cleaning

LEMMA CleaningsAgree ==
  ASSUME NEW p \in Seq(Component), NEW q \in Seq(Component), NEW d, NEW e,
         Cleaning(p, d), Cleaning(q, e),
         NEW N \in Nat, N <= Len(p), N <= Len(q),
         \A n \in 1..N : p[n] = q[n]
  PROVE  d[N] = e[N]
<1> DEFINE S == {n \in 0..N : d[n] = e[n]}
<1>1. 0 \in S
  BY DEF Cleaning
<1>2. ASSUME NEW n \in 0..(N - 1), n \in S
      PROVE  (n + 1) \in S
  <2>1. n + 1 \in 1..N /\ n + 1 \in 1..Len(p) /\ n + 1 \in 1..Len(q)
        /\ (n + 1) - 1 = n
    OBVIOUS
  <2>2. d[n + 1] = CleanStep(d[n], p[n + 1]) /\ e[n + 1] = CleanStep(e[n], q[n + 1])
    BY <2>1 DEF Cleaning
  <2> QED BY <1>2, <2>1, <2>2
<1>3. 0..N \subseteq S
  <2> HIDE DEF S
  <2> QED BY <1>1, <1>2, Counting
<1> QED BY <1>3

LEMMA CleanEmpty == Clean(Top) = Top
<1>1. Top \in Seq(Component) /\ Len(Top) = 0
  BY TopIsEmpty, CleanPathsAreWritten
<1> QED BY <1>1, CleanIs DEF Cleaning

LEMMA CleanAppend ==
  ASSUME NEW p \in Seq(Component), NEW x \in Component
  PROVE  Clean(Append(p, x)) = CleanStep(Clean(p), x)
<1> DEFINE q == Append(p, x)
           N == Len(p)
<1>1. /\ q \in Seq(Component) /\ Len(q) = N + 1 /\ q[N + 1] = x /\ N \in Nat
      /\ \A n \in 1..N : p[n] = q[n]
  OBVIOUS
<1>2. PICK d : Cleaning(p, d) /\ Clean(p) = d[N]
  BY CleanIs
<1> HIDE DEF q
<1>3. PICK e : Cleaning(q, e) /\ Clean(q) = e[Len(q)]
  BY <1>1, CleanIs
<1>4. d[N] = e[N]
  BY <1>1, <1>2, <1>3, CleaningsAgree
<1>5. e[N + 1] = CleanStep(e[(N + 1) - 1], q[N + 1])
  <2>1. N + 1 \in 1..Len(q)
    BY <1>1
  <2> QED BY <1>3, <2>1 DEF Cleaning
<1>6. (N + 1) - 1 = N
  BY <1>1
<1> QED BY <1>1, <1>2, <1>3, <1>4, <1>5, <1>6 DEF q

-----------------------------------------------------------------------------
(* Sequences, one element further.                                         *)
LEMMA SubSeqGrows ==
  ASSUME NEW S, NEW q \in Seq(S), NEW n \in Nat, n + 1 \in 1..Len(q)
  PROVE  /\ SubSeq(q, 1, n) \in Seq(S) /\ Len(SubSeq(q, 1, n)) = n
         /\ q[n + 1] \in S
         /\ SubSeq(q, 1, n + 1) = Append(SubSeq(q, 1, n), q[n + 1])
OBVIOUS

LEMMA SubSeqPrefix ==
  ASSUME NEW S, NEW q \in Seq(S), NEW n \in 0..Len(q)
  PROVE  /\ SubSeq(q, 1, n) \in Seq(S) /\ Len(SubSeq(q, 1, n)) = n
         /\ \A i \in 1..n : SubSeq(q, 1, n)[i] = q[i]
OBVIOUS

LEMMA ConcatGrows ==
  ASSUME NEW S, NEW p \in Seq(S), NEW q \in Seq(S), NEW x \in S
  PROVE  p \o Append(q, x) = Append(p \o q, x)
OBVIOUS

LEMMA CleanOfClean ==
  ASSUME NEW p \in CleanPaths
  PROVE  Clean(p) = p
<1> DEFINE N == Len(p)
           S == {n \in 0..N : Clean(SubSeq(p, 1, n)) = SubSeq(p, 1, n)}
<1>0. p \in Seq(Name) /\ N \in Nat
  BY DEF CleanPaths
<1>1. 0 \in S
  <2>1. SubSeq(p, 1, 0) = Top
    BY <1>0 DEF Top
  <2>2. Clean(SubSeq(p, 1, 0)) = SubSeq(p, 1, 0)
    BY <2>1, CleanEmpty
  <2> QED BY <1>0, <2>2
<1>2. ASSUME NEW n \in 0..(N - 1), n \in S
      PROVE  (n + 1) \in S
  <2> DEFINE s == SubSeq(p, 1, n)
             x == p[n + 1]
  <2>1. n \in Nat /\ n + 1 \in 1..Len(p) /\ n + 1 \in 0..N
    BY <1>0
  <2>2. s \in Seq(Name) /\ x \in Name /\ SubSeq(p, 1, n + 1) = Append(s, x)
    BY <1>0, <2>1, SubSeqGrows
  <2>3. Clean(s) = s
    BY <1>2
  <2> HIDE DEF s, x
  <2>4. Clean(Append(s, x)) = CleanStep(s, x)
    BY <2>2, <2>3, CleanAppend, CleanPathsAreWritten, Dots DEF CleanPaths
  <2>5. CleanStep(s, x) = Append(s, x)
    BY <2>2, Dots DEF CleanStep
  <2> QED BY <2>1, <2>2, <2>4, <2>5
<1>3. 0..N \subseteq S
  <2> HIDE DEF S
  <2> QED BY <1>0, <1>1, <1>2, Counting
<1>4. SubSeq(p, 1, N) = p
  BY <1>0, SubSeqFull
<1>5. N \in S
  <2> HIDE DEF S, N
  <2> QED BY <1>0, <1>3
<1> QED BY <1>4, <1>5

LEMMA CleanConcat ==
  ASSUME NEW p \in Seq(Component), NEW q \in Seq(Component)
  PROVE  Clean(p \o q) = Clean(Clean(p) \o q)
<1> DEFINE N == Len(q)
           To(n) == SubSeq(q, 1, n)
           c == Clean(p)
           S == {n \in 0..N : Clean(p \o To(n)) = Clean(c \o To(n))}
<1>0. N \in Nat /\ c \in CleanPaths /\ c \in Seq(Component)
  BY CleanType, CleanPathsAreWritten
<1>1. 0 \in S
  <2>1. To(0) = Top
    BY SubSeqEmpty DEF Top
  <2>2. p \o To(0) = p /\ c \o To(0) = c
    BY <1>0, <2>1, ConcatEmptySeq DEF Top
  <2>3. Clean(c) = c
    BY <1>0, CleanOfClean
  <2>4. 0 \in 0..N
    BY <1>0
  <2>5. Clean(p \o To(0)) = c /\ Clean(c \o To(0)) = c
    BY <2>2, <2>3
  <2> HIDE DEF To, c, N
  <2> QED BY <2>4, <2>5
<1>2. ASSUME NEW n \in 0..(N - 1), n \in S
      PROVE  (n + 1) \in S
  <2> DEFINE s == To(n)
             x == q[n + 1]
  <2>1. n \in Nat /\ n + 1 \in 1..Len(q) /\ n + 1 \in 0..N
    BY <1>0
  <2>2. s \in Seq(Component) /\ x \in Component /\ To(n + 1) = Append(s, x)
    BY <2>1, SubSeqGrows
  <2>3. Clean(p \o s) = Clean(c \o s)
    BY <1>2
  <2> HIDE DEF s, x, c, To
  <2>4. p \o Append(s, x) = Append(p \o s, x) /\ c \o Append(s, x) = Append(c \o s, x)
    <3>1. p \in Seq(Component) /\ c \in Seq(Component) /\ s \in Seq(Component)
          /\ x \in Component
      BY <1>0, <2>2
    <3>2. p \o Append(s, x) = Append(p \o s, x)
      BY <3>1, ConcatGrows
    <3>3. c \o Append(s, x) = Append(c \o s, x)
      BY <3>1, ConcatGrows
    <3> QED BY <3>2, <3>3
  <2>6. p \o s \in Seq(Component) /\ c \o s \in Seq(Component)
    BY <1>0, <2>2, ConcatProperties
  <2>5. Clean(Append(p \o s, x)) = Clean(Append(c \o s, x))
    BY <2>2, <2>3, <2>6, CleanAppend
  <2> QED BY <2>1, <2>2, <2>4, <2>5
<1>3. 0..N \subseteq S
  <2> HIDE DEF S
  <2> QED BY <1>0, <1>1, <1>2, Counting
<1>4. To(N) = q
  BY SubSeqFull
<1> HIDE DEF To
<1> QED BY <1>0, <1>3, <1>4

(* ".." as often as a path has names to take.                              *)
Ups(u) == [i \in 1..u |-> DotDot]

LEMMA UpsType ==
  ASSUME NEW u \in Nat
  PROVE  /\ Ups(u) \in Seq(Component) /\ Len(Ups(u)) = u
         /\ \A i \in 1..u : Ups(u)[i] = DotDot
<1>1. DotDot \in Component
  BY Dots
<1> QED BY <1>1 DEF Ups

LEMMA UpsGrow ==
  ASSUME NEW u \in Nat
  PROVE  Ups(u + 1) = Append(Ups(u), DotDot)
BY DEF Ups

LEMMA CleanClimb ==
  ASSUME NEW p \in CleanPaths, NEW U \in Nat, U <= Len(p)
  PROVE  Clean(p \o Ups(U)) = SubSeq(p, 1, Len(p) - U)
<1> DEFINE L == Len(p)
           S == {u \in 0..U : Clean(p \o Ups(u)) = SubSeq(p, 1, L - u)}
<1>0. p \in Seq(Name) /\ p \in Seq(Component) /\ L \in Nat
  BY CleanPathsAreWritten DEF CleanPaths
<1>1. 0 \in S
  <2>1. Ups(0) = Top
    BY DEF Ups, Top
  <2>2. p \o Ups(0) = p
    BY <1>0, <2>1, ConcatEmptySeq DEF Top
  <2>3. SubSeq(p, 1, L - 0) = p
    BY <1>0, SubSeqFull
  <2>4. Clean(p) = p
    BY CleanOfClean
  <2>5. Clean(p \o Ups(0)) = SubSeq(p, 1, L - 0)
    BY <2>2, <2>3, <2>4
  <2> HIDE DEF L
  <2> QED BY <2>5
<1>2. ASSUME NEW u \in 0..(U - 1), u \in S
      PROVE  (u + 1) \in S
  <2> DEFINE s == SubSeq(p, 1, L - u)
  <2>1. u \in Nat /\ u + 1 \in 0..U /\ L - u \in 1..L
    BY <1>0
  <2>2. Ups(u) \in Seq(Component) /\ Ups(u + 1) = Append(Ups(u), DotDot)
    BY <2>1, UpsType, UpsGrow
  <2>3. p \o Append(Ups(u), DotDot) = Append(p \o Ups(u), DotDot)
        /\ p \o Ups(u) \in Seq(Component) /\ DotDot \in Component
    <3>1. DotDot \in Component
      BY Dots
    <3> QED BY <1>0, <2>2, <3>1, ConcatGrows, ConcatProperties
  <2>4. Clean(p \o Ups(u + 1)) = CleanStep(s, DotDot)
    BY <1>2, <2>2, <2>3, CleanAppend
  <2>5. Len(s) = L - u /\ s # Top /\ s \in Seq(Name)
    <3>1. L - u \in 0..L /\ L - u # 0
      BY <1>0, <2>1
    <3>2. s \in Seq(Name) /\ Len(s) = L - u
      BY <1>0, <3>1, SubSeqPrefix
    <3>3. s # Top
      BY <3>1, <3>2, TopIsEmpty
    <3> QED BY <3>2, <3>3
  <2>6. CleanStep(s, DotDot) = Front(s)
    BY <2>5, Dots DEF CleanStep
  <2>7. Front(s) = SubSeq(p, 1, L - (u + 1))
    BY <1>0, <2>1, <2>5 DEF Front
  <2> QED BY <2>1, <2>4, <2>6, <2>7
<1>3. 0..U \subseteq S
  <2> HIDE DEF S
  <2> QED BY <1>1, <1>2, Counting
<1> QED BY <1>3

LEMMA CleanPlain ==
  ASSUME NEW p \in CleanPaths, NEW q \in CleanPaths
  PROVE  p \o q \in CleanPaths /\ Clean(p \o q) = p \o q
<1>1. p \o q \in CleanPaths
  BY DEF CleanPaths
<1> QED BY <1>1, CleanOfClean

-----------------------------------------------------------------------------
(* Keys: Rel, Names and Split.                                             *)
Keys == [up : Nat, tail : CleanPaths]

LEMMA KeyParts ==
  ASSUME NEW u, NEW t
  PROVE  /\ Key(u, t).up = u /\ Key(u, t).tail = t
         /\ u \in Nat /\ t \in CleanPaths => Key(u, t) \in Keys
BY DEF Key, Keys

LEMMA Greatest ==
  ASSUME NEW N \in Nat, NEW T, T \subseteq 0..N, T # {}
  PROVE  \E n \in T : \A m \in T : m <= n
<1> DEFINE R == OpToRel(<, Nat)
           U == {N - n : n \in T}
<1>1. IsWellFoundedOn(R, Nat)
  BY NatLessThanWellFounded
<1>2. U \subseteq Nat /\ U # {}
  <2>1. \A n \in T : N - n \in Nat
    OBVIOUS
  <2> QED BY <2>1
<1>3. PICK x \in U : \A y \in U : <<y, x>> \notin R
  <2> HIDE DEF U, R
  <2> QED BY <1>1, <1>2, WFMin
<1>4. PICK n \in T : x = N - n
  OBVIOUS
<1>5. ASSUME NEW m \in T
      PROVE  m <= n
  <2>1. N - m \in U /\ n \in 0..N /\ m \in 0..N
    OBVIOUS
  <2>2. ~(N - m < N - n)
    <3>1. N - m \in Nat /\ N - n \in Nat
      BY <2>1
    <3>2. <<N - m, N - n>> \notin R
      BY <1>3, <1>4, <2>1
    <3> QED BY <3>1, <3>2 DEF OpToRel
  <2> QED BY <2>1, <2>2
<1> QED BY <1>5

LEMMA Least ==
  ASSUME NEW N \in Nat, NEW T, T \subseteq 0..N, T # {}
  PROVE  \E n \in T : \A m \in T : n <= m
<1> DEFINE R == OpToRel(<, Nat)
<1>0. T \subseteq Nat
  OBVIOUS
<1>1. IsWellFoundedOn(R, Nat)
  BY NatLessThanWellFounded
<1>2. PICK n \in T : \A m \in T : <<m, n>> \notin R
  <2> HIDE DEF R
  <2> QED BY <1>0, <1>1, WFMin
<1>3. ASSUME NEW m \in T
      PROVE  n <= m
  <2>1. n \in Nat /\ m \in Nat
    BY <1>0
  <2>2. ~(m < n)
    <3>1. <<m, n>> \notin R
      BY <1>2
    <3> QED BY <2>1, <3>1 DEF OpToRel
  <2> QED BY <2>1, <2>2
<1> QED BY <1>3

(* What Rel shares with its base.                                          *)
Shared(base, target) ==
  {n \in 0..Len(base) : \A i \in 1..n : i <= Len(target) /\ base[i] = target[i]}

LEMMA RelIs ==
  ASSUME NEW base \in CleanPaths, NEW target \in CleanPaths
  PROVE  \E c \in Shared(base, target) :
           /\ \A m \in Shared(base, target) : m <= c
           /\ Rel(base, target) =
                Key(Len(base) - c, SubSeq(target, c + 1, Len(target)))
<1> DEFINE T == Shared(base, target)
           c == CHOOSE n \in T : \A m \in T : m <= n
<1>1. Len(base) \in Nat
  BY DEF CleanPaths
<1>2. T \subseteq 0..Len(base) /\ 0 \in T
  BY <1>1 DEF Shared
<1>3. \E n \in T : \A m \in T : m <= n
  <2> HIDE DEF T
  <2> QED BY <1>1, <1>2, Greatest
<1>4. c \in T /\ \A m \in T : m <= c
  <2> HIDE DEF T
  <2> QED BY <1>3
<1>5. Rel(base, target) = Key(Len(base) - c, SubSeq(target, c + 1, Len(target)))
  BY DEF Rel, Shared
<1> HIDE DEF c
<1> QED BY <1>4, <1>5

LEMMA SharedLength ==
  ASSUME NEW base \in CleanPaths, NEW target \in CleanPaths,
         NEW c \in Shared(base, target)
  PROVE  /\ c \in 0..Len(base) /\ c \in 0..Len(target)
         /\ Len(base) \in Nat /\ Len(target) \in Nat
         /\ \A i \in 1..c : base[i] = target[i]
<1>1. Len(base) \in Nat /\ Len(target) \in Nat
  BY DEF CleanPaths
<1>2. c \in 0..Len(base) /\ \A i \in 1..c : i <= Len(target) /\ base[i] = target[i]
  BY DEF Shared
<1>3. CASE c = 0
  BY <1>1, <1>2, <1>3
<1>4. CASE c # 0
  <2>1. c \in 1..c
    BY <1>1, <1>2, <1>4
  <2> QED BY <1>1, <1>2, <2>1
<1> QED BY <1>3, <1>4

(* A key's path is the base, some names taken off, and the key's names.    *)
LEMMA RelJoins ==
  ASSUME NEW base \in CleanPaths, NEW target \in CleanPaths
  PROVE  /\ Rel(base, target) \in Keys
         /\ Rel(base, target).up \in 0..Len(base)
         /\ target = SubSeq(base, 1, Len(base) - Rel(base, target).up)
                       \o Rel(base, target).tail
<1>1. PICK c \in Shared(base, target) :
        Rel(base, target) = Key(Len(base) - c, SubSeq(target, c + 1, Len(target)))
  BY RelIs
<1> DEFINE L == Len(base)
           u == L - c
           t == SubSeq(target, c + 1, Len(target))
<1>2. /\ c \in 0..L /\ c \in 0..Len(target) /\ L \in Nat /\ Len(target) \in Nat
      /\ \A i \in 1..c : base[i] = target[i]
  BY SharedLength
<1>3. t \in CleanPaths
  BY <1>2 DEF CleanPaths
<1>4. u \in 0..L /\ L - u = c
  BY <1>2
<1>5. SubSeq(base, 1, c) = SubSeq(target, 1, c)
  BY <1>2 DEF CleanPaths
<1>6. target = SubSeq(target, 1, c) \o t
  <2>1. 1 \in 1..(Len(target) + 1) /\ c \in (1 - 1)..Len(target)
        /\ Len(target) \in c..Len(target)
    BY <1>2
  <2>2. SubSeq(target, 1, c) \o t = SubSeq(target, 1, Len(target))
    BY <2>1, ConcatAdjacentSubSeq DEF CleanPaths
  <2> QED BY <2>2, SubSeqFull DEF CleanPaths
<1>7. Rel(base, target).up = u /\ Rel(base, target).tail = t
  <2>1. Rel(base, target) = Key(u, t)
    BY <1>1
  <2> HIDE DEF u, t
  <2> QED BY <2>1, KeyParts
<1>8. Rel(base, target) \in Keys
  <2>1. Rel(base, target) = Key(u, t) /\ u \in Nat
    BY <1>1, <1>2
  <2> HIDE DEF u, t
  <2> QED BY <1>3, <2>1, KeyParts
<1> HIDE DEF t
<1> QED BY <1>4, <1>5, <1>6, <1>7, <1>8

LEMMA NamesAre ==
  ASSUME NEW key \in Keys
  PROVE  /\ key.up \in Nat /\ key.tail \in CleanPaths /\ key.tail \in Seq(Name)
         /\ Len(key.tail) \in Nat
         /\ Names(key) = Ups(key.up) \o key.tail
         /\ Names(key) \in Seq(Component)
         /\ Len(Names(key)) = key.up + Len(key.tail)
         /\ \A i \in 1..key.up : Names(key)[i] = DotDot
         /\ \A i \in 1..Len(key.tail) : Names(key)[key.up + i] = key.tail[i]
<1>1. key.up \in Nat /\ key.tail \in CleanPaths /\ key.tail \in Seq(Name)
  BY DEF Keys, CleanPaths
<1>2. Names(key) = Ups(key.up) \o key.tail
  BY DEF Names, Ups
<1>3. key.tail \in Seq(Component)
  BY <1>1, CleanPathsAreWritten
<1>4. /\ Ups(key.up) \in Seq(Component) /\ Len(Ups(key.up)) = key.up
      /\ \A i \in 1..key.up : Ups(key.up)[i] = DotDot
  BY <1>1, UpsType
<1> DEFINE u == key.up
           t == key.tail
           a == Ups(key.up)
<1> HIDE DEF u, t, a
<1>5. /\ a \o t \in Seq(Component) /\ Len(a \o t) = u + Len(t)
      /\ \A i \in 1..(u + Len(t)) : (a \o t)[i] = IF i <= u THEN a[i] ELSE t[i - u]
  <2>1. a \in Seq(Component) /\ t \in Seq(Component) /\ Len(a) = u
    BY <1>3, <1>4 DEF u, t, a
  <2> QED BY <2>1, ConcatProperties
<1>6. Len(t) \in Nat /\ u \in Nat
  BY <1>1 DEF t, u
<1>7. \A i \in 1..u : (a \o t)[i] = DotDot
  BY <1>4, <1>5, <1>6 DEF u, a
<1>8. ASSUME NEW i \in 1..Len(t)
      PROVE  (a \o t)[u + i] = t[i]
  BY <1>5, <1>6
<1> QED BY <1>1, <1>2, <1>5, <1>6, <1>7, <1>8 DEF u, t, a

LEMMA CleanKey ==
  ASSUME NEW p \in CleanPaths, NEW key \in Keys, key.up <= Len(p)
  PROVE  Clean(p \o Names(key)) = SubSeq(p, 1, Len(p) - key.up) \o key.tail
<1> DEFINE a == Ups(key.up)
           t == key.tail
           s == SubSeq(p, 1, Len(p) - key.up)
<1>1. /\ p \in Seq(Component) /\ a \in Seq(Component) /\ t \in Seq(Component)
      /\ t \in CleanPaths /\ key.up \in Nat /\ Names(key) = a \o t
  BY NamesAre, UpsType, CleanPathsAreWritten
<1>2. Clean(p \o a) = s
  BY <1>1, CleanClimb
<1>3. s \in CleanPaths
  <2>1. Len(p) - key.up \in 0..Len(p) /\ p \in Seq(Name)
    BY <1>1 DEF CleanPaths
  <2> QED BY <2>1, SubSeqPrefix DEF CleanPaths
<1> HIDE DEF a, t, s
<1>4. p \o (a \o t) = (p \o a) \o t /\ p \o a \in Seq(Component)
  <2>1. p \in Seq(Component) /\ a \in Seq(Component) /\ t \in Seq(Component)
    BY <1>1
  <2>2. p \o (a \o t) = (p \o a) \o t
    BY <2>1, ConcatAssociative
  <2>3. p \o a \in Seq(Component)
    BY <2>1, ConcatProperties
  <2> QED BY <2>2, <2>3
<1>5. Clean(p \o Names(key)) = Clean(s \o t)
  <2>1. Clean((p \o a) \o t) = Clean(Clean(p \o a) \o t)
    BY <1>1, <1>4, CleanConcat
  <2> QED BY <1>1, <1>2, <1>4, <2>1
<1> QED BY <1>1, <1>3, <1>5, CleanPlain DEF s, t

(* Rel and cleaning the joined path are inverses, so a key names one path. *)
LEMMA RelInverse ==
  ASSUME NEW base \in CleanPaths, NEW target \in CleanPaths
  PROVE  Clean(base \o Names(Rel(base, target))) = target
<1> DEFINE k == Rel(base, target)
<1>1. /\ k \in Keys /\ k.up \in 0..Len(base)
      /\ target = SubSeq(base, 1, Len(base) - k.up) \o k.tail
  BY RelJoins
<1>2. k.up <= Len(base)
  <2>1. Len(base) \in Nat
    BY DEF CleanPaths
  <2> HIDE DEF k
  <2> QED BY <1>1, <2>1
<1> HIDE DEF k
<1>3. Clean(base \o Names(k)) = target
  BY <1>1, <1>2, CleanKey
<1> QED BY <1>3 DEF k

LEMMA RelInjective ==
  ASSUME NEW base \in CleanPaths, NEW s \in CleanPaths, NEW t \in CleanPaths,
         Rel(base, s) = Rel(base, t)
  PROVE  s = t
BY RelInverse

(* A path is below the base when its key does not climb.                   *)
LEMMA RelInside ==
  ASSUME NEW base \in CleanPaths, NEW target \in CleanPaths
  PROVE  Rel(base, target).up = 0 <=> IsPrefix(base, target)
<1> DEFINE L == Len(base)
<1>1. L \in Nat /\ Len(target) \in Nat /\ base \in Seq(Name) /\ target \in Seq(Name)
  BY DEF CleanPaths
<1>2. PICK c \in Shared(base, target) :
        /\ \A m \in Shared(base, target) : m <= c
        /\ Rel(base, target) = Key(L - c, SubSeq(target, c + 1, Len(target)))
  BY RelIs
<1>3. /\ c \in 0..L /\ c \in 0..Len(target)
      /\ \A i \in 1..c : base[i] = target[i]
  BY SharedLength
<1>4. Rel(base, target).up = L - c
  BY <1>2, KeyParts
<1>5. ASSUME c = L
      PROVE  IsPrefix(base, target)
  <2>1. SubSeq(base, 1, L) = SubSeq(target, 1, L)
    BY <1>1, <1>3, <1>5
  <2> QED BY <1>1, <1>3, <1>5, <2>1 DEF IsPrefix
<1>6. ASSUME IsPrefix(base, target)
      PROVE  c = L
  <2>1. L <= Len(target) /\ SubSeq(base, 1, L) = SubSeq(target, 1, L)
    BY <1>6 DEF IsPrefix
  <2>2. ASSUME NEW i \in 1..L
        PROVE  i <= Len(target) /\ base[i] = target[i]
    <3>1. SubSeq(base, 1, L)[i] = base[i] /\ SubSeq(target, 1, L)[i] = target[i]
      BY <1>1, <2>1
    <3> QED BY <1>1, <2>1, <3>1
  <2>3. L \in Shared(base, target)
    BY <1>1, <2>2 DEF Shared
  <2> QED BY <1>1, <1>2, <1>3, <2>3
<1> QED BY <1>1, <1>3, <1>4, <1>5, <1>6

(* A key is written in one way.                                            *)
LEMMA SplitIs ==
  ASSUME NEW key \in Keys
  PROVE  Split(Names(key)) = key
<1> DEFINE names == Names(key)
           u == key.up
           t == key.tail
           Climbs == {n \in 0..Len(names) : \A i \in 1..n : names[i] = DotDot}
           up == CHOOSE n \in Climbs : \A m \in Climbs : m <= n
<1>1. /\ u \in Nat /\ t \in Seq(Name) /\ Len(t) \in Nat
      /\ names \in Seq(Component) /\ Len(names) = u + Len(t)
      /\ \A i \in 1..u : names[i] = DotDot
      /\ \A i \in 1..Len(t) : names[u + i] = t[i]
  BY NamesAre
<1>2. Split(names) = Key(up, SubSeq(names, up + 1, Len(names)))
  BY DEF Split
<1> HIDE DEF names, up, u, t
<1>3. u \in Climbs
  BY <1>1
<1>4. ASSUME NEW m \in Climbs
      PROVE  m <= u
  <2>1. m \in Nat /\ m <= u + Len(t) /\ \A i \in 1..m : names[i] = DotDot
    BY <1>1
  <2> SUFFICES ASSUME m > u PROVE FALSE
    BY <1>1, <2>1
  <2>2. u + 1 \in 1..m /\ 1 \in 1..Len(t)
    BY <1>1, <2>1
  <2>3. names[u + 1] = t[1] /\ t[1] \in Name
    BY <1>1, <2>2
  <2> QED BY <2>1, <2>2, <2>3, Dots
<1>5. up = u
  <2>1. \A n \in Climbs : (\A m \in Climbs : m <= n) => n = u
    BY <1>1, <1>3, <1>4
  <2> HIDE DEF Climbs
  <2> QED BY <1>3, <1>4, <2>1 DEF up
<1>6. SubSeq(names, u + 1, Len(names)) = t
  BY <1>1
<1>7. key = Key(u, t)
  <2>1. key = [up |-> key.up, tail |-> key.tail]
    BY DEF Keys
  <2> QED BY <2>1 DEF Key, u, t
<1> QED BY <1>2, <1>5, <1>6, <1>7 DEF names

LEMMA NamesInjective ==
  ASSUME NEW k1 \in Keys, NEW k2 \in Keys, Names(k1) = Names(k2)
  PROVE  k1 = k2
BY SplitIs

(* What a key's path goes through is written as a key too.                 *)
LEMMA PrefixKey ==
  ASSUME NEW key \in Keys, NEW n \in 0..Len(Names(key))
  PROVE  /\ Split(SubSeq(Names(key), 1, n)) \in Keys
         /\ Names(Split(SubSeq(Names(key), 1, n))) = SubSeq(Names(key), 1, n)
<1> DEFINE names == Names(key)
           u == key.up
           t == key.tail
           s == SubSeq(names, 1, n)
<1>1. /\ u \in Nat /\ t \in Seq(Name) /\ Len(t) \in Nat
      /\ names \in Seq(Component) /\ Len(names) = u + Len(t)
      /\ \A i \in 1..u : names[i] = DotDot
      /\ \A i \in 1..Len(t) : names[u + i] = t[i]
  BY NamesAre
<1>2. n \in 0..(u + Len(t)) /\ n \in Nat /\ s \in Seq(Component) /\ Len(s) = n /\ \A i \in 1..n : s[i] = names[i]
  BY <1>1, SubSeqPrefix
<1> SUFFICES \E k \in Keys : Names(k) = s
  BY SplitIs
<1> HIDE DEF names, u, t, s
<1>3. CASE n <= u
  <2> DEFINE k == Key(n, Top)
  <2>1. k \in Keys /\ k.up = n /\ k.tail = Top
    BY <1>2, TopIsEmpty, KeyParts
  <2> HIDE DEF k
  <2>2. Names(k) \in Seq(Component) /\ Len(Names(k)) = n /\ \A i \in 1..n : Names(k)[i] = DotDot
    <3>1. Names(k) \in Seq(Component) /\ Len(Names(k)) = k.up + Len(k.tail)
          /\ \A i \in 1..k.up : Names(k)[i] = DotDot
      BY <2>1, NamesAre
    <3>2. Len(k.tail) = 0
      BY <2>1, TopIsEmpty
    <3> QED BY <1>2, <2>1, <3>1, <3>2
  <2>3. \A i \in 1..n : s[i] = DotDot
    BY <1>1, <1>2, <1>3
  <2>4. Names(k) = s
    BY <1>2, <2>2, <2>3, SeqEqual
  <2> QED BY <2>1, <2>4
<1>4. CASE n > u
  <2> DEFINE k == Key(u, SubSeq(t, 1, n - u))
  <2>1. n - u \in 1..Len(t) /\ SubSeq(t, 1, n - u) \in Seq(Name)
        /\ Len(SubSeq(t, 1, n - u)) = n - u
        /\ \A i \in 1..(n - u) : SubSeq(t, 1, n - u)[i] = t[i]
    <3>1. n - u \in 0..Len(t) /\ n - u \in 1..Len(t)
      BY <1>1, <1>2, <1>4
    <3> QED BY <1>1, <3>1, SubSeqPrefix
  <2>2. k \in Keys /\ k.up = u /\ k.tail = SubSeq(t, 1, n - u)
    <3>1. SubSeq(t, 1, n - u) \in CleanPaths
      BY <2>1 DEF CleanPaths
    <3>2. u \in Nat
      BY <1>1
    <3> DEFINE v == SubSeq(t, 1, n - u)
    <3> HIDE DEF v
    <3>3. Key(u, v) \in Keys /\ Key(u, v).up = u /\ Key(u, v).tail = v
      BY <3>1, <3>2, KeyParts DEF v
    <3> QED BY <3>3 DEF v
  <2> HIDE DEF k
  <2>3. /\ Names(k) \in Seq(Component) /\ Len(Names(k)) = n
        /\ \A i \in 1..u : Names(k)[i] = DotDot
        /\ \A i \in 1..(n - u) : Names(k)[u + i] = t[i]
    <3>1. /\ Names(k) \in Seq(Component) /\ Len(Names(k)) = k.up + Len(k.tail)
          /\ \A i \in 1..k.up : Names(k)[i] = DotDot
          /\ \A i \in 1..Len(k.tail) : Names(k)[k.up + i] = k.tail[i]
      BY <2>2, NamesAre
    <3> QED BY <1>1, <1>2, <1>4, <2>1, <2>2, <3>1
  <2>4. ASSUME NEW i \in 1..n
        PROVE  Names(k)[i] = s[i]
    <3>1. CASE i <= u
      <4>1. i \in 1..u
        BY <1>1, <1>2, <3>1
      <4> QED BY <1>1, <1>2, <2>3, <4>1
    <3>2. CASE i > u
      <4>1. i - u \in 1..(n - u) /\ i - u \in 1..Len(t) /\ u + (i - u) = i
        BY <1>1, <1>2, <1>4, <2>1, <3>2
      <4>2. names[u + (i - u)] = t[i - u] /\ Names(k)[u + (i - u)] = t[i - u]
        BY <1>1, <2>3, <4>1
      <4> QED BY <1>2, <4>1, <4>2
    <3> QED BY <1>1, <1>2, <3>1, <3>2
  <2>5. Names(k) = s
    BY <1>2, <2>3, <2>4, SeqEqual
  <2> QED BY <2>2, <2>5
<1> QED BY <1>1, <1>2, <1>3, <1>4

-----------------------------------------------------------------------------
(* Resolve: its equation, name by name; what holds a node is a directory.  *)
Start == [at |-> Top, links |-> 0, found |-> TRUE]
Resolutions == [at : DOMAIN fs, links : Nat, found : BOOLEAN]

LEMMA StepType ==
  ASSUME IsFileSystem(fs), NEW r \in Resolutions, NEW name
  PROVE  Step(r, name) \in Resolutions
<1>1. Nowhere \in Resolutions
  BY DEF Nowhere, Resolutions, IsFileSystem
<1> DEFINE next == Append(r.at, name)
<1>2. r.found \in BOOLEAN /\ r.links \in Nat /\ r.at \in DOMAIN fs
  BY DEF Resolutions
<1>3. CASE ~r.found \/ next \notin DOMAIN fs
  <2>1. Step(r, name) = Nowhere
    BY <1>3 DEF Step
  <2> QED BY <1>1, <2>1
<1>4. CASE r.found /\ next \in DOMAIN fs /\ fs[next].type # "link"
  <2>1. Step(r, name) = [r EXCEPT !.at = next]
    BY <1>4 DEF Step
  <2> QED BY <1>4, <2>1 DEF Resolutions
<1>5. CASE /\ r.found /\ next \in DOMAIN fs /\ fs[next].type = "link"
           /\ r.links < MaxLinks /\ fs[next].to \in DOMAIN fs
  <2>1. Step(r, name) = [at |-> fs[next].to, links |-> r.links + 1, found |-> TRUE]
    BY <1>5 DEF Step
  <2> QED BY <1>2, <1>5, <2>1 DEF Resolutions
<1>6. CASE /\ r.found /\ next \in DOMAIN fs /\ fs[next].type = "link"
           /\ ~(r.links < MaxLinks /\ fs[next].to \in DOMAIN fs)
  <2>1. Step(r, name) = Nowhere
    BY <1>6 DEF Step
  <2> QED BY <1>1, <2>1
<1> QED BY <1>3, <1>4, <1>5, <1>6

(* The resolutions Resolve goes through.                                   *)
Resolving(path, d) ==
  /\ d \in [0..Len(path) -> Resolutions]
  /\ d[0] = Start
  /\ \A n \in 1..Len(path) : d[n] = Step(d[n - 1], path[n])

LEMMA ResolvingExists ==
  ASSUME IsFileSystem(fs), NEW N \in Nat, NEW names
  PROVE  \E d \in [0..N -> Resolutions] :
           d[0] = Start /\ \A n \in 1..N : d[n] = Step(d[n - 1], names[n])
<1> DEFINE F == [n \in 1..N |-> [r \in Resolutions |-> Step(r, names[n])]]
<1>1. F \in [1..N -> [Resolutions -> Resolutions]]
  <2>1. \A n \in 1..N, r \in Resolutions : Step(r, names[n]) \in Resolutions
    BY StepType
  <2> QED BY <2>1
<1>2. PICK d \in [0..N -> Resolutions] :
        d[0] = Start /\ \A n \in 1..N : d[n] = F[n][d[n - 1]]
  <2>1. Start \in Resolutions
    BY DEF Start, Resolutions, IsFileSystem
  <2> HIDE DEF F
  <2> QED BY <1>1, <2>1, Recursion
<1>3. ASSUME NEW n \in 1..N
      PROVE  d[n] = Step(d[n - 1], names[n])
  <2>1. d[n - 1] \in Resolutions /\ n \in 1..N
    OBVIOUS
  <2>2. d[n] = F[n][d[n - 1]]
    BY <1>2
  <2> QED BY <2>1, <2>2
<1> QED BY <1>2, <1>3

LEMMA ResolveIs ==
  ASSUME IsFileSystem(fs), NEW path \in CleanPaths
  PROVE  \E d : Resolving(path, d) /\ Resolve(path) = d[Len(path)]
<1> DEFINE N == Len(path)
           Body(g) == [n \in 0..N |->
                         IF n = 0 THEN [at |-> Top, links |-> 0, found |-> TRUE]
                         ELSE Step(g[n - 1], path[n])]
           r == CHOOSE g : g = Body(g)
<1>0. N \in Nat
  BY DEF CleanPaths
<1>1. ASSUME NEW g
      PROVE  /\ Body(g)[0] = Start
             /\ \A n \in 1..N : Body(g)[n] = Step(g[n - 1], path[n])
  <2>1. 0 \in 0..N /\ \A n \in 1..N : n \in 0..N /\ n # 0
    BY <1>0
  <2> QED BY <2>1, Zenon DEF Start
<1>2. ASSUME NEW g
      PROVE  Body(g) = [n \in 0..N |-> Body(g)[n]]
  OBVIOUS
<1>3. Resolve(path) = r[N]
  BY DEF Resolve
<1> HIDE DEF Body, N
<1>4. \E g : g = Body(g)
  <2>1. PICK d : Resolving(path, d)
    BY <1>0, ResolvingExists DEF Resolving, N
  <2>2. \A n \in 0..N : d[n] = Body(d)[n]
    BY <1>0, <1>1, <2>1 DEF Resolving, N
  <2>3. d = [n \in 0..N |-> d[n]]
    BY <2>1 DEF Resolving, N
  <2>4. d = Body(d)
    BY <1>2, <2>2, <2>3
  <2> QED BY <2>4
<1>5. r = Body(r)
  BY <1>4
<1> HIDE DEF r
<1>6. r[0] = Start
  BY <1>1, <1>5
<1>7. ASSUME NEW n \in 1..N
      PROVE  r[n] = Step(r[n - 1], path[n])
  BY <1>1, <1>5
<1>8. \A n \in 0..N : r[n] \in Resolutions
  <2> DEFINE S == {n \in 0..N : r[n] \in Resolutions}
  <2>1. 0 \in S
    <3>1. Start \in Resolutions
      BY DEF Start, Resolutions, IsFileSystem
    <3> QED BY <1>0, <1>6, <3>1
  <2>2. ASSUME NEW n \in 0..(N - 1), n \in S
        PROVE  (n + 1) \in S
    <3>1. n + 1 \in 1..N /\ n + 1 \in 0..N /\ (n + 1) - 1 = n
      BY <1>0
    <3>2. r[n + 1] = Step(r[n], path[n + 1])
      BY <1>7, <3>1
    <3> QED BY <2>2, <3>1, <3>2, StepType
  <2>3. 0..N \subseteq S
    <3> HIDE DEF S
    <3> QED BY <1>0, <2>1, <2>2, Counting
  <2> QED BY <2>3
<1>9. r \in [0..N -> Resolutions]
  BY <1>2, <1>5, <1>8
<1> QED BY <1>3, <1>6, <1>7, <1>9 DEF Resolving, N

LEMMA ResolveType ==
  ASSUME IsFileSystem(fs), NEW path \in CleanPaths
  PROVE  /\ Resolve(path) \in Resolutions
         /\ Resolve(path).at \in DOMAIN fs /\ Resolve(path).at \in CleanPaths
         /\ NodeAt(path) \in Nodes
<1>1. PICK d : Resolving(path, d) /\ Resolve(path) = d[Len(path)]
  BY ResolveIs
<1>2. Len(path) \in 0..Len(path)
  BY DEF CleanPaths
<1>3. Resolve(path) \in Resolutions
  BY <1>1, <1>2 DEF Resolving
<1>4. Resolve(path).at \in DOMAIN fs
  BY <1>3 DEF Resolutions
<1> QED BY <1>3, <1>4 DEF IsFileSystem, NodeAt

LEMMA ResolveTop ==
  ASSUME IsFileSystem(fs)
  PROVE  Resolve(Top) = Start
<1>1. PICK d : Resolving(Top, d) /\ Resolve(Top) = d[Len(Top)]
  BY TopIsEmpty, ResolveIs
<1> QED BY <1>1, TopIsEmpty DEF Resolving

LEMMA ResolvingsAgree ==
  ASSUME NEW p \in CleanPaths, NEW q \in CleanPaths, NEW d, NEW e,
         Resolving(p, d), Resolving(q, e),
         NEW N \in Nat, N <= Len(p), N <= Len(q),
         \A n \in 1..N : p[n] = q[n]
  PROVE  d[N] = e[N]
<1> DEFINE S == {n \in 0..N : d[n] = e[n]}
<1>0. Len(p) \in Nat /\ Len(q) \in Nat
  BY DEF CleanPaths
<1>1. 0 \in S
  BY DEF Resolving
<1>2. ASSUME NEW n \in 0..(N - 1), n \in S
      PROVE  (n + 1) \in S
  <2>1. n + 1 \in 1..N /\ n + 1 \in 1..Len(p) /\ n + 1 \in 1..Len(q)
        /\ (n + 1) - 1 = n
    BY <1>0
  <2>2. d[n + 1] = Step(d[n], p[n + 1]) /\ e[n + 1] = Step(e[n], q[n + 1])
    BY <2>1 DEF Resolving
  <2> QED BY <1>2, <2>1, <2>2
<1>3. 0..N \subseteq S
  <2> HIDE DEF S
  <2> QED BY <1>1, <1>2, Counting
<1> QED BY <1>3

LEMMA ResolveAppend ==
  ASSUME IsFileSystem(fs), NEW p \in CleanPaths, NEW x \in Name
  PROVE  Resolve(Append(p, x)) = Step(Resolve(p), x)
<1> DEFINE q == Append(p, x)
           N == Len(p)
<1>1. /\ q \in CleanPaths /\ Len(q) = N + 1 /\ q[N + 1] = x /\ N \in Nat
      /\ \A n \in 1..N : p[n] = q[n]
  BY DEF CleanPaths
<1>2. PICK d : Resolving(p, d) /\ Resolve(p) = d[N]
  BY ResolveIs
<1> HIDE DEF q
<1>3. PICK e : Resolving(q, e) /\ Resolve(q) = e[Len(q)]
  BY <1>1, ResolveIs
<1>4. d[N] = e[N]
  BY <1>1, <1>2, <1>3, ResolvingsAgree
<1>5. e[N + 1] = Step(e[(N + 1) - 1], q[N + 1])
  <2>1. N + 1 \in 1..Len(q)
    BY <1>1
  <2> QED BY <1>3, <2>1 DEF Resolving
<1>6. (N + 1) - 1 = N
  BY <1>1
<1> QED BY <1>1, <1>2, <1>3, <1>4, <1>5, <1>6 DEF q

LEMMA HolderIsDir ==
  ASSUME IsFileSystem(fs), NEW p \in CleanPaths, NEW x \in Name,
         Exists(Append(p, x))
  PROVE  IsType(p, "dir")
<1> DEFINE r == Resolve(p)
           next == Append(r.at, x)
<1>1. r \in Resolutions /\ r.at \in CleanPaths /\ r.at \in DOMAIN fs
  BY ResolveType
<1>2. Step(r, x).found
  BY ResolveAppend DEF Exists
<1>3. Step(r, x) # Nowhere
  BY <1>2 DEF Nowhere
<1> HIDE DEF r
<1>4. r.found /\ next \in DOMAIN fs
  BY <1>3 DEF Step
<1>5. next # Top /\ Dir(next) = r.at
  BY <1>1 DEF Top, Dir, Front, CleanPaths
<1>6. fs[r.at].type = "dir"
  <2> HIDE DEF next
  <2> QED BY <1>4, <1>5 DEF IsFileSystem
<1> QED BY <1>4, <1>6 DEF IsType, Exists, NodeAt, r

LEMMA UnchangedResolve ==
  ASSUME UNCHANGED fs, NEW path
  PROVE  Resolve(path)' = Resolve(path)
BY DEF Resolve, Step

LEMMA TopIsDir ==
  ASSUME IsFileSystem(fs)
  PROVE  IsType(Top, "dir")
<1>1. Resolve(Top).found /\ Resolve(Top).at = Top
  BY ResolveTop DEF Start
<1> QED BY <1>1 DEF IsType, Exists, NodeAt, IsFileSystem

LEMMA HoldersAreDirs ==
  ASSUME IsFileSystem(fs), NEW p \in CleanPaths, Exists(p),
         NEW n \in Nat, n < Len(p)
  PROVE  IsType(SubSeq(p, 1, n), "dir")
<1> DEFINE L == Len(p)
           Q(m) == SubSeq(p, 1, m)
           N == L - n - 1
           S == {i \in 0..N : IsType(Q(L - 1 - i), "dir")}
<1>0. p \in Seq(Name) /\ L \in Nat /\ N \in Nat
  BY DEF CleanPaths
<1>1. ASSUME NEW m \in Nat, m + 1 \in 1..L, Exists(Q(m + 1))
      PROVE  IsType(Q(m), "dir")
  <2>1. Q(m) \in Seq(Name) /\ p[m + 1] \in Name /\ Q(m + 1) = Append(Q(m), p[m + 1])
    BY <1>0, <1>1, SubSeqGrows
  <2> HIDE DEF Q
  <2>2. Q(m) \in CleanPaths /\ Exists(Append(Q(m), p[m + 1]))
    BY <1>1, <2>1 DEF CleanPaths
  <2> QED BY <2>1, <2>2, HolderIsDir
<1>2. 0 \in S
  <2>1. L - 1 \in Nat /\ (L - 1) + 1 \in 1..L /\ (L - 1) + 1 = L /\ L - 1 - 0 = L - 1
    BY <1>0
  <2>2. Q(L) = p
    BY <1>0, SubSeqFull
  <2> HIDE DEF Q, L, N
  <2>3. IsType(Q(L - 1 - 0), "dir")
    BY <1>1, <2>1, <2>2
  <2> QED BY <1>0, <2>3
<1>3. ASSUME NEW i \in 0..(N - 1), i \in S
      PROVE  (i + 1) \in S
  <2>1. /\ i + 1 \in 0..N /\ L - 1 - (i + 1) \in Nat
        /\ (L - 1 - (i + 1)) + 1 = L - 1 - i /\ L - 1 - i \in 1..L
    BY <1>0
  <2>2. IsType(Q(L - 1 - i), "dir")
    BY <1>3
  <2> HIDE DEF Q, L, N
  <2>3. Exists(Q(L - 1 - i))
    BY <2>2 DEF IsType
  <2>4. IsType(Q(L - 1 - (i + 1)), "dir")
    BY <1>1, <2>1, <2>3
  <2> QED BY <2>1, <2>4
<1>4. N \in 0..N /\ L - 1 - N = n
  BY <1>0
<1>5. 0..N \subseteq S
  <2> HIDE DEF S, N
  <2> QED BY <1>0, <1>2, <1>3, Counting
<1>6. IsType(Q(L - 1 - N), "dir")
  BY <1>4, <1>5
<1> HIDE DEF Q, L, N
<1> QED BY <1>4, <1>6 DEF Q

LEMMA LastOfConcat ==
  ASSUME NEW s \in CleanPaths, NEW t \in CleanPaths, t # Top
  PROVE  s \o t # Top /\ Last(s \o t) = Last(t) /\ Last(t) \in Name
<1>1. /\ s \in Seq(Name) /\ t \in Seq(Name) /\ Len(s) \in Nat /\ Len(t) \in Nat \ {0}
  BY TopIsEmpty DEF CleanPaths
<1>2. /\ s \o t \in Seq(Name) /\ Len(s \o t) = Len(s) + Len(t)
      /\ (s \o t)[Len(s) + Len(t)] = t[Len(t)]
  BY <1>1
<1>3. s \o t # Top
  BY <1>1, <1>2, TopIsEmpty
<1>4. Last(s \o t) = t[Len(t)]
  <2> DEFINE w == s \o t
  <2> HIDE DEF w
  <2>1. Last(w) = w[Len(w)]
    BY DEF Last
  <2> QED BY <1>2, <2>1 DEF w
<1>5. Last(t) = t[Len(t)] /\ t[Len(t)] \in Name
  BY <1>1 DEF Last
<1> QED BY <1>3, <1>4, <1>5

(* A file's key ends in its name: it is no folder that holds the project.  *)
LEMMA FileKey ==
  ASSUME IsFileSystem(fs), IsType(Project, "dir"),
         NEW p \in CleanPaths, IsType(p, "file")
  PROVE  /\ KeyOf(p) \in Keys /\ KeyOf(p).tail # Top
         /\ KeyOf(p).tail \in CleanPaths /\ Last(KeyOf(p).tail) = Last(p)
         /\ p # Top
<1> DEFINE k == KeyOf(p)
           L == Len(Project)
           s == SubSeq(Project, 1, L - k.up)
<1>1. Project \in CleanPaths /\ Project \in Seq(Name) /\ L \in Nat
  BY PathsAssumption DEF CleanPaths
<1>2. k \in Keys /\ k.up \in 0..L /\ p = s \o k.tail
  BY <1>1, RelJoins DEF KeyOf
<1> HIDE DEF k
<1>3. k.tail \in CleanPaths /\ k.up \in Nat /\ L - k.up \in 0..L
  BY <1>1, <1>2 DEF Keys
<1>4. s \in CleanPaths
  BY <1>1, <1>3, SubSeqPrefix DEF CleanPaths
<1>5. ~IsType(p, "dir") /\ Exists(p)
  BY DEF IsType
<1>6. k.tail # Top
  <2> SUFFICES ASSUME k.tail = Top PROVE FALSE
    OBVIOUS
  <2>1. p = s
    <3>1. s \o <<>> = s
      BY <1>4, ConcatEmptySeq DEF CleanPaths
    <3> QED BY <1>2, <3>1 DEF Top
  <2>2. CASE k.up = 0
    <3>1. L - k.up = L
      BY <1>1, <2>2
    <3>2. s = Project
      BY <1>1, <3>1, SubSeqFull
    <3> QED BY <1>5, <2>1, <3>2
  <2>3. CASE k.up # 0
    <3>1. L - k.up \in Nat /\ L - k.up < L
      BY <1>1, <1>2, <1>3, <2>3
    <3>2. Exists(Project)
      BY DEF IsType
    <3>3. IsType(s, "dir")
      BY <1>1, <3>1, <3>2, HoldersAreDirs
    <3> QED BY <1>5, <2>1, <3>3
  <2> QED BY <2>2, <2>3
<1>7. p # Top
  BY <1>5, TopIsDir
<1> HIDE DEF s
<1> QED BY <1>2, <1>3, <1>4, <1>6, <1>7, LastOfConcat DEF k

LEMMA OnDiskType ==
  ASSUME NEW dir \in CleanPaths, NEW r \in Refs
  PROVE  OnDisk(dir, r) \in CleanPaths
<1> DEFINE written == IF r.kind = "abs" THEN Clean(r.path) ELSE Join(dir, r.path)
<1>1. r.path \in Seq(Component) /\ dir \in Seq(Component)
  BY CleanPathsAreWritten DEF Refs
<1>2. dir \o r.path \in Seq(Component)
  BY <1>1, ConcatProperties
<1>3. written \in CleanPaths
  BY <1>1, <1>2, CleanType DEF Join
<1>4. OnDisk(dir, r) = IF HasQuery(r) THEN Append(written, Query) ELSE written
  BY DEF OnDisk
<1> HIDE DEF written
<1>5. Append(written, Query) \in CleanPaths
  BY <1>3, TextsAssumption DEF CleanPaths
<1> QED BY <1>3, <1>4, <1>5

LEMMA FrontType ==
  ASSUME NEW p \in CleanPaths, p # Top
  PROVE  /\ Front(p) \in CleanPaths /\ Last(p) \in Name
         /\ p = Append(Front(p), Last(p))
<1>1. p \in Seq(Name) /\ Len(p) \in Nat \ {0}
  BY TopIsEmpty DEF CleanPaths
<1>2. /\ SubSeq(p, 1, Len(p) - 1) \in Seq(Name) /\ p[(Len(p) - 1) + 1] \in Name
      /\ SubSeq(p, 1, (Len(p) - 1) + 1) = Append(SubSeq(p, 1, Len(p) - 1), p[(Len(p) - 1) + 1])
  <2>1. Len(p) - 1 \in Nat /\ (Len(p) - 1) + 1 \in 1..Len(p)
    BY <1>1
  <2> QED BY <1>1, <2>1, SubSeqGrows
<1>3. (Len(p) - 1) + 1 = Len(p) /\ SubSeq(p, 1, Len(p)) = p
  BY <1>1, SubSeqFull
<1> QED BY <1>2, <1>3 DEF Front, Last, CleanPaths

(* What the references of a page, and a folder, lead to.                   *)
LEMMA TargetsAre ==
  ASSUME NEW dir \in CleanPaths, NEW refs \in SUBSET Refs, NEW t \in Targets(dir, refs)
  PROVE  /\ t \in CleanPaths /\ InRoot(t)
         /\ \E r \in refs : r.kind # "external" /\ ~Bare(r) /\ t = OnDisk(dir, r)
<1>1. PICK r \in refs : r.kind # "external" /\ ~Bare(r) /\ t = OnDisk(dir, r)
  BY DEF Targets
<1>2. InRoot(t)
  BY DEF Targets
<1>3. t \in CleanPaths
  BY <1>1, OnDiskType
<1> QED BY <1>1, <1>2, <1>3

LEMMA TargetsHave ==
  ASSUME NEW dir, NEW refs, NEW r \in refs,
         r.kind # "external", ~Bare(r), InRoot(OnDisk(dir, r))
  PROVE  OnDisk(dir, r) \in Targets(dir, refs)
BY DEF Targets

LEMMA DirTargetsAre ==
  ASSUME IsFileSystem(fs), NEW dir \in CleanPaths, NEW t \in DirTargets(dir)
  PROVE  /\ t \in CleanPaths /\ InRoot(t) /\ source.recursive
         /\ \E x \in Name : t = Append(dir, x)
<1>1. source.recursive
  BY DEF DirTargets
<1>2. PICK c \in {p \in DOMAIN fs : p # Top /\ Dir(p) = Resolve(dir).at} :
        t = Append(dir, Last(c)) /\ InRoot(t)
  BY <1>1 DEF DirTargets
<1>3. c \in CleanPaths /\ c # Top
  BY <1>2 DEF IsFileSystem
<1>4. Last(c) \in Name
  BY <1>3, FrontType
<1>5. t \in CleanPaths
  BY <1>2, <1>4 DEF CleanPaths
<1> QED BY <1>1, <1>2, <1>4, <1>5

-----------------------------------------------------------------------------
(* The walk's invariant.  Every entry of files but a synthesized root was  *)
(* read from the disk, under its own key; everything found was named by a  *)
(* page that was read, and is inside the project root; and what the pages  *)
(* read so far lead to is visited or queued.                               *)
Types ==
  /\ fs \in Worlds /\ source \in Sources
  /\ IsType(Project, "dir")
  /\ queue \subseteq CleanPaths /\ visited \subseteq CleanPaths
  /\ phase \in {"start", "crawl", "done"}
  /\ phase = "start" => queue = {} /\ visited = {} /\ DOMAIN files = {}
  /\ phase = "done" => queue = {}

FromDisk(k) ==
  /\ files[k] \in CleanPaths /\ k = KeyOf(files[k])
  /\ IsType(files[k], "file")
  /\ (k = root /\ source.kind = "file") \/ files[k] \in visited

Made(k) ==
  /\ files[k] = NoDisk /\ k = root /\ phase = "done" /\ source.kind = "text"
  /\ \E name \in Name : k = Key(0, <<name>>)

FilesHaveOrigins == \A k \in DOMAIN files : FromDisk(k) \/ Made(k)

RootIsFiled ==
  /\ source.kind = "file" /\ phase # "start" => root \in DOMAIN files /\ FromDisk(root)
  /\ source.kind = "text" /\ phase = "done" => root \in DOMAIN files /\ Made(root)

Leads(dir, refs, t) ==
  \E r \in refs :
    /\ r.kind # "external" /\ ~Bare(r)
    /\ \/ OnDisk(dir, r) = t
       \/ source.recursive /\ IsType(OnDisk(dir, r), "dir") /\ IsPrefix(OnDisk(dir, r), t)

HasOrigin(t) ==
  \/ source.kind = "text" /\ Leads(Project, source.refs, t)
  \/ \E k \in DOMAIN files :
       /\ Last(k.tail) \in Markdown /\ files[k] # NoDisk
       /\ Leads(Dir(files[k]), NodeAt(files[k]).refs, t)

FoundInside == \A t \in queue \cup visited : InRoot(t) /\ HasOrigin(t)

VisitedAreFiled ==
  \A p \in visited : Includes(p) => KeyOf(p) \in DOMAIN files /\ files[KeyOf(p)] = p

Closed ==
  /\ \A k \in DOMAIN files :
       IsMarkdownKey(k) => Targets(DirOf(k), RefsOf(k)) \subseteq queue \cup visited
  /\ source.kind = "text" /\ phase # "start" =>
       Targets(Project, source.refs) \subseteq queue \cup visited

WalkInv ==
  /\ Types /\ FilesHaveOrigins /\ RootIsFiled
  /\ FoundInside /\ VisitedAreFiled /\ Closed

LEMMA Basics ==
  ASSUME Types
  PROVE  /\ IsFileSystem(fs) /\ Project \in CleanPaths
         /\ source.kind \in {"file", "text"} /\ source.recursive \in BOOLEAN
         /\ source.kind = "file" => /\ source.path \in CleanPaths
                                    /\ source.path # Top /\ Dir(source.path) = Project
         /\ source.kind = "text" => source.refs \in SUBSET Refs
<1>1. IsFileSystem(fs) /\ Project \in CleanPaths
  BY WorldsAssumption, PathsAssumption DEF Types
<1>2. source \in Sources
  BY DEF Types
<1>3. CASE source \in [kind : {"file"}, path : RootFiles, recursive : BOOLEAN]
  BY <1>1, <1>3, RootFilesAssumption
<1>4. CASE source \in [kind : {"text"}, refs : Texts, recursive : BOOLEAN]
  BY <1>1, <1>4, TextsAssumption
<1> QED BY <1>2, <1>3, <1>4 DEF Sources

LEMMA UnchangedWorld ==
  ASSUME UNCHANGED <<fs, source>>
  PROVE  /\ \A p, type : IsType(p, type)' <=> IsType(p, type)
         /\ \A p : NodeAt(p)' = NodeAt(p)
         /\ \A p : InRoot(p)' <=> InRoot(p)
         /\ \A p : Includes(p)' <=> Includes(p)
         /\ \A dir, refs : Targets(dir, refs)' = Targets(dir, refs)
         /\ \A dir, refs, t : Leads(dir, refs, t)' <=> Leads(dir, refs, t)
<1>1. \A p : Resolve(p)' = Resolve(p)
  BY UnchangedResolve
<1>2. \A p : Exists(p)' <=> Exists(p)
  BY <1>1 DEF Exists
<1>3. \A p : NodeAt(p)' = NodeAt(p)
  BY <1>1 DEF NodeAt
<1>4. \A p, type : IsType(p, type)' <=> IsType(p, type)
  BY <1>2, <1>3 DEF IsType
<1>5. RootReal' = RootReal
  BY <1>1, <1>2 DEF RootReal
<1>6. \A p : InRoot(p)' <=> InRoot(p)
  BY <1>1, <1>2, <1>5 DEF InRoot, EscapesRoot
<1>7. \A p : Includes(p)' <=> Includes(p)
  BY <1>4 DEF Includes
<1>8. \A dir, refs : Targets(dir, refs)' = Targets(dir, refs)
  BY <1>6 DEF Targets
<1>9. \A dir, refs, t : Leads(dir, refs, t)' <=> Leads(dir, refs, t)
  BY <1>4 DEF Leads
<1> QED BY <1>3, <1>4, <1>6, <1>7, <1>8, <1>9

LEMMA NodeRefs ==
  ASSUME Types, NEW p \in CleanPaths, IsType(p, "file")
  PROVE  NodeAt(p).refs \in SUBSET Refs
<1>1. NodeAt(p) \in Nodes /\ NodeAt(p).type = "file"
  BY Basics, ResolveType DEF IsType
<1> QED BY <1>1 DEF Nodes

(* An entry of files that a step does not touch.                           *)
LEMMA Kept ==
  ASSUME UNCHANGED <<fs, source, root>>, NEW k \in DOMAIN files,
         k \in DOMAIN files', files'[k] = files[k], visited \subseteq visited'
  PROVE  /\ FromDisk(k) => FromDisk(k)'
         /\ RefsOf(k)' = RefsOf(k) /\ DirOf(k)' = DirOf(k)
<1>1. /\ \A p, type : IsType(p, type)' <=> IsType(p, type)
      /\ \A p : NodeAt(p)' = NodeAt(p)
  BY UnchangedWorld
<1>2. FromDisk(k) => FromDisk(k)'
  BY <1>1 DEF FromDisk
<1>3. RefsOf(k)' = RefsOf(k)
  BY <1>1 DEF RefsOf
<1>4. DirOf(k)' = DirOf(k)
  BY DEF DirOf
<1> QED BY <1>2, <1>3, <1>4

(* A file of the disk is never mistaken for a synthesized root.            *)
LEMMA DiskFile ==
  ASSUME Types, NEW k, FromDisk(k)
  PROVE  /\ files[k] # NoDisk /\ files[k] # Top
         /\ k \in Keys /\ k.tail # Top /\ k.tail \in CleanPaths
         /\ Last(k.tail) = Last(files[k])
         /\ RefsOf(k) = NodeAt(files[k]).refs /\ DirOf(k) = Dir(files[k])
         /\ RefsOf(k) \in SUBSET Refs /\ DirOf(k) \in CleanPaths
         /\ IsMarkdownKey(k) <=> IsMarkdown(files[k])
<1>1. files[k] \in CleanPaths /\ k = KeyOf(files[k]) /\ IsType(files[k], "file")
  BY DEF FromDisk
<1>2. IsFileSystem(fs) /\ IsType(Project, "dir")
  BY Basics DEF Types
<1>3. /\ KeyOf(files[k]) \in Keys /\ KeyOf(files[k]).tail # Top
      /\ KeyOf(files[k]).tail \in CleanPaths
      /\ Last(KeyOf(files[k]).tail) = Last(files[k]) /\ files[k] # Top
  BY <1>1, <1>2, FileKey
<1>4. files[k] # NoDisk
  BY <1>3 DEF NoDisk, Top
<1>5. RefsOf(k) = NodeAt(files[k]).refs /\ DirOf(k) = Dir(files[k])
  BY <1>4 DEF RefsOf, DirOf
<1>6. RefsOf(k) \in SUBSET Refs
  BY <1>1, <1>5, NodeRefs
<1>7. DirOf(k) \in CleanPaths
  BY <1>1, <1>3, <1>5, FrontType DEF Dir
<1>8. IsMarkdownKey(k) <=> IsMarkdown(files[k])
  BY <1>1, <1>3 DEF IsMarkdownKey, IsMarkdown, Top
<1> QED BY <1>1, <1>3, <1>4, <1>5, <1>6, <1>7, <1>8

(* What the text, and a folder that is followed, lead to.                  *)
LEMMA TextLeads ==
  ASSUME Types, source.kind = "text", NEW t \in Targets(Project, source.refs)
  PROVE  t \in CleanPaths /\ InRoot(t) /\ HasOrigin(t)
<1>1. Project \in CleanPaths /\ source.refs \in SUBSET Refs
  BY Basics
<1>2. /\ t \in CleanPaths /\ InRoot(t)
      /\ \E r \in source.refs : r.kind # "external" /\ ~Bare(r) /\ t = OnDisk(Project, r)
  BY <1>1, TargetsAre
<1> QED BY <1>2 DEF HasOrigin, Leads

LEMMA PrefixGrows ==
  ASSUME NEW p \in CleanPaths, NEW x \in Name
  PROVE  /\ IsPrefix(p, Append(p, x))
         /\ \A u \in CleanPaths : IsPrefix(u, p) => IsPrefix(u, Append(p, x))
<1>1. p \in Seq(Name)
  BY DEF CleanPaths
<1>2. IsPrefix(p, Append(p, x))
  BY <1>1 DEF IsPrefix
<1>3. ASSUME NEW u \in CleanPaths, IsPrefix(u, p)
      PROVE  IsPrefix(u, Append(p, x))
  <2>1. Len(u) <= Len(p) /\ SubSeq(u, 1, Len(u)) = SubSeq(p, 1, Len(u))
    BY <1>3 DEF IsPrefix
  <2>2. Len(u) \in Nat
    BY DEF CleanPaths
  <2>3. SubSeq(Append(p, x), 1, Len(u)) = SubSeq(p, 1, Len(u))
        /\ Len(u) <= Len(Append(p, x))
    BY <1>1, <2>1, <2>2
  <2> QED BY <2>1, <2>3 DEF IsPrefix
<1> QED BY <1>2, <1>3

LEMMA LeadsBelow ==
  ASSUME NEW dir \in CleanPaths, NEW refs \in SUBSET Refs,
         NEW p \in CleanPaths, NEW x \in Name,
         Leads(dir, refs, p), source.recursive, IsType(p, "dir")
  PROVE  Leads(dir, refs, Append(p, x))
<1>1. PICK r \in refs : 
        /\ r.kind # "external" /\ ~Bare(r)
        /\ \/ OnDisk(dir, r) = p
           \/ IsType(OnDisk(dir, r), "dir") /\ IsPrefix(OnDisk(dir, r), p)
  BY DEF Leads
<1>2. OnDisk(dir, r) \in CleanPaths
  BY OnDiskType
<1>3. IsType(OnDisk(dir, r), "dir") /\ IsPrefix(OnDisk(dir, r), Append(p, x))
  BY <1>1, <1>2, PrefixGrows
<1> QED BY <1>1, <1>3 DEF Leads

LEMMA FolderLeads ==
  ASSUME Types, FilesHaveOrigins, NEW p \in CleanPaths, IsType(p, "dir"),
         HasOrigin(p), NEW t \in DirTargets(p)
  PROVE  t \in CleanPaths /\ InRoot(t) /\ HasOrigin(t)
<1>1. t \in CleanPaths /\ InRoot(t) /\ source.recursive
  BY Basics, DirTargetsAre
<1>2. PICK x \in Name : t = Append(p, x)
  BY Basics, DirTargetsAre
<1>3. CASE source.kind = "text" /\ Leads(Project, source.refs, p)
  <2>1. Leads(Project, source.refs, t)
    BY <1>1, <1>2, <1>3, Basics, LeadsBelow
  <2> QED BY <1>1, <1>3, <2>1 DEF HasOrigin
<1>4. ASSUME NEW k \in DOMAIN files, Last(k.tail) \in Markdown, files[k] # NoDisk,
             Leads(Dir(files[k]), NodeAt(files[k]).refs, p)
      PROVE  HasOrigin(t)
  <2>1. FromDisk(k)
    BY <1>4 DEF FilesHaveOrigins, Made
  <2>2. Dir(files[k]) \in CleanPaths /\ NodeAt(files[k]).refs \in SUBSET Refs
    BY <2>1, DiskFile
  <2>3. Leads(Dir(files[k]), NodeAt(files[k]).refs, t)
    BY <1>1, <1>2, <1>4, <2>2, LeadsBelow
  <2> QED BY <1>4, <2>3 DEF HasOrigin
<1> QED BY <1>1, <1>3, <1>4 DEF HasOrigin

LEMMA OriginKept ==
  ASSUME UNCHANGED <<fs, source>>, NEW t, HasOrigin(t),
         \A k \in DOMAIN files : files[k] # NoDisk =>
           k \in DOMAIN files' /\ files'[k] = files[k]
  PROVE  HasOrigin(t)'
<1>1. /\ \A p : NodeAt(p)' = NodeAt(p)
      /\ \A dir, refs, u : Leads(dir, refs, u)' <=> Leads(dir, refs, u)
  BY UnchangedWorld
<1>2. CASE source.kind = "text" /\ Leads(Project, source.refs, t)
  BY <1>1, <1>2 DEF HasOrigin
<1>3. ASSUME NEW k \in DOMAIN files, Last(k.tail) \in Markdown, files[k] # NoDisk,
             Leads(Dir(files[k]), NodeAt(files[k]).refs, t)
      PROVE  HasOrigin(t)'
  <2>1. k \in DOMAIN files' /\ files'[k] = files[k]
    BY <1>3
  <2>2. PICK p, refs : p = files[k] /\ refs = NodeAt(p).refs
    OBVIOUS
  <2>3. NodeAt(p)' = NodeAt(p) /\ files'[k] = p
    BY <1>1, <2>1, <2>2
  <2>4. Leads(Dir(p), refs, t)'
    BY <1>1, <1>3, <2>2
  <2> QED BY <1>3, <2>1, <2>2, <2>3, <2>4 DEF HasOrigin
<1> QED BY <1>2, <1>3 DEF HasOrigin

LEMMA WalkInit == Init => WalkInv
<1> SUFFICES ASSUME Init PROVE WalkInv
  OBVIOUS
<1>1. Types /\ DOMAIN files = {} /\ phase = "start"
  BY DEF Init, Types
<1> QED BY <1>1 DEF WalkInv, Types, FilesHaveOrigins, RootIsFiled, FoundInside,
                    VisitedAreFiled, Closed

LEMMA ReadWalk ==
  ASSUME WalkInv, UNCHANGED walkVars
  PROVE  WalkInv'
<1>0. /\ UNCHANGED <<fs, source, root>> /\ files' = files /\ visited' = visited
      /\ queue' = queue /\ phase' = phase
  BY DEF walkVars
<1>1. /\ \A p, type : IsType(p, type)' <=> IsType(p, type)
      /\ \A p : InRoot(p)' <=> InRoot(p)
      /\ \A p : Includes(p)' <=> Includes(p)
      /\ \A dir, refs : Targets(dir, refs)' = Targets(dir, refs)
  BY <1>0, UnchangedWorld
<1>2. Types'
  BY <1>0, <1>1 DEF WalkInv, Types
<1>3. \A k \in DOMAIN files :
        /\ FromDisk(k) => FromDisk(k)'
        /\ Made(k) => Made(k)'
        /\ RefsOf(k)' = RefsOf(k) /\ DirOf(k)' = DirOf(k)
  <2> SUFFICES ASSUME NEW k \in DOMAIN files
               PROVE  /\ FromDisk(k) => FromDisk(k)'
                      /\ Made(k) => Made(k)'
                      /\ RefsOf(k)' = RefsOf(k) /\ DirOf(k)' = DirOf(k)
    OBVIOUS
  <2>1. FromDisk(k) => FromDisk(k)'
    BY <1>0, Kept
  <2>2. RefsOf(k)' = RefsOf(k) /\ DirOf(k)' = DirOf(k)
    BY <1>0, Kept
  <2>3. Made(k) => Made(k)'
    BY <1>0 DEF Made
  <2> QED BY <2>1, <2>2, <2>3
<1>4. FilesHaveOrigins'
  BY <1>0, <1>3 DEF WalkInv, FilesHaveOrigins
<1>5. RootIsFiled'
  <2>2. PICK k : k = root
    OBVIOUS
  <2>3. root' = k
    BY <1>0, <2>2
  <2>4. /\ source.kind = "file" /\ phase # "start" => k \in DOMAIN files /\ FromDisk(k)
        /\ source.kind = "text" /\ phase = "done" => k \in DOMAIN files /\ Made(k)
    BY <2>2 DEF WalkInv, RootIsFiled
  <2>5. /\ source.kind = "file" /\ phase # "start" => k \in DOMAIN files /\ FromDisk(k)'
        /\ source.kind = "text" /\ phase = "done" => k \in DOMAIN files /\ Made(k)'
    BY <1>3, <2>4
  <2> QED BY <1>0, <2>3, <2>5 DEF RootIsFiled
<1>6. FoundInside'
  <2> SUFFICES ASSUME NEW t \in queue \cup visited
               PROVE  InRoot(t)' /\ HasOrigin(t)'
    BY <1>0 DEF FoundInside
  <2>1. InRoot(t) /\ HasOrigin(t)
    BY DEF WalkInv, FoundInside
  <2> QED BY <1>0, <1>1, <2>1, OriginKept
<1>7. VisitedAreFiled'
  BY <1>0, <1>1 DEF WalkInv, VisitedAreFiled, KeyOf
<1>8. Closed'
  BY <1>0, <1>1, <1>3 DEF WalkInv, Closed
<1> QED BY <1>2, <1>4, <1>5, <1>6, <1>7, <1>8 DEF WalkInv

LEMMA FileWalk ==
  ASSUME WalkInv, WalkFile
  PROVE  WalkInv'
<1> PICK p, k : p = source.path /\ k = KeyOf(p)
  OBVIOUS
<1>0. /\ UNCHANGED <<fs, source>> /\ visited' = visited /\ phase' = "crawl"
      /\ phase = "start" /\ source.kind = "file" /\ IsType(p, "file")
      /\ root' = k
      /\ queue' = IF IsMarkdown(p) THEN Targets(Dir(p), NodeAt(p).refs) ELSE {}
      /\ visited = {} /\ DOMAIN files = {} /\ Types
  BY DEF WalkFile, WalkInv, Types
<1>1. /\ \A q, type : IsType(q, type)' <=> IsType(q, type)
      /\ \A q : InRoot(q)' <=> InRoot(q)
      /\ \A q : NodeAt(q)' = NodeAt(q)
      /\ \A dir, refs : Targets(dir, refs)' = Targets(dir, refs)
      /\ \A dir, refs, t : Leads(dir, refs, t)' <=> Leads(dir, refs, t)
  BY <1>0, UnchangedWorld
<1>2. DOMAIN files' = {k} /\ files'[k] = p
  <2>1. files' = Filed(k, p)
    BY <1>0 DEF WalkFile
  <2>2. DOMAIN Filed(k, p) = DOMAIN files \cup {k} /\ Filed(k, p)[k] = p
    BY DEF Filed
  <2> QED BY <1>0, <2>1, <2>2
<1>3. p \in CleanPaths /\ p # Top /\ Project \in CleanPaths
  BY <1>0, Basics
<1>4. FromDisk(k)'
  BY <1>0, <1>1, <1>2, <1>3 DEF FromDisk, KeyOf
<1>5. /\ \A t \in queue' : t \in CleanPaths /\ InRoot(t) /\ Leads(Dir(p), NodeAt(p).refs, t)
      /\ queue' # {} => IsMarkdown(p)
  <2> SUFFICES ASSUME NEW t \in queue'
               PROVE  /\ IsMarkdown(p) /\ t \in CleanPaths /\ InRoot(t)
                      /\ Leads(Dir(p), NodeAt(p).refs, t)
    OBVIOUS
  <2>1. IsMarkdown(p) /\ t \in Targets(Dir(p), NodeAt(p).refs)
    BY <1>0
  <2>2. Dir(p) \in CleanPaths /\ NodeAt(p).refs \in SUBSET Refs
    BY <1>0, <1>3, FrontType, NodeRefs DEF Dir
  <2>3. /\ t \in CleanPaths /\ InRoot(t)
        /\ \E r \in NodeAt(p).refs :
             r.kind # "external" /\ ~Bare(r) /\ t = OnDisk(Dir(p), r)
    BY <2>1, <2>2, TargetsAre
  <2> QED BY <2>1, <2>3 DEF Leads
<1>6. Types'
  BY <1>0, <1>1, <1>5 DEF Types
<1>7. FilesHaveOrigins' /\ RootIsFiled'
  BY <1>0, <1>2, <1>4 DEF FilesHaveOrigins, RootIsFiled
<1>8. /\ (RefsOf(k))' = NodeAt(p).refs /\ (DirOf(k))' = Dir(p)
      /\ k.tail # Top /\ Last(k.tail) = Last(p) /\ p # NoDisk
  <2>1. IsFileSystem(fs) /\ IsType(Project, "dir")
    BY <1>0, Basics DEF Types
  <2>2. k.tail # Top /\ Last(k.tail) = Last(p)
    BY <1>0, <1>3, <2>1, FileKey
  <2> QED BY <1>1, <1>2, <1>3, <2>2 DEF RefsOf, DirOf, NoDisk, Top
<1>9. FoundInside'
  <2> SUFFICES ASSUME NEW t \in queue'
               PROVE  InRoot(t)' /\ HasOrigin(t)'
    BY <1>0 DEF FoundInside
  <2>1. InRoot(t) /\ Leads(Dir(p), NodeAt(p).refs, t) /\ IsMarkdown(p)
    BY <1>5
  <2>2. PICK refs : refs = NodeAt(p).refs
    OBVIOUS
  <2>3. (NodeAt(p).refs)' = refs /\ Leads(Dir(p), refs, t)'
    BY <1>1, <2>1, <2>2
  <2>4. Last(k.tail) \in Markdown
    BY <1>8, <2>1 DEF IsMarkdown
  <2>5. HasOrigin(t)'
    BY <1>2, <1>8, <2>2, <2>3, <2>4 DEF HasOrigin
  <2> QED BY <1>1, <2>1, <2>5
<1>10. VisitedAreFiled'
  BY <1>0 DEF VisitedAreFiled
<1>11. Closed'
  <2>1. ASSUME IsMarkdownKey(k)
        PROVE  Targets(DirOf(k), RefsOf(k))' \subseteq queue'
    <3>1. IsMarkdown(p)
      BY <1>8, <2>1 DEF IsMarkdownKey, IsMarkdown
    <3>2. queue' = Targets(Dir(p), NodeAt(p).refs)
      BY <1>0, <3>1
    <3>3. PICK d, refs : d = Dir(p) /\ refs = NodeAt(p).refs
      OBVIOUS
    <3>4. Targets(d, refs)' = Targets(d, refs)
      BY <1>1
    <3>5. Targets(DirOf(k), RefsOf(k))' = Targets(d, refs)'
      BY <1>8, <3>3 DEF Targets
    <3> QED BY <3>2, <3>3, <3>4, <3>5
  <2> QED BY <1>0, <1>2, <2>1 DEF Closed
<1> QED BY <1>6, <1>7, <1>9, <1>10, <1>11 DEF WalkInv

LEMMA TextWalk ==
  ASSUME WalkInv, WalkText
  PROVE  WalkInv'
<1>0. /\ UNCHANGED <<fs, source>> /\ visited' = visited /\ phase' = "crawl"
      /\ files' = files /\ phase = "start" /\ source.kind = "text"
      /\ queue' = Targets(Project, source.refs)
      /\ visited = {} /\ DOMAIN files = {} /\ Types
  BY DEF WalkText, WalkInv, Types
<1>1. /\ \A q, type : IsType(q, type)' <=> IsType(q, type)
      /\ \A q : InRoot(q)' <=> InRoot(q)
      /\ \A dir, refs : Targets(dir, refs)' = Targets(dir, refs)
  BY <1>0, UnchangedWorld
<1>2. \A t \in queue' : t \in CleanPaths /\ InRoot(t) /\ HasOrigin(t)
  BY <1>0, TextLeads
<1>3. Types'
  BY <1>0, <1>1, <1>2 DEF Types
<1>4. FilesHaveOrigins' /\ RootIsFiled' /\ VisitedAreFiled'
  BY <1>0 DEF FilesHaveOrigins, RootIsFiled, VisitedAreFiled
<1>5. FoundInside'
  <2> SUFFICES ASSUME NEW t \in queue'
               PROVE  InRoot(t)' /\ HasOrigin(t)'
    BY <1>0 DEF FoundInside
  <2> QED BY <1>0, <1>1, <1>2, OriginKept
<1>6. Closed'
  <2>1. PICK refs : refs = source.refs
    OBVIOUS
  <2>2. Targets(Project, refs)' = Targets(Project, refs)
    BY <1>1
  <2>3. Targets(Project, source.refs)' = Targets(Project, refs)'
    BY <1>0, <2>1 DEF Targets
  <2> QED BY <1>0, <2>1, <2>2, <2>3 DEF Closed
<1> QED BY <1>3, <1>4, <1>5, <1>6 DEF WalkInv

LEMMA VisitWalk ==
  ASSUME WalkInv, Visit
  PROVE  WalkInv'
<1>0. /\ UNCHANGED <<fs, source, root>> /\ root' = root /\ source' = source
      /\ phase' = "crawl" /\ phase = "crawl"
      /\ Types /\ FilesHaveOrigins /\ RootIsFiled
      /\ FoundInside /\ VisitedAreFiled /\ Closed
  BY DEF Visit, WalkInv
<1>1. PICK p \in queue :
        /\ visited' = visited \cup {p}
        /\ files' = IF Includes(p) THEN Filed(KeyOf(p), p) ELSE files
        /\ queue' = (queue \cup FoundAt(p)) \ visited'
  BY DEF Visit
<1> DEFINE h == KeyOf(p)
<1>2. /\ \A q, type : IsType(q, type)' <=> IsType(q, type)
      /\ \A q : InRoot(q)' <=> InRoot(q)
      /\ \A q : NodeAt(q)' = NodeAt(q)
      /\ \A q : Includes(q)' <=> Includes(q)
      /\ \A dir, refs : Targets(dir, refs)' = Targets(dir, refs)
  BY <1>0, UnchangedWorld
<1>3. p \in CleanPaths /\ visited \subseteq visited' /\ p \in visited'
  BY <1>0, <1>1 DEF Types
<1>4. \A k \in DOMAIN files : FromDisk(k)
  BY <1>0 DEF FilesHaveOrigins, Made
<1>5. /\ \A k \in DOMAIN files : k \in DOMAIN files' /\ files'[k] = files[k]
      /\ Includes(p) => h \in DOMAIN files' /\ files'[h] = p
      /\ \A k \in DOMAIN files' : k \in DOMAIN files \/ (Includes(p) /\ k = h)
  <2>1. CASE ~Includes(p)
    BY <1>1, <2>1
  <2>2. CASE Includes(p)
    <3>1. files' = Filed(h, p)
      BY <1>1, <2>2
    <3>2. ASSUME NEW j \in DOMAIN files, j = h
          PROVE  files[j] = p
      <4>1. files[j] \in CleanPaths /\ Rel(Project, files[j]) = Rel(Project, p)
        BY <1>4, <3>2 DEF FromDisk, KeyOf
      <4> QED BY <1>3, <4>1, PathsAssumption, RelInjective
    <3> HIDE DEF h
    <3>3. /\ DOMAIN Filed(h, p) = DOMAIN files \cup {h}
          /\ Filed(h, p)[h] = p
          /\ \A j \in DOMAIN files :
               (j = h => files[j] = p) => Filed(h, p)[j] = files[j]
      BY DEF Filed
    <3> QED BY <2>2, <3>1, <3>2, <3>3
  <2> QED BY <2>1, <2>2
<1> HIDE DEF h
<1>6. \A k \in DOMAIN files :
        FromDisk(k)' /\ RefsOf(k)' = RefsOf(k) /\ DirOf(k)' = DirOf(k)
  <2> SUFFICES ASSUME NEW k \in DOMAIN files
               PROVE  FromDisk(k)' /\ RefsOf(k)' = RefsOf(k) /\ DirOf(k)' = DirOf(k)
    OBVIOUS
  <2>1. k \in DOMAIN files' /\ files'[k] = files[k] /\ FromDisk(k)
    BY <1>4, <1>5
  <2> QED BY <1>0, <1>3, <2>1, Kept
<1>7. Includes(p) => /\ FromDisk(h)' /\ RefsOf(h)' = NodeAt(p).refs
                     /\ DirOf(h)' = Dir(p) /\ IsType(p, "file")
                     /\ (IsMarkdownKey(h) <=> IsMarkdown(p))
  <2> SUFFICES ASSUME Includes(p)
               PROVE  /\ FromDisk(h)' /\ RefsOf(h)' = NodeAt(p).refs
                      /\ DirOf(h)' = Dir(p) /\ IsType(p, "file")
                      /\ (IsMarkdownKey(h) <=> IsMarkdown(p))
    OBVIOUS
  <2>1. h \in DOMAIN files' /\ files'[h] = p
    BY <1>5
  <2>2. IsType(p, "file") /\ IsType(p, "file")'
    BY <1>2 DEF Includes
  <2>3. FromDisk(h)'
    BY <1>3, <2>1, <2>2 DEF FromDisk, KeyOf, h
  <2>4. h.tail # Top /\ Last(h.tail) = Last(p) /\ p # Top
    BY <1>0, <1>3, <2>2, Basics, FileKey DEF Types, h
  <2>5. RefsOf(h)' = NodeAt(p).refs /\ DirOf(h)' = Dir(p)
    BY <1>2, <2>1, <2>4 DEF RefsOf, DirOf, NoDisk, Top
  <2> QED BY <2>2, <2>3, <2>4, <2>5 DEF IsMarkdownKey, IsMarkdown, Top
<1>8. /\ \A t \in FoundAt(p) : t \in CleanPaths /\ InRoot(t) /\ HasOrigin(t)'
      /\ (Includes(p) /\ IsMarkdown(p)) =>
           FoundAt(p) = Targets(Dir(p), NodeAt(p).refs)
  <2>1. CASE IsType(p, "dir")
    <3>1. FoundAt(p) = DirTargets(p) /\ ~Includes(p)
      BY <2>1 DEF FoundAt, Includes, IsType
    <3>2. HasOrigin(p)
      BY <1>0 DEF FoundInside
    <3>3. ASSUME NEW t \in DirTargets(p)
          PROVE  t \in CleanPaths /\ InRoot(t) /\ HasOrigin(t)'
      <4>1. t \in CleanPaths /\ InRoot(t) /\ HasOrigin(t)
        BY <1>0, <1>3, <2>1, <3>2, FolderLeads
      <4> QED BY <1>0, <1>5, <4>1, OriginKept
    <3> QED BY <3>1, <3>3
  <2>2. CASE Includes(p) /\ IsMarkdown(p)
    <3>1. FoundAt(p) = Targets(Dir(p), NodeAt(p).refs) /\ IsType(p, "file")
      BY <2>2 DEF FoundAt, Includes, IsType
    <3>2. /\ Dir(p) \in CleanPaths /\ NodeAt(p).refs \in SUBSET Refs
          /\ p # Top /\ Last(h.tail) = Last(p)
      <4>1. p # Top /\ Last(h.tail) = Last(p)
        BY <1>0, <1>3, <3>1, Basics, FileKey DEF Types, h
      <4> QED BY <1>0, <1>3, <3>1, <4>1, FrontType, NodeRefs DEF Dir
    <3>3. ASSUME NEW t \in Targets(Dir(p), NodeAt(p).refs)
          PROVE  t \in CleanPaths /\ InRoot(t) /\ HasOrigin(t)'
      <4>1. /\ t \in CleanPaths /\ InRoot(t)
            /\ \E r \in NodeAt(p).refs :
                 r.kind # "external" /\ ~Bare(r) /\ t = OnDisk(Dir(p), r)
        BY <3>2, TargetsAre
      <4>2. PICK refs : refs = NodeAt(p).refs
        OBVIOUS
      <4>3. Leads(Dir(p), refs, t)'
        BY <4>1, <4>2 DEF Leads
      <4>4. h \in DOMAIN files' /\ files'[h] = p /\ p # NoDisk
        BY <1>5, <2>2, <3>2 DEF NoDisk, Top
      <4>5. NodeAt(p)'.refs = refs
        BY <1>2, <4>2
      <4>6. Last(h.tail) \in Markdown
        BY <2>2, <3>2 DEF IsMarkdown
      <4>7. HasOrigin(t)'
        BY <4>3, <4>4, <4>5, <4>6 DEF HasOrigin
      <4> QED BY <4>1, <4>7
    <3> QED BY <3>1, <3>3
  <2>3. CASE ~IsType(p, "dir") /\ ~(Includes(p) /\ IsMarkdown(p))
    BY <2>3 DEF FoundAt
  <2> QED BY <2>1, <2>2, <2>3
<1>9. queue' \cup visited' = (queue \cup visited) \cup FoundAt(p)
  BY <1>1
<1>10. Types'
  BY <1>0, <1>1, <1>2, <1>8 DEF Types
<1>11. FilesHaveOrigins'
  BY <1>5, <1>6, <1>7 DEF FilesHaveOrigins
<1>12. RootIsFiled'
  <2>1. PICK k : k = root
    OBVIOUS
  <2>2. source.kind = "file" => k \in DOMAIN files
    BY <1>0, <2>1 DEF RootIsFiled
  <2>3. source.kind = "file" => k \in DOMAIN files' /\ FromDisk(k)'
    BY <1>5, <1>6, <2>2
  <2> QED BY <1>0, <2>1, <2>3 DEF RootIsFiled
<1>13. FoundInside'
  <2> SUFFICES ASSUME NEW t \in (queue \cup visited) \cup FoundAt(p)
               PROVE  InRoot(t)' /\ HasOrigin(t)'
    BY <1>9 DEF FoundInside
  <2>1. CASE t \in queue \cup visited
    <3>1. InRoot(t) /\ HasOrigin(t)
      BY <1>0, <2>1 DEF FoundInside
    <3> QED BY <1>0, <1>2, <1>5, <3>1, OriginKept
  <2>2. CASE t \in FoundAt(p)
    BY <1>2, <1>8, <2>2
  <2> QED BY <2>1, <2>2
<1>14. VisitedAreFiled'
  <2> SUFFICES ASSUME NEW q \in visited', Includes(q)
               PROVE  KeyOf(q) \in DOMAIN files' /\ files'[KeyOf(q)] = q
    BY <1>2 DEF VisitedAreFiled, KeyOf
  <2>1. CASE q = p
    BY <1>5, <2>1 DEF h
  <2>2. CASE q \in visited
    <3>1. KeyOf(q) \in DOMAIN files /\ files[KeyOf(q)] = q
      BY <1>0, <2>2 DEF VisitedAreFiled
    <3> QED BY <1>5, <3>1
  <2> QED BY <1>1, <2>1, <2>2
<1>15. Closed'
  <2>1. ASSUME NEW k \in DOMAIN files', IsMarkdownKey(k)
        PROVE  Targets(DirOf(k), RefsOf(k))' \subseteq queue' \cup visited'
    <3>1. CASE k \in DOMAIN files
      <4>1. Targets(DirOf(k), RefsOf(k)) \subseteq queue \cup visited
        BY <1>0, <2>1, <3>1 DEF Closed
      <4>2. PICK d, refs : d = DirOf(k) /\ refs = RefsOf(k)
        OBVIOUS
      <4>3. DirOf(k)' = d /\ RefsOf(k)' = refs
        BY <1>6, <3>1, <4>2
      <4>4. Targets(DirOf(k), RefsOf(k))' = Targets(d, refs)'
        BY <4>3 DEF Targets
      <4>5. Targets(d, refs)' = Targets(DirOf(k), RefsOf(k))
        BY <1>2, <4>2
      <4> QED BY <1>9, <4>1, <4>4, <4>5
    <3>2. CASE Includes(p) /\ k = h
      <4>1. IsMarkdown(p) /\ DirOf(k)' = Dir(p) /\ RefsOf(k)' = NodeAt(p).refs
        BY <1>7, <2>1, <3>2
      <4>2. PICK d, refs : d = Dir(p) /\ refs = NodeAt(p).refs
        OBVIOUS
      <4>3. Targets(DirOf(k), RefsOf(k))' = Targets(d, refs)'
        BY <4>1, <4>2 DEF Targets
      <4>4. Targets(d, refs)' = FoundAt(p)
        BY <1>2, <1>8, <3>2, <4>1, <4>2
      <4> QED BY <1>9, <4>3, <4>4
    <3> QED BY <1>5, <2>1, <3>1, <3>2
  <2>2. source.kind = "text" =>
          Targets(Project, source.refs)' \subseteq queue' \cup visited'
    <3>1. PICK refs : refs = source.refs
      OBVIOUS
    <3>2. Targets(Project, source.refs)' = Targets(Project, refs)'
      BY <1>0, <3>1 DEF Targets
    <3>3. Targets(Project, refs)' = Targets(Project, source.refs)
      BY <1>2, <3>1
    <3>4. source.kind = "text" => Targets(Project, source.refs) \subseteq queue \cup visited
      BY <1>0 DEF Closed
    <3> QED BY <1>9, <3>2, <3>3, <3>4
  <2> QED BY <1>0, <2>1, <2>2 DEF Closed
<1> QED BY <1>10, <1>11, <1>12, <1>13, <1>14, <1>15 DEF WalkInv

(* The first name the walk left is a name, and no key.                     *)
LEMMA FreeNameIs ==
  ASSUME NameLeft
  PROVE  FreeName \in Name /\ Key(0, <<FreeName>>) \notin DOMAIN files
<1> DEFINE N == Len(Synthetic)
           T == {n \in 0..(N - 1) : Free(N - n)}
<1>1. N \in Nat /\ \A i \in 1..N : Synthetic[i] \in Name
  BY TextsAssumption
<1>2. \E i \in 1..N : Free(i) /\ \A j \in 1..(i - 1) : ~Free(j)
  <2>1. PICK i \in 1..N : Free(i)
    BY DEF NameLeft
  <2>2. N - i \in T
    <3>1. N - i \in 0..(N - 1) /\ N - (N - i) = i
      BY <1>1
    <3> HIDE DEF N
    <3> QED BY <2>1, <3>1
  <2>3. N - 1 \in Nat /\ T \subseteq 0..(N - 1)
    BY <1>1, <2>1
  <2>4. PICK g \in T : \A m \in T : m <= g
    <3> HIDE DEF T
    <3> QED BY <2>2, <2>3, Greatest
  <2>5. g \in 0..(N - 1) /\ Free(N - g) /\ N - g \in 1..N
    BY <1>1
  <2>6. ASSUME NEW j \in 1..((N - g) - 1), Free(j)
        PROVE  FALSE
    <3>1. N - j \in 0..(N - 1) /\ N - (N - j) = j /\ ~(N - j <= g)
      BY <1>1, <2>5
    <3>2. N - j \in T
      <4> HIDE DEF N
      <4> QED BY <2>6, <3>1
    <3> QED BY <2>4, <3>1, <3>2
  <2> QED BY <2>5, <2>6
<1> DEFINE i == CHOOSE i \in 1..N : Free(i) /\ \A j \in 1..(i - 1) : ~Free(j)
<1>3. i \in 1..N /\ Free(i)
  BY <1>2
<1>4. FreeName = Synthetic[i]
  BY DEF FreeName
<1> HIDE DEF i
<1> QED BY <1>1, <1>3, <1>4 DEF Free

LEMMA EndWalk ==
  ASSUME WalkInv, WalkEnds
  PROVE  WalkInv'
<1>0. /\ UNCHANGED <<fs, source>> /\ source' = source
      /\ phase' = "done" /\ phase = "crawl"
      /\ queue = {} /\ queue' = {} /\ visited' = visited
      /\ Types /\ FilesHaveOrigins /\ RootIsFiled
      /\ FoundInside /\ VisitedAreFiled /\ Closed
      /\ source.kind \in {"file", "text"}
  BY Basics DEF WalkEnds, WalkInv
<1>1. /\ \A q, type : IsType(q, type)' <=> IsType(q, type)
      /\ \A q : InRoot(q)' <=> InRoot(q)
      /\ \A q : NodeAt(q)' = NodeAt(q)
      /\ \A q : Includes(q)' <=> Includes(q)
      /\ \A dir, refs : Targets(dir, refs)' = Targets(dir, refs)
  BY <1>0, UnchangedWorld
<1>2. \A k \in DOMAIN files : FromDisk(k)
  BY <1>0 DEF FilesHaveOrigins, Made
<1> DEFINE h == Key(0, <<FreeName>>)
<1>3. /\ \A k \in DOMAIN files : k \in DOMAIN files' /\ files'[k] = files[k]
      /\ source.kind = "file" => root' = root /\ DOMAIN files' = DOMAIN files
      /\ source.kind = "text" =>
           /\ root' = h /\ h \notin DOMAIN files /\ files'[h] = NoDisk
           /\ DOMAIN files' = DOMAIN files \cup {h} /\ FreeName \in Name
  <2>1. CASE source.kind = "file"
    BY <2>1 DEF WalkEnds
  <2>2. CASE source.kind = "text"
    <3>1. root' = h /\ files' = Filed(h, NoDisk) /\ NameLeft
      <4>1. root' = h /\ files' = Filed(root', NoDisk) /\ NameLeft
        BY <2>2 DEF WalkEnds
      <4> HIDE DEF h
      <4>2. Filed(root', NoDisk) = Filed(h, NoDisk)
        BY <4>1 DEF Filed
      <4> QED BY <4>1, <4>2
    <3>2. FreeName \in Name /\ h \notin DOMAIN files
      BY <3>1, FreeNameIs
    <3> HIDE DEF h
    <3>3. /\ DOMAIN Filed(h, NoDisk) = DOMAIN files \cup {h}
          /\ Filed(h, NoDisk)[h] = NoDisk
          /\ \A j \in DOMAIN files :
               (j = h => files[j] = NoDisk) => Filed(h, NoDisk)[j] = files[j]
      BY DEF Filed
    <3> QED BY <2>2, <3>1, <3>2, <3>3
  <2> QED BY <1>0, <2>1, <2>2
<1>4. \A k \in DOMAIN files : /\ k \in DOMAIN files' /\ files'[k] = files[k]
                              /\ FromDisk(k)' /\ files[k] # NoDisk
                              /\ RefsOf(k)' = RefsOf(k) /\ DirOf(k)' = DirOf(k)
  <2> SUFFICES ASSUME NEW k \in DOMAIN files
               PROVE  /\ FromDisk(k)' /\ files[k] # NoDisk
                      /\ RefsOf(k)' = RefsOf(k) /\ DirOf(k)' = DirOf(k)
    BY <1>3
  <2> HIDE DEF h
  <2>1. k \in DOMAIN files' /\ files'[k] = files[k] /\ FromDisk(k)
    BY <1>2, <1>3
  <2>2. files[k] # NoDisk
    BY <1>0, <2>1, DiskFile
  <2>3. FromDisk(k)'
    BY <1>0, <1>1, <1>3, <2>1 DEF FromDisk
  <2>4. RefsOf(k)' = RefsOf(k)
    BY <1>0, <1>1, <2>1 DEF RefsOf
  <2>5. DirOf(k)' = DirOf(k)
    BY <2>1 DEF DirOf
  <2> QED BY <2>2, <2>3, <2>4, <2>5
<1>5. source.kind = "text" => \A k \in DOMAIN files' : k \in DOMAIN files \/ Made(k)'
  <2> SUFFICES ASSUME source.kind = "text", NEW k \in DOMAIN files', k = h
               PROVE  Made(k)'
    BY <1>3
  <2>1. \E name \in Name : k = Key(0, <<name>>)
    BY <1>3
  <2> HIDE DEF h
  <2> QED BY <1>0, <1>3, <2>1 DEF Made
<1>6. Types'
  BY <1>0, <1>1 DEF Types
<1> HIDE DEF h
<1>7. FilesHaveOrigins'
  BY <1>0, <1>3, <1>4, <1>5 DEF FilesHaveOrigins
<1>8. RootIsFiled'
  <2>1. CASE source.kind = "file"
    <3>1. PICK k : k = root
      OBVIOUS
    <3>2. k \in DOMAIN files' /\ FromDisk(k)' /\ root' = k
      BY <1>0, <1>3, <1>4, <2>1, <3>1 DEF RootIsFiled
    <3> QED BY <1>0, <2>1, <3>2 DEF RootIsFiled
  <2>2. CASE source.kind = "text"
    <3>1. PICK k : k = h
      OBVIOUS
    <3>2. root' = k /\ k \in DOMAIN files' /\ Made(k)'
      <4>1. root' = k /\ k \in DOMAIN files' /\ k \notin DOMAIN files
        BY <1>3, <2>2, <3>1
      <4> QED BY <1>5, <2>2, <4>1
    <3> QED BY <1>0, <2>2, <3>2 DEF RootIsFiled
  <2> QED BY <1>0, <2>1, <2>2
<1>9. FoundInside'
  <2> SUFFICES ASSUME NEW t \in visited
               PROVE  InRoot(t)' /\ HasOrigin(t)'
    BY <1>0 DEF FoundInside
  <2>1. InRoot(t) /\ HasOrigin(t)
    BY <1>0 DEF FoundInside
  <2> QED BY <1>0, <1>1, <1>4, <2>1, OriginKept
<1>10. VisitedAreFiled'
  BY <1>0, <1>1, <1>4 DEF VisitedAreFiled, KeyOf
<1>11. Closed'
  <2>1. ASSUME NEW k \in DOMAIN files', IsMarkdownKey(k)
        PROVE  Targets(DirOf(k), RefsOf(k))' \subseteq visited'
    <3>1. CASE k \in DOMAIN files
      <4>1. Targets(DirOf(k), RefsOf(k)) \subseteq queue \cup visited
        BY <1>0, <2>1, <3>1 DEF Closed
      <4>2. PICK d, refs : d = DirOf(k) /\ refs = RefsOf(k)
        OBVIOUS
      <4>3. DirOf(k)' = d /\ RefsOf(k)' = refs
        BY <1>4, <3>1, <4>2
      <4>4. Targets(DirOf(k), RefsOf(k))' = Targets(d, refs)'
        BY <4>3 DEF Targets
      <4>5. Targets(d, refs)' = Targets(DirOf(k), RefsOf(k))
        BY <1>1, <4>2
      <4> QED BY <1>0, <4>1, <4>4, <4>5
    <3>2. CASE source.kind = "text" /\ k = h
      <4>1. PICK refs : refs = source.refs
        OBVIOUS
      <4>2. Targets(Project, refs) \subseteq queue \cup visited
        BY <1>0, <3>2, <4>1 DEF Closed
      <4>3. RefsOf(k)' = refs /\ DirOf(k)' = Project
        <5>1. files'[k] = NoDisk
          BY <1>3, <3>2
        <5> QED BY <1>0, <4>1, <5>1 DEF RefsOf, DirOf
      <4>4. Targets(DirOf(k), RefsOf(k))' = Targets(Project, refs)'
        BY <4>3 DEF Targets
      <4> QED BY <1>0, <1>1, <4>2, <4>4
    <3> QED BY <1>0, <1>3, <3>1, <3>2
  <2>2. source.kind = "text" => Targets(Project, source.refs)' \subseteq visited'
    <3>1. PICK refs : refs = source.refs
      OBVIOUS
    <3>2. Targets(Project, source.refs)' = Targets(Project, refs)'
      BY <1>0, <3>1 DEF Targets
    <3>3. Targets(Project, refs)' = Targets(Project, source.refs)
      BY <1>1, <3>1
    <3>4. source.kind = "text" => Targets(Project, source.refs) \subseteq queue \cup visited
      BY <1>0 DEF Closed
    <3> QED BY <1>0, <3>2, <3>3, <3>4
  <2> QED BY <1>0, <2>1, <2>2 DEF Closed
<1> QED BY <1>6, <1>7, <1>8, <1>9, <1>10, <1>11 DEF WalkInv

LEMMA ReadsKeepWalk ==
  ASSUME Reads \/ UNCHANGED vars
  PROVE  UNCHANGED walkVars
BY DEF Reads, OpenDocument, Follow, RedirectTrailingSlash, RedirectCanonicalQuery,
       Serve, vars

LEMMA WalkInductive == Spec => []WalkInv
<1>1. BundleInit => WalkInv
  BY WalkInit DEF BundleInit
<1>2. ASSUME WalkInv, [Next]_vars
      PROVE  WalkInv'
  <2>1. CASE WalkFile
    BY <1>2, <2>1, FileWalk
  <2>2. CASE WalkText
    BY <1>2, <2>2, TextWalk
  <2>3. CASE Visit
    BY <1>2, <2>3, VisitWalk
  <2>4. CASE WalkEnds
    BY <1>2, <2>4, EndWalk
  <2>5. CASE Reads \/ UNCHANGED vars
    BY <1>2, <2>5, ReadWalk, ReadsKeepWalk
  <2> QED BY <1>2, <2>1, <2>2, <2>3, <2>4, <2>5 DEF Next, Walks
<1> QED BY <1>1, <1>2, PTL DEF Spec

(* resolveInRoot is about the place a path resolves to: one that is in the *)
(* root by its key lies under the project's own directory.                 *)
LEMMA InRootIsInside ==
  ASSUME Types, NEW p \in CleanPaths, Exists(p)
  PROVE  InRoot(p) <=> IsInside(p)
<1>1. IsFileSystem(fs) /\ Project \in CleanPaths /\ Exists(Project)
  BY Basics DEF Types, IsType
<1>2. RootReal \in CleanPaths
  BY <1>1, ResolveType DEF RootReal
<1>3. Resolve(p).at \in CleanPaths
  BY <1>1, ResolveType
<1> PICK r, at : r = RootReal /\ at = Resolve(p).at
  OBVIOUS
<1>4. Rel(r, at).up = 0 <=> IsPrefix(r, at)
  BY <1>2, <1>3, RelInside
<1>5. Rel(r, at).up \in Nat
  BY <1>2, <1>3, RelJoins DEF Keys
<1>6. InRoot(p) <=> ~(Rel(r, at).up > 0)
  BY DEF InRoot, EscapesRoot
<1>7. IsInside(p) <=> IsPrefix(r, at)
  BY DEF IsInside
<1> QED BY <1>4, <1>5, <1>6, <1>7

(* resolveInRoot: by whatever ../ chain, absolute path or symlink a file   *)
(* was reached, its bytes are uploaded only if they lie under the project  *)
(* root; the file given to publish is the one exception.                   *)
THEOREM NothingFromOutsideHolds == Spec => []NothingFromOutside
<1>1. ASSUME WalkInv
      PROVE  NothingFromOutside
  <2> SUFFICES ASSUME NEW k \in DOMAIN files, k # root
               PROVE  IsInside(files[k])
    BY DEF NothingFromOutside
  <2>1. FromDisk(k) /\ files[k] \in visited
    BY <1>1 DEF WalkInv, FilesHaveOrigins, Made, FromDisk
  <2>2. InRoot(files[k])
    BY <1>1, <2>1 DEF WalkInv, FoundInside
  <2>3. files[k] \in CleanPaths /\ Exists(files[k]) /\ Types
    BY <1>1, <2>1 DEF FromDisk, IsType, WalkInv
  <2>4. PICK p : p = files[k]
    OBVIOUS
  <2> QED BY <2>2, <2>3, <2>4, InRootIsInside
<1> QED BY <1>1, WalkInductive, PTL

(* walker.crawl adds to the bundle nothing but what a reference in a page  *)
(* of the bundle names, or with -r what lies in a folder it names.         *)
THEOREM OnlyReferencedIsUploadedHolds == Spec => []OnlyReferencedIsUploaded
<1>1. ASSUME WalkInv
      PROVE  OnlyReferencedIsUploaded
  <2> SUFFICES ASSUME phase = "done", NEW k \in DOMAIN files, k # root
               PROVE  \E q \in DOMAIN files :
                        /\ q = root \/ Last(q.tail) \in Markdown
                        /\ \E r \in RefsOf(q) :
                             LET t == OnDisk(DirOf(q), r) IN
                             /\ r.kind # "external" /\ ~Bare(r)
                             /\ \/ t = files[k]
                                \/ /\ source.recursive /\ IsType(t, "dir")
                                   /\ IsPrefix(t, files[k])
    BY DEF OnlyReferencedIsUploaded
  <2>1. files[k] \in visited
    BY <1>1 DEF WalkInv, FilesHaveOrigins, Made, FromDisk
  <2>2. PICK p : p = files[k]
    OBVIOUS
  <2>3. HasOrigin(p)
    BY <1>1, <2>1, <2>2 DEF WalkInv, FoundInside
  <2>4. CASE source.kind = "text" /\ Leads(Project, source.refs, p)
    <3>1. root \in DOMAIN files /\ RefsOf(root) = source.refs /\ DirOf(root) = Project
      BY <1>1, <2>4 DEF WalkInv, RootIsFiled, Made, RefsOf, DirOf
    <3> QED BY <2>2, <2>4, <3>1 DEF Leads
  <2>5. ASSUME NEW q \in DOMAIN files, Last(q.tail) \in Markdown, files[q] # NoDisk,
               Leads(Dir(files[q]), NodeAt(files[q]).refs, p)
        PROVE  \E r \in RefsOf(q) :
                 /\ r.kind # "external" /\ ~Bare(r)
                 /\ \/ OnDisk(DirOf(q), r) = p
                    \/ /\ source.recursive /\ IsType(OnDisk(DirOf(q), r), "dir")
                       /\ IsPrefix(OnDisk(DirOf(q), r), p)
    BY <2>5 DEF Leads, RefsOf, DirOf
  <2> QED BY <2>2, <2>3, <2>4, <2>5 DEF HasOrigin
<1> QED BY <1>1, WalkInductive, PTL

(* From a page's folder, the way a reference is written leads to the same  *)
(* path as from the project by the page's key: CLI and server agree.       *)
LEMMA KeyOfFolder ==
  ASSUME NEW f \in CleanPaths, f # Top, Rel(Project, f).tail # Top,
         NEW path \in Seq(Component)
  PROVE  Join(Project, Front(Names(Rel(Project, f))) \o path) = Join(Dir(f), path)
<1> DEFINE k == Rel(Project, f)
           n == Names(k)
           m == Front(n)
           x == Last(n)
<1>1. Project \in CleanPaths /\ Project \in Seq(Component)
  BY PathsAssumption, CleanPathsAreWritten
<1>2. k \in Keys /\ Clean(Project \o n) = f
  BY <1>1, RelJoins, RelInverse
<1> HIDE DEF k
<1>3. n \in Seq(Component) /\ Len(n) = k.up + Len(k.tail)
      /\ k.up \in Nat /\ Len(k.tail) \in Nat /\ k.tail \in CleanPaths
      /\ \A i \in 1..Len(k.tail) : n[k.up + i] = k.tail[i]
  BY <1>2, NamesAre
<1>4. Len(k.tail) \in 1..Len(k.tail)
  <2>1. k.tail # Top
    BY DEF k
  <2> QED BY <1>3, <2>1, TopIsEmpty
<1>5. n[Len(n)] \in Name /\ Len(n) \in Nat \ {0}
  <2>1. n[Len(n)] = k.tail[Len(k.tail)]
    BY <1>3, <1>4
  <2>2. k.tail[Len(k.tail)] \in Name
    BY <1>3, <1>4 DEF CleanPaths
  <2> QED BY <1>3, <1>4, <2>1, <2>2
<1> HIDE DEF n
<1>6. m \in Seq(Component) /\ n = Append(m, x) /\ x = n[Len(n)]
  <2>1. Len(n) - 1 \in Nat /\ (Len(n) - 1) + 1 \in 1..Len(n) /\ (Len(n) - 1) + 1 = Len(n)
    BY <1>5
  <2>2. /\ SubSeq(n, 1, Len(n) - 1) \in Seq(Component)
        /\ SubSeq(n, 1, (Len(n) - 1) + 1)
             = Append(SubSeq(n, 1, Len(n) - 1), n[(Len(n) - 1) + 1])
    BY <1>3, <2>1, SubSeqGrows
  <2>3. SubSeq(n, 1, Len(n)) = n
    BY <1>3, SubSeqFull
  <2> QED BY <2>1, <2>2, <2>3 DEF Front, Last
<1> HIDE DEF m, x
<1>7. x \in Name /\ x \in Component
  BY <1>5, <1>6, Dots
<1> DEFINE c == Clean(Project \o m)
<1>8. Project \o m \in Seq(Component) /\ c \in CleanPaths
  BY <1>1, <1>6, ConcatProperties, CleanType
<1>9. f = Append(c, x)
  <2>1. Project \o n = Append(Project \o m, x)
    BY <1>1, <1>6, <1>7, ConcatGrows
  <2>2. Clean(Append(Project \o m, x)) = CleanStep(c, x)
    BY <1>7, <1>8, CleanAppend
  <2>3. CleanStep(c, x) = Append(c, x)
    BY <1>7, Dots DEF CleanStep
  <2> QED BY <1>2, <2>1, <2>2, <2>3
<1>10. Dir(f) = c
  <2> HIDE DEF c
  <2>1. c \in Seq(Name)
    BY <1>8 DEF CleanPaths
  <2> QED BY <1>7, <1>9, <2>1 DEF Dir, Front
<1>11. Clean(Project \o (m \o path)) = Clean(c \o path)
  <2>1. Project \o (m \o path) = (Project \o m) \o path
    <3>1. /\ Project \in Seq(Component) /\ m \in Seq(Component)
          /\ path \in Seq(Component)
      BY <1>1, <1>6
    <3> QED BY <3>1, ConcatAssociative
  <2> QED BY <1>8, <2>1, CleanConcat
<1> QED BY <1>10, <1>11 DEF Join, m, n, k

(* ResolveKey of a reference is the key of the path it names on the disk.  *)
LEMMA KeysAgree ==
  ASSUME Types, FilesHaveOrigins, NEW k \in DOMAIN files, IsMarkdownKey(k),
         NEW r \in RefsOf(k), ~HasQuery(r)
  PROVE  /\ RefsOf(k) \in SUBSET Refs /\ DirOf(k) \in CleanPaths
         /\ ResolveKey(k, r) = KeyOf(OnDisk(DirOf(k), r))
<1>0. Project \in CleanPaths
  BY PathsAssumption
<1>1. RefsOf(k) \in SUBSET Refs /\ DirOf(k) \in CleanPaths
  <2>1. CASE FromDisk(k)
    BY <2>1, DiskFile
  <2>2. CASE Made(k)
    BY <1>0, <2>2, Basics DEF Made, RefsOf, DirOf
  <2> QED BY <2>1, <2>2 DEF FilesHaveOrigins
<1>2. r \in Refs /\ r.path \in Seq(Component)
  BY <1>1 DEF Refs
<1> SUFFICES ResolveKey(k, r) = KeyOf(OnDisk(DirOf(k), r))
  BY <1>1
<1>3. CASE r.kind = "abs"
  BY <1>3 DEF ResolveKey, KeyOf, OnDisk
<1>4. CASE r.kind # "abs"
  <2>1. ResolveKey(k, r) = Rel(Project, Join(Project, Front(Names(k)) \o r.path))
    BY <1>4 DEF ResolveKey
  <2>2. OnDisk(DirOf(k), r) = Join(DirOf(k), r.path)
    BY <1>4 DEF OnDisk
  <2>3. CASE FromDisk(k)
    <3>1. k = Rel(Project, files[k]) /\ files[k] \in CleanPaths
      BY <2>3 DEF FromDisk, KeyOf
    <3>2. files[k] # Top /\ k.tail # Top /\ DirOf(k) = Dir(files[k])
      BY <2>3, DiskFile
    <3>3. PICK f, path : f = files[k] /\ path = r.path
      OBVIOUS
    <3>4. Join(Project, Front(Names(Rel(Project, f))) \o path) = Join(Dir(f), path)
      BY <1>2, <3>1, <3>2, <3>3, KeyOfFolder
    <3> QED BY <2>1, <2>2, <3>1, <3>2, <3>3, <3>4 DEF KeyOf
  <2>4. CASE Made(k)
    <3>1. PICK name \in Name : k = Key(0, <<name>>)
      BY <2>4 DEF Made
    <3>2. Names(k) = <<name>>
      BY <3>1 DEF Names, Key
    <3>3. Front(Names(k)) = <<>>
      BY <3>2 DEF Front
    <3>4. Front(Names(k)) \o r.path = r.path
      BY <1>2, <3>3, ConcatEmptySeq
    <3>5. DirOf(k) = Project
      BY <2>4 DEF Made, DirOf
    <3> QED BY <2>1, <2>2, <3>4, <3>5 DEF KeyOf
  <2> QED BY <2>3, <2>4 DEF FilesHaveOrigins
<1> QED BY <1>1, <1>3, <1>4

(* The key resolveKey computes from a page's key and a reference is the    *)
(* one relKey filed the referenced file under, and the crawl has taken it: *)
(* Rel and Join are inverse, and the queue is closed under reference.      *)
THEOREM ReferencesReachTheirFileHolds == Spec => []ReferencesReachTheirFile
<1>1. ASSUME WalkInv
      PROVE  ReferencesReachTheirFile
  <2> SUFFICES ASSUME phase = "done", NEW kr \in LocalRefs,
                      kr[2].path # <<>>, ~HasQuery(kr[2]),
                      IsInside(Named(kr[1], kr[2])),
                      IsType(Named(kr[1], kr[2]), "file"),
                      IsMarkdown(Named(kr[1], kr[2])) => source.recursive
               PROVE  /\ ResolveKey(kr[1], kr[2]) \in K
                      /\ files[ResolveKey(kr[1], kr[2])] = Named(kr[1], kr[2])
    BY DEF ReferencesReachTheirFile
  <2>1. /\ Types /\ FilesHaveOrigins /\ VisitedAreFiled /\ Closed
        /\ queue = {}
    BY <1>1 DEF WalkInv, Types
  <2>2. PICK k \in DOMAIN files : IsMarkdownKey(k) /\ kr \in {k} \X RefsOf(k)
    BY DEF LocalRefs, K
  <2>3. kr[1] = k /\ kr[2] \in RefsOf(k) /\ kr[2].kind # "external"
    BY <2>2 DEF LocalRefs
  <2> PICK r : r = kr[2]
    OBVIOUS
  <2>4. r \in RefsOf(k) /\ r.kind # "external" /\ ~HasQuery(r) /\ r.path # <<>>
    BY <2>3
  <2>5. /\ RefsOf(k) \in SUBSET Refs /\ DirOf(k) \in CleanPaths
        /\ ResolveKey(k, r) = KeyOf(OnDisk(DirOf(k), r))
    BY <2>1, <2>2, <2>4, KeysAgree
  <2>6. PICK t : t = OnDisk(DirOf(k), r)
    OBVIOUS
  <2>7. t \in CleanPaths
    BY <2>4, <2>5, <2>6, OnDiskType
  <2>8. Named(k, r) = t
    BY <2>4, <2>5, <2>6 DEF Named, OnDisk, Refs, HasQuery
  <2>9. IsInside(t) /\ IsType(t, "file") /\ (IsMarkdown(t) => source.recursive)
    BY <2>3, <2>8
  <2>10. InRoot(t)
    BY <2>1, <2>7, <2>9, InRootIsInside DEF IsType
  <2>11. t \in Targets(DirOf(k), RefsOf(k))
    BY <2>4, <2>6, <2>10, TargetsHave DEF Bare
  <2>12. t \in visited
    BY <2>1, <2>2, <2>11 DEF Closed
  <2>13. Includes(t)
    BY <2>9 DEF Includes
  <2>14. KeyOf(t) \in DOMAIN files /\ files[KeyOf(t)] = t
    BY <2>1, <2>12, <2>13 DEF VisitedAreFiled
  <2> QED BY <2>3, <2>5, <2>6, <2>8, <2>14 DEF K
<1> QED BY <1>1, WalkInductive, PTL

-----------------------------------------------------------------------------
(* The tree of the keys: what is above a key, and what is below it.        *)
LEMMA StrictPrefixIs ==
  ASSUME NEW S, NEW p \in Seq(S), NEW q \in Seq(S)
  PROVE  /\ IsStrictPrefix(p, q) <=> p = SubSeq(q, 1, Len(p)) /\ Len(p) < Len(q)
         /\ IsStrictPrefix(p, q) => \A i \in 1..Len(p) : p[i] = q[i]
<1>1. Len(p) \in Nat /\ Len(q) \in Nat /\ SubSeq(p, 1, Len(p)) = p
  BY SubSeqFull
<1>2. IsPrefix(p, q) <=> Len(p) <= Len(q) /\ p = SubSeq(q, 1, Len(p))
  BY <1>1 DEF IsPrefix
<1>3. Len(p) = Len(q) => SubSeq(q, 1, Len(p)) = q
  BY SubSeqFull
<1>4. IsStrictPrefix(p, q) <=> p = SubSeq(q, 1, Len(p)) /\ Len(p) < Len(q)
  <2>1. p = q => Len(p) = Len(q)
    OBVIOUS
  <2> QED BY <1>1, <1>2, <1>3, <2>1 DEF IsStrictPrefix
<1>5. ASSUME IsStrictPrefix(p, q)
      PROVE  \A i \in 1..Len(p) : p[i] = q[i]
  <2>1. Len(p) \in 0..Len(q)
    BY <1>1, <1>4, <1>5
  <2>2. \A i \in 1..Len(p) : SubSeq(q, 1, Len(p))[i] = q[i]
    BY <2>1, SubSeqPrefix
  <2> QED BY <1>4, <1>5, <2>2
<1> QED BY <1>4, <1>5

LEMMA NamesType ==
  ASSUME NEW key \in Keys
  PROVE  Names(key) \in Seq(Component) /\ Len(Names(key)) \in Nat
<1>1. Names(key) \in Seq(Component)
  BY NamesAre
<1> QED BY <1>1, LenProperties

LEMMA AboveIs ==
  ASSUME NEW key \in Keys, NEW d \in Above(key)
  PROVE  /\ d \in Keys /\ Names(d) # <<>>
         /\ IsStrictPrefix(Names(d), Names(key))
<1> DEFINE names == Names(key)
<1>1. names \in Seq(Component) /\ Len(names) \in Nat
  BY NamesType
<1>2. PICK n \in 1..(Len(names) - 1) : d = Split(SubSeq(names, 1, n))
  BY DEF Above
<1>3. n \in 0..Len(names)
  BY <1>1, <1>2
<1>4. d \in Keys /\ Names(d) = SubSeq(names, 1, n)
  BY <1>2, <1>3, PrefixKey
<1> HIDE DEF names
<1>5. Names(d) \in Seq(Component) /\ Len(Names(d)) = n
  BY <1>1, <1>3, <1>4, SubSeqPrefix
<1>6. Names(d) # <<>>
  BY <1>1, <1>2, <1>5
<1>7. n < Len(names)
  BY <1>1, <1>2
<1>8. IsStrictPrefix(Names(d), names)
  BY <1>1, <1>4, <1>5, <1>7, StrictPrefixIs
<1> QED BY <1>4, <1>6, <1>8 DEF names

LEMMA AboveHas ==
  ASSUME NEW key \in Keys, NEW d \in Keys, Names(d) # <<>>,
         IsStrictPrefix(Names(d), Names(key))
  PROVE  d \in Above(key) /\ Above(d) \subseteq Above(key)
<1> DEFINE names == Names(key)
           n == Len(Names(d))
<1>1. /\ names \in Seq(Component) /\ Len(names) \in Nat
      /\ Names(d) \in Seq(Component) /\ n \in Nat
  BY NamesType
<1>2. Names(d) = SubSeq(names, 1, n) /\ n < Len(names)
  BY <1>1, StrictPrefixIs
<1>3. n # 0
  BY <1>1
<1>4. d = Split(SubSeq(names, 1, n))
  BY <1>2, SplitIs
<1> HIDE DEF n, names
<1>5. n \in 1..(Len(names) - 1)
  BY <1>1, <1>2, <1>3
<1>6. d \in Above(key)
  BY <1>4, <1>5 DEF Above, names
<1>7. ASSUME NEW e \in Above(d)
      PROVE  e \in Above(key)
  <2>1. PICK m \in 1..(n - 1) : e = Split(SubSeq(Names(d), 1, m))
    BY DEF Above, n
  <2>2. m \in 1..(Len(names) - 1)
    BY <1>1, <1>2, <2>1
  <2>3. SubSeq(Names(d), 1, m) = SubSeq(names, 1, m)
    BY <1>1, <1>2, <2>1
  <2> QED BY <2>1, <2>2, <2>3 DEF Above, names
<1> QED BY <1>6, <1>7

LEMMA NoRootIs ==
  /\ NoRoot \in Keys /\ Names(NoRoot) = <<>> /\ Above(NoRoot) = {}
  /\ NoRoot.tail = Top
  /\ \A k \in Keys : k # NoRoot => Names(k) # <<>>
<1>1. NoRoot \in Keys /\ NoRoot.up = 0 /\ NoRoot.tail = Top /\ NoRoot = Key(0, <<>>)
  BY KeyParts, TopIsEmpty DEF NoRoot, Top
<1>2. Names(NoRoot) \in Seq(Component) /\ Len(Names(NoRoot)) = 0
  <2>1. Len(Names(NoRoot)) = NoRoot.up + Len(NoRoot.tail) /\ Names(NoRoot) \in Seq(Component)
    BY <1>1, NamesAre
  <2> QED BY <1>1, <2>1, TopIsEmpty
<1>3. Names(NoRoot) = <<>>
  BY <1>2
<1>4. Above(NoRoot) = {}
  <2>1. 1..(Len(Names(NoRoot)) - 1) = {}
    BY <1>2
  <2> QED BY <2>1 DEF Above
<1>5. \A k \in Keys : k # NoRoot => Names(k) # <<>>
  BY <1>1, <1>3, NamesInjective
<1> QED BY <1>1, <1>3, <1>4, <1>5

LEMMA FilesAreKeys ==
  ASSUME Types, FilesHaveOrigins, NEW k \in DOMAIN files
  PROVE  k \in Keys /\ k.tail # Top /\ Names(k) # <<>> /\ k # NoRoot
<1>1. k \in Keys /\ k.tail # Top
  <2>1. CASE FromDisk(k)
    BY <2>1, DiskFile
  <2>2. CASE Made(k)
    <3>1. PICK name \in Name : k = Key(0, <<name>>)
      BY <2>2 DEF Made
    <3>2. <<name>> \in CleanPaths /\ <<name>> # Top
      BY DEF CleanPaths, Top
    <3> QED BY <3>1, <3>2, KeyParts
  <2> QED BY <2>1, <2>2 DEF FilesHaveOrigins
<1> QED BY <1>1, NoRootIs

(* Two keys of which one is above the other leave the project alike.       *)
LEMMA KeyBelow ==
  ASSUME NEW k \in Keys, NEW j \in Keys, k.tail # Top,
         IsStrictPrefix(Names(k), Names(j))
  PROVE  /\ j.up = k.up /\ Len(k.tail) < Len(j.tail)
         /\ \A i \in 1..Len(k.tail) : k.tail[i] = j.tail[i]
<1> DEFINE a == Names(k)
           b == Names(j)
           u == k.up
           v == j.up
           s == k.tail
           t == j.tail
<1>1. /\ u \in Nat /\ s \in Seq(Name) /\ Len(s) \in Nat
      /\ Len(a) = u + Len(s) /\ a \in Seq(Component)
      /\ \A i \in 1..u : a[i] = DotDot
      /\ \A i \in 1..Len(s) : a[u + i] = s[i]
  BY NamesAre
<1>2. /\ v \in Nat /\ t \in Seq(Name) /\ Len(t) \in Nat
      /\ Len(b) = v + Len(t) /\ b \in Seq(Component)
      /\ \A i \in 1..v : b[i] = DotDot
      /\ \A i \in 1..Len(t) : b[v + i] = t[i]
  BY NamesAre
<1>3. Len(a) < Len(b) /\ \A i \in 1..Len(a) : a[i] = b[i]
  BY <1>1, <1>2, StrictPrefixIs
<1>4. Len(s) # 0
  <2>1. s \in CleanPaths
    BY NamesAre
  <2> QED BY <2>1, TopIsEmpty
<1> HIDE DEF a, b, u, v, s, t
<1>5. \A i \in 1..Len(s) : s[i] \in Name
  BY <1>1
<1>6. \A i \in 1..Len(t) : t[i] \in Name
  BY <1>2
<1>7. ~(v < u)
  <2> SUFFICES ASSUME v < u PROVE FALSE
    OBVIOUS
  <2>1. v + 1 \in 1..u /\ v + 1 \in 1..Len(a) /\ 1 \in 1..Len(t)
    BY <1>1, <1>2, <1>3
  <2>2. a[v + 1] = DotDot /\ b[v + 1] = t[1] /\ a[v + 1] = b[v + 1]
    BY <1>1, <1>2, <1>3, <2>1
  <2> QED BY <1>6, <2>1, <2>2, Dots
<1>8. ~(u < v)
  <2> SUFFICES ASSUME u < v PROVE FALSE
    OBVIOUS
  <2>1. u + 1 \in 1..v /\ u + 1 \in 1..Len(a) /\ 1 \in 1..Len(s)
    BY <1>1, <1>2, <1>4
  <2>2. b[u + 1] = DotDot /\ a[u + 1] = s[1] /\ a[u + 1] = b[u + 1]
    BY <1>1, <1>2, <1>3, <2>1
  <2> QED BY <1>5, <2>1, <2>2, Dots
<1>9. u = v
  BY <1>1, <1>2, <1>7, <1>8
<1>10. Len(s) < Len(t)
  BY <1>1, <1>2, <1>3, <1>9
<1>11. ASSUME NEW i \in 1..Len(s)
       PROVE  s[i] = t[i]
  <2>1. i \in 1..Len(t) /\ u + i \in 1..Len(a)
    BY <1>1, <1>2, <1>10
  <2> QED BY <1>1, <1>2, <1>3, <1>9, <2>1
<1> QED BY <1>9, <1>10, <1>11 DEF u, v, s, t

LEMMA ConcatPrefix ==
  ASSUME NEW p \in Seq(Name), NEW s \in Seq(Name), NEW t \in Seq(Name),
         Len(s) < Len(t), \A i \in 1..Len(s) : s[i] = t[i]
  PROVE  /\ Len(p \o s) \in Nat /\ Len(p \o s) < Len(p \o t)
         /\ SubSeq(p \o t, 1, Len(p \o s)) = p \o s
<1> DEFINE a == p \o s
           b == p \o t
<1>1. /\ a \in Seq(Name) /\ b \in Seq(Name)
      /\ Len(a) = Len(p) + Len(s) /\ Len(b) = Len(p) + Len(t)
      /\ Len(p) \in Nat /\ Len(s) \in Nat /\ Len(t) \in Nat
      /\ \A i \in 1..(Len(p) + Len(s)) : a[i] = IF i <= Len(p) THEN p[i] ELSE s[i - Len(p)]
      /\ \A i \in 1..(Len(p) + Len(t)) : b[i] = IF i <= Len(p) THEN p[i] ELSE t[i - Len(p)]
  BY ConcatProperties
<1> HIDE DEF a, b
<1>2. Len(a) \in Nat /\ Len(a) < Len(b) /\ Len(a) \in 0..Len(b)
  BY <1>1
<1>3. /\ SubSeq(b, 1, Len(a)) \in Seq(Name) /\ Len(SubSeq(b, 1, Len(a))) = Len(a)
      /\ \A i \in 1..Len(a) : SubSeq(b, 1, Len(a))[i] = b[i]
  BY <1>1, <1>2, SubSeqPrefix
<1>4. ASSUME NEW i \in 1..Len(a)
      PROVE  b[i] = a[i]
  <2>0. i \in 1..(Len(p) + Len(s)) /\ i \in 1..(Len(p) + Len(t))
    BY <1>1, <1>2
  <2>1. CASE i <= Len(p)
    BY <1>1, <2>0, <2>1
  <2>2. CASE i > Len(p)
    <3>1. i - Len(p) \in 1..Len(s) /\ ~(i <= Len(p))
      BY <1>1, <2>0, <2>2
    <3> QED BY <1>1, <2>0, <3>1
  <2> QED BY <1>1, <2>0, <2>1, <2>2
<1>5. SubSeq(b, 1, Len(a)) = a
  BY <1>1, <1>3, <1>4, SeqEqual
<1> QED BY <1>2, <1>5 DEF a, b

(* A file read from the disk holds no other: it is no folder of the tree.  *)
LEMMA FilesAreNoFolders ==
  ASSUME Types, FilesHaveOrigins, NEW k \in DOMAIN files, IsDirKey(DOMAIN files, k)
  PROVE  Made(k)
<1> SUFFICES ASSUME FromDisk(k) PROVE FALSE
  BY DEF FilesHaveOrigins
<1>1. PICK j \in DOMAIN files : IsStrictPrefix(Names(k), Names(j))
  BY DEF IsDirKey
<1>2. k \in Keys /\ k.tail # Top /\ j \in Keys
  BY FilesAreKeys
<1>3. j.up = k.up /\ Len(k.tail) < Len(j.tail)
      /\ \A i \in 1..Len(k.tail) : k.tail[i] = j.tail[i]
  BY <1>1, <1>2, KeyBelow
<1>4. CASE Made(j)
  <2>1. PICK name \in Name : j = Key(0, <<name>>)
    BY <1>4 DEF Made
  <2>2. Len(j.tail) = 1
    BY <2>1, KeyParts
  <2>3. Len(k.tail) \in Nat \ {0}
    BY <1>2, TopIsEmpty DEF Keys
  <2> QED BY <1>3, <2>2, <2>3
<1>5. CASE FromDisk(j)
  <2> DEFINE p == SubSeq(Project, 1, Len(Project) - k.up)
  <2>1. /\ files[k] \in CleanPaths /\ k = Rel(Project, files[k])
        /\ files[j] \in CleanPaths /\ j = Rel(Project, files[j])
        /\ IsType(files[k], "file") /\ Exists(files[j])
    BY <1>5 DEF FromDisk, KeyOf, IsType
  <2>2. k.up \in 0..Len(Project) /\ files[k] = p \o k.tail
    BY <2>1, PathsAssumption, RelJoins
  <2>3. files[j] = p \o j.tail
    <3>1. files[j] = SubSeq(Project, 1, Len(Project) - j.up) \o j.tail
      BY <2>1, PathsAssumption, RelJoins
    <3> QED BY <1>3, <3>1
  <2>4. p \in Seq(Name) /\ k.tail \in Seq(Name) /\ j.tail \in Seq(Name)
    <3>1. Len(Project) - k.up \in 0..Len(Project) /\ Project \in Seq(Name)
      BY <2>2, PathsAssumption DEF CleanPaths
    <3>2. p \in Seq(Name)
      BY <3>1, SubSeqPrefix
    <3> QED BY <1>2, <3>2, NamesAre
  <2> PICK a, b : a = files[k] /\ b = files[j]
    OBVIOUS
  <2> HIDE DEF p
  <2>5. Len(a) \in Nat /\ Len(a) < Len(b) /\ SubSeq(b, 1, Len(a)) = a
    <3>1. a = p \o k.tail /\ b = p \o j.tail
      BY <2>2, <2>3
    <3> QED BY <1>3, <2>4, <3>1, ConcatPrefix
  <2>6. IsType(a, "dir")
    BY <2>1, <2>5, Basics, HoldersAreDirs
  <2> QED BY <2>1, <2>6 DEF IsType
<1> QED BY <1>4, <1>5 DEF FilesHaveOrigins

-----------------------------------------------------------------------------
(* The reader.  What is asked for, and the nodes links can name.           *)
Wants == {File(k) : k \in Keys} \cup {Folder(k) : k \in Keys}
URLs == [path : CleanPaths \cup {<<DotDot>>}, up : Nat, own : Nat,
         slash : BOOLEAN, junk : BOOLEAN]
One(b) == IF b THEN 1 ELSE 0

(* The page in front of the reader is what its key classifies as, and what *)
(* is asked for will be served: its redirects are bounded and its URL, if  *)
(* there is one and it was written right, addresses the node wanted.       *)
PageIs(n) == n.key \in Keys /\ n = Classify(DOMAIN files, n.key)

Arrives(get) ==
  ~Nameless(get.want) /\ ~Misread(get) =>
    ~LeavesDocument(get.url) /\ Viewed(DOMAIN files, root, get.url) = get.want

ReadInv ==
  /\ asked # NoGet \/ page # NotFound => phase = "done"
  /\ page # NotFound => PageIs(page)
  /\ asked # NoGet =>
       /\ asked \in [url : URLs, want : Wants, hops : Nat]
       /\ asked.hops + One(asked.url.slash) + One(asked.url.junk) <= 2
       /\ Arrives(asked)

LEMMA NodesAre ==
  ASSUME NEW k
  PROVE  /\ File(k).key = k /\ Folder(k).key = k
         /\ File(k).is = "file" /\ Folder(k).is = "dir"
         /\ File(k) # Folder(k) /\ File(k) # NotFound /\ Folder(k) # NotFound
         /\ NotFound.is = "none"
BY DEF File, Folder, NotFound

LEMMA ClassifyIs ==
  ASSUME NEW S, NEW k, Classify(S, k) # NotFound
  PROVE  \/ k \in S /\ Classify(S, k) = File(k)
         \/ k \notin S /\ Classify(S, k) = Folder(k) /\ (k = NoRoot \/ IsDirKey(S, k))
BY DEF Classify, NoRoot

LEMMA PageParts ==
  ASSUME NEW n, n # NotFound, PageIs(n)
  PROVE  /\ n.key \in Keys
         /\ \/ n = File(n.key) /\ n.key \in DOMAIN files
            \/ /\ n = Folder(n.key) /\ n.key \notin DOMAIN files
               /\ n.key = NoRoot \/ IsDirKey(DOMAIN files, n.key)
<1>1. n.key \in Keys /\ n = Classify(DOMAIN files, n.key)
  BY DEF PageIs
<1> PICK k, S : k = n.key /\ S = DOMAIN files
  OBVIOUS
<1> QED BY <1>1, ClassifyIs

(* A node of the tree is what its key classifies as.                       *)
LEMMA TreeNodes ==
  ASSUME Types, FilesHaveOrigins, NEW n \in TreeOf(DOMAIN files)
  PROVE  /\ n.key \in Keys /\ n.key # NoRoot
         /\ n \in {File(n.key), Folder(n.key)}
         /\ n = File(n.key) => n.key \in DOMAIN files
         /\ n = Classify(DOMAIN files, n.key) \/ ShadowedByRoot(n)
<1>1. CASE n \in {File(k) : k \in DOMAIN files}
  <2>1. PICK k \in DOMAIN files : n = File(k)
    BY <1>1
  <2>2. k \in Keys /\ k # NoRoot
    BY FilesAreKeys
  <2>3. n.key = k
    BY <2>1, NodesAre
  <2> QED BY <2>1, <2>2, <2>3 DEF Classify
<1>2. CASE n \in {Folder(d) : d \in UNION {Above(k) : k \in DOMAIN files}}
  <2>0. PICK k \in DOMAIN files : \E d \in Above(k) : n = Folder(d)
    BY <1>2
  <2>1. PICK d \in Above(k) : n = Folder(d)
    BY <2>0
  <2>2. k \in Keys
    BY FilesAreKeys
  <2>3. d \in Keys /\ Names(d) # <<>> /\ IsStrictPrefix(Names(d), Names(k))
    BY <2>2, AboveIs
  <2>4. n.key = d /\ d # NoRoot /\ n # File(d)
    BY <2>1, <2>3, NodesAre, NoRootIs
  <2>5. IsDirKey(DOMAIN files, d)
    BY <2>3 DEF IsDirKey
  <2>6. CASE d \notin DOMAIN files
    BY <2>1, <2>3, <2>4, <2>5, <2>6 DEF Classify
  <2>7. CASE d \in DOMAIN files
    <3>1. Made(d)
      BY <2>5, <2>7, FilesAreNoFolders
    <3>2. ShadowedByRoot(n)
      BY <2>1, <3>1 DEF ShadowedByRoot, Made, K
    <3> QED BY <2>1, <2>3, <2>4, <3>2
  <2> QED BY <2>6, <2>7
<1> QED BY <1>1, <1>2 DEF TreeOf

LEMMA TreeHasFile ==
  ASSUME NEW k \in DOMAIN files
  PROVE  /\ File(k) \in TreeOf(DOMAIN files)
         /\ \A d \in Above(k) : Folder(d) \in TreeOf(DOMAIN files)
BY DEF TreeOf

LEMMA TreeHasFolder ==
  ASSUME Types, FilesHaveOrigins, NEW d \in Keys, IsDirKey(DOMAIN files, d)
  PROVE  /\ Folder(d) \in TreeOf(DOMAIN files)
         /\ \A e \in Above(d) : Folder(e) \in TreeOf(DOMAIN files)
<1>1. Names(d) # <<>> /\ \E k \in DOMAIN files : IsStrictPrefix(Names(d), Names(k))
  BY DEF IsDirKey
<1>2. PICK k \in DOMAIN files : IsStrictPrefix(Names(d), Names(k))
  BY <1>1
<1>3. k \in Keys
  BY FilesAreKeys
<1>4. d \in Above(k) /\ Above(d) \subseteq Above(k)
  BY <1>1, <1>2, <1>3, AboveHas
<1> QED BY <1>4, TreeHasFile

(* The folders above a page are in the tree.                               *)
LEMMA PageTree ==
  ASSUME Types, FilesHaveOrigins, NEW n, n # NotFound, PageIs(n), NEW d \in Above(n.key)
  PROVE  Folder(d) \in TreeOf(DOMAIN files)
<1>1. CASE n.key \in DOMAIN files
  BY <1>1, TreeHasFile
<1>2. CASE n.key = NoRoot
  BY <1>2, NoRootIs
<1>3. CASE IsDirKey(DOMAIN files, n.key)
  <2>1. n.key \in Keys
    BY DEF PageIs
  <2> QED BY <1>3, <2>1, TreeHasFolder
<1> QED BY <1>1, <1>2, <1>3, PageParts

(* What the browser asks for.                                              *)
Written == [path : Seq(Component), up : Nat, own : Nat,
            slash : BOOLEAN, junk : BOOLEAN]

LEMMA SlugIs ==
  /\ <<Slug>> \in Seq(Component) /\ <<Slug>> \in CleanPaths /\ Slug # DotDot
  /\ <<DotDot>> \in Seq(Component) /\ <<DotDot>> \notin CleanPaths
<1>1. Slug \in Name /\ Slug \in Component /\ DotDot \in Component /\ DotDot \notin Name
  BY ViewerAssumption, Dots
<1>2. <<DotDot>> \notin Seq(Name)
  <2> SUFFICES ASSUME <<DotDot>> \in Seq(Name) PROVE FALSE
    OBVIOUS
  <2>1. <<DotDot>>[1] \in Name
    BY ElementOfSeq
  <2> QED BY <1>1, <2>1
<1> QED BY <1>1, <1>2 DEF CleanPaths

LEMMA ReadType ==
  ASSUME NEW c \in Component
  PROVE  Read(c).name \in Component
<1>1. Read(c) \in Readings
  <2>1. CASE c \in Name
    BY <2>1, ViewerAssumption DEF Read
  <2>2. CASE c \notin Name
    BY <2>2 DEF Read, Readings
  <2> QED BY <2>1, <2>2
<1> QED BY <1>1 DEF Readings

LEMMA ParsedType ==
  ASSUME NEW url \in Written
  PROVE  Parsed(url) \in Written
<1> DEFINE ends == {i \in 1..Len(url.path) : Read(url.path[i]).rest # "path"}
           n == IF ends = {} THEN Len(url.path)
                ELSE CHOOSE i \in ends : \A j \in ends : i <= j
           path == [i \in 1..n |-> Read(url.path[i]).name]
           dots == path # <<>> /\ Last(path) \in {Dot, DotDot}
           read == [url EXCEPT !.path = path, !.slash = @ \/ dots]
<1>1. url.path \in Seq(Component) /\ Len(url.path) \in Nat
  BY LenProperties DEF Written
<1>2. n \in 0..Len(url.path)
  <2>1. ends \subseteq 1..Len(url.path)
    OBVIOUS
  <2>2. ends # {} => \E i \in ends : \A j \in ends : i <= j
    <3>1. ends \subseteq 0..Len(url.path)
      OBVIOUS
    <3> HIDE DEF ends
    <3> QED BY <1>1, <3>1, Least
  <2> HIDE DEF ends
  <2>3. CASE ends = {}
    BY <1>1, <2>3
  <2>4. CASE ends # {}
    <3> DEFINE i == CHOOSE i \in ends : \A j \in ends : i <= j
    <3>1. i \in ends
      BY <2>2, <2>4
    <3>2. n = i
      BY <2>4
    <3> HIDE DEF i, n
    <3> QED BY <1>1, <2>1, <3>1, <3>2
  <2> QED BY <2>3, <2>4
<1>3. path \in Seq(Component)
  <2>1. \A i \in 1..n : url.path[i] \in Component
    <3> HIDE DEF n
    <3> QED BY <1>1, <1>2
  <2>2. \A i \in 1..n : Read(url.path[i]).name \in Component
    BY <2>1, ReadType
  <2> HIDE DEF n
  <2> QED BY <1>2, <2>2
<1>4. Parsed(url) =
        IF ends = {}
        THEN [read EXCEPT !.up = IF @ > 0 THEN @ ELSE url.own,
                          !.junk = @ \/ (url.up > 0 /\ url.own > 0)]
        ELSE IF Read(url.path[n]).rest = "query"
        THEN [read EXCEPT !.up = url.own, !.junk = TRUE]
        ELSE [read EXCEPT !.up = 0, !.junk = FALSE]
  BY DEF Parsed
<1>5. read \in Written
  <2>1. dots \in BOOLEAN
    OBVIOUS
  <2> HIDE DEF path, dots
  <2> QED BY <1>3, <2>1 DEF Written
<1> HIDE DEF read, ends, n
<1>6. read.up \in Nat /\ url.own \in Nat /\ read.junk \in BOOLEAN /\ 0 \in Nat
  BY <1>5 DEF Written
<1>7. ASSUME NEW up \in Nat, NEW junk \in BOOLEAN
      PROVE  [read EXCEPT !.up = up, !.junk = junk] \in Written
  BY <1>5 DEF Written
<1> DEFINE up == IF read.up > 0 THEN read.up ELSE url.own
           junk == read.junk \/ (url.up > 0 /\ url.own > 0)
<1>8. up \in Nat /\ junk \in BOOLEAN
  BY <1>6
<1>9. Parsed(url) \in {[read EXCEPT !.up = up, !.junk = junk],
                       [read EXCEPT !.up = url.own, !.junk = TRUE],
                       [read EXCEPT !.up = 0, !.junk = FALSE]}
  BY <1>4, <1>5 DEF Written
<1> HIDE DEF up, junk
<1> QED BY <1>6, <1>7, <1>8, <1>9

(* A path of names that read as themselves is parsed as it is written, and *)
(* so is the key's depth when it comes before any other.                   *)
LEMMA ParsedPlain ==
  ASSUME NEW url \in Written, url.path \in CleanPaths,
         \A i \in 1..Len(url.path) : Plain(url.path[i])
  PROVE  /\ Parsed(url).path = url.path /\ Parsed(url).own = url.own
         /\ url.own = 0 \/ url.up > 0 => Parsed(url).up = url.up
<1> DEFINE ends == {i \in 1..Len(url.path) : Read(url.path[i]).rest # "path"}
           path == [i \in 1..Len(url.path) |-> Read(url.path[i]).name]
           dots == path # <<>> /\ Last(path) \in {Dot, DotDot}
           read == [url EXCEPT !.path = path, !.slash = @ \/ dots]
<1>1. url.path \in Seq(Name) /\ url.up \in Nat /\ url.own \in Nat
  BY DEF CleanPaths, Written
<1>2. ASSUME NEW i \in 1..Len(url.path)
      PROVE  Read(url.path[i]).rest = "path" /\ Read(url.path[i]).name = url.path[i]
  <2>1. url.path[i] \in Name
    BY <1>1
  <2>2. Read(url.path[i]) = [name |-> url.path[i], rest |-> "path"]
    BY <2>1 DEF Read, Plain
  <2> QED BY <2>2
<1>3. ends = {} /\ path = url.path
  <2>1. \A i \in 1..Len(url.path) :
          Read(url.path[i]).rest = "path" /\ Read(url.path[i]).name = url.path[i]
    BY <1>2
  <2>2. path = [i \in 1..Len(url.path) |-> url.path[i]]
    BY <2>1
  <2> QED BY <1>1, <2>1, <2>2
<1>4. Parsed(url) = [read EXCEPT !.up = IF @ > 0 THEN @ ELSE url.own,
                                 !.junk = @ \/ (url.up > 0 /\ url.own > 0)]
  BY <1>3 DEF Parsed
<1>5. /\ read.path = url.path /\ read.up = url.up /\ read.own = url.own
      /\ DOMAIN read = {"path", "up", "own", "slash", "junk"}
  <2> HIDE DEF dots, path
  <2> QED BY <1>3 DEF Written
<1> HIDE DEF read
<1>6. /\ Parsed(url).path = read.path /\ Parsed(url).own = read.own
      /\ Parsed(url).up = IF read.up > 0 THEN read.up ELSE url.own
  BY <1>4, <1>5
<1> QED BY <1>1, <1>5, <1>6

LEMMA AskedType ==
  ASSUME NEW url \in Written
  PROVE  Asked(url) \in URLs
<1> PICK read : read = Parsed(url)
  OBVIOUS
<1>0. read \in Written
  BY ParsedType
<1> DEFINE path == Clean(<<Slug>> \o read.path)
<1>1. <<Slug>> \o read.path \in Seq(Component)
  BY <1>0, SlugIs, ConcatProperties DEF Written
<1>2. path \in Seq(Name)
  BY <1>1, CleanType DEF CleanPaths
<1>3. Asked(url) = IF path = <<>> \/ path[1] # Slug
                   THEN URL(<<DotDot>>, 0, FALSE)
                   ELSE [read EXCEPT !.path = Tail(path)]
  BY DEF Asked
<1> HIDE DEF path
<1>4. path # <<>> => Tail(path) \in CleanPaths
  BY <1>2 DEF CleanPaths
<1>5. URL(<<DotDot>>, 0, FALSE) \in URLs
  BY DEF URL, URLs
<1>6. ASSUME NEW rest \in CleanPaths
      PROVE  [read EXCEPT !.path = rest] \in URLs
  BY <1>0 DEF Written, URLs
<1> QED BY <1>3, <1>4, <1>5, <1>6

LEMMA AskedPlain ==
  ASSUME NEW url \in Written, url.path \in CleanPaths,
         \A i \in 1..Len(url.path) : Plain(url.path[i])
  PROVE  /\ Asked(url).path = url.path /\ Asked(url).own = url.own
         /\ url.own = 0 \/ url.up > 0 => Asked(url).up = url.up
<1> PICK read, t : read = Parsed(url) /\ t = url.path
  OBVIOUS
<1>0. /\ read \in Written /\ read.path = t /\ read.own = url.own
      /\ url.own = 0 \/ url.up > 0 => read.up = url.up
  BY ParsedType, ParsedPlain
<1>1. Clean(<<Slug>> \o t) = <<Slug>> \o t
  BY SlugIs, CleanPlain
<1>2. /\ <<Slug>> \o t # <<>> /\ (<<Slug>> \o t)[1] = Slug
      /\ Tail(<<Slug>> \o t) = t
  BY DEF CleanPaths
<1>3. Asked(url) = [read EXCEPT !.path = t]
  BY <1>0, <1>1, <1>2 DEF Asked
<1> QED BY <1>0, <1>3 DEF Written

LEMMA Leaving ==
  ASSUME NEW url \in URLs
  PROVE  LeavesDocument(url) <=> url.path \notin CleanPaths
BY SlugIs DEF URLs, LeavesDocument

(* A key's URL, however decorated, addresses the key.                      *)
LEMMA PageURLType ==
  ASSUME NEW key \in Keys
  PROVE  /\ PageURL(key) \in Written
         /\ PageURL(key).own = 0
         /\ ~(key.up > 0 /\ key.tail = <<>>) =>
              PageURL(key).path = key.tail /\ PageURL(key).up = key.up
<1>1. key.up \in Nat /\ key.tail \in Seq(Component) 
  BY CleanPathsAreWritten DEF Keys
<1>2. CASE key.up > 0 /\ key.tail = <<>>
  <2>1. PageURL(key) = URL(<<DotDot>>, key.up - 1, FALSE)
    BY <1>2 DEF PageURL
  <2>2. key.up - 1 \in Nat
    BY <1>1, <1>2
  <2> QED BY <1>2, <2>1, <2>2, SlugIs DEF URL, Written
<1>3. CASE ~(key.up > 0 /\ key.tail = <<>>)
  <2>1. PageURL(key) = URL(key.tail, key.up, FALSE)
    BY <1>3 DEF PageURL
  <2> QED BY <1>1, <2>1 DEF URL, Written
<1> QED BY <1>2, <1>3

LEMMA URLArrives ==
  ASSUME Types, FilesHaveOrigins, NEW n, n.key \in Keys, n.key # NoRoot,
         n = Classify(DOMAIN files, n.key) \/ ShadowedByRoot(n), ~Nameless(n),
         NEW url \in URLs, url.path = n.key.tail, url.up = n.key.up
  PROVE  ~LeavesDocument(url) /\ Viewed(DOMAIN files, root, url) = n
<1>1. n.key.up \in Nat /\ n.key.tail \in CleanPaths
  BY DEF Keys
<1>2. n = Classify(DOMAIN files, n.key)
  BY DEF Nameless
<1>3. ~(n.key.up > 0 /\ n.key.tail = <<>>) /\ ~(n.key.up > MaxUp)
  BY DEF Nameless
<1>4. NestedKey(url) = n.key
  <2>1. NestedKey(url) = [up |-> n.key.up, tail |-> n.key.tail]
    BY DEF NestedKey, Key
  <2> QED BY <2>1 DEF Keys
<1>5. url.path # <<>>
  <2> SUFFICES ASSUME n.key.tail = <<>> PROVE FALSE
    OBVIOUS
  <2>1. n.key.up = 0
    BY <1>1, <1>3
  <2>2. n.key = NoRoot
    BY <1>4, <2>1 DEF NestedKey, NoRoot
  <2> QED BY <2>2
<1>6. IsNested(url)
  BY <1>1, <1>3, <1>5, ViewerAssumption DEF IsNested
<1>7. Viewed(DOMAIN files, root, url) = Classify(DOMAIN files, NestedKey(url))
  BY <1>5, <1>6 DEF Viewed
<1> QED BY <1>1, <1>2, <1>4, <1>7, Leaving

(* What can be clicked.                                                    *)
LinkIs(l) ==
  /\ l.url \in Written /\ l.want \in Wants
  /\ l.want.key \in Keys /\ l.want.key # NoRoot
  /\ l.want = Classify(DOMAIN files, l.want.key) \/ ShadowedByRoot(l.want)
  /\ ~(l.want.key.up > 0 /\ l.want.key.tail = <<>>) =>
       l.url.path = l.want.key.tail /\ l.url.up = l.want.key.up

(* A link's URL is asked for as it is written, unless it is misread.       *)
LEMMA LinkAsked ==
  ASSUME NEW u \in Written, NEW n, n.key \in Keys,
         u.path = n.key.tail, u.up = n.key.up,
         NEW get, get.url = Asked(u), get.want = n, ~Misread(get),
         get.url.path = <<>> => n.key # root
  PROVE  Asked(u).path = n.key.tail /\ Asked(u).up = n.key.up
<1>1. /\ \A i \in 1..Len(u.path) : Plain(u.path[i])
      /\ ~(Asked(u).own > 0 /\ u.up = 0)
  BY DEF Misread
<1>2. u.path \in CleanPaths /\ u.up \in Nat /\ u.own \in Nat
  BY DEF Keys, Written
<1>3. /\ Asked(u).path = u.path /\ Asked(u).own = u.own
      /\ u.own = 0 \/ u.up > 0 => Asked(u).up = u.up
  BY <1>1, <1>2, AskedPlain
<1>4. u.own = 0 \/ u.up > 0
  BY <1>1, <1>2, <1>3
<1> QED BY <1>3, <1>4

LEMMA TreeLink ==
  ASSUME Types, FilesHaveOrigins, NEW n \in TreeOf(DOMAIN files)
  PROVE  LinkIs([url |-> PageURL(n.key), want |-> n])
<1>1. /\ n.key \in Keys /\ n.key # NoRoot
      /\ n \in {File(n.key), Folder(n.key)}
      /\ n = Classify(DOMAIN files, n.key) \/ ShadowedByRoot(n)
  BY TreeNodes
<1>2. n \in Wants
  BY <1>1 DEF Wants
<1>3. PICK url : url = PageURL(n.key)
  OBVIOUS
<1>4. /\ url \in Written
      /\ ~(n.key.up > 0 /\ n.key.tail = <<>>) =>
           url.path = n.key.tail /\ url.up = n.key.up
  BY <1>1, <1>3, PageURLType
<1> DEFINE l == [url |-> url, want |-> n]
<1>5. l.url = url /\ l.want = n
  OBVIOUS
<1> HIDE DEF l
<1>6. LinkIs(l)
  BY <1>1, <1>2, <1>4, <1>5 DEF LinkIs
<1> QED BY <1>3, <1>6 DEF l

LEMMA ResolveKeyType ==
  ASSUME Types, FilesHaveOrigins, NEW k \in DOMAIN files, NEW r \in RefsOf(k)
  PROVE  /\ ResolveKey(k, r) \in Keys
         /\ r.suffix \in {"none", "fragment", "query", "up"}
<1>0. Project \in CleanPaths /\ Project \in Seq(Component)
  BY PathsAssumption, CleanPathsAreWritten
<1>1. RefsOf(k) \in SUBSET Refs
  <2>1. CASE FromDisk(k)
    BY <2>1, DiskFile
  <2>2. CASE Made(k)
    BY <2>2, Basics DEF Made, RefsOf
  <2> QED BY <2>1, <2>2 DEF FilesHaveOrigins
<1>2. r.path \in Seq(Component) /\ r.suffix \in {"none", "fragment", "query", "up"}
  BY <1>1 DEF Refs
<1>3. Front(Names(k)) \in Seq(Component)
  <2> PICK names : names = Names(k)
    OBVIOUS
  <2>1. names \in Seq(Component) /\ names # <<>>
    BY FilesAreKeys, NamesType
  <2> QED BY <2>1 DEF Front
<1>4. Front(Names(k)) \o r.path \in Seq(Component)
  BY <1>2, <1>3, ConcatProperties
<1>5. Project \o (Front(Names(k)) \o r.path) \in Seq(Component)
  BY <1>0, <1>4, ConcatProperties
<1>6. Clean(r.path) \in CleanPaths
  BY <1>2, CleanType
<1>7. Join(Project, Front(Names(k)) \o r.path) \in CleanPaths
  BY <1>5, CleanType DEF Join
<1>8. Rel(Project, Clean(r.path)) \in Keys
  BY <1>0, <1>6, RelJoins
<1>9. Rel(Project, Join(Project, Front(Names(k)) \o r.path)) \in Keys
  BY <1>0, <1>7, RelJoins
<1> QED BY <1>2, <1>8, <1>9 DEF ResolveKey

LEMMA RefLink ==
  ASSUME Types, FilesHaveOrigins, NEW k \in DOMAIN files, NEW r \in RefsOf(k),
         Rewritten(DOMAIN files, k, r).to = "page"
  PROVE  LET m == Rewritten(DOMAIN files, k, r) IN
         LinkIs([url |-> m.url, want |-> m.node])
<1> PICK key : key = ResolveKey(k, r)
  OBVIOUS
<1> DEFINE url == [PageURL(key) EXCEPT !.junk = (r.suffix = "query"),
                                       !.own = IF r.suffix = "up" THEN 1 ELSE 0]
           n == Classify(DOMAIN files, key)
           m == Rewritten(DOMAIN files, k, r)
<1>1. key \in Keys
  BY ResolveKeyType
<1>2. /\ m = [to |-> "page", node |-> n, url |-> url]
      /\ key \in DOMAIN files \/ IsDirKey(DOMAIN files, key)
  BY DEF Rewritten, Verbatim
<1>3. /\ url \in Written
      /\ ~(key.up > 0 /\ key.tail = <<>>) => url.path = key.tail /\ url.up = key.up
  <2>1. /\ PageURL(key) \in Written
        /\ ~(key.up > 0 /\ key.tail = <<>>) =>
             PageURL(key).path = key.tail /\ PageURL(key).up = key.up
    BY <1>1, PageURLType
  <2>2. PICK u : u = PageURL(key)
    OBVIOUS
  <2>3. ASSUME NEW junk \in BOOLEAN, NEW own \in Nat
        PROVE  LET v == [u EXCEPT !.junk = junk, !.own = own] IN
               v \in Written /\ v.path = u.path /\ v.up = u.up
    BY <2>1, <2>2 DEF Written
  <2>4. (r.suffix = "query") \in BOOLEAN /\ (IF r.suffix = "up" THEN 1 ELSE 0) \in Nat
    OBVIOUS
  <2> QED BY <2>1, <2>2, <2>3, <2>4
<1>4. key # NoRoot
  <2>1. key \in DOMAIN files => key # NoRoot
    BY FilesAreKeys
  <2>2. IsDirKey(DOMAIN files, key) => key # NoRoot
    BY NoRootIs DEF IsDirKey
  <2> QED BY <1>2, <2>1, <2>2
<1>5. n.key = key /\ n \in Wants
  <2>1. n = File(key) \/ n = Folder(key)
    BY <1>2 DEF Classify
  <2> QED BY <1>1, <2>1, NodesAre DEF Wants
<1>6. m.url = url /\ m.node = n
  BY <1>2
<1> HIDE DEF m, n, url
<1> DEFINE l == [url |-> m.url, want |-> m.node]
<1>7. l.url = url /\ l.want = n
  BY <1>6
<1> HIDE DEF l
<1>8. LinkIs(l)
  BY <1>1, <1>3, <1>4, <1>5, <1>7 DEF LinkIs, n
<1> QED BY <1>8 DEF l, m

LEMMA LinksAre ==
  ASSUME Types, FilesHaveOrigins, NEW n, n = NotFound \/ PageIs(n), NEW l \in Links(n)
  PROVE  LinkIs(l)
<1> DEFINE T == TreeOf(DOMAIN files)
           here == IF n = NotFound THEN {} ELSE {n.key}
           rewritten == UNION {{Rewritten(K, k, r) : r \in RefsOf(k)} : k \in Rendered(n)}
           named == IF Cardinality(K) > 1 THEN TreeOf(K) ELSE {}
           nodes == {m \in named : here # {}}
                      \cup {Folder(d) : d \in UNION {Above(k) : k \in here}}
                      \cup (IF n.is = "dir" THEN Listing(K, n.key) ELSE {})
<1>1. \/ l \in {[url |-> m.url, want |-> m.node] : m \in {q \in rewritten : q.to = "page"}}
      \/ l \in {[url |-> PageURL(m.key), want |-> m] : m \in nodes}
  BY DEF Links
<1>2. nodes \subseteq T
  <2>1. named \subseteq T
    BY DEF K
  <2>2. Listing(K, n.key) \subseteq T
    BY DEF Listing, K
  <2>3. ASSUME NEW k \in here, NEW d \in Above(k)
        PROVE  Folder(d) \in T
    <3>1. n # NotFound /\ k = n.key
      OBVIOUS
    <3> QED BY <3>1, PageTree
  <2> HIDE DEF named, here, T
  <2> QED BY <2>1, <2>2, <2>3
<1>3. Rendered(n) \subseteq DOMAIN files
  <2>1. CASE n.is = "file" /\ IsMarkdownKey(n.key)
    <3>1. Rendered(n) = {n.key}
      BY <2>1 DEF Rendered
    <3>2. n # NotFound
      BY <2>1, NodesAre
    <3>3. n.key \in DOMAIN files
      BY <2>1, <3>2, PageParts, NodesAre
    <3> QED BY <3>1, <3>3
  <2>2. CASE n.is = "dir"
    <3>1. Rendered(n) = {m.key : m \in IndexFile(K, n.key)}
      BY <2>2 DEF Rendered
    <3>2. ASSUME NEW m \in IndexFile(K, n.key)
          PROVE  m.key \in DOMAIN files
      <4>1. m \in TreeOf(DOMAIN files) /\ m.is = "file"
        BY DEF IndexFile, Listing, K
      <4>2. m = File(m.key) \/ m = Folder(m.key)
        BY <4>1, TreeNodes
      <4>3. m # Folder(m.key)
        BY <4>1, NodesAre
      <4> QED BY <4>1, <4>2, <4>3, TreeNodes
    <3> QED BY <3>1, <3>2
  <2>3. CASE ~(n.is = "file" /\ IsMarkdownKey(n.key)) /\ n.is # "dir"
    BY <2>3 DEF Rendered
  <2> QED BY <2>1, <2>2, <2>3
<1>4. CASE l \in {[url |-> m.url, want |-> m.node] : m \in {q \in rewritten : q.to = "page"}}
  <2>1. PICK m \in rewritten : m.to = "page" /\ l = [url |-> m.url, want |-> m.node]
    BY <1>4
  <2>2. PICK k \in Rendered(n) : \E r \in RefsOf(k) : m = Rewritten(K, k, r)
    OBVIOUS
  <2>3. PICK r \in RefsOf(k) : m = Rewritten(K, k, r)
    BY <2>2
  <2>4. k \in DOMAIN files /\ Rewritten(DOMAIN files, k, r).to = "page"
    BY <1>3, <2>1, <2>2, <2>3 DEF K
  <2> QED BY <2>1, <2>3, <2>4, RefLink DEF K
<1>5. CASE l \in {[url |-> PageURL(m.key), want |-> m] : m \in nodes}
  <2> HIDE DEF nodes
  <2>1. PICK m \in nodes : l = [url |-> PageURL(m.key), want |-> m]
    BY <1>5
  <2> QED BY <1>2, <2>1, TreeLink
<1> QED BY <1>1, <1>4, <1>5

LEMMA UnchangedRead ==
  ASSUME UNCHANGED walkVars
  PROVE  /\ \A n : PageIs(n)' <=> PageIs(n)
         /\ \A get : Arrives(get)' <=> Arrives(get)
         /\ phase' = phase /\ root' = root /\ files' = files
<1>1. phase' = phase /\ root' = root /\ files' = files
  BY DEF walkVars
<1>2. \A n : PageIs(n)' <=> PageIs(n)
  BY <1>1 DEF PageIs
<1>3. \A n : Nameless(n)' <=> Nameless(n)
  BY <1>1 DEF Nameless, ShadowedByRoot, K
<1>4. \A get : Misread(get)' <=> Misread(get)
  BY <1>1 DEF Misread
<1>5. \A get : Arrives(get)' <=> Arrives(get)
  BY <1>1, <1>3, <1>4 DEF Arrives
<1> QED BY <1>1, <1>2, <1>5

LEMMA SameAddress ==
  ASSUME NEW u \in URLs, NEW v \in URLs, NEW want,
         v.path = u.path, v.up = u.up, v.own = u.own,
         Arrives([url |-> u, want |-> want, hops |-> 0])
  PROVE  Arrives([url |-> v, want |-> want, hops |-> 0])
<1>1. LeavesDocument(v) <=> LeavesDocument(u)
  BY Leaving
<1>2. Viewed(DOMAIN files, root, v) = Viewed(DOMAIN files, root, u)
  BY DEF Viewed, IsNested, NestedKey
<1> QED BY <1>1, <1>2 DEF Arrives, Misread

LEMMA RootIsKey ==
  ASSUME WalkInv, phase = "done"
  PROVE  root \in DOMAIN files /\ root \in Keys
<1>1. root \in DOMAIN files
  BY Basics DEF WalkInv, RootIsFiled
<1> QED BY <1>1, FilesAreKeys DEF WalkInv

LEMMA OpenRead ==
  ASSUME WalkInv, ReadInv, OpenDocument
  PROVE  ReadInv'
<1>0. /\ UNCHANGED walkVars /\ page' = page /\ page = NotFound
      /\ phase = "done" /\ asked' = Get(URL(<<>>, 0, FALSE), File(root))
  BY DEF OpenDocument
<1>a. PICK u, get : u = URL(<<>>, 0, FALSE) /\ get = Get(u, File(root))
  OBVIOUS
<1>1. u \in Written /\ u.path = Top /\ u.path \in CleanPaths /\ Len(u.path) = 0
  BY <1>a, TopIsEmpty, CleanPathsAreWritten DEF URL, Written, Top
<1> PICK v : v = Asked(u)
  OBVIOUS
<1>2. v \in URLs /\ v.path = Top /\ ~LeavesDocument(v)
  <2>1. \A i \in 1..Len(u.path) : Plain(u.path[i])
    BY <1>1
  <2>2. v \in URLs /\ v.path = Top
    BY <1>1, <2>1, AskedType, AskedPlain
  <2> QED BY <1>1, <2>2, Leaving
<1>3. /\ get = [url |-> v, want |-> File(root), hops |-> 0]
      /\ get.url = v /\ get.want = File(root) /\ get.hops = 0
  BY <1>a DEF Get
<1>4. root \in DOMAIN files /\ root \in Keys
  BY <1>0, RootIsKey
<1>5. Viewed(DOMAIN files, root, v) = File(root)
  BY <1>2, <1>4 DEF Viewed, IsNested, Classify, Top
<1>6. Arrives(get)
  BY <1>2, <1>3, <1>5 DEF Arrives
<1>7. File(root) \in Wants
  BY <1>4 DEF Wants
<1>8. get \in [url : URLs, want : Wants, hops : Nat]
  <2>1. PICK w : w = File(root)
    OBVIOUS
  <2>2. v \in URLs /\ w \in Wants /\ get = [url |-> v, want |-> w, hops |-> 0]
    BY <1>2, <1>3, <1>7, <2>1
  <2> QED BY <2>2
<1>9. get.hops + One(get.url.slash) + One(get.url.junk) <= 2
  BY <1>3 DEF One
<1>10. asked' = get
  BY <1>0, <1>a
<1>11. Arrives(get)' /\ phase' = "done"
  BY <1>0, <1>6, UnchangedRead
<1>12. Arrives(asked)'
  BY <1>10, <1>11 DEF Arrives
<1> QED BY <1>0, <1>8, <1>9, <1>10, <1>11, <1>12 DEF ReadInv

LEMMA FollowRead ==
  ASSUME WalkInv, ReadInv, phase = "done",
         NEW l \in Links(page), NEW decorated \in BOOLEAN, Follow(l, decorated)
  PROVE  ReadInv'
<1> PICK u, n : u = [l.url EXCEPT !.slash = decorated, !.junk = @ \/ decorated]
                /\ n = l.want
  OBVIOUS
<1> PICK get : get = Get(u, n)
  OBVIOUS
<1>0. /\ UNCHANGED walkVars /\ page' = page /\ asked' = get
      /\ Types /\ FilesHaveOrigins /\ (page = NotFound \/ PageIs(page))
  BY DEF Follow, WalkInv, ReadInv
<1>1. LinkIs(l)
  <2> PICK p : p = page
    OBVIOUS
  <2> QED BY <1>0, LinksAre
<1>2. u \in Written /\ u.path = l.url.path /\ u.up = l.url.up
  BY <1>1 DEF LinkIs, Written
<1>3. Asked(u) \in URLs
  BY <1>2, AskedType
<1>4. get = [url |-> Asked(u), want |-> n, hops |-> 0]
  BY DEF Get
<1>5. get \in [url : URLs, want : Wants, hops : Nat]
  BY <1>1, <1>3, <1>4 DEF LinkIs
<1>6. get.hops + One(get.url.slash) + One(get.url.junk) <= 2
  BY <1>4 DEF One
<1>7. Arrives(get)
  <2>0. PICK v : v = Asked(u)
    OBVIOUS
  <2> SUFFICES ASSUME ~Nameless(n), ~Misread(get)
               PROVE  ~LeavesDocument(v) /\ Viewed(DOMAIN files, root, v) = n
    BY <1>4, <2>0 DEF Arrives
  <2>1. ~(n.key.up > 0 /\ n.key.tail = <<>>)
    BY DEF Nameless
  <2>2. u.path = n.key.tail /\ u.up = n.key.up /\ n.key \in Keys /\ n.key # NoRoot
        /\ (n = Classify(DOMAIN files, n.key) \/ ShadowedByRoot(n))
    BY <1>1, <1>2, <2>1 DEF LinkIs
  <2>3. get.url = Asked(u) /\ get.want = n
    BY <1>4
  <2>4. CASE v.path = <<>> /\ n.key = root
    <3>1. n = Classify(DOMAIN files, root)
      BY <2>2, <2>4 DEF Nameless
    <3>2. v \in URLs /\ v.path \in CleanPaths
      BY <1>3, <2>0, <2>4, TopIsEmpty DEF Top
    <3>3. ~LeavesDocument(v) /\ Viewed(DOMAIN files, root, v) = Classify(DOMAIN files, root)
      BY <2>4, <3>2, Leaving DEF Viewed, IsNested
    <3> QED BY <3>1, <3>3
  <2>5. CASE v.path = <<>> => n.key # root
    <3>1. get.url.path = <<>> => n.key # root
      BY <2>0, <2>3, <2>5
    <3>2. Asked(u).path = n.key.tail /\ Asked(u).up = n.key.up
      <4>1. u \in Written /\ n.key \in Keys /\ u.path = n.key.tail /\ u.up = n.key.up
        BY <1>2, <2>2
      <4> QED BY ONLY <2>3, <3>1, <4>1, ~Misread(get), LinkAsked
    <3>3. v \in URLs /\ v.path = n.key.tail /\ v.up = n.key.up
      BY <1>3, <2>0, <3>2
    <3> QED BY <1>0, <2>2, <3>3, URLArrives
  <2> QED BY <2>4, <2>5
<1>8. Arrives(get)' /\ phase' = "done"
  BY <1>0, <1>7, UnchangedRead
<1>9. Arrives(asked)'
  BY <1>0, <1>8 DEF Arrives
<1>10. page' # NotFound => PageIs(page)'
  <2> PICK p : p = page
    OBVIOUS
  <2>1. page' = p /\ (p # NotFound => PageIs(p))
    BY <1>0
  <2>2. PageIs(p)' <=> PageIs(p)
    BY <1>0, UnchangedRead
  <2> QED BY <2>1, <2>2 DEF PageIs
<1> QED BY <1>0, <1>5, <1>6, <1>8, <1>9, <1>10 DEF ReadInv

(* A redirect takes one thing off the URL and counts one hop.              *)
LEMMA RedirectRead ==
  ASSUME WalkInv, ReadInv, RedirectTrailingSlash \/ RedirectCanonicalQuery
  PROVE  ReadInv' /\ asked' # NoGet
<1>0. /\ UNCHANGED walkVars /\ page' = page /\ asked # NoGet
      /\ asked \in [url : URLs, want : Wants, hops : Nat]
      /\ asked.hops + One(asked.url.slash) + One(asked.url.junk) <= 2
      /\ Arrives(asked) /\ phase = "done" /\ (page # NotFound => PageIs(page))
  BY DEF RedirectTrailingSlash, RedirectCanonicalQuery, ReadInv
<1>1. PICK u \in URLs, w \in Wants, h \in Nat : asked = [url |-> u, want |-> w, hops |-> h]
  BY <1>0
<1>2. PICK v \in URLs : /\ v.path = u.path /\ v.up = u.up /\ v.own = u.own
                        /\ asked' = [url |-> v, want |-> w, hops |-> h + 1]
                        /\ h + 1 + One(v.slash) + One(v.junk) <= 2
  <2>1. u.slash \in BOOLEAN /\ u.junk \in BOOLEAN
    BY DEF URLs
  <2>2. h + One(u.slash) + One(u.junk) <= 2
    BY <1>0, <1>1
  <2>3. CASE RedirectTrailingSlash
    <3> DEFINE v == [u EXCEPT !.slash = FALSE]
    <3>1. asked' = [asked EXCEPT !.url.slash = FALSE, !.hops = @ + 1] /\ u.slash
      BY <1>1, <2>3 DEF RedirectTrailingSlash
    <3>2. asked' = [url |-> v, want |-> w, hops |-> h + 1]
      BY <1>1, <3>1
    <3>3. /\ v \in URLs /\ v.path = u.path /\ v.up = u.up /\ v.own = u.own
          /\ v.slash = FALSE /\ v.junk = u.junk
      BY DEF URLs
    <3> HIDE DEF v
    <3>4. h + 1 + One(v.slash) + One(v.junk) <= 2
      BY <2>1, <2>2, <3>1, <3>3 DEF One
    <3> QED BY <3>2, <3>3, <3>4
  <2>4. CASE RedirectCanonicalQuery
    <3> DEFINE v == [u EXCEPT !.junk = FALSE]
    <3>1. asked' = [asked EXCEPT !.url.junk = FALSE, !.hops = @ + 1] /\ u.junk
      BY <1>1, <2>4 DEF RedirectCanonicalQuery
    <3>2. asked' = [url |-> v, want |-> w, hops |-> h + 1]
      BY <1>1, <3>1
    <3>3. /\ v \in URLs /\ v.path = u.path /\ v.up = u.up /\ v.own = u.own
          /\ v.slash = u.slash /\ v.junk = FALSE
      BY DEF URLs
    <3> HIDE DEF v
    <3>4. h + 1 + One(v.slash) + One(v.junk) <= 2
      BY <2>1, <2>2, <3>1, <3>3 DEF One
    <3> QED BY <3>2, <3>3, <3>4
  <2> QED BY <2>3, <2>4
<1> PICK get : get = [url |-> v, want |-> w, hops |-> h + 1]
  OBVIOUS
<1>3. asked' = get /\ get \in [url : URLs, want : Wants, hops : Nat]
      /\ get.hops + One(get.url.slash) + One(get.url.junk) <= 2
  BY <1>2
<1>4. Arrives(get)
  <2>1. Arrives([url |-> u, want |-> w, hops |-> 0])
    BY <1>0, <1>1 DEF Arrives, Misread
  <2>2. Arrives([url |-> v, want |-> w, hops |-> 0])
    BY <1>2, <2>1, SameAddress
  <2> QED BY <2>2 DEF Arrives, Misread
<1>5. Arrives(get)' /\ phase' = "done"
  BY <1>0, <1>4, UnchangedRead
<1>6. Arrives(asked)'
  BY <1>3, <1>5 DEF Arrives
<1>7. page' # NotFound => PageIs(page)'
  <2> PICK p : p = page
    OBVIOUS
  <2>1. page' = p /\ (p # NotFound => PageIs(p))
    BY <1>0
  <2>2. PageIs(p)' <=> PageIs(p)
    BY <1>0, UnchangedRead
  <2> QED BY <2>1, <2>2 DEF PageIs
<1>8. asked' # NoGet
  <2>1. "url" \in DOMAIN get /\ "url" \notin DOMAIN NoGet
    BY DEF NoGet
  <2> QED BY <1>3, <2>1
<1> QED BY <1>3, <1>5, <1>6, <1>7, <1>8 DEF ReadInv

LEMMA ServeRead ==
  ASSUME WalkInv, ReadInv, Serve
  PROVE  /\ ReadInv'
         /\ ~Nameless(asked.want) /\ ~Misread(asked) => page' = asked.want
<1>0. /\ UNCHANGED walkVars /\ asked # NoGet /\ asked' = NoGet
      /\ page' = IF LeavesDocument(asked.url) THEN NotFound
                 ELSE Viewed(DOMAIN files, root, asked.url)
      /\ asked \in [url : URLs, want : Wants, hops : Nat]
      /\ Arrives(asked) /\ phase = "done"
  BY DEF Serve, ReadInv, K
<1>1. ~Nameless(asked.want) /\ ~Misread(asked) => page' = asked.want
  BY <1>0 DEF Arrives
<1>2. ASSUME page' # NotFound
      PROVE  PageIs(page')
  <2> PICK u, p : u = asked.url /\ p = page'
    OBVIOUS
  <2>1. u \in URLs /\ u.path \in CleanPaths /\ p = Viewed(DOMAIN files, root, u)
    BY <1>0, <1>2, Leaving
  <2>2. PICK k \in Keys : p = Classify(DOMAIN files, k)
    <3>1. CASE u.path = <<>>
      <4>1. p = Classify(DOMAIN files, root)
        BY <2>1, <3>1 DEF Viewed, IsNested
      <4> QED BY <1>0, <4>1, RootIsKey
    <3>2. CASE IsNested(u)
      <4>1. p = Classify(DOMAIN files, NestedKey(u))
        BY <2>1, <3>2 DEF Viewed, IsNested
      <4>2. NestedKey(u) \in Keys
        BY <2>1, KeyParts DEF NestedKey, URLs
      <4> QED BY <4>1, <4>2
    <3>3. CASE u.path # <<>> /\ ~IsNested(u)
      BY <1>2, <2>1, <3>3 DEF Viewed
    <3> QED BY <3>1, <3>2, <3>3
  <2>3. p = File(k) \/ p = Folder(k)
    BY <1>2, <2>2, ClassifyIs
  <2>4. p.key = k
    BY <2>3, NodesAre
  <2> QED BY <2>2, <2>4 DEF PageIs
<1>3. page' # NotFound => PageIs(page)'
  <2> PICK p : p = page'
    OBVIOUS
  <2>1. p # NotFound => PageIs(p)
    BY <1>2
  <2>2. PageIs(p)' <=> PageIs(p)
    BY <1>0, UnchangedRead
  <2> QED BY <2>1, <2>2 DEF PageIs
<1>4. phase' = "done"
  BY <1>0, UnchangedRead
<1> QED BY <1>0, <1>1, <1>3, <1>4 DEF ReadInv

LEMMA WalkingRead ==
  ASSUME ReadInv, Walks /\ UNCHANGED <<page, asked>>
  PROVE  ReadInv' /\ asked = NoGet
<1>1. phase # "done"
  BY DEF Walks, WalkFile, WalkText, Visit, WalkEnds
<1> QED BY <1>1 DEF ReadInv

LEMMA IdleRead ==
  ASSUME ReadInv, UNCHANGED vars
  PROVE  ReadInv'
<1>0. UNCHANGED walkVars /\ page' = page /\ asked' = asked
  BY DEF vars
<1>1. phase' = phase /\ root' = root /\ files' = files
  BY <1>0, UnchangedRead
<1> PICK p, a : p = page /\ a = asked
  OBVIOUS
<1>2. (PageIs(p)' <=> PageIs(p)) /\ (Arrives(a)' <=> Arrives(a))
  BY <1>0, UnchangedRead
<1>3. page' = p /\ asked' = a
  BY <1>0
<1>4. PageIs(page)' <=> PageIs(page)
  BY <1>2, <1>3 DEF PageIs
<1>5. Arrives(asked)' <=> Arrives(asked)
  BY <1>2, <1>3 DEF Arrives
<1> QED BY <1>0, <1>1, <1>4, <1>5 DEF ReadInv

LEMMA ReadInductive == Spec => []ReadInv
<1>1. BundleInit => ReadInv
  BY DEF BundleInit, ReadInv
<1>2. ASSUME WalkInv, ReadInv, [Next]_vars
      PROVE  ReadInv'
  <2>1. CASE Walks /\ UNCHANGED <<page, asked>>
    BY <1>2, <2>1, WalkingRead
  <2>2. CASE OpenDocument
    BY <1>2, <2>2, OpenRead
  <2>3. CASE phase = "done" /\ \E l \in Links(page), decorated \in BOOLEAN : Follow(l, decorated)
    BY <1>2, <2>3, FollowRead
  <2>4. CASE RedirectTrailingSlash \/ RedirectCanonicalQuery
    BY <1>2, <2>4, RedirectRead
  <2>5. CASE Serve
    BY <1>2, <2>5, ServeRead
  <2>6. CASE UNCHANGED vars
    BY <1>2, <2>6, IdleRead
  <2> QED BY <1>2, <2>1, <2>2, <2>3, <2>4, <2>5, <2>6 DEF Next, Reads
<1> QED BY <1>1, <1>2, WalkInductive, PTL DEF Spec

(* redirectTrailingSlash and redirectCanonicalQuery cannot send a browser  *)
(* in a circle: each takes off the URL what makes it redirect.             *)
THEOREM RedirectsEndHolds == Spec => []RedirectsEnd
<1>1. ReadInv => RedirectsEnd
  <2> SUFFICES ASSUME ReadInv, asked # NoGet
               PROVE  asked.hops <= 2
    BY DEF RedirectsEnd
  <2>1. asked.hops \in Nat /\ asked.hops + One(asked.url.slash) + One(asked.url.junk) <= 2
    BY DEF ReadInv
  <2> QED BY <2>1 DEF One
<1> QED BY <1>1, ReadInductive, PTL

(* raw.Service.open finds a file at a URL just when RenderRoot or          *)
(* RenderPath shows one there, and it is the same file.                    *)
THEOREM RawMirrorsViewHolds == Spec => []RawMirrorsView
<1>1. ASSUME WalkInv, ReadInv
      PROVE  RawMirrorsView
  <2> SUFFICES ASSUME asked # NoGet
               PROVE  RawOf(K, root, asked.url) =
                        IF Viewed(K, root, asked.url).is = "file"
                        THEN Viewed(K, root, asked.url) ELSE NotFound
    BY DEF RawMirrorsView
  <2> PICK S, u : S = K /\ u = asked.url
    OBVIOUS
  <2>1. root \in S
    BY <1>1, RootIsKey DEF ReadInv, K
  <2>2. CASE u.path = <<>>
    <3>1. RawOf(S, root, u) = File(root) /\ Viewed(S, root, u) = File(root)
      BY <2>1, <2>2 DEF RawOf, Viewed, IsNested, Classify
    <3> QED BY <3>1, NodesAre
  <2>3. CASE IsNested(u)
    <3> PICK k : k = NestedKey(u)
      OBVIOUS
    <3>1. u.path # <<>>
      BY <2>3 DEF IsNested
    <3>2. /\ RawOf(S, root, u) = IF k \in S THEN File(k) ELSE NotFound
          /\ Viewed(S, root, u) = Classify(S, k)
      BY <2>3, <3>1 DEF RawOf, Viewed
    <3> QED BY <3>2, NodesAre DEF Classify
  <2>4. CASE u.path # <<>> /\ ~IsNested(u)
    <3>1. RawOf(S, root, u) = NotFound /\ Viewed(S, root, u) = NotFound
      BY <2>4 DEF RawOf, Viewed
    <3> QED BY <3>1, NodesAre
  <2> QED BY <2>2, <2>3, <2>4
<1> QED BY <1>1, WalkInductive, ReadInductive, PTL

(* BuildTree and markCurrent: whatever is shown, the tree beside it marks  *)
(* that node alone and holds every folder above it.                        *)
THEOREM SidebarShowsPageHolds == Spec => []SidebarShowsPage
<1>1. ASSUME WalkInv, ReadInv
      PROVE  SidebarShowsPage
  <2> SUFFICES ASSUME page # NotFound, page.key # NoRoot
               PROVE  /\ ShadowedByRoot(Folder(page.key)) \/ Current(K, page.key) = {page}
                      /\ \A d \in Above(page.key) : Folder(d) \in TreeOf(K)
    BY DEF SidebarShowsPage
  <2> PICK p, k, S : p = page /\ k = page.key /\ S = DOMAIN files
    OBVIOUS
  <2>1. PageIs(p) /\ Types /\ FilesHaveOrigins /\ K = S
    BY <1>1 DEF ReadInv, WalkInv, K
  <2>2. \A d \in Above(k) : Folder(d) \in TreeOf(S)
    BY <2>1, PageTree
  <2>3. ASSUME ~ShadowedByRoot(Folder(k))
        PROVE  Current(S, k) = {p}
    <3> DEFINE hits == {n \in TreeOf(S) : n.key = k}
    <3>1. \A n \in hits : n \in {File(k), Folder(k)}
                          /\ (n = Classify(S, k) \/ ShadowedByRoot(n))
      BY <2>1, TreeNodes
    <3>2. ASSUME NEW n \in hits PROVE n = p
      <4>1. ~ShadowedByRoot(n)
        <5> SUFFICES ASSUME n = Folder(root) PROVE ~ShadowedByRoot(n)
          BY DEF ShadowedByRoot
        <5>1. n = Folder(k)
          BY NodesAre
        <5> QED BY <2>3, <5>1
      <4>2. n = Classify(S, k)
        BY <3>1, <4>1
      <4> QED BY <2>1, <4>2 DEF PageIs
    <3>3. p \in TreeOf(S) /\ p.key = k
      <4>1. CASE p = File(k) /\ k \in S
        BY <4>1, TreeHasFile
      <4>2. CASE p = Folder(k) /\ IsDirKey(S, k)
        BY <2>1, <4>2, TreeHasFolder DEF PageIs
      <4> QED BY <2>1, <4>1, <4>2, PageParts
    <3>4. hits = {p}
      BY <3>2, <3>3
    <3> HIDE DEF hits
    <3>5. Current(S, k) = IF Folder(k) \in hits THEN {Folder(k)} ELSE hits
      BY DEF Current, hits
    <3> QED BY <3>4, <3>5
  <2> QED BY <2>1, <2>2, <2>3
<1> QED BY <1>1, WalkInductive, ReadInductive, PTL

(* slugPageURL and nodeHref write a URL, a browser resolves it, the        *)
(* middleware redirects it, and NestedKey and Classify read it back as the *)
(* node the link was written for: whenever a URL can name the node, the    *)
(* names of its key read in a URL as they are, and no up= of a reference's *)
(* own query is there in place of the key's.                               *)
THEOREM ClicksArriveHolds == Spec => ClicksArrive
<1> DEFINE Arrival ==
      (/\ asked # NoGet /\ asked' = NoGet
       /\ ~Nameless(asked.want) /\ ~Misread(asked)) => page' = asked.want
<1>1. WalkInv /\ ReadInv /\ [Next]_vars => [Arrival]_vars
  <2> SUFFICES ASSUME WalkInv, ReadInv, [Next]_vars,
                      asked # NoGet, asked' = NoGet,
                      ~Nameless(asked.want), ~Misread(asked)
               PROVE  page' = asked.want
    OBVIOUS
  <2>1. CASE Walks /\ UNCHANGED <<page, asked>>
    BY <2>1
  <2>2. CASE OpenDocument
    BY <2>2 DEF OpenDocument
  <2>3. CASE phase = "done" /\ \E l \in Links(page), decorated \in BOOLEAN : Follow(l, decorated)
    BY <2>3 DEF Follow
  <2>4. CASE RedirectTrailingSlash \/ RedirectCanonicalQuery
    BY <2>4, RedirectRead
  <2>5. CASE Serve
    BY <2>5, ServeRead
  <2>6. CASE UNCHANGED vars
    BY <2>6 DEF vars
  <2> QED BY <2>1, <2>2, <2>3, <2>4, <2>5, <2>6 DEF Next, Reads
<1> QED BY <1>1, WalkInductive, ReadInductive, PTL DEF Spec, ClicksArrive
=============================================================================
