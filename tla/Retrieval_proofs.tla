-------------------------- MODULE Retrieval_proofs --------------------------
(***************************************************************************)
(* Lemmas about the operators of Retrieval.tla and ContextBudget.tla: what *)
(* sorting by a key returns, what fusion and the pool keep, what the       *)
(* greedy selection accounts for.  They hold for all arms, hits and sizes, *)
(* and are shared by the proofs of the pipeline and of the service.        *)
(***************************************************************************)
EXTENDS ContextBudget, TLAPS, FiniteSetTheorems, SequenceTheorems

(* The least number with a property: the form of induction the provers can *)
(* follow.                                                                 *)
LEMMA LeastNumber ==
  ASSUME NEW S \in SUBSET Nat, S # {}
  PROVE  \E m \in S : \A x \in S : m <= x
  <1> DEFINE less == OpToRel(<, Nat)
  <1>1. PICK m \in S : \A x \in S : ~ (<<x, m>> \in less)
    <2>1. IsWellFoundedOn(less, Nat)
      BY NatLessThanWellFounded
    <2> HIDE DEF less
    <2> QED
      BY <2>1, WFMin
  <1>2. ASSUME NEW x \in S PROVE m <= x
    <2>1. ~ (x < m) /\ x \in Nat /\ m \in Nat
      BY <1>1 DEF OpToRel
    <2> QED
      BY <2>1
  <1> QED
    BY <1>2

LEMMA Counting ==
  ASSUME NEW G, 0 \in G, \A k \in Nat : k \in G => k + 1 \in G
  PROVE  \A k \in Nat : k \in G
  <1> SUFFICES ASSUME Nat \ G # {} PROVE FALSE
    OBVIOUS
  <1>1. PICK m \in Nat \ G : \A x \in Nat \ G : m <= x
    BY LeastNumber
  <1>2. m # 0 /\ m - 1 \in Nat
    BY <1>1
  <1>3. m - 1 \in G
    BY <1>1, <1>2
  <1> QED
    BY <1>1, <1>2, <1>3

(* The same up to a bound.                                                 *)
LEMMA CountingTo ==
  ASSUME NEW n \in Nat, NEW G, 0 \in G,
         \A k \in 0 .. n : k \in G /\ k + 1 <= n => k + 1 \in G
  PROVE  \A k \in 0 .. n : k \in G
  <1> DEFINE H == {k \in Nat : k <= n => k \in G}
  <1>1. 0 \in H
    OBVIOUS
  <1>2. \A k \in Nat : k \in H => k + 1 \in H
    OBVIOUS
  <1>3. \A k \in Nat : k \in H
    <2> HIDE DEF H
    <2> QED
      BY <1>1, <1>2, Counting
  <1> QED
    BY <1>3

-----------------------------------------------------------------------------
LEMMA OneLess ==
  ASSUME NEW S, IsFiniteSet(S), NEW t \in SUBSET S, NEW x \in t,
         NEW n \in Nat, Cardinality(t) = n + 1
  PROVE  t \ {x} \in SUBSET S /\ Cardinality(t \ {x}) = n
  <1>1. IsFiniteSet(t)
    BY FS_Subset
  <1>2. Cardinality(t \ {x}) = (n + 1) - 1
    BY <1>1, FS_RemoveElement
  <1>3. (n + 1) - 1 = n
    OBVIOUS
  <1>4. Cardinality(t \ {x}) = n
    BY <1>2, <1>3, Zenon
  <1> QED
    BY <1>4

(* A fold of the library is a function on the subsets of its index set,    *)
(* chosen to satisfy a recursion.  One exists.                             *)
Folds(f, S, base, pick, step) ==
  f = [t \in SUBSET S |->
         IF t = {} THEN base ELSE step[<<f[t \ {pick[t]}], pick[t]>>]]

LEMMA FoldExists ==
  ASSUME NEW S, IsFiniteSet(S), NEW A, NEW base \in A,
         NEW pick, \A t \in SUBSET S : t # {} => pick[t] \in t,
         NEW step \in [A \X S -> A]
  PROVE  \E f \in [SUBSET S -> A] : Folds(f, S, base, pick, step)
  <1> DEFINE Small(n) == {t \in SUBSET S : Cardinality(t) <= n}
             Body(f, t) ==
               IF t = {} THEN base ELSE step[<<f[t \ {pick[t]}], pick[t]>>]
             G == {n \in Nat : \E f \in [Small(n) -> A] :
                                 \A t \in Small(n) : f[t] = Body(f, t)}
  <1>1. \A t \in SUBSET S : IsFiniteSet(t) /\ Cardinality(t) \in Nat
    BY FS_Subset, FS_CardinalityType
  <1>2. \A t \in SUBSET S : t # {} =>
          /\ t \ {pick[t]} \in SUBSET S
          /\ Cardinality(t \ {pick[t]}) = Cardinality(t) - 1
    BY <1>1, FS_RemoveElement
  <1>3. 0 \in G
    <2> DEFINE f0 == [t \in Small(0) |-> base]
    <2>1. \A t \in Small(0) : t = {}
      <3> TAKE t \in Small(0)
      <3>1. Cardinality(t) = 0
        BY <1>1
      <3> QED
        BY <3>1, <1>1, FS_EmptySet
    <2>2. f0 \in [Small(0) -> A] /\ \A t \in Small(0) : f0[t] = Body(f0, t)
      BY <2>1
    <2> QED
      BY <2>2
  <1>4. ASSUME NEW n \in Nat, n \in G PROVE n + 1 \in G
    <2>1. PICK f \in [Small(n) -> A] : \A t \in Small(n) : f[t] = Body(f, t)
      BY <1>4
    <2> DEFINE g == [t \in Small(n + 1) |-> Body(f, t)]
    <2>2. ASSUME NEW t \in Small(n + 1), t # {}
          PROVE  t \ {pick[t]} \in Small(n)
      BY <1>1, <1>2, <2>2
    <2>3. g \in [Small(n + 1) -> A]
      <3> SUFFICES ASSUME NEW t \in Small(n + 1) PROVE Body(f, t) \in A
        OBVIOUS
      <3>1. CASE t = {}
        BY <3>1
      <3>2. CASE t # {}
        <4>1. f[t \ {pick[t]}] \in A /\ pick[t] \in S
          BY <2>2, <3>2, <2>1
        <4> QED
          BY <4>1, <3>2
      <3> QED
        BY <3>1, <3>2
    <2>4. ASSUME NEW t \in Small(n) PROVE g[t] = f[t]
      <3>1. t \in Small(n + 1)
        BY <1>1
      <3> QED
        BY <3>1, <2>1
    <2>5. ASSUME NEW t \in Small(n + 1) PROVE g[t] = Body(g, t)
      <3>1. CASE t = {}
        BY <3>1
      <3>2. CASE t # {}
        <4>1. g[t \ {pick[t]}] = f[t \ {pick[t]}]
          BY <2>2, <2>4, <3>2
        <4> HIDE DEF Small
        <4>2. g[t] = Body(f, t)
          OBVIOUS
        <4> HIDE DEF g
        <4> QED
          BY <4>1, <4>2
      <3> QED
        BY <3>1, <3>2
    <2>6. \E f1 \in [Small(n + 1) -> A] : \A t \in Small(n + 1) : f1[t] = Body(f1, t)
      <3> HIDE DEF g, Small, Body
      <3> QED
        BY <2>3, <2>5
    <2> HIDE DEF Small, Body
    <2> QED
      BY <2>6
  <1>5. Cardinality(S) \in G
    <2> HIDE DEF G
    <2> QED
      BY <1>3, <1>4, Counting, <1>1
  <1>6. Small(Cardinality(S)) = SUBSET S
    BY <1>1, FS_Subset
  <1>7. PICK f \in [SUBSET S -> A] : \A t \in SUBSET S : f[t] = Body(f, t)
    BY <1>5, <1>6
  <1> QED
    BY <1>7 DEF Folds

LEMMA LastOfRange ==
  ASSUME NEW k \in Nat \ {0}
  PROVE  Max(1 .. k) = k /\ (1 .. k) \ {k} = 1 .. (k - 1)
  <1>1. k \in 1 .. k /\ \A y \in 1 .. k : k >= y
    OBVIOUS
  <1>2. \A x \in 1 .. k : (\A y \in 1 .. k : x >= y) => x = k
    OBVIOUS
  <1>3. Max(1 .. k) = k
    BY <1>1, <1>2 DEF Max
  <1> QED
    BY <1>3

LEMMA MaxInRange ==
  ASSUME NEW n \in Nat, NEW t \in SUBSET (1 .. n), t # {}
  PROVE  Max(t) \in t /\ Max(t) \in 1 .. n
  <1> DEFINE Above == {m \in 0 .. n : \A x \in t : m >= x}
  <1>1. n \in Above
    OBVIOUS
  <1>2. PICK m \in Above : \A x \in Above : m <= x
    <2>1. Above \in SUBSET Nat /\ Above # {}
      BY <1>1
    <2> HIDE DEF Above
    <2> QED
      BY <2>1, LeastNumber
  <1>3. CASE m \in t
    <2>1. \E x \in t : \A y \in t : x >= y
      BY <1>2, <1>3
    <2> QED
      BY <2>1 DEF Max
  <1>4. CASE m \notin t
    <2>1. m # 0
      <3>1. PICK x \in t : m >= x
        BY <1>2
      <3>2. x \in 1 .. n
        OBVIOUS
      <3> QED
        BY <3>1, <3>2
    <2>2. m - 1 \in Above
      BY <1>2, <1>4, <2>1
    <2> QED
      BY <2>2, <1>2
  <1> QED
    BY <1>3, <1>4

(* FoldLeft over a sequence picks the last index of what is left.          *)
FoldsLeft(f, n, base, step) ==
  f = [t \in SUBSET (1 .. n) |->
         IF t = {} THEN base ELSE step[<<f[t \ {Max(t)}], Max(t)>>]]

LEMMA SequenceFold ==
  ASSUME NEW n \in Nat, NEW A, NEW base \in A, NEW step \in [A \X (1 .. n) -> A]
  PROVE  \E f \in [SUBSET (1 .. n) -> A] : FoldsLeft(f, n, base, step)
  <1> DEFINE pick == [t \in SUBSET (1 .. n) |-> Max(t)]
  <1>2. \A t \in SUBSET (1 .. n) : t # {} => pick[t] \in t
    BY MaxInRange
  <1>3. IsFiniteSet(1 .. n)
    BY FS_Interval
  <1>4. PICK f \in [SUBSET (1 .. n) -> A] : Folds(f, 1 .. n, base, pick, step)
    <2> HIDE DEF pick
    <2> QED
      BY <1>2, <1>3, FoldExists
  <1>5. f = [t \in SUBSET (1 .. n) |->
               IF t = {} THEN base ELSE step[<<f[t \ {Max(t)}], Max(t)>>]]
    BY <1>4 DEF Folds
  <1> QED
    BY <1>5 DEF FoldsLeft

-----------------------------------------------------------------------------
(* sorted() by a key that tells the elements of S apart.  R says which     *)
(* goes before which.                                                      *)
IsStrictOrder(S, R) ==
  /\ \A x \in S : <<x, x>> \notin R
  /\ \A x, y \in S : x # y => <<x, y>> \in R \/ <<y, x>> \in R
  /\ \A x, y, z \in S : <<x, y>> \in R /\ <<y, z>> \in R => <<x, z>> \in R

Ahead(x, S, R) == {y \in S : <<y, x>> \in R}

Enumerates(s, S, R) ==
  /\ Cardinality(S) \in Nat
  /\ s \in [1 .. Cardinality(S) -> S]
  /\ \A x \in S : \E k \in 1 .. Cardinality(S) : s[k] = x
  /\ \A i, j \in 1 .. Cardinality(S) : i < j <=> <<s[i], s[j]>> \in R
  /\ \A i, j \in 1 .. Cardinality(S) : s[i] = s[j] => i = j

ArrangedBy(S, R) ==
  LET places == {<<x, Cardinality(Ahead(x, S, R)) + 1>> : x \in S}
  IN [k \in 1 .. Cardinality(S) |-> (CHOOSE p \in places : p[2] = k)[1]]

(* The element with as many before it as there are places before it is the *)
(* one that stands there.                                                  *)
LEMMA ArrangedEnumerates ==
  ASSUME NEW S, IsFiniteSet(S), NEW R, IsStrictOrder(S, R)
  PROVE  Enumerates(ArrangedBy(S, R), S, R)
  <1> DEFINE N == Cardinality(S)
             rank == [x \in S |-> Cardinality(Ahead(x, S, R)) + 1]
             places == {<<x, Cardinality(Ahead(x, S, R)) + 1>> : x \in S}
             s == ArrangedBy(S, R)
  <1>1. N \in Nat /\ IsFiniteSet(1 .. N) /\ Cardinality(1 .. N) = N
    BY FS_CardinalityType, FS_Interval
  <1>2. ASSUME NEW x \in S
        PROVE  /\ IsFiniteSet(Ahead(x, S, R))
               /\ Cardinality(Ahead(x, S, R)) \in Nat
               /\ Cardinality(Ahead(x, S, R)) < N
    <2>1. Ahead(x, S, R) \in SUBSET S /\ x \notin Ahead(x, S, R)
      BY DEF Ahead, IsStrictOrder
    <2>2. Ahead(x, S, R) # S
      BY <2>1
    <2>3. IsFiniteSet(Ahead(x, S, R))
      BY <2>1, FS_Subset
    <2>4. Cardinality(Ahead(x, S, R)) <= N /\ Cardinality(Ahead(x, S, R)) # N
      BY <2>1, <2>2, FS_Subset
    <2>5. Cardinality(Ahead(x, S, R)) \in Nat
      BY <2>3, FS_CardinalityType
    <2> HIDE DEF N
    <2> QED
      BY <2>3, <2>4, <2>5, <1>1
  <1>3. ASSUME NEW x \in S, NEW y \in S, <<x, y>> \in R
        PROVE  rank[x] < rank[y]
    <2>1. Ahead(x, S, R) \in SUBSET Ahead(y, S, R)
      BY <1>3 DEF Ahead, IsStrictOrder
    <2>2. x \in Ahead(y, S, R) /\ x \notin Ahead(x, S, R)
      BY <1>3 DEF Ahead, IsStrictOrder
    <2>3. Cardinality(Ahead(x, S, R)) <= Cardinality(Ahead(y, S, R))
      BY <1>2, <2>1, FS_Subset
    <2>4. Cardinality(Ahead(x, S, R)) # Cardinality(Ahead(y, S, R))
      BY <1>2, <2>1, <2>2, FS_Subset
    <2>5. Cardinality(Ahead(x, S, R)) \in Nat /\ Cardinality(Ahead(y, S, R)) \in Nat
      BY <1>2
    <2> QED
      BY <2>3, <2>4, <2>5
  <1>4. rank \in [S -> 1 .. N]
    <2> SUFFICES ASSUME NEW x \in S
                 PROVE  Cardinality(Ahead(x, S, R)) + 1 \in 1 .. N
      OBVIOUS
    <2> HIDE DEF N
    <2> QED
      BY <1>1, <1>2
  <1>5. ASSUME NEW x \in S, NEW y \in S, rank[x] = rank[y] PROVE x = y
    <2>1. ~ (rank[x] < rank[y]) /\ ~ (rank[y] < rank[x])
      <3>1. rank[x] \in Int
        BY <1>4
      <3> HIDE DEF rank
      <3> QED
        BY <3>1, <1>5
    <2> HIDE DEF rank
    <2> QED
      BY <2>1, <1>3 DEF IsStrictOrder
  <1>6. rank \in Injection(S, 1 .. N)
    <2> HIDE DEF rank, N
    <2> QED
      BY <1>4, <1>5 DEF Injection, IsInjective
  <1>7. rank \in Surjection(S, 1 .. N)
    <2> HIDE DEF rank
    <2> QED
      BY <1>6, <1>1, FS_Injection
  <1>8. ASSUME NEW k \in 1 .. N
        PROVE  s[k] \in S /\ rank[s[k]] = k
    <2>1. PICK x \in S : rank[x] = k
      BY <1>7 DEF Surjection
    <2>2. <<x, k>> \in places
      BY <2>1
    <2> DEFINE p == CHOOSE q \in places : q[2] = k
    <2>3. p \in places /\ p[2] = k
      <3>1. \E q \in places : q[2] = k
        <4>1. <<x, k>>[2] = k
          OBVIOUS
        <4> HIDE DEF places
        <4> QED
          BY <2>2, <4>1
      <3> HIDE DEF places
      <3> QED
        BY <3>1
    <2>4. PICK y \in S : p = <<y, Cardinality(Ahead(y, S, R)) + 1>>
      BY <2>3
    <2>5. s[k] = p[1]
      BY DEF ArrangedBy
    <2> HIDE DEF p
    <2>6. p[1] = y /\ rank[y] = k
      BY <2>3, <2>4
    <2> HIDE DEF s
    <2> QED
      BY <2>5, <2>6
  <1>9. s \in [1 .. N -> S]
    <2>1. s = [k \in 1 .. N |-> s[k]]
      BY DEF ArrangedBy
    <2> HIDE DEF s
    <2> QED
      BY <2>1, <1>8
  <1>10. ASSUME NEW x \in S PROVE \E k \in 1 .. N : s[k] = x
    <2>1. rank[x] \in 1 .. N
      BY <1>4
    <2> HIDE DEF rank, s, N
    <2> QED
      BY <2>1, <1>8, <1>5
  <1>11. ASSUME NEW i \in 1 .. N, NEW j \in 1 .. N
         PROVE  i < j <=> <<s[i], s[j]>> \in R
    <2>1. rank[s[i]] = i /\ rank[s[j]] = j /\ s[i] \in S /\ s[j] \in S
      BY <1>8
    <2>2. i \in Int /\ j \in Int
      BY <1>1
    <2>3. CASE <<s[i], s[j]>> \in R
      <3> HIDE DEF rank, s
      <3> QED
        BY <2>1, <2>3, <1>3
    <2>4. CASE <<s[j], s[i]>> \in R
      <3>1. <<s[i], s[j]>> \notin R
        <4> HIDE DEF s
        <4> QED
          BY <2>1, <2>4 DEF IsStrictOrder
      <3> HIDE DEF rank, s
      <3> QED
        BY <2>1, <2>2, <2>4, <1>3, <3>1
    <2>5. CASE s[i] = s[j]
      <3>1. <<s[i], s[j]>> \notin R
        <4> HIDE DEF s
        <4> QED
          BY <2>1, <2>5 DEF IsStrictOrder
      <3>2. i = j
        <4> HIDE DEF rank, s
        <4> QED
          BY <2>1, <2>5
      <3> QED
        BY <2>2, <3>1, <3>2
    <2> HIDE DEF s
    <2> QED
      BY <2>1, <2>3, <2>4, <2>5 DEF IsStrictOrder
  <1>12. ASSUME NEW i \in 1 .. N, NEW j \in 1 .. N, s[i] = s[j] PROVE i = j
    <2>1. rank[s[i]] = i /\ rank[s[j]] = j
      BY <1>8
    <2> HIDE DEF rank, s
    <2> QED
      BY <2>1, <1>12
  <1>13. Enumerates(s, S, R)
    <2> HIDE DEF s
    <2> QED
      BY <1>1, <1>9, <1>10, <1>11, <1>12 DEF Enumerates
  <1> QED
    BY <1>13

-----------------------------------------------------------------------------
(* The rank of a chunk in an arm, and what it is worth.                    *)
IsArm(s) == s \in Seq(Nat) /\ Len(s) <= CandidateK /\ IsInjective(s)

LEMMA MinOfNumbers ==
  ASSUME NEW S \in SUBSET Nat, S # {}
  PROVE  Min(S) \in S /\ \A x \in S : Min(S) <= x
  BY LeastNumber DEF Min

LEMMA RankIs ==
  ASSUME NEW s, IsArm(s), NEW c
  PROVE  /\ Rank(s, c) \in 1 .. NoRank
         /\ c \in ToSet(s) => Rank(s, c) \in 1 .. CandidateK /\ Rank(s, c) \in DOMAIN s
                               /\ s[Rank(s, c)] = c
         /\ c \notin ToSet(s) => Rank(s, c) = NoRank
  <1> DEFINE found == {i \in DOMAIN s : s[i] = c}
  <1>1. DOMAIN s = 1 .. Len(s) /\ Len(s) \in Nat /\ Len(s) <= CandidateK
    BY DEF IsArm
  <1>2. CandidateK \in Nat \ {0} /\ NoRank \in Nat /\ NoRank > CandidateK
    BY RetrievalAssumption DEF NoRank
  <1>3. found \cup {NoRank} \in SUBSET Nat /\ found \cup {NoRank} # {}
    BY <1>1, <1>2
  <1>4. Rank(s, c) \in found \cup {NoRank} /\ \A i \in found : Rank(s, c) <= i
    <2>1. Rank(s, c) = Min(found \cup {NoRank})
      BY DEF Rank
    <2> HIDE DEF found
    <2> QED
      BY <2>1, <1>3, MinOfNumbers
  <1>5. CASE c \in ToSet(s)
    <2>1. PICK i \in DOMAIN s : s[i] = c
      BY <1>5 DEF ToSet
    <2>2. Rank(s, c) <= i /\ i <= CandidateK
      BY <1>1, <1>4, <2>1, <1>2
    <2>3. Rank(s, c) \in found
      BY <1>4, <2>2, <1>2, <1>1
    <2> QED
      BY <2>3, <1>5, <1>1, <1>2
  <1>6. CASE c \notin ToSet(s)
    <2>1. found = {}
      BY <1>6 DEF ToSet
    <2> QED
      BY <2>1, <1>4, <1>6, <1>2, <1>1
  <1> QED
    BY <1>5, <1>6

LEMMA RankOfPlace ==
  ASSUME NEW s, IsArm(s), NEW i \in DOMAIN s
  PROVE  s[i] \in ToSet(s) /\ Rank(s, s[i]) = i
  <1>1. s[i] \in ToSet(s)
    BY DEF ToSet
  <1>2. Rank(s, s[i]) \in DOMAIN s /\ s[Rank(s, s[i])] = s[i]
    BY <1>1, RankIs
  <1> QED
    BY <1>1, <1>2 DEF IsArm, IsInjective

(* The product of positive numbers is a positive multiple of each.         *)
LEMMA ProductIsMultiple ==
  ASSUME NEW S \in SUBSET (Nat \ {0}), IsFiniteSet(S)
  PROVE  /\ ProductSet(S) \in Nat \ {0}
         /\ \A x \in S : \E q \in Nat \ {0} : ProductSet(S) = x * q
  <1> DEFINE Body(f, t) == IF t = {} THEN 1
                           ELSE LET x == CHOOSE x \in t : TRUE IN x * f[t \ {x}]
             pick == [t \in SUBSET S |-> CHOOSE x \in t : TRUE]
             step == [p \in (Nat \ {0}) \X S |-> p[2] * p[1]]
             Pos == Nat \ {0}
             g == CHOOSE f : f = [t \in SUBSET S |-> Body(f, t)]
  <1>1. ProductSet(S) = g[S]
    BY DEF ProductSet, FoldSet, MapThenFoldSet
  <1>2. g = [t \in SUBSET S |-> Body(g, t)] /\ g \in [SUBSET S -> Pos]
    <2>1. \A t \in SUBSET S : t # {} => pick[t] \in t
      OBVIOUS
    <2>2. step \in [Pos \X S -> Pos]
      <3> SUFFICES ASSUME NEW p \in Pos \X S PROVE p[2] * p[1] \in Pos
        OBVIOUS
      <3>1. p[1] \in Nat \ {0} /\ p[2] \in Nat \ {0}
        OBVIOUS
      <3> QED
        BY <3>1
    <2>3. 1 \in Pos
      OBVIOUS
    <2>4. PICK f \in [SUBSET S -> Pos] : Folds(f, S, 1, pick, step)
      <3> HIDE DEF pick, step, Pos
      <3> QED
        BY <2>1, <2>2, <2>3, FoldExists
    <2>5. ASSUME NEW t \in SUBSET S PROVE f[t] = Body(f, t)
      <3>1. CASE t = {}
        BY <3>1, <2>4 DEF Folds
      <3>2. CASE t # {}
        <4> DEFINE x == CHOOSE x \in t : TRUE
        <4>1. f[t] = step[<<f[t \ {x}], x>>]
          BY <2>4, <3>2 DEF Folds
        <4>2. f[t \ {x}] \in Nat \ {0} /\ x \in S
          BY <3>2, <2>4
        <4>3. step[<<f[t \ {x}], x>>] = x * f[t \ {x}]
          <5> HIDE DEF x
          <5> QED
            BY <4>2
        <4> QED
          BY <4>1, <4>3, <3>2
      <3> QED
        BY <3>1, <3>2
    <2>6. f = [t \in SUBSET S |-> Body(f, t)]
      <3> HIDE DEF Body
      <3> QED
        BY <2>5
    <2>7. g = [t \in SUBSET S |-> Body(g, t)]
      <3> HIDE DEF Body
      <3> QED
        BY <2>6
    <2>8. ASSUME NEW h, h = [t \in SUBSET S |-> Body(h, t)]
          PROVE  h \in [SUBSET S -> Pos]
      <3> DEFINE G == {n \in Nat : \A t \in SUBSET S : Cardinality(t) = n => h[t] \in Pos}
      <3>1. 0 \in G
        <4>1. ASSUME NEW t \in SUBSET S, Cardinality(t) = 0 PROVE h[t] \in Pos
          <5>1. t = {}
            BY <4>1, FS_Subset, FS_EmptySet
          <5>2. h[t] = Body(h, t)
            BY <2>8
          <5> QED
            BY <5>1, <5>2
        <4> QED
          BY <4>1
      <3>2. ASSUME NEW n \in Nat, n \in G PROVE n + 1 \in G
        <4>1. ASSUME NEW t \in SUBSET S, Cardinality(t) = n + 1 PROVE h[t] \in Pos
          <5> DEFINE x == CHOOSE x \in t : TRUE
          <5>1. t # {} /\ x \in t
            BY <4>1, FS_EmptySet
          <5>2. t \ {x} \in SUBSET S /\ Cardinality(t \ {x}) = n
            <6> HIDE DEF x, G
            <6> QED
              BY <4>1, <5>1, OneLess
          <5>3. h[t \ {x}] \in Nat \ {0} /\ x \in Nat \ {0}
            <6> HIDE DEF x
            <6> QED
              BY <5>1, <5>2, <3>2
          <5>4. h[t] = x * h[t \ {x}]
            BY <2>8, <5>1
          <5> HIDE DEF x
          <5> QED
            BY <5>3, <5>4
        <4> QED
          BY <4>1
      <3>3. \A n \in Nat : n \in G
        <4> HIDE DEF G
        <4> QED
          BY <3>1, <3>2, Counting
      <3>4. ASSUME NEW t \in SUBSET S PROVE h[t] \in Pos
        <4>1. Cardinality(t) \in Nat
          BY FS_Subset, FS_CardinalityType
        <4> QED
          BY <4>1, <3>3
      <3> HIDE DEF Body, Pos
      <3> QED
        BY <3>4, <2>8
    <2> HIDE DEF g, Body
    <2> QED
      BY <2>7, <2>8
  <1>3. ASSUME NEW x \in S PROVE \E q \in Nat \ {0} : g[S] = x * q
    <2> HIDE DEF g
    <2> DEFINE G == {n \in Nat : \A t \in SUBSET S : Cardinality(t) = n /\ x \in t =>
                                    \E q \in Nat \ {0} : g[t] = x * q}
    <2>1. 0 \in G
      <3>1. ASSUME NEW t \in SUBSET S, Cardinality(t) = 0 PROVE x \notin t
        BY <3>1, FS_Subset, FS_EmptySet
      <3> QED
        BY <3>1
    <2>2. ASSUME NEW n \in Nat, n \in G PROVE n + 1 \in G
      <3>1. ASSUME NEW t \in SUBSET S, Cardinality(t) = n + 1, x \in t
            PROVE  \E q \in Nat \ {0} : g[t] = x * q
        <4> DEFINE y == CHOOSE y \in t : TRUE
        <4>1. y \in t /\ y \in Nat \ {0} /\ x \in Nat \ {0}
          BY <3>1
        <4>2. g[t] = y * g[t \ {y}]
          BY <1>2, <3>1
        <4> HIDE DEF y
        <4>3. t \ {y} \in SUBSET S /\ Cardinality(t \ {y}) = n
          <5> HIDE DEF G
          <5> QED
            BY <3>1, <4>1, OneLess
        <4>4. g[t \ {y}] \in Nat \ {0}
          BY <1>2, <4>3
        <4>5. CASE x = y
          BY <4>2, <4>4, <4>5
        <4>6. CASE x # y
          <5>1. PICK q \in Nat \ {0} : g[t \ {y}] = x * q
            BY <2>2, <4>3, <4>6, <3>1
          <5>2. y * q \in Nat \ {0} /\ y * (x * q) = x * (y * q)
            BY <4>1
          <5> QED
            BY <4>2, <5>1, <5>2
        <4> QED
          BY <4>5, <4>6
      <3> QED
        BY <3>1
    <2>3. Cardinality(S) \in G
      <3>1. Cardinality(S) \in Nat
        BY FS_CardinalityType
      <3> HIDE DEF G
      <3> QED
        BY <2>1, <2>2, <3>1, Counting
    <2> QED
      BY <2>3
  <1>4. g[S] \in Nat \ {0}
    <2> HIDE DEF g
    <2> QED
      BY <1>2
  <1> HIDE DEF g
  <1> QED
    BY <1>1, <1>3, <1>4

LEMMA TermIs ==
  /\ RrfScale \in Nat \ {0}
  /\ \A i \in 1 .. CandidateK :
       RrfTerm(i) \in Nat \ {0} /\ RrfScale = (RrfK + i) * RrfTerm(i)
  <1> DEFINE ranks == {RrfK + i : i \in 1 .. CandidateK}
  <1>1. RrfK \in Nat /\ CandidateK \in Nat /\ NoRank = CandidateK + 1
    BY RetrievalAssumption DEF NoRank
  <1>2. ranks \in SUBSET (Nat \ {0})
    BY <1>1
  <1>3. IsFiniteSet(ranks)
    <2>1. ranks \in SUBSET (0 .. (RrfK + CandidateK))
      BY <1>1
    <2>2. IsFiniteSet(0 .. (RrfK + CandidateK))
      BY <1>1, FS_Interval
    <2> HIDE DEF ranks
    <2> QED
      BY <2>1, <2>2, FS_Subset
  <1>4. RrfScale = ProductSet(ranks)
    BY DEF RrfScale
  <1>5. RrfScale \in Nat \ {0} /\ \A x \in ranks : \E q \in Nat \ {0} : RrfScale = x * q
    <2> HIDE DEF ranks
    <2> QED
      BY <1>2, <1>3, <1>4, ProductIsMultiple
  <1>6. ASSUME NEW i \in 1 .. CandidateK
        PROVE  RrfTerm(i) \in Nat \ {0} /\ RrfScale = (RrfK + i) * RrfTerm(i)
    <2>1. PICK q \in Nat \ {0} : RrfScale = (RrfK + i) * q
      BY <1>5
    <2>2. RrfK + i \in Nat \ {0} /\ i # NoRank
      BY <1>1
    <2>3. ((RrfK + i) * q) \div (RrfK + i) = q
      <3>1. ASSUME NEW d \in Nat \ {0} PROVE (d * q) \div d = q
        BY <3>1
      <3> QED
        BY <3>1, <2>2
    <2>4. RrfTerm(i) = q
      BY <2>1, <2>2, <2>3 DEF RrfTerm
    <2> QED
      BY <2>1, <2>4
  <1> QED
    BY <1>5, <1>6

(* A better rank is worth strictly more.                                   *)
LEMMA TermsFall ==
  ASSUME NEW i \in 1 .. NoRank, NEW j \in 1 .. NoRank
  PROVE  /\ RrfTerm(i) \in Nat
         /\ i < j => RrfTerm(j) < RrfTerm(i)
         /\ i <= j => RrfTerm(j) <= RrfTerm(i)
  <1>1. RrfK \in Nat /\ CandidateK \in Nat /\ NoRank = CandidateK + 1
    BY RetrievalAssumption DEF NoRank
  <1>2. RrfTerm(NoRank) = 0
    BY DEF RrfTerm
  <1>3. ASSUME NEW k \in 1 .. NoRank PROVE RrfTerm(k) \in Nat
    <2>1. CASE k = NoRank
      BY <1>2, <2>1
    <2>2. CASE k # NoRank
      BY <1>1, <2>2, TermIs
    <2> QED
      BY <2>1, <2>2
  <1>4. ASSUME i < j PROVE RrfTerm(j) < RrfTerm(i)
    <2>1. i \in 1 .. CandidateK /\ RrfTerm(i) \in Nat \ {0}
      BY <1>1, <1>4, TermIs
    <2>2. CASE j = NoRank
      BY <1>2, <2>1, <2>2
    <2>3. CASE j # NoRank
      <3>1. j \in 1 .. CandidateK /\ RrfTerm(j) \in Nat \ {0}
        BY <1>1, <2>3, TermIs
      <3>2. (RrfK + i) * RrfTerm(i) = (RrfK + j) * RrfTerm(j)
        BY <2>1, <3>1, TermIs
      <3>3. ASSUME NEW a \in Nat \ {0}, NEW b \in Nat \ {0}, a < b,
                   NEW p \in Nat \ {0}, NEW q \in Nat \ {0}, a * p = b * q
            PROVE  q < p
        <4> SUFFICES ASSUME p <= q PROVE FALSE
          BY <3>3
        <4>1. a * p <= a * q
          OBVIOUS
        <4>2. a * q < b * q
          BY <3>3
        <4> QED
          BY <4>1, <4>2, <3>3
      <3>4. RrfK + i \in Nat \ {0} /\ RrfK + j \in Nat \ {0} /\ RrfK + i < RrfK + j
        BY <1>1, <1>4
      <3> QED
        BY <2>1, <3>1, <3>2, <3>3, <3>4
    <2> QED
      BY <2>2, <2>3
  <1>5. ASSUME i <= j PROVE RrfTerm(j) <= RrfTerm(i)
    <2>1. CASE i = j
      BY <2>1, <1>3
    <2>2. CASE i # j
      BY <2>2, <1>5, <1>4, <1>3, <1>1
    <2> QED
      BY <2>1, <2>2
  <1> QED
    BY <1>3, <1>4, <1>5

-----------------------------------------------------------------------------
(* Fusion: what either arm found, each chunk once, by its score and then   *)
(* by when it was inserted.                                                *)
FusedAhead(lexical, vector, c, d) ==
  \/ RrfScore(lexical, vector, c) > RrfScore(lexical, vector, d)
  \/ /\ RrfScore(lexical, vector, c) = RrfScore(lexical, vector, d)
     /\ Inserted(lexical, vector, c) < Inserted(lexical, vector, d)

LEMMA ElementsFinite ==
  ASSUME NEW S, NEW s \in Seq(S)
  PROVE  IsFiniteSet(ToSet(s)) /\ ToSet(s) \in SUBSET S
  <1>1. DOMAIN s = 1 .. Len(s) /\ Len(s) \in Nat /\ \A i \in DOMAIN s : s[i] \in S
    OBVIOUS
  <1>2. s \in Surjection(1 .. Len(s), ToSet(s))
    <2>1. s \in [1 .. Len(s) -> ToSet(s)]
      BY <1>1 DEF ToSet
    <2> QED
      BY <2>1, <1>1 DEF Surjection, ToSet
  <1>3. IsFiniteSet(1 .. Len(s))
    BY <1>1, FS_Interval
  <1>4. IsFiniteSet(ToSet(s))
    BY <1>2, <1>3, FS_Surjection
  <1> QED
    BY <1>1, <1>4 DEF ToSet

LEMMA ScoreTyped ==
  ASSUME NEW lexical, NEW vector, IsArm(lexical), IsArm(vector), NEW c
  PROVE  RrfScore(lexical, vector, c) \in Nat
  <1>1. RrfTerm(Rank(lexical, c)) \in Nat /\ RrfTerm(Rank(vector, c)) \in Nat
    BY RankIs, TermsFall
  <1> QED
    BY <1>1 DEF RrfScore

LEMMA InsertedApart ==
  ASSUME NEW lexical, NEW vector, IsArm(lexical), IsArm(vector),
         NEW c \in ToSet(lexical) \cup ToSet(vector)
  PROVE  /\ Inserted(lexical, vector, c) \in Nat
         /\ \A d \in ToSet(lexical) \cup ToSet(vector) :
              Inserted(lexical, vector, c) = Inserted(lexical, vector, d) => c = d
  <1>1. CandidateK \in Nat
    BY RetrievalAssumption
  <1>2. ASSUME NEW d \in ToSet(lexical) \cup ToSet(vector)
        PROVE  \/ /\ d \in ToSet(lexical) /\ lexical[Rank(lexical, d)] = d
                  /\ Rank(lexical, d) \in 1 .. CandidateK
                  /\ Inserted(lexical, vector, d) = Rank(lexical, d)
               \/ /\ d \in ToSet(vector) /\ vector[Rank(vector, d)] = d
                  /\ Rank(vector, d) \in 1 .. CandidateK
                  /\ Inserted(lexical, vector, d) = CandidateK + Rank(vector, d)
    <2>1. CASE d \in ToSet(lexical)
      BY <2>1, RankIs DEF Inserted
    <2>2. CASE d \notin ToSet(lexical)
      BY <2>2, RankIs DEF Inserted
    <2> QED
      BY <2>1, <2>2
  <1>3. Inserted(lexical, vector, c) \in Nat
    BY <1>1, <1>2
  <1>4. ASSUME NEW d \in ToSet(lexical) \cup ToSet(vector),
               Inserted(lexical, vector, c) = Inserted(lexical, vector, d)
        PROVE  c = d
    <2>1. \/ Rank(lexical, c) = Rank(lexical, d) /\ lexical[Rank(lexical, c)] = c
             /\ lexical[Rank(lexical, d)] = d
          \/ Rank(vector, c) = Rank(vector, d) /\ vector[Rank(vector, c)] = c
             /\ vector[Rank(vector, d)] = d
      BY <1>1, <1>2, <1>4
    <2> QED
      BY <2>1
  <1> QED
    BY <1>3, <1>4

LEMMA FusedOrderIs ==
  ASSUME NEW lexical, NEW vector, IsArm(lexical), IsArm(vector)
  PROVE  LET order == FusedOrder(lexical, vector)
         IN /\ order \in Seq(Nat)
            /\ ToSet(order) = ToSet(lexical) \cup ToSet(vector)
            /\ IsInjective(order)
            /\ \A i, j \in DOMAIN order :
                 i < j <=> FusedAhead(lexical, vector, order[i], order[j])
  <1> DEFINE found == ToSet(lexical) \cup ToSet(vector)
             Entry(c) == [chunk |-> c, place |-> Inserted(lexical, vector, c),
                          score |-> RrfScore(lexical, vector, c)]
             F == Fused(lexical, vector)
             R == {p \in F \X F :
                     \/ p[1].score > p[2].score
                     \/ p[1].score = p[2].score /\ p[1].place < p[2].place}
             sorted == ArrangedBy(F, R)
             order == FusedOrder(lexical, vector)
  <1>1. IsFiniteSet(found) /\ found \in SUBSET Nat
    <2>1. IsFiniteSet(ToSet(lexical)) /\ IsFiniteSet(ToSet(vector))
      BY ElementsFinite DEF IsArm
    <2>2. ToSet(lexical) \in SUBSET Nat /\ ToSet(vector) \in SUBSET Nat
      BY ElementsFinite DEF IsArm
    <2> QED
      BY <2>1, <2>2, FS_Union
  <1>2. F = {Entry(c) : c \in found}
    BY DEF Fused
  <1>3. IsFiniteSet(F)
    <2> DEFINE entry == [c \in found |-> Entry(c)]
    <2>1. entry \in Surjection(found, F)
      BY <1>2 DEF Surjection
    <2> HIDE DEF entry, found, F
    <2> QED
      BY <2>1, <1>1, FS_Surjection
  <1>4. ASSUME NEW c \in found
        PROVE  /\ RrfScore(lexical, vector, c) \in Nat
               /\ Inserted(lexical, vector, c) \in Nat
               /\ \A d \in found :
                    Inserted(lexical, vector, c) = Inserted(lexical, vector, d) => c = d
    BY ScoreTyped, InsertedApart
  <1>5. ASSUME NEW a \in F, NEW b \in F
        PROVE  /\ a = Entry(a.chunk) /\ a.chunk \in found
               /\ a.score \in Nat /\ a.place \in Nat
               /\ a.place = b.place => a = b
               /\ <<a, b>> \in R <=> FusedAhead(lexical, vector, a.chunk, b.chunk)
    <2>1. PICK c \in found : a = Entry(c)
      BY <1>2
    <2>2. PICK d \in found : b = Entry(d)
      BY <1>2
    <2>3. /\ a.chunk = c /\ a.score = RrfScore(lexical, vector, c)
          /\ a.place = Inserted(lexical, vector, c)
          /\ b.chunk = d /\ b.score = RrfScore(lexical, vector, d)
          /\ b.place = Inserted(lexical, vector, d)
      BY <2>1, <2>2
    <2>4. a.place = b.place => a = b
      BY <2>1, <2>2, <2>3, <1>4
    <2>5. <<a, b>> \in R <=> FusedAhead(lexical, vector, c, d)
      <3> HIDE DEF F
      <3> QED
        BY <2>3 DEF FusedAhead
    <2> QED
      BY <2>1, <2>3, <2>4, <2>5, <1>4
  <1>6. IsStrictOrder(F, R)
    <2>1. ASSUME NEW a \in F, NEW b \in F
          PROVE  /\ a.score \in Nat /\ a.place \in Nat
                 /\ b.score \in Nat /\ b.place \in Nat
                 /\ a.place = b.place => a = b
                 /\ <<a, b>> \in R <=> a.score > b.score
                                      \/ (a.score = b.score /\ a.place < b.place)
      <3>1. /\ a.score \in Nat /\ a.place \in Nat
            /\ b.score \in Nat /\ b.place \in Nat
            /\ a.place = b.place => a = b
        BY <1>5
      <3> HIDE DEF F
      <3> QED
        BY <3>1
    <2> HIDE DEF F, R
    <2>2. \A a \in F : <<a, a>> \notin R
      BY <2>1
    <2>3. \A a, b \in F : a # b => <<a, b>> \in R \/ <<b, a>> \in R
      <3> SUFFICES ASSUME NEW a \in F, NEW b \in F, a # b
                   PROVE  <<a, b>> \in R \/ <<b, a>> \in R
        OBVIOUS
      <3>1. <<a, b>> \in R <=> a.score > b.score \/ (a.score = b.score /\ a.place < b.place)
        BY <2>1
      <3>2. <<b, a>> \in R <=> b.score > a.score \/ (b.score = a.score /\ b.place < a.place)
        BY <2>1
      <3>3. /\ a.score \in Nat /\ a.place \in Nat /\ b.score \in Nat /\ b.place \in Nat
            /\ a.place # b.place
        BY <2>1
      <3> QED
        BY <3>1, <3>2, <3>3
    <2>4. \A a, b, c \in F : <<a, b>> \in R /\ <<b, c>> \in R => <<a, c>> \in R
      <3> SUFFICES ASSUME NEW a \in F, NEW b \in F, NEW c \in F,
                          <<a, b>> \in R, <<b, c>> \in R
                   PROVE  <<a, c>> \in R
        OBVIOUS
      <3>1. a.score > b.score \/ (a.score = b.score /\ a.place < b.place)
        BY <2>1
      <3>2. b.score > c.score \/ (b.score = c.score /\ b.place < c.place)
        BY <2>1
      <3>3. /\ a.score \in Nat /\ a.place \in Nat /\ b.score \in Nat /\ b.place \in Nat
            /\ c.score \in Nat /\ c.place \in Nat
        BY <2>1
      <3>4. a.score > c.score \/ (a.score = c.score /\ a.place < c.place)
        BY <3>1, <3>2, <3>3
      <3> QED
        BY <3>4, <2>1
    <2> QED
      BY <2>2, <2>3, <2>4 DEF IsStrictOrder
  <1>7. Enumerates(sorted, F, R)
    <2> HIDE DEF F, R
    <2> QED
      BY <1>3, <1>6, ArrangedEnumerates
  <1>8. order = [i \in DOMAIN sorted |-> sorted[i].chunk]
    <2> DEFINE G(a, b) == a.score > b.score \/ (a.score = b.score /\ a.place < b.place)
    <2>1. ASSUME NEW x \in F PROVE {y \in F : G(y, x)} = Ahead(x, F, R)
      <3> HIDE DEF F
      <3> QED
        BY DEF Ahead
    <2> DEFINE here == {<<x, Cardinality({y \in F : G(y, x)}) + 1>> : x \in F}
               there == {<<x, Cardinality(Ahead(x, F, R)) + 1>> : x \in F}
               Nth(places) ==
                 [k \in 1 .. Cardinality(F) |-> (CHOOSE p \in places : p[2] = k)[1]]
    <2>2. here = there
      <3> HIDE DEF F, R, G
      <3> QED
        BY <2>1
    <2>3. Nth(here) = Nth(there)
      <3> HIDE DEF here, there, Nth
      <3> QED
        BY <2>2
    <2>4. sorted = Nth(there)
      BY DEF ArrangedBy
    <2>5. order = [i \in DOMAIN Nth(here) |-> Nth(here)[i].chunk]
      BY DEF FusedOrder, Arranged
    <2> HIDE DEF here, there, Nth, sorted
    <2> QED
      BY <2>3, <2>4, <2>5
  <1> DEFINE N == Cardinality(F)
  <1>9. N \in Nat /\ sorted \in [1 .. N -> F] /\ DOMAIN sorted = 1 .. N
    <2> HIDE DEF F, R, sorted
    <2> QED
      BY <1>7 DEF Enumerates
  <1> HIDE DEF sorted
  <1>10. /\ DOMAIN order = 1 .. N
         /\ \A i \in 1 .. N : order[i] = sorted[i].chunk /\ sorted[i] \in F
                             /\ order[i] \in found /\ sorted[i] = Entry(order[i])
    <2>1. \A i \in 1 .. N : sorted[i] \in F
      BY <1>9
    <2>2. \A i \in 1 .. N : sorted[i].chunk \in found /\ sorted[i] = Entry(sorted[i].chunk)
      <3> HIDE DEF F, found, N, Entry
      <3> QED
        BY <2>1, <1>5
    <2> HIDE DEF F, found, N, Entry, order
    <2> QED
      BY <2>1, <2>2, <1>8, <1>9
  <1>11. order \in Seq(Nat)
    <2>1. order \in [1 .. N -> Nat]
      <3> HIDE DEF N, F, order, found, Entry
      <3>1. order = [i \in 1 .. N |-> order[i]]
        BY <1>8, <1>9
      <3>2. \A i \in 1 .. N : order[i] \in Nat
        BY <1>10, <1>1
      <3> QED
        BY <3>1, <3>2
    <2> HIDE DEF N, order
    <2> QED
      BY <2>1, <1>9
  <1>12. ToSet(order) = found
    <2>1. ASSUME NEW c \in found PROVE c \in ToSet(order)
      <3>1. Entry(c) \in F
        BY <1>2
      <3>2. PICK i \in 1 .. N : sorted[i] = Entry(c)
        <4> HIDE DEF F, Entry, R
        <4> QED
          BY <3>1, <1>7 DEF Enumerates
      <3>3. order[i] = c
        <4>1. order[i] = sorted[i].chunk
          BY <1>10
        <4> HIDE DEF order
        <4> QED
          BY <4>1, <3>2
      <3> HIDE DEF order, N
      <3> QED
        BY <3>3, <1>10 DEF ToSet
    <2> HIDE DEF order, N, found, Entry
    <2> QED
      BY <2>1, <1>10 DEF ToSet
  <1>13. IsInjective(order)
    <2> HIDE DEF order, F, found, Entry
    <2>1. ASSUME NEW i \in 1 .. N, NEW j \in 1 .. N, order[i] = order[j] PROVE i = j
      <3>1. sorted[i] = sorted[j]
        BY <1>10, <2>1
      <3> QED
        BY <3>1, <1>7 DEF Enumerates
    <2> QED
      BY <2>1, <1>10 DEF IsInjective
  <1>14. ASSUME NEW i \in DOMAIN order, NEW j \in DOMAIN order
         PROVE  i < j <=> FusedAhead(lexical, vector, order[i], order[j])
    <2> HIDE DEF order, F, found, Entry, R
    <2>1. i \in 1 .. N /\ j \in 1 .. N
      BY <1>10
    <2>2. i < j <=> <<sorted[i], sorted[j]>> \in R
      BY <2>1, <1>7 DEF Enumerates
    <2>3. sorted[i] \in F /\ sorted[j] \in F /\ order[i] = sorted[i].chunk
          /\ order[j] = sorted[j].chunk
      BY <2>1, <1>10
    <2> QED
      BY <2>2, <2>3, <1>5
  <1>15. \A i, j \in DOMAIN order :
           i < j <=> FusedAhead(lexical, vector, order[i], order[j])
    BY <1>14
  <1> QED
    BY <1>11, <1>12, <1>13, <1>15

(* A chunk no arm ranks below another never comes behind it.               *)
LEMMA FusionRespects ==
  ASSUME NEW lexical, NEW vector, IsArm(lexical), IsArm(vector),
         NEW i \in DOMAIN FusedOrder(lexical, vector),
         NEW j \in DOMAIN FusedOrder(lexical, vector),
         Rank(lexical, FusedOrder(lexical, vector)[i])
           <= Rank(lexical, FusedOrder(lexical, vector)[j]),
         Rank(vector, FusedOrder(lexical, vector)[i])
           <= Rank(vector, FusedOrder(lexical, vector)[j])
  PROVE  i <= j
  <1> DEFINE c == FusedOrder(lexical, vector)[i]
             d == FusedOrder(lexical, vector)[j]
  <1>1. i \in Int /\ j \in Int
    BY FusedOrderIs
  <1> SUFFICES ASSUME j < i PROVE FALSE
    BY <1>1
  <1>2. FusedAhead(lexical, vector, d, c)
    BY FusedOrderIs
  <1>3. /\ Rank(lexical, c) \in 1 .. NoRank /\ Rank(lexical, d) \in 1 .. NoRank
        /\ Rank(vector, c) \in 1 .. NoRank /\ Rank(vector, d) \in 1 .. NoRank
    BY RankIs
  <1>4. /\ RrfTerm(Rank(lexical, d)) <= RrfTerm(Rank(lexical, c))
        /\ RrfTerm(Rank(vector, d)) <= RrfTerm(Rank(vector, c))
        /\ RrfTerm(Rank(lexical, d)) \in Nat /\ RrfTerm(Rank(lexical, c)) \in Nat
        /\ RrfTerm(Rank(vector, d)) \in Nat /\ RrfTerm(Rank(vector, c)) \in Nat
    BY <1>3, TermsFall
  <1>5. RrfScore(lexical, vector, d) <= RrfScore(lexical, vector, c)
    <2> HIDE DEF c, d
    <2> QED
      BY <1>4 DEF RrfScore
  <1>6. Inserted(lexical, vector, d) < Inserted(lexical, vector, c)
    <2>1. RrfScore(lexical, vector, c) \in Nat /\ RrfScore(lexical, vector, d) \in Nat
      BY ScoreTyped
    <2> HIDE DEF c, d
    <2> QED
      BY <1>2, <1>5, <2>1 DEF FusedAhead
  <1>7. CandidateK \in Nat /\ NoRank = CandidateK + 1
    BY RetrievalAssumption DEF NoRank
  <1>8. c \notin ToSet(lexical) => Rank(lexical, c) = NoRank
    BY RankIs
  <1>9. d \in ToSet(lexical) => Rank(lexical, d) <= CandidateK
    BY RankIs, <1>7
  <1> HIDE DEF c, d
  <1>10. CASE c \in ToSet(lexical)
    <2>1. CASE d \in ToSet(lexical)
      BY <1>3, <1>6, <1>10, <2>1 DEF Inserted, c, d
    <2>2. CASE d \notin ToSet(lexical)
      <3>1. Rank(lexical, c) <= CandidateK
        BY RankIs, <1>10, <1>7
      <3> QED
        BY <3>1, <1>3, <1>6, <1>7, <1>10, <2>2 DEF Inserted
    <2> QED
      BY <2>1, <2>2
  <1>11. CASE c \notin ToSet(lexical)
    <2>1. d \notin ToSet(lexical)
      <3>1. Rank(lexical, c) <= Rank(lexical, d)
        BY DEF c, d
      <3> QED
        BY <3>1, <1>3, <1>7, <1>8, <1>9, <1>11
    <2>2. Rank(vector, c) <= Rank(vector, d)
      BY DEF c, d
    <2> QED
      BY <1>3, <1>6, <1>7, <1>11, <2>1, <2>2 DEF Inserted
  <1> QED
    BY <1>10, <1>11

LEMMA MinOfTwo ==
  ASSUME NEW a \in Nat, NEW b \in Nat
  PROVE  Min({a, b}) = IF a <= b THEN a ELSE b
  <1>1. Min({a, b}) \in {a, b} /\ Min({a, b}) <= a /\ Min({a, b}) <= b
    BY MinOfNumbers
  <1> QED
    BY <1>1

LEMMA MaxOfTwo ==
  ASSUME NEW a \in Nat, NEW b \in Nat
  PROVE  Max({a, b}) = IF a <= b THEN b ELSE a
  <1>1. \E m \in {a, b} : \A x \in {a, b} : m >= x
    <2>1. CASE a <= b
      BY <2>1
    <2>2. CASE ~ (a <= b)
      BY <2>2
    <2> QED
      BY <2>1, <2>2
  <1>2. Max({a, b}) \in {a, b} /\ \A x \in {a, b} : Max({a, b}) >= x
    BY <1>1 DEF Max
  <1>3. Max({a, b}) >= a /\ Max({a, b}) >= b
    BY <1>2
  <1> QED
    BY <1>2, <1>3

LEMMA CutIs ==
  ASSUME NEW S, NEW s \in Seq(S), NEW n \in Nat
  PROVE  /\ Cut(s, n) \in Seq(S)
         /\ Len(Cut(s, n)) = IF n <= Len(s) THEN n ELSE Len(s)
         /\ \A i \in 1 .. Len(Cut(s, n)) : i \in DOMAIN s /\ Cut(s, n)[i] = s[i]
  <1> DEFINE m == Min({n, Len(s)})
  <1>1. Len(s) \in Nat /\ DOMAIN s = 1 .. Len(s) /\ \A i \in DOMAIN s : s[i] \in S
    OBVIOUS
  <1>2. m = IF n <= Len(s) THEN n ELSE Len(s)
    BY <1>1, MinOfTwo
  <1>3. m \in Nat /\ m <= Len(s)
    BY <1>1, <1>2
  <1>4. \A i \in 1 .. m : i \in DOMAIN s /\ s[i] \in S
    BY <1>1, <1>3
  <1>5. Cut(s, n) = SubSeq(s, 1, m)
    BY DEF Cut
  <1> HIDE DEF m
  <1>6. /\ SubSeq(s, 1, m) \in Seq(S)
        /\ Len(SubSeq(s, 1, m)) = IF 1 <= m THEN m - 1 + 1 ELSE 0
        /\ \A i \in 1 .. m - 1 + 1 : SubSeq(s, 1, m)[i] = s[1 + i - 1]
    BY <1>3, <1>4, SubSeqProperties
  <1>7. Len(SubSeq(s, 1, m)) = m
    BY <1>3, <1>6
  <1>8. \A i \in 1 .. m : SubSeq(s, 1, m)[i] = s[i]
    <2> TAKE i \in 1 .. m
    <2>1. i \in 1 .. m - 1 + 1 /\ 1 + i - 1 = i
      BY <1>3
    <2> QED
      BY <1>6, <2>1
  <1> QED
    BY <1>2, <1>4, <1>5, <1>6, <1>7, <1>8

LEMMA FewAhead ==
  ASSUME NEW p \in Nat \ {0}, NEW k \in Nat, NEW g \in [1 .. (p - 1) -> 1 .. k],
         \A i, j \in 1 .. (p - 1) : g[i] = g[j] => i = j
  PROVE  p <= k + 1
  <1>1. IsFiniteSet(1 .. k) /\ Cardinality(1 .. k) = k
    BY FS_Interval
  <1>2. Cardinality(1 .. (p - 1)) = p - 1
    BY FS_Interval
  <1>3. g \in Injection(1 .. (p - 1), 1 .. k)
    BY DEF Injection, IsInjective
  <1>4. Cardinality(1 .. (p - 1)) <= Cardinality(1 .. k)
    BY <1>1, <1>3, FS_Injection
  <1> QED
    BY <1>1, <1>2, <1>4

(* Only the other full-text results can come before the best of them.      *)
LEMMA LexicalBestIsEarly ==
  ASSUME NEW lexical, NEW vector, IsArm(lexical), IsArm(vector), lexical # << >>
  PROVE  \E p \in DOMAIN FusedOrder(lexical, vector) :
           FusedOrder(lexical, vector)[p] = lexical[1] /\ p <= CandidateK + 1
  <1> DEFINE order == FusedOrder(lexical, vector)
             best == lexical[1]
  <1>1. CandidateK \in Nat \ {0} /\ NoRank = CandidateK + 1
    BY RetrievalAssumption DEF NoRank
  <1>2. 1 \in DOMAIN lexical /\ best \in ToSet(lexical) /\ Rank(lexical, best) = 1
    <2>1. 1 \in DOMAIN lexical
      BY DEF IsArm
    <2> QED
      BY <2>1, RankOfPlace
  <1>3. /\ order \in Seq(Nat) /\ ToSet(order) = ToSet(lexical) \cup ToSet(vector)
        /\ IsInjective(order) /\ DOMAIN order = 1 .. Len(order) /\ Len(order) \in Nat
    BY FusedOrderIs
  <1>4. PICK p \in DOMAIN order : order[p] = best
    BY <1>2, <1>3 DEF ToSet
  <1>5. ASSUME NEW i \in 1 .. (p - 1)
        PROVE  i \in DOMAIN order /\ order[i] \in ToSet(lexical)
    <2>1. i \in DOMAIN order /\ i < p
      BY <1>3
    <2>2. FusedAhead(lexical, vector, order[i], best)
      BY <2>1, <1>4, FusedOrderIs
    <2> SUFFICES ASSUME order[i] \notin ToSet(lexical) PROVE FALSE
      BY <2>1
    <2> HIDE DEF order, best
    <2>3. /\ Rank(lexical, order[i]) = NoRank
          /\ Rank(vector, order[i]) \in 1 .. NoRank
          /\ Rank(vector, best) \in 1 .. NoRank
      BY RankIs
    <2>4. RrfTerm(NoRank) = 0
      BY DEF RrfTerm
    <2>5. /\ RrfTerm(Rank(vector, order[i])) <= RrfTerm(1)
          /\ RrfTerm(Rank(vector, order[i])) \in Nat /\ RrfTerm(1) \in Nat
          /\ RrfTerm(Rank(vector, best)) \in Nat
      BY <2>3, <1>1, TermsFall
    <2>6. RrfScore(lexical, vector, order[i]) <= RrfScore(lexical, vector, best)
      BY <1>2, <2>3, <2>4, <2>5 DEF RrfScore
    <2>7. RrfScore(lexical, vector, order[i]) \in Nat /\ RrfScore(lexical, vector, best) \in Nat
      BY ScoreTyped
    <2>8. Inserted(lexical, vector, order[i]) < Inserted(lexical, vector, best)
      BY <2>2, <2>6, <2>7 DEF FusedAhead
    <2> QED
      BY <2>8, <2>3, <1>1, <1>2 DEF Inserted
  <1> DEFINE g == [i \in 1 .. (p - 1) |-> Rank(lexical, order[i])]
  <1>6. g \in [1 .. (p - 1) -> 1 .. CandidateK]
    <2> HIDE DEF order
    <2> QED
      BY <1>5, RankIs
  <1>7. ASSUME NEW i \in 1 .. (p - 1), NEW j \in 1 .. (p - 1), g[i] = g[j] PROVE i = j
    <2> HIDE DEF order
    <2>1. lexical[Rank(lexical, order[i])] = order[i] /\ lexical[Rank(lexical, order[j])] = order[j]
      BY <1>5, RankIs
    <2>2. order[i] = order[j]
      BY <2>1, <1>7
    <2> QED
      BY <2>2, <1>3, <1>5 DEF IsInjective
  <1>8. p <= CandidateK + 1
    <2>1. p \in Nat \ {0} /\ CandidateK \in Nat
      BY <1>1, <1>3
    <2> HIDE DEF g
    <2> QED
      BY <2>1, <1>6, <1>7, FewAhead
  <1> QED
    BY <1>4, <1>8

(* Before the nearest chunk come other near ones, and of those only full   *)
(* text found at most the best: any other is worth less.                   *)
LEMMA VectorBestIsEarly ==
  ASSUME NEW lexical, NEW vector, IsArm(lexical), IsArm(vector), vector # << >>
  PROVE  \E p \in DOMAIN FusedOrder(lexical, vector) :
           FusedOrder(lexical, vector)[p] = vector[1] /\ p <= CandidateK + 1
  <1> DEFINE order == FusedOrder(lexical, vector)
             best == vector[1]
  <1>1. CandidateK \in Nat \ {0} /\ NoRank = CandidateK + 1
    BY RetrievalAssumption DEF NoRank
  <1>2. 1 \in DOMAIN vector /\ best \in ToSet(vector) /\ Rank(vector, best) = 1
    <2>1. 1 \in DOMAIN vector
      BY DEF IsArm
    <2> QED
      BY <2>1, RankOfPlace
  <1>3. /\ order \in Seq(Nat) /\ ToSet(order) = ToSet(lexical) \cup ToSet(vector)
        /\ IsInjective(order) /\ DOMAIN order = 1 .. Len(order) /\ Len(order) \in Nat
    BY FusedOrderIs
  <1>4. PICK p \in DOMAIN order : order[p] = best
    BY <1>2, <1>3 DEF ToSet
  <1>5. ASSUME NEW i \in 1 .. (p - 1)
        PROVE  /\ i \in DOMAIN order
               /\ order[i] \in ToSet(vector) => Rank(vector, order[i]) \in 2 .. CandidateK
               /\ order[i] \notin ToSet(vector) =>
                    order[i] \in ToSet(lexical) /\ Rank(lexical, order[i]) = 1
    <2>1. i \in DOMAIN order /\ i < p /\ i # p
      BY <1>3
    <2>2. FusedAhead(lexical, vector, order[i], best)
      BY <2>1, <1>4, FusedOrderIs
    <2>3. order[i] # best
      BY <2>1, <1>3, <1>4 DEF IsInjective
    <2>4. order[i] \in ToSet(lexical) \cup ToSet(vector)
      BY <2>1, <1>3 DEF ToSet
    <2> HIDE DEF order, best
    <2>5. ASSUME order[i] \in ToSet(vector) PROVE Rank(vector, order[i]) \in 2 .. CandidateK
      <3>1. Rank(vector, order[i]) \in 1 .. CandidateK /\ vector[Rank(vector, order[i])] = order[i]
        BY <2>5, RankIs
      <3>2. Rank(vector, order[i]) # 1
        BY <3>1, <2>3 DEF best
      <3> QED
        BY <3>1, <3>2, <1>1
    <2>6. ASSUME order[i] \notin ToSet(vector)
          PROVE  order[i] \in ToSet(lexical) /\ Rank(lexical, order[i]) = 1
      <3>1. order[i] \in ToSet(lexical) /\ Rank(lexical, order[i]) \in 1 .. CandidateK
        BY <2>4, <2>6, RankIs
      <3>2. Rank(vector, order[i]) = NoRank /\ RrfTerm(NoRank) = 0
        BY <2>6, RankIs DEF RrfTerm
      <3> SUFFICES ASSUME 1 < Rank(lexical, order[i]) PROVE FALSE
        BY <3>1, <1>1
      <3>3. /\ RrfTerm(Rank(lexical, order[i])) < RrfTerm(1)
            /\ RrfTerm(Rank(lexical, order[i])) \in Nat /\ RrfTerm(1) \in Nat
        BY <3>1, <1>1, TermsFall
      <3>4. RrfTerm(Rank(lexical, best)) \in Nat
        BY RankIs, TermsFall
      <3>5. RrfScore(lexical, vector, order[i]) < RrfScore(lexical, vector, best)
        BY <1>2, <3>2, <3>3, <3>4 DEF RrfScore
      <3>6. RrfScore(lexical, vector, order[i]) \in Nat /\ RrfScore(lexical, vector, best) \in Nat
        BY ScoreTyped
      <3> QED
        BY <2>2, <3>5, <3>6 DEF FusedAhead
    <2> QED
      BY <2>1, <2>5, <2>6
  <1> DEFINE g == [i \in 1 .. (p - 1) |->
                     IF order[i] \in ToSet(vector) THEN Rank(vector, order[i]) ELSE 1]
  <1>6. g \in [1 .. (p - 1) -> 1 .. CandidateK]
    <2> SUFFICES ASSUME NEW i \in 1 .. (p - 1) PROVE g[i] \in 1 .. CandidateK
      OBVIOUS
    <2> HIDE DEF order
    <2> QED
      BY <1>1, <1>5
  <1>7. ASSUME NEW i \in 1 .. (p - 1), NEW j \in 1 .. (p - 1), g[i] = g[j] PROVE i = j
    <2> HIDE DEF order
    <2>1. CASE order[i] \in ToSet(vector) /\ order[j] \in ToSet(vector)
      <3>1. vector[Rank(vector, order[i])] = order[i] /\ vector[Rank(vector, order[j])] = order[j]
        BY <2>1, RankIs
      <3>2. Rank(vector, order[i]) = Rank(vector, order[j])
        BY <1>7, <2>1
      <3>3. order[i] = order[j]
        BY <3>1, <3>2
      <3> QED
        BY <3>3, <1>3, <1>5 DEF IsInjective
    <2>2. CASE order[i] \notin ToSet(vector) /\ order[j] \notin ToSet(vector)
      <3>1. lexical[Rank(lexical, order[i])] = order[i] /\ lexical[Rank(lexical, order[j])] = order[j]
        BY <1>5, <2>2, RankIs
      <3>2. order[i] = order[j]
        BY <3>1, <1>5, <2>2
      <3> QED
        BY <3>2, <1>3, <1>5 DEF IsInjective
    <2>3. CASE order[i] \in ToSet(vector) /\ order[j] \notin ToSet(vector)
      <3>1. Rank(vector, order[i]) \in 2 .. CandidateK
        BY <2>3, <1>5
      <3>2. Rank(vector, order[i]) = 1
        BY <1>7, <2>3
      <3> QED
        BY <3>1, <3>2
    <2>4. CASE order[i] \notin ToSet(vector) /\ order[j] \in ToSet(vector)
      <3>1. Rank(vector, order[j]) \in 2 .. CandidateK
        BY <2>4, <1>5
      <3>2. Rank(vector, order[j]) = 1
        BY <1>7, <2>4
      <3> QED
        BY <3>1, <3>2
    <2> QED
      BY <2>1, <2>2, <2>3, <2>4
  <1>8. p <= CandidateK + 1
    <2>1. p \in Nat \ {0} /\ CandidateK \in Nat
      BY <1>1, <1>3
    <2> HIDE DEF g
    <2> QED
      BY <2>1, <1>6, <1>7, FewAhead
  <1> QED
    BY <1>4, <1>8

(* The pool: the first of the fused order.                                 *)
LEMMA PoolIs ==
  ASSUME NEW lexical, NEW vector, IsArm(lexical), IsArm(vector), NEW k \in Nat
  PROVE  LET order == FusedOrder(lexical, vector)
             best == Pool(lexical, vector, k)
         IN /\ best \in Seq(Nat) /\ IsInjective(best)
            /\ \A i \in DOMAIN best : i \in DOMAIN order /\ best[i] = order[i]
            /\ \A i \in DOMAIN order : i <= Max({RerankN, k}) => i \in DOMAIN best
  <1> DEFINE order == FusedOrder(lexical, vector)
             best == Pool(lexical, vector, k)
             m == Max({RerankN, k})
  <1>1. order \in Seq(Nat) /\ IsInjective(order) /\ DOMAIN order = 1 .. Len(order)
        /\ Len(order) \in Nat
    BY FusedOrderIs
  <1>2. m \in Nat
    BY MaxOfTwo, RetrievalAssumption
  <1>3. best = Cut(order, m)
    BY DEF Pool
  <1> HIDE DEF order, m, best
  <1>4. /\ best \in Seq(Nat)
        /\ Len(best) = IF m <= Len(order) THEN m ELSE Len(order)
        /\ \A i \in 1 .. Len(best) : i \in DOMAIN order /\ best[i] = order[i]
    BY <1>1, <1>2, <1>3, CutIs
  <1>5. DOMAIN best = 1 .. Len(best) /\ Len(best) \in Nat
    BY <1>4
  <1>6. IsInjective(best)
    BY <1>1, <1>4, <1>5 DEF IsInjective
  <1>7. \A i \in DOMAIN order : i <= m => i \in DOMAIN best
    BY <1>1, <1>2, <1>4, <1>5
  <1> QED
    BY <1>4, <1>5, <1>6, <1>7 DEF best, order, m

LEMMA PoolHasTheBest ==
  ASSUME NEW lexical, NEW vector, IsArm(lexical), IsArm(vector), NEW k \in Nat,
         CandidateK < Max({RerankN, k}),
         NEW arm \in {lexical, vector}, arm # << >>
  PROVE  arm[1] \in ToSet(Pool(lexical, vector, k))
  <1>1. PICK p \in DOMAIN FusedOrder(lexical, vector) :
          FusedOrder(lexical, vector)[p] = arm[1] /\ p <= CandidateK + 1
    BY LexicalBestIsEarly, VectorBestIsEarly
  <1>2. p <= Max({RerankN, k})
    <2>1. CandidateK \in Nat /\ Max({RerankN, k}) \in Nat
      BY MaxOfTwo, RetrievalAssumption
    <2>2. p \in Nat
      BY FusedOrderIs
    <2> QED
      BY <1>1, <2>1, <2>2
  <1>3. p \in DOMAIN Pool(lexical, vector, k)
    BY <1>2, PoolIs
  <1>4. Pool(lexical, vector, k)[p] = arm[1]
    BY <1>1, <1>3, PoolIs
  <1> QED
    BY <1>3, <1>4 DEF ToSet

-----------------------------------------------------------------------------
(* Sorting by a score, the better first, and by a number that tells the    *)
(* elements apart.                                                         *)
ByKey(S, key, id) ==
  {p \in S \X S : \/ key[p[1]] > key[p[2]]
                  \/ key[p[1]] = key[p[2]] /\ id[p[1]] < id[p[2]]}

LEMMA KeyOrders ==
  ASSUME NEW S, NEW key \in [S -> Int], NEW id \in [S -> Int],
         \A x, y \in S : id[x] = id[y] => x = y
  PROVE  /\ \A x, y \in S : <<x, y>> \in ByKey(S, key, id) <=>
              key[x] > key[y] \/ (key[x] = key[y] /\ id[x] < id[y])
         /\ IsStrictOrder(S, ByKey(S, key, id))
  <1>1. ASSUME NEW x \in S, NEW y \in S
        PROVE  <<x, y>> \in ByKey(S, key, id) <=>
                 key[x] > key[y] \/ (key[x] = key[y] /\ id[x] < id[y])
    BY DEF ByKey
  <1>2. ASSUME NEW x \in S PROVE <<x, x>> \notin ByKey(S, key, id)
    BY <1>1
  <1>3. ASSUME NEW x \in S, NEW y \in S, x # y
        PROVE  <<x, y>> \in ByKey(S, key, id) \/ <<y, x>> \in ByKey(S, key, id)
    <2>1. key[x] \in Int /\ key[y] \in Int /\ id[x] \in Int /\ id[y] \in Int /\ id[x] # id[y]
      BY <1>3
    <2> QED
      BY <1>1, <2>1
  <1>4. ASSUME NEW x \in S, NEW y \in S, NEW z \in S,
               <<x, y>> \in ByKey(S, key, id), <<y, z>> \in ByKey(S, key, id)
        PROVE  <<x, z>> \in ByKey(S, key, id)
    <2>1. /\ key[x] > key[y] \/ (key[x] = key[y] /\ id[x] < id[y])
          /\ key[y] > key[z] \/ (key[y] = key[z] /\ id[y] < id[z])
      BY <1>1, <1>4
    <2>2. /\ key[x] \in Int /\ key[y] \in Int /\ key[z] \in Int
          /\ id[x] \in Int /\ id[y] \in Int /\ id[z] \in Int
      OBVIOUS
    <2>3. key[x] > key[z] \/ (key[x] = key[z] /\ id[x] < id[z])
      BY <2>1, <2>2
    <2> QED
      BY <1>1, <2>3
  <1> QED
    BY <1>1, <1>2, <1>3, <1>4 DEF IsStrictOrder

(* reranking._rank sorts the pool, and returns a beginning of that, however*)
(* many are asked for.                                                     *)
LEMMA PoolSorted ==
  ASSUME NEW best \in Seq(Nat), NEW score, \A c \in ToSet(best) : score[c] \in Int
  PROVE  \E sorted \in Seq(Nat) :
           /\ ToSet(sorted) = ToSet(best) /\ IsInjective(sorted)
           /\ \A i, j \in DOMAIN sorted :
                i < j => \/ score[sorted[i]] > score[sorted[j]]
                         \/ score[sorted[i]] = score[sorted[j]] /\ sorted[i] < sorted[j]
           /\ \A k \in Nat : Ranked(best, score, k) = Cut(sorted, k)
  <1> DEFINE S == ToSet(best)
             key == [c \in S |-> score[c]]
             id == [c \in S |-> c]
             R == ByKey(S, key, id)
             sorted == ArrangedBy(S, R)
             N == Cardinality(S)
  <1>1. IsFiniteSet(S) /\ S \in SUBSET Nat
    BY ElementsFinite
  <1>2. /\ \A x, y \in S : <<x, y>> \in R <=>
             key[x] > key[y] \/ (key[x] = key[y] /\ id[x] < id[y])
        /\ IsStrictOrder(S, R)
    <2>1. id \in [S -> Int] /\ key \in [S -> Int] /\ \A x, y \in S : id[x] = id[y] => x = y
      BY <1>1
    <2> HIDE DEF id, key, S
    <2> QED
      BY <2>1, KeyOrders DEF S
  <1>3. \A x, y \in S : <<x, y>> \in R <=>
          score[x] > score[y] \/ (score[x] = score[y] /\ x < y)
    <2>1. \A x \in S : key[x] = score[x] /\ id[x] = x
      OBVIOUS
    <2> HIDE DEF id, key, S, R
    <2> QED
      BY <1>2, <2>1
  <1>4. Enumerates(sorted, S, R)
    <2> HIDE DEF S, R
    <2> QED
      BY <1>1, <1>2, ArrangedEnumerates
  <1>5. ASSUME NEW k \in Nat PROVE Ranked(best, score, k) = Cut(sorted, k)
    <2> DEFINE G(c, d) == score[c] > score[d] \/ (score[c] = score[d] /\ c < d)
               here == {<<x, Cardinality({y \in S : G(y, x)}) + 1>> : x \in S}
               there == {<<x, Cardinality(Ahead(x, S, R)) + 1>> : x \in S}
               Nth(places) ==
                 [n \in 1 .. Cardinality(S) |-> (CHOOSE p \in places : p[2] = n)[1]]
    <2>1. ASSUME NEW x \in S PROVE {y \in S : G(y, x)} = Ahead(x, S, R)
      <3>1. \A y \in S : <<y, x>> \in R <=> G(y, x)
        <4> HIDE DEF S, R
        <4> QED
          BY <1>3
      <3> HIDE DEF S, R, G
      <3> QED
        BY <3>1 DEF Ahead
    <2>2. here = there
      <3> HIDE DEF S, R, G
      <3> QED
        BY <2>1
    <2>3. Nth(here) = Nth(there)
      <3> HIDE DEF here, there, Nth
      <3> QED
        BY <2>2
    <2>4. sorted = Nth(there)
      BY DEF ArrangedBy
    <2>5. Ranked(best, score, k) = Cut(Nth(here), k)
      BY DEF Ranked, Arranged
    <2> HIDE DEF here, there, Nth, sorted
    <2> QED
      BY <2>3, <2>4, <2>5
  <1>6. N \in Nat /\ sorted \in [1 .. N -> S] /\ DOMAIN sorted = 1 .. N
    <2> HIDE DEF S, R, sorted
    <2> QED
      BY <1>4 DEF Enumerates
  <1>7. sorted \in Seq(Nat) /\ ToSet(sorted) = S
    <2> HIDE DEF S, R, sorted, N
    <2>1. sorted \in Seq(S)
      BY <1>6
    <2>2. Seq(S) \subseteq Seq(Nat)
      BY <1>1, SeqMonotonic
    <2>3. \A x \in S : \E k \in 1 .. N : sorted[k] = x
      BY <1>4 DEF Enumerates, N
    <2> QED
      BY <1>6, <2>1, <2>2, <2>3 DEF ToSet
  <1>8. IsInjective(sorted)
    <2> HIDE DEF S, R, sorted
    <2> QED
      BY <1>4, <1>6 DEF Enumerates, IsInjective
  <1>9. ASSUME NEW i \in DOMAIN sorted, NEW j \in DOMAIN sorted, i < j
        PROVE  \/ score[sorted[i]] > score[sorted[j]]
               \/ score[sorted[i]] = score[sorted[j]] /\ sorted[i] < sorted[j]
    <2> HIDE DEF S, R, sorted, N
    <2>1. <<sorted[i], sorted[j]>> \in R
      BY <1>4, <1>6, <1>9 DEF Enumerates, N
    <2> QED
      BY <2>1, <1>3, <1>6
  <1> HIDE DEF sorted
  <1> QED
    BY <1>5, <1>7, <1>8, <1>9

(* So it returns chunks of the pool, each once, best score first.          *)
LEMMA RankedIs ==
  ASSUME NEW best \in Seq(Nat), NEW score, \A c \in ToSet(best) : score[c] \in Int,
         NEW k \in Nat
  PROVE  LET order == Ranked(best, score, k)
         IN /\ order \in Seq(Nat) /\ ToSet(order) \in SUBSET ToSet(best)
            /\ IsInjective(order)
            /\ \A i, j \in DOMAIN order :
                 i < j => \/ score[order[i]] > score[order[j]]
                          \/ score[order[i]] = score[order[j]] /\ order[i] < order[j]
  <1>1. PICK sorted \in Seq(Nat) :
          /\ ToSet(sorted) = ToSet(best) /\ IsInjective(sorted)
          /\ \A i, j \in DOMAIN sorted :
               i < j => \/ score[sorted[i]] > score[sorted[j]]
                        \/ score[sorted[i]] = score[sorted[j]] /\ sorted[i] < sorted[j]
          /\ \A n \in Nat : Ranked(best, score, n) = Cut(sorted, n)
    BY PoolSorted
  <1> DEFINE order == Ranked(best, score, k)
  <1>2. order = Cut(sorted, k)
    BY <1>1
  <1> HIDE DEF order
  <1>3. /\ order \in Seq(Nat)
        /\ \A i \in 1 .. Len(order) : i \in DOMAIN sorted /\ order[i] = sorted[i]
    BY <1>2, CutIs
  <1>4. DOMAIN order = 1 .. Len(order) /\ Len(order) \in Nat
    BY <1>3
  <1>5. ToSet(order) \in SUBSET ToSet(best)
    <2>1. ASSUME NEW x \in ToSet(order) PROVE x \in ToSet(sorted)
      <3>1. PICK i \in DOMAIN order : x = order[i]
        BY DEF ToSet
      <3> QED
        BY <1>3, <1>4, <3>1 DEF ToSet
    <2> QED
      BY <1>1, <2>1
  <1>6. IsInjective(order)
    BY <1>1, <1>3, <1>4 DEF IsInjective
  <1>7. ASSUME NEW i \in DOMAIN order, NEW j \in DOMAIN order, i < j
        PROVE  \/ score[order[i]] > score[order[j]]
               \/ score[order[i]] = score[order[j]] /\ order[i] < order[j]
    BY <1>1, <1>3, <1>4, <1>7
  <1> QED
    BY <1>3, <1>5, <1>6, <1>7 DEF order

(* The reranked hits are a hit list; a distance is that of the chunk; and  *)
(* when they are scored they come best first, equal scores by chunk id.    *)
HitTypes == [chunk : Nat, rrf : Nat, rerank : Int, distance : Int]

SelectedAhead(source, a, b) ==
  \/ Score(a, source) > Score(b, source)
  \/ Score(a, source) = Score(b, source) /\ a.chunk < b.chunk

LEMMA HitsAre ==
  ASSUME NEW lexical, NEW vector, IsArm(lexical), IsArm(vector),
         NEW k \in Nat, NEW distance, \A c \in ToSet(vector) : distance[c] \in Nat,
         NEW score,
         \/ score = << >>
         \/ \A c \in ToSet(Pool(lexical, vector, k)) : score[c] \in Int \ {NoScore}
  PROVE  LET h == Hits(lexical, vector, distance, score, k)
         IN /\ IsHitList(h)
            /\ \A i \in DOMAIN h : h[i].distance # NoDistance =>
                 h[i].chunk \in ToSet(vector) /\ h[i].distance = distance[h[i].chunk]
            /\ ScoreSource(h) = "rerank" => \A i, j \in DOMAIN h :
                 i < j => SelectedAhead("rerank", h[i], h[j])
  <1> DEFINE best == Pool(lexical, vector, k)
             order == IF score = << >> THEN Cut(best, k) ELSE Ranked(best, score, k)
             h == Hits(lexical, vector, distance, score, k)
  <1>1. best \in Seq(Nat) /\ IsInjective(best)
    BY PoolIs
  <1>2. order \in Seq(Nat) /\ IsInjective(order)
    <2>1. CASE score = << >>
      <3>1. k \in Nat /\ DOMAIN best = 1 .. Len(best)
        BY <1>1, RetrievalAssumption
      <3>2. /\ Cut(best, k) \in Seq(Nat)
            /\ \A i \in 1 .. Len(Cut(best, k)) : i \in DOMAIN best /\ Cut(best, k)[i] = best[i]
        <4> HIDE DEF best
        <4> QED
          BY <1>1, <3>1, CutIs
      <3>3. IsInjective(Cut(best, k))
        <4>1. DOMAIN Cut(best, k) = 1 .. Len(Cut(best, k))
          BY <3>2
        <4> HIDE DEF best
        <4> QED
          BY <1>1, <3>2, <4>1 DEF IsInjective
      <3> QED
        BY <2>1, <3>2, <3>3
    <2>2. CASE score # << >>
      <3>1. \A c \in ToSet(best) : score[c] \in Int
        BY <2>2
      <3>2. Ranked(best, score, k) \in Seq(Nat) /\ IsInjective(Ranked(best, score, k))
        <4> HIDE DEF best
        <4> QED
          BY <1>1, <3>1, RankedIs
      <3> QED
        BY <2>2, <3>2
    <2> QED
      BY <2>1, <2>2
  <1>3. ASSUME score # << >>
        PROVE  \A i, j \in DOMAIN order :
                 i < j => \/ score[order[i]] > score[order[j]]
                          \/ score[order[i]] = score[order[j]] /\ order[i] < order[j]
    <2>1. \A c \in ToSet(best) : score[c] \in Int
      BY <1>3
    <2>2. order = Ranked(best, score, k)
      BY <1>3
    <2> HIDE DEF best, order
    <2> QED
      BY <1>1, <2>1, <2>2, RankedIs
  <1>4. ASSUME score # << >>, NEW i \in DOMAIN order
        PROVE  score[order[i]] \in Int \ {NoScore}
    <2>1. \A c \in ToSet(best) : score[c] \in Int /\ score[c] \in Int \ {NoScore}
      BY <1>4
    <2>2. order = Ranked(best, score, k)
      BY <1>4
    <2> HIDE DEF best, order
    <2>3. ToSet(order) \in SUBSET ToSet(best)
      BY <1>1, <2>1, <2>2, RankedIs
    <2>4. order[i] \in ToSet(best)
      BY <2>3, <1>4 DEF ToSet
    <2> QED
      BY <2>1, <2>4
  <1>5. DOMAIN order = 1 .. Len(order) /\ Len(order) \in Nat
    <2> HIDE DEF order
    <2> QED
      BY <1>2
  <1> DEFINE Hit(c) ==
        [chunk    |-> c,
         rrf      |-> RrfScore(lexical, vector, c),
         rerank   |-> IF score = << >> THEN NoScore ELSE score[c],
         distance |-> IF c \in ToSet(vector) THEN distance[c] ELSE NoDistance]
  <1>6. h = [i \in DOMAIN order |-> Hit(order[i])]
    BY DEF Hits
  <1>7. ASSUME NEW i \in DOMAIN order PROVE Hit(order[i]) \in HitTypes
    <2> HIDE DEF order
    <2>1. order[i] \in Nat
      BY <1>2
    <2>2. RrfScore(lexical, vector, order[i]) \in Nat
      BY ScoreTyped
    <2>3. (IF score = << >> THEN NoScore ELSE score[order[i]]) \in Int
      BY <1>4 DEF NoScore
    <2>4. (IF order[i] \in ToSet(vector) THEN distance[order[i]] ELSE NoDistance) \in Int
      BY DEF NoDistance
    <2> QED
      BY <2>1, <2>2, <2>3, <2>4 DEF HitTypes
  <1> HIDE DEF h
  <1>8. DOMAIN h = DOMAIN order /\ \A i \in DOMAIN h : h[i] = Hit(order[i])
    <2> HIDE DEF order, Hit
    <2> QED
      BY <1>6
  <1>9. IsHitList(h)
    <2>1. h \in Seq(HitTypes)
      <3> HIDE DEF order, Hit
      <3>1. h \in [1 .. Len(order) -> HitTypes]
        BY <1>5, <1>6, <1>7
      <3> QED
        BY <3>1, <1>5
    <2>2. ASSUME NEW i \in DOMAIN h, NEW j \in DOMAIN h, h[i].chunk = h[j].chunk PROVE i = j
      <3> HIDE DEF order
      <3>1. order[i] = order[j]
        BY <1>8, <2>2
      <3> QED
        BY <3>1, <1>2, <1>8 DEF IsInjective
    <2> QED
      BY <2>1, <2>2 DEF IsHitList, HitTypes
  <1>10. ASSUME NEW i \in DOMAIN h, h[i].distance # NoDistance
         PROVE  h[i].chunk \in ToSet(vector) /\ h[i].distance = distance[h[i].chunk]
    <2> HIDE DEF order
    <2> QED
      BY <1>8, <1>10
  <1>11. ASSUME ScoreSource(h) = "rerank", NEW i \in DOMAIN h, NEW j \in DOMAIN h, i < j
         PROVE  SelectedAhead("rerank", h[i], h[j])
    <2>1. score # << >>
      <3> SUFFICES ASSUME score = << >> PROVE ScoreSource(h) = "rrf"
        BY <1>11
      <3>1. \A i1 \in DOMAIN h : h[i1].rerank = NoScore
        <4> HIDE DEF order
        <4> QED
          BY <1>8
      <3>2. Unscored(h) = DOMAIN h
        <4> HIDE DEF order, Hit
        <4> QED
          BY <3>1 DEF Unscored
      <3> QED
        BY <3>2 DEF ScoreSource
    <2> HIDE DEF order
    <2>2. /\ h[i].rerank = score[order[i]] /\ h[j].rerank = score[order[j]]
          /\ h[i].chunk = order[i] /\ h[j].chunk = order[j]
      BY <1>8, <2>1
    <2>3. \/ score[order[i]] > score[order[j]]
          \/ score[order[i]] = score[order[j]] /\ order[i] < order[j]
      BY <2>1, <1>3, <1>8, <1>11
    <2> QED
      BY <2>2, <2>3 DEF SelectedAhead, Score
  <1> QED
    BY <1>9, <1>10, <1>11 DEF h

(* The NoOp reranker returns the fused order, and something of it.         *)
LEMMA UnscoredHits ==
  ASSUME NEW lexical, NEW vector, IsArm(lexical), IsArm(vector), NEW distance,
         NEW k \in Nat \ {0},
         1 \in DOMAIN FusedOrder(lexical, vector)
  PROVE  LET h == Hits(lexical, vector, distance, << >>, k)
         IN 1 \in DOMAIN h /\ h[1].chunk = FusedOrder(lexical, vector)[1]
  <1> DEFINE best == Pool(lexical, vector, k)
             cut == Cut(best, k)
             h == Hits(lexical, vector, distance, << >>, k)
  <1>1. k \in Nat \ {0} /\ RerankN \in Nat \ {0} /\ 1 <= Max({RerankN, k})
    BY MaxOfTwo, RetrievalAssumption
  <1>2. best \in Seq(Nat) /\ 1 \in DOMAIN best /\ best[1] = FusedOrder(lexical, vector)[1]
    <2>1. /\ best \in Seq(Nat)
          /\ \A i \in DOMAIN best : best[i] = FusedOrder(lexical, vector)[i]
          /\ \A i \in DOMAIN FusedOrder(lexical, vector) :
               i <= Max({RerankN, k}) => i \in DOMAIN best
      BY PoolIs
    <2> HIDE DEF best
    <2>2. 1 \in DOMAIN best
      BY <1>1, <2>1
    <2> QED
      BY <2>1, <2>2
  <1> HIDE DEF best
  <1>3. /\ cut \in Seq(Nat) /\ Len(cut) = IF k <= Len(best) THEN k ELSE Len(best)
        /\ \A i \in 1 .. Len(cut) : cut[i] = best[i]
    BY <1>1, <1>2, CutIs
  <1> HIDE DEF cut
  <1>4. 1 \in DOMAIN cut /\ cut[1] = best[1]
    BY <1>1, <1>2, <1>3
  <1>5. DOMAIN h = DOMAIN cut /\ \A i \in DOMAIN cut : h[i].chunk = cut[i]
    BY DEF Hits, cut, best
  <1> QED
    BY <1>2, <1>4, <1>5

(* No hits at all.                                                         *)
LEMMA NoHits ==
  /\ IsHitList(<< >>)
  /\ ScoreSource(<< >>) = "rrf"
  <1>1. << >> \in Seq([chunk : Nat, rrf : Nat, rerank : Int, distance : Int])
        /\ DOMAIN << >> = {}
    OBVIOUS
  <1>2. IsHitList(<< >>)
    BY <1>1 DEF IsHitList
  <1>3. Unscored(<< >>) = {}
    BY <1>1 DEF Unscored
  <1>4. ScoreSource(<< >>) = "rrf"
    BY <1>1, <1>3 DEF ScoreSource
  <1> QED
    BY <1>2, <1>4

(* The first hit that is neither missing a distance nor far is near.       *)
LEMMA GateIs ==
  ASSUME NEW h, IsHitList(h)
  PROVE  /\ FarFieldGate(h) = "unverified" =>
              /\ h # << >> /\ 1 \in DOMAIN h
              /\ h[1].distance # NoDistance /\ h[1].distance < FarCut
         /\ h # << >> /\ h[1].distance # NoDistance =>
              (FarFieldGate(h) = "abstain" <=> h[1].distance >= FarCut)
  <1>1. h # << >> => 1 \in DOMAIN h /\ h[1].distance \in Int
    <2>1. h \in Seq(HitTypes)
      BY DEF IsHitList, HitTypes
    <2>2. h # << >> => 1 \in DOMAIN h /\ h[1] \in HitTypes
      BY <2>1
    <2> QED
      BY <2>2 DEF HitTypes
  <1>2. FarCut \in Nat
    BY RetrievalAssumption
  <1> QED
    BY <1>1, <1>2 DEF FarFieldGate, NoDistance

-----------------------------------------------------------------------------
(* plan_context: the hits in the order of their scores, each once.         *)
LEMMA SelectionIs ==
  ASSUME NEW h, IsHitList(h)
  PROVE  LET order == SelectionOrder(h)
             source == ScoreSource(h)
         IN /\ order \in Seq(HitTypes) /\ ToSet(order) = ToSet(h)
            /\ IsInjective(order)
            /\ \A i, j \in DOMAIN order :
                 i < j <=> SelectedAhead(source, order[i], order[j])
  <1> DEFINE S == ToSet(h)
             source == ScoreSource(h)
             key == [a \in S |-> Score(a, source)]
             id == [a \in S |-> a.chunk]
             R == ByKey(S, key, id)
             order == SelectionOrder(h)
             N == Cardinality(S)
  <1>1. IsFiniteSet(S) /\ S \in SUBSET HitTypes
    <2>1. h \in Seq(HitTypes)
      BY DEF IsHitList, HitTypes
    <2> QED
      BY <2>1, ElementsFinite
  <1>2. /\ key \in [S -> Int] /\ id \in [S -> Int]
        /\ \A x, y \in S : id[x] = id[y] => x = y
    <2>1. \A a \in S : a.chunk \in Int /\ Score(a, source) \in Int
      <3> HIDE DEF S, source
      <3>1. \A a \in S : a.chunk \in Int /\ a.rrf \in Int /\ a.rerank \in Int
        BY <1>1 DEF HitTypes
      <3> QED
        BY <3>1 DEF Score
    <2>2. \A x, y \in S : x.chunk = y.chunk => x = y
      BY DEF ToSet, IsHitList
    <2> HIDE DEF S, source
    <2> QED
      BY <2>1, <2>2
  <1>3. /\ \A x, y \in S : <<x, y>> \in R <=>
             key[x] > key[y] \/ (key[x] = key[y] /\ id[x] < id[y])
        /\ IsStrictOrder(S, R)
    <2> HIDE DEF key, id, S
    <2> QED
      BY <1>2, KeyOrders
  <1>4. \A x, y \in S : <<x, y>> \in R <=> SelectedAhead(source, x, y)
    <2>1. \A x \in S : key[x] = Score(x, source) /\ id[x] = x.chunk
      OBVIOUS
    <2> HIDE DEF key, id, S, source, R
    <2> SUFFICES ASSUME NEW x \in S, NEW y \in S
                 PROVE  <<x, y>> \in R <=> SelectedAhead(source, x, y)
      OBVIOUS
    <2>2. <<x, y>> \in R <=> key[x] > key[y] \/ (key[x] = key[y] /\ id[x] < id[y])
      BY <1>3
    <2> QED
      BY <2>1, <2>2 DEF SelectedAhead
  <1>5. order = ArrangedBy(S, R)
    <2> DEFINE G(a, b) == \/ Score(a, source) > Score(b, source)
                          \/ Score(a, source) = Score(b, source) /\ a.chunk < b.chunk
               here == {<<x, Cardinality({y \in S : G(y, x)}) + 1>> : x \in S}
               there == {<<x, Cardinality(Ahead(x, S, R)) + 1>> : x \in S}
               Nth(places) ==
                 [k \in 1 .. Cardinality(S) |-> (CHOOSE p \in places : p[2] = k)[1]]
    <2>1. ASSUME NEW x \in S PROVE {y \in S : G(y, x)} = Ahead(x, S, R)
      <3>1. \A y \in S : <<y, x>> \in R <=> G(y, x)
        <4> HIDE DEF S, R, source
        <4> QED
          BY <1>4 DEF SelectedAhead
      <3> HIDE DEF S, R, G
      <3> QED
        BY <3>1 DEF Ahead
    <2>2. here = there
      <3> HIDE DEF S, R, G
      <3> QED
        BY <2>1
    <2>3. Nth(here) = Nth(there)
      <3> HIDE DEF here, there, Nth
      <3> QED
        BY <2>2
    <2>4. ArrangedBy(S, R) = Nth(there)
      BY DEF ArrangedBy
    <2>5. order = Nth(here)
      BY DEF SelectionOrder, Arranged
    <2> HIDE DEF here, there, Nth
    <2> QED
      BY <2>3, <2>4, <2>5
  <1> HIDE DEF S, R, source, order
  <1>6. Enumerates(order, S, R)
    BY <1>1, <1>3, <1>5, ArrangedEnumerates
  <1>7. N \in Nat /\ order \in [1 .. N -> S] /\ DOMAIN order = 1 .. N
    BY <1>6 DEF Enumerates
  <1>8. order \in Seq(HitTypes)
    <2>1. order \in Seq(S)
      <3> HIDE DEF N
      <3> QED
        BY <1>7
    <2> QED
      BY <1>1, <2>1, SeqMonotonic
  <1>9. ToSet(order) = S
    <2> HIDE DEF N
    <2>1. \A x \in S : \E k \in 1 .. N : order[k] = x
      BY <1>6 DEF Enumerates, N
    <2> QED
      BY <1>7, <2>1 DEF ToSet
  <1>10. IsInjective(order)
    BY <1>6, <1>7 DEF Enumerates, IsInjective
  <1>11. \A i, j \in DOMAIN order : i < j <=> SelectedAhead(source, order[i], order[j])
    <2> SUFFICES ASSUME NEW i \in DOMAIN order, NEW j \in DOMAIN order
                 PROVE  i < j <=> SelectedAhead(source, order[i], order[j])
      OBVIOUS
    <2>1. i < j <=> <<order[i], order[j]>> \in R
      BY <1>6, <1>7 DEF Enumerates
    <2>2. order[i] \in S /\ order[j] \in S
      BY <1>7
    <2> QED
      BY <2>1, <2>2, <1>4
  <1> QED
    BY <1>8, <1>9, <1>10, <1>11 DEF S, source, order

(* The loop of plan_context, turn by turn.                                 *)
PlanTypes == [error : {"none"}, included : Seq(HitTypes), excluded : Seq(HitTypes),
              used : Nat]

CostsAreNumbers(h, tokens) == \A i \in DOMAIN h : tokens[h[i].chunk] \in Nat

IsPlanning(p, n, order, tokens) ==
  /\ p \in [0 .. n -> PlanTypes]
  /\ p[0] = EmptyPlan
  /\ \A k \in 1 .. n : p[k] = Consider(p[k - 1], order[k], tokens)

LEMMA ConsiderTyped ==
  ASSUME NEW plan \in PlanTypes, NEW hit \in HitTypes, NEW tokens,
         tokens[hit.chunk] \in Nat
  PROVE  Consider(plan, hit, tokens) \in PlanTypes
  <1>1. Cost(hit, tokens) \in Nat
    BY BudgetAssumption DEF Cost
  <1>2. /\ plan.included \in Seq(HitTypes) /\ plan.excluded \in Seq(HitTypes)
        /\ plan.used \in Nat /\ plan.error \in {"none"}
    BY DEF PlanTypes
  <1>3. /\ Append(plan.included, hit) \in Seq(HitTypes)
        /\ Append(plan.excluded, hit) \in Seq(HitTypes)
        /\ plan.used + Cost(hit, tokens) \in Nat
    BY <1>1, <1>2
  <1> HIDE DEF HitTypes
  <1>4. [plan EXCEPT !.excluded = Append(@, hit)] \in PlanTypes
    BY <1>2, <1>3 DEF PlanTypes
  <1>5. [plan EXCEPT !.included = Append(@, hit), !.used = @ + Cost(hit, tokens)] \in PlanTypes
    BY <1>2, <1>3 DEF PlanTypes
  <1> QED
    BY <1>4, <1>5 DEF Consider

Selected(order, tokens) ==
  FoldLeft(LAMBDA plan, hit : Consider(plan, hit, tokens), EmptyPlan, order)

LEMMA PlanningExists ==
  ASSUME NEW order \in Seq(HitTypes), NEW tokens, CostsAreNumbers(order, tokens)
  PROVE  \E p : /\ IsPlanning(p, Len(order), order, tokens)
                /\ Selected(order, tokens) = p[Len(order)]
  <1> DEFINE n == Len(order)
             step == [q \in PlanTypes \X (1 .. n) |-> Consider(q[1], order[q[2]], tokens)]
             Body(f, t) == IF t = {} THEN EmptyPlan
                           ELSE Consider(f[t \ {Max(t)}], order[Max(t)], tokens)
             g == CHOOSE f : f = [t \in SUBSET (1 .. n) |-> Body(f, t)]
  <1>1. n \in Nat /\ DOMAIN order = 1 .. n /\ \A i \in 1 .. n : order[i] \in HitTypes
    OBVIOUS
  <1>2. Selected(order, tokens) = g[1 .. n]
    BY <1>1 DEF Selected, FoldLeft, MapThenFoldSet
  <1> HIDE DEF n
  <1>3. EmptyPlan \in PlanTypes
    BY DEF EmptyPlan, PlanTypes
  <1>4. \A q \in PlanTypes, i \in 1 .. n :
          /\ Consider(q, order[i], tokens) \in PlanTypes
          /\ step[<<q, i>>] = Consider(q, order[i], tokens)
    <2> TAKE q \in PlanTypes, i \in 1 .. n
    <2>1. tokens[order[i].chunk] \in Nat /\ order[i] \in HitTypes
      BY <1>1 DEF CostsAreNumbers
    <2>2. Consider(q, order[i], tokens) \in PlanTypes
      BY <2>1, ConsiderTyped
    <2> QED
      BY <2>2
  <1>5. step \in [PlanTypes \X (1 .. n) -> PlanTypes]
    <2> HIDE DEF PlanTypes
    <2> QED
      BY <1>4
  <1> HIDE DEF step
  <1>6. PICK f \in [SUBSET (1 .. n) -> PlanTypes] : FoldsLeft(f, n, EmptyPlan, step)
    BY <1>1, <1>3, <1>5, SequenceFold
  <1>7. ASSUME NEW t \in SUBSET (1 .. n) PROVE f[t] = Body(f, t)
    <2>1. CASE t = {}
      BY <2>1, <1>6 DEF FoldsLeft
    <2>2. CASE t # {}
      <3>1. f[t] = step[<<f[t \ {Max(t)}], Max(t)>>]
        BY <1>6, <2>2 DEF FoldsLeft
      <3>2. Max(t) \in 1 .. n
        BY <2>2, <1>1, MaxInRange
      <3>3. f[t \ {Max(t)}] \in PlanTypes
        BY <1>6
      <3> QED
        BY <3>1, <3>2, <3>3, <1>4, <2>2
    <2> QED
      BY <2>1, <2>2
  <1>8. g = [t \in SUBSET (1 .. n) |-> Body(g, t)]
    <2>1. f = [t \in SUBSET (1 .. n) |-> Body(f, t)]
      <3>1. f = [t \in SUBSET (1 .. n) |-> f[t]]
        BY <1>6
      <3> HIDE DEF Body
      <3> QED
        BY <3>1, <1>7
    <2> HIDE DEF Body
    <2> QED
      BY <2>1
  <1> HIDE DEF g
  <1> DEFINE p == [k \in 0 .. n |-> g[1 .. k]]
  <1>9. p[0] = EmptyPlan
    <2>1. 1 .. 0 = {} /\ {} \in SUBSET (1 .. n)
      OBVIOUS
    <2>2. g[{}] = EmptyPlan
      BY <1>8, <2>1
    <2> QED
      BY <2>1, <2>2, <1>1
  <1>10. ASSUME NEW k \in 1 .. n PROVE p[k] = Consider(p[k - 1], order[k], tokens)
    <2>0. n \in Nat
      BY <1>1
    <2>1. /\ k \in Nat \ {0} /\ 1 .. k \in SUBSET (1 .. n)
          /\ k \in 1 .. k
          /\ k \in 0 .. n /\ k - 1 \in 0 .. n
      BY <2>0
    <2>2. Max(1 .. k) = k /\ (1 .. k) \ {k} = 1 .. (k - 1)
      BY <2>1, LastOfRange
    <2>3. g[1 .. k] = Consider(g[(1 .. k) \ {Max(1 .. k)}], order[Max(1 .. k)], tokens)
      BY <1>8, <2>1
    <2>4. g[1 .. k] = Consider(g[1 .. (k - 1)], order[k], tokens)
      BY <2>2, <2>3
    <2> QED
      BY <2>1, <2>4
  <1> HIDE DEF p
  <1>11. \A k \in 0 .. n : p[k] \in PlanTypes
    <2> DEFINE G == {k \in 0 .. n : p[k] \in PlanTypes}
    <2>1. 0 \in G
      BY <1>1, <1>3, <1>9
    <2>2. ASSUME NEW k \in 0 .. n, k \in G, k + 1 <= n PROVE k + 1 \in G
      <3>1. k + 1 \in 1 .. n /\ (k + 1) - 1 = k /\ k + 1 \in 0 .. n
        BY <1>1, <2>2
      <3>2. p[k + 1] = Consider(p[k], order[k + 1], tokens)
        BY <1>10, <3>1
      <3> QED
        BY <2>2, <3>1, <3>2, <1>4
    <2> HIDE DEF G
    <2>3. \A k \in 0 .. n : k \in G
      BY <1>1, <2>1, <2>2, CountingTo
    <2> QED
      BY <2>3 DEF G
  <1>12. IsPlanning(p, n, order, tokens)
    <2>1. p \in [0 .. n -> PlanTypes]
      BY <1>11 DEF p
    <2> QED
      BY <2>1, <1>9, <1>10 DEF IsPlanning
  <1>13. p[n] = g[1 .. n]
    BY <1>1 DEF p
  <1> QED
    BY <1>2, <1>12, <1>13 DEF n

(* What the selection has done after k hits: which it took, that the rest  *)
(* did not and still does not fit, that the first is in, and that those    *)
(* taken keep their order.                                                 *)
Takes(p, order, tokens, i) == p[i - 1].used + Cost(order[i], tokens) <= UsableBudget
Taken(p, order, tokens, k) == {i \in 1 .. k : Takes(p, order, tokens, i)}

PlannedUpTo(p, order, tokens, k) ==
  /\ ToSet(p[k].included) = {order[i] : i \in Taken(p, order, tokens, k)}
  /\ ToSet(p[k].excluded) = {order[i] : i \in (1 .. k) \ Taken(p, order, tokens, k)}
  /\ p[k].used <= UsableBudget
  /\ \A i \in (1 .. k) \ Taken(p, order, tokens, k) :
       p[k].used + Cost(order[i], tokens) > UsableBudget
  /\ k > 0 => 1 \in DOMAIN p[k].included /\ p[k].included[1] = order[1]
  /\ \A i, j \in DOMAIN p[k].included : i < j =>
       \E a, b \in 1 .. k :
         a < b /\ p[k].included[i] = order[a] /\ p[k].included[j] = order[b]

LEMMA AppendedElements ==
  ASSUME NEW S, NEW s \in Seq(S), NEW e \in S
  PROVE  /\ ToSet(Append(s, e)) = ToSet(s) \cup {e}
         /\ DOMAIN Append(s, e) = 1 .. Len(s) + 1
         /\ \A i \in 1 .. Len(s) : Append(s, e)[i] = s[i]
         /\ Append(s, e)[Len(s) + 1] = e
         /\ DOMAIN s = 1 .. Len(s) /\ Len(s) \in Nat
  <1>1. /\ DOMAIN Append(s, e) = 1 .. Len(s) + 1
        /\ \A i \in 1 .. Len(s) : Append(s, e)[i] = s[i]
        /\ Append(s, e)[Len(s) + 1] = e
        /\ DOMAIN s = 1 .. Len(s) /\ Len(s) \in Nat
    OBVIOUS
  <1>2. ASSUME NEW x \in ToSet(Append(s, e)) PROVE x \in ToSet(s) \cup {e}
    <2>1. PICK i \in 1 .. Len(s) + 1 : x = Append(s, e)[i]
      BY <1>1 DEF ToSet
    <2>2. CASE i = Len(s) + 1
      BY <2>1, <2>2, <1>1
    <2>3. CASE i \in 1 .. Len(s)
      BY <2>1, <2>3, <1>1 DEF ToSet
    <2> QED
      BY <2>2, <2>3, <1>1
  <1>3. ASSUME NEW x \in ToSet(s) \cup {e} PROVE x \in ToSet(Append(s, e))
    <2>1. CASE x \in ToSet(s)
      <3>1. PICK i \in 1 .. Len(s) : x = s[i]
        BY <2>1, <1>1 DEF ToSet
      <3>2. i \in 1 .. Len(s) + 1
        BY <1>1
      <3> QED
        BY <3>1, <3>2, <1>1 DEF ToSet
    <2>2. CASE x = e
      <3>1. Len(s) + 1 \in 1 .. Len(s) + 1
        BY <1>1
      <3> QED
        BY <2>2, <3>1, <1>1 DEF ToSet
    <2> QED
      BY <2>1, <2>2
  <1> QED
    BY <1>1, <1>2, <1>3

LEMMA PlanningGoesOn ==
  ASSUME NEW order \in Seq(HitTypes), NEW tokens, CostsAreNumbers(order, tokens),
         \A i \in DOMAIN order : Cost(order[i], tokens) <= UsableBudget,
         NEW p, IsPlanning(p, Len(order), order, tokens),
         NEW k \in 0 .. Len(order), k + 1 <= Len(order),
         PlannedUpTo(p, order, tokens, k)
  PROVE  PlannedUpTo(p, order, tokens, k + 1)
  <1> DEFINE hit == order[k + 1]
             before == p[k]
             after == p[k + 1]
             cost == Cost(hit, tokens)
  <1>1. /\ Len(order) \in Nat /\ DOMAIN order = 1 .. Len(order) /\ k \in Nat
        /\ k + 1 \in 1 .. Len(order) /\ (k + 1) - 1 = k
    OBVIOUS
  <1>2. hit \in HitTypes /\ cost \in Nat /\ cost <= UsableBudget
    <2>1. tokens[hit.chunk] \in Nat
      BY <1>1 DEF CostsAreNumbers
    <2> QED
      BY <1>1, <2>1, BudgetAssumption DEF Cost
  <1>3. /\ before \in PlanTypes
        /\ before.included \in Seq(HitTypes) /\ before.excluded \in Seq(HitTypes)
        /\ before.used \in Nat
    <2>1. before \in PlanTypes
      BY DEF IsPlanning
    <2> QED
      BY <2>1 DEF PlanTypes
  <1>4. after = Consider(before, hit, tokens)
    BY <1>1 DEF IsPlanning
  <1>5. UsableBudget \in Nat
    BY BudgetAssumption
  <1>6. ASSUME NEW i \in 1 .. k PROVE Cost(order[i], tokens) \in Nat
    <2>1. i \in DOMAIN order
      BY <1>1
    <2>2. tokens[order[i].chunk] \in Nat
      BY <2>1 DEF CostsAreNumbers
    <2> QED
      BY <2>2, BudgetAssumption DEF Cost
  <1>7. Takes(p, order, tokens, k + 1) <=> before.used + cost <= UsableBudget
    BY <1>1 DEF Takes
  <1> USE DEF PlannedUpTo
  <1>8. CASE Takes(p, order, tokens, k + 1)
    <2>1. after = [before EXCEPT !.included = Append(@, hit), !.used = @ + cost]
      BY <1>4, <1>7, <1>8, <1>2, <1>3, <1>5 DEF Consider
    <2>2. /\ after.included = Append(before.included, hit)
          /\ after.excluded = before.excluded
          /\ after.used = before.used + cost
      BY <2>1, <1>3 DEF PlanTypes
    <2>3. Taken(p, order, tokens, k + 1) = Taken(p, order, tokens, k) \cup {k + 1}
      BY <1>8, <1>1 DEF Taken
    <2>4. (1 .. (k + 1)) \ Taken(p, order, tokens, k + 1) = (1 .. k) \ Taken(p, order, tokens, k)
      BY <2>3, <1>1
    <2> HIDE DEF hit, before, after, cost, HitTypes
    <2>5. /\ ToSet(after.included) = ToSet(before.included) \cup {hit}
          /\ DOMAIN after.included = 1 .. Len(before.included) + 1
          /\ \A i \in 1 .. Len(before.included) : after.included[i] = before.included[i]
          /\ after.included[Len(before.included) + 1] = hit
          /\ DOMAIN before.included = 1 .. Len(before.included) /\ Len(before.included) \in Nat
      BY <2>2, <1>2, <1>3, AppendedElements
    <2>6. ToSet(after.included) = {order[i] : i \in Taken(p, order, tokens, k + 1)}
      BY <2>3, <2>5 DEF hit, before
    <2>7. ToSet(after.excluded) = {order[i] : i \in (1 .. (k + 1)) \ Taken(p, order, tokens, k + 1)}
      BY <2>2, <2>4 DEF before
    <2>8. after.used <= UsableBudget
      BY <1>7, <1>8, <2>2
    <2>9. \A i \in (1 .. (k + 1)) \ Taken(p, order, tokens, k + 1) :
            after.used + Cost(order[i], tokens) > UsableBudget
      <3> SUFFICES ASSUME NEW i \in (1 .. k) \ Taken(p, order, tokens, k)
                   PROVE  after.used + Cost(order[i], tokens) > UsableBudget
        BY <2>4
      <3>1. before.used + Cost(order[i], tokens) > UsableBudget
        BY DEF before
      <3> QED
        BY <3>1, <2>2, <1>2, <1>3, <1>5, <1>6
    <2>10. 1 \in DOMAIN after.included /\ after.included[1] = order[1]
      <3>1. CASE k = 0
        <4>1. ToSet(before.included) = {}
          BY <3>1 DEF before, Taken
        <4>2. Len(before.included) = 0
          <5> SUFFICES ASSUME Len(before.included) # 0 PROVE FALSE
            OBVIOUS
          <5>1. 1 \in DOMAIN before.included
            BY <2>5
          <5>2. before.included[1] \in ToSet(before.included)
            BY <5>1 DEF ToSet
          <5> QED
            BY <4>1, <5>2
        <4> QED
          BY <4>2, <3>1, <2>5 DEF hit
      <3>2. CASE k > 0
        <4>1. 1 \in DOMAIN before.included /\ before.included[1] = order[1]
          BY <3>2 DEF before
        <4> QED
          BY <4>1, <2>5
      <3> QED
        BY <3>1, <3>2, <1>1
    <2>11. ASSUME NEW i \in DOMAIN after.included, NEW j \in DOMAIN after.included, i < j
           PROVE  \E a, b \in 1 .. (k + 1) :
                    a < b /\ after.included[i] = order[a] /\ after.included[j] = order[b]
      <3>1. i \in 1 .. Len(before.included) /\ after.included[i] = before.included[i]
        BY <2>5, <2>11
      <3>2. CASE j = Len(before.included) + 1
        <4>1. after.included[i] \in ToSet(before.included)
          BY <3>1, <2>5 DEF ToSet
        <4>2. PICK a \in 1 .. k : after.included[i] = order[a]
          BY <4>1 DEF before, Taken
        <4>3. a \in 1 .. (k + 1) /\ k + 1 \in 1 .. (k + 1) /\ a < k + 1
          BY <1>1
        <4>4. after.included[j] = order[k + 1]
          BY <3>2, <2>5 DEF hit
        <4> QED
          BY <4>2, <4>3, <4>4
      <3>3. CASE j # Len(before.included) + 1
        <4>1. j \in 1 .. Len(before.included) /\ after.included[j] = before.included[j]
          BY <2>5, <3>3
        <4>2. PICK a \in 1 .. k, b \in 1 .. k :
                a < b /\ before.included[i] = order[a] /\ before.included[j] = order[b]
          BY <3>1, <4>1, <2>5, <2>11 DEF before
        <4>3. a \in 1 .. (k + 1) /\ b \in 1 .. (k + 1)
          BY <1>1
        <4> QED
          BY <3>1, <4>1, <4>2, <4>3
      <3> QED
        BY <3>2, <3>3
    <2> QED
      BY <2>6, <2>7, <2>8, <2>9, <2>10, <2>11 DEF after
  <1>9. CASE ~ Takes(p, order, tokens, k + 1)
    <2>1. before.used + cost > UsableBudget
      BY <1>7, <1>9, <1>2, <1>3, <1>5
    <2>2. after = [before EXCEPT !.excluded = Append(@, hit)]
      BY <1>4, <2>1 DEF Consider
    <2>3. /\ after.included = before.included
          /\ after.excluded = Append(before.excluded, hit)
          /\ after.used = before.used
      BY <2>2, <1>3 DEF PlanTypes
    <2>4. Taken(p, order, tokens, k + 1) = Taken(p, order, tokens, k)
      BY <1>9, <1>1 DEF Taken
    <2>5. (1 .. (k + 1)) \ Taken(p, order, tokens, k + 1)
            = ((1 .. k) \ Taken(p, order, tokens, k)) \cup {k + 1}
      BY <1>9, <1>1 DEF Taken
    <2>6. k > 0
      <3> SUFFICES ASSUME k = 0 PROVE FALSE
        BY <1>1
      <3>1. before.used = 0
        BY DEF IsPlanning, EmptyPlan
      <3> QED
        BY <2>1, <3>1, <1>2, <1>5
    <2> HIDE DEF hit, before, after, cost, HitTypes
    <2>7. ToSet(after.excluded) = ToSet(before.excluded) \cup {hit}
      BY <2>3, <1>2, <1>3, AppendedElements
    <2>8. ToSet(after.included) = {order[i] : i \in Taken(p, order, tokens, k + 1)}
      BY <2>3, <2>4 DEF before
    <2>9. ToSet(after.excluded) = {order[i] : i \in (1 .. (k + 1)) \ Taken(p, order, tokens, k + 1)}
      BY <2>5, <2>7 DEF before, hit
    <2>10. after.used <= UsableBudget
      BY <2>3 DEF before
    <2>11. \A i \in (1 .. (k + 1)) \ Taken(p, order, tokens, k + 1) :
            after.used + Cost(order[i], tokens) > UsableBudget
      <3> SUFFICES ASSUME NEW i \in ((1 .. k) \ Taken(p, order, tokens, k)) \cup {k + 1}
                   PROVE  after.used + Cost(order[i], tokens) > UsableBudget
        BY <2>5
      <3> QED
        BY <2>1, <2>3 DEF before, hit, cost
    <2>12. 1 \in DOMAIN after.included /\ after.included[1] = order[1]
      BY <2>3, <2>6 DEF before
    <2>13. ASSUME NEW i \in DOMAIN after.included, NEW j \in DOMAIN after.included, i < j
           PROVE  \E a, b \in 1 .. (k + 1) :
                    a < b /\ after.included[i] = order[a] /\ after.included[j] = order[b]
      <3>1. PICK a \in 1 .. k, b \in 1 .. k :
              a < b /\ before.included[i] = order[a] /\ before.included[j] = order[b]
        <4>1. \A i1, j1 \in DOMAIN before.included : i1 < j1 =>
                \E a, b \in 1 .. k :
                  a < b /\ before.included[i1] = order[a] /\ before.included[j1] = order[b]
          BY DEF before
        <4> QED
          BY <4>1, <2>3, <2>13
      <3>2. a \in 1 .. (k + 1) /\ b \in 1 .. (k + 1)
        BY <1>1
      <3> QED
        BY <2>3, <3>1, <3>2
    <2> QED
      BY <2>8, <2>9, <2>10, <2>11, <2>12, <2>13 DEF after
  <1> QED
    BY <1>8, <1>9

LEMMA PlanningDone ==
  ASSUME NEW order \in Seq(HitTypes), NEW tokens, CostsAreNumbers(order, tokens),
         \A i \in DOMAIN order : Cost(order[i], tokens) <= UsableBudget,
         NEW p, IsPlanning(p, Len(order), order, tokens)
  PROVE  \A k \in 0 .. Len(order) : PlannedUpTo(p, order, tokens, k)
  <1> DEFINE G == {k \in 0 .. Len(order) : PlannedUpTo(p, order, tokens, k)}
  <1>1. Len(order) \in Nat
    OBVIOUS
  <1>2. 0 \in G
    <2>1. p[0] = [error |-> "none", included |-> << >>, excluded |-> << >>, used |-> 0]
      BY DEF IsPlanning, EmptyPlan
    <2>2. Taken(p, order, tokens, 0) = {} /\ 1 .. 0 = {}
      BY DEF Taken
    <2>3. /\ p[0].included = << >> /\ p[0].excluded = << >> /\ p[0].used = 0
          /\ ToSet(<< >>) = {} /\ UsableBudget \in Nat /\ DOMAIN << >> = {}
      BY <2>1, BudgetAssumption DEF ToSet
    <2>4. PlannedUpTo(p, order, tokens, 0)
      BY <2>2, <2>3 DEF PlannedUpTo
    <2> QED
      BY <1>1, <2>4
  <1>3. ASSUME NEW k \in 0 .. Len(order), k \in G, k + 1 <= Len(order) PROVE k + 1 \in G
    <2>1. PlannedUpTo(p, order, tokens, k + 1)
      BY <1>3, PlanningGoesOn
    <2>2. k + 1 \in 0 .. Len(order)
      BY <1>1, <1>3
    <2> QED
      BY <2>1, <2>2
  <1> HIDE DEF G
  <1>4. \A k \in 0 .. Len(order) : k \in G
    BY <1>1, <1>2, <1>3, CountingTo
  <1> QED
    BY <1>4 DEF G

(* The order of the fold of a sum does not matter: what is added last may  *)
(* be any of the elements.                                                 *)
IsSum(f, S, value) ==
  f = [t \in SUBSET S |-> IF t = {} THEN 0
                          ELSE LET x == CHOOSE x \in t : TRUE
                               IN value[x] + f[t \ {x}]]

LEMMA SumExists ==
  ASSUME NEW S, IsFiniteSet(S), NEW value \in [S -> Nat]
  PROVE  \E f \in [SUBSET S -> Nat] : IsSum(f, S, value)
  <1> DEFINE pick == [t \in SUBSET S |-> CHOOSE x \in t : TRUE]
             step == [p \in Nat \X S |-> value[p[2]] + p[1]]
  <1>1. \A t \in SUBSET S : t # {} => pick[t] \in t
    OBVIOUS
  <1>2. /\ step \in [Nat \X S -> Nat]
        /\ \A a \in Nat, x \in S : step[<<a, x>>] = value[x] + a
    OBVIOUS
  <1>3. PICK f \in [SUBSET S -> Nat] : Folds(f, S, 0, pick, step)
    <2> HIDE DEF pick, step
    <2> QED
      BY <1>1, <1>2, FoldExists
  <1> DEFINE Body(t) == IF t = {} THEN 0
                        ELSE LET x == CHOOSE x \in t : TRUE IN value[x] + f[t \ {x}]
  <1>4. ASSUME NEW t \in SUBSET S PROVE f[t] = Body(t)
    <2>1. CASE t = {}
      BY <2>1, <1>3 DEF Folds
    <2>2. CASE t # {}
      <3> DEFINE x == CHOOSE x \in t : TRUE
      <3>1. f[t] = step[<<f[t \ {x}], x>>]
        BY <1>3, <2>2 DEF Folds
      <3>2. f[t \ {x}] \in Nat /\ x \in S
        BY <2>2, <1>3
      <3>3. step[<<f[t \ {x}], x>>] = value[x] + f[t \ {x}]
        <4> HIDE DEF x, step
        <4> QED
          BY <3>2, <1>2
      <3> QED
        BY <3>1, <3>3, <2>2
    <2> QED
      BY <2>1, <2>2
  <1>5. f = [t \in SUBSET S |-> f[t]]
    BY <1>3
  <1>6. f = [t \in SUBSET S |-> Body(t)]
    <2> HIDE DEF Body
    <2> QED
      BY <1>4, <1>5
  <1> QED
    BY <1>3, <1>6 DEF IsSum

LEMMA SumUnfolds ==
  ASSUME NEW S, NEW value, NEW f, IsSum(f, S, value)
  PROVE  /\ f[{}] = 0
         /\ \A t \in SUBSET S : t # {} =>
              \E x \in t : f[t] = value[x] + f[t \ {x}]
  <1>1. f[{}] = 0
    BY DEF IsSum
  <1>2. ASSUME NEW t \in SUBSET S, t # {}
        PROVE  \E x \in t : f[t] = value[x] + f[t \ {x}]
    <2> DEFINE x == CHOOSE x \in t : TRUE
    <2>1. f[t] = value[x] + f[t \ {x}]
      BY <1>2 DEF IsSum
    <2>2. x \in t
      BY <1>2
    <2> HIDE DEF x
    <2> QED
      BY <2>1, <2>2
  <1> QED
    BY <1>1, <1>2

LEMMA SumTyped ==
  ASSUME NEW S, IsFiniteSet(S), NEW value \in [S -> Nat], NEW f, IsSum(f, S, value)
  PROVE  \A t \in SUBSET S : f[t] \in Nat
  <1> DEFINE G == {n \in Nat : \A t \in SUBSET S : Cardinality(t) = n => f[t] \in Nat}
  <1>1. 0 \in G
    <2>1. ASSUME NEW t \in SUBSET S, Cardinality(t) = 0 PROVE f[t] \in Nat
      <3>1. t = {}
        BY <2>1, FS_Subset, FS_EmptySet
      <3> QED
        BY <3>1, SumUnfolds
    <2> QED
      BY <2>1
  <1>2. ASSUME NEW n \in Nat, n \in G PROVE n + 1 \in G
    <2>1. ASSUME NEW t \in SUBSET S, Cardinality(t) = n + 1 PROVE f[t] \in Nat
      <3>1. t # {}
        BY <2>1, FS_EmptySet
      <3>2. PICK x \in t : f[t] = value[x] + f[t \ {x}]
        BY <3>1, SumUnfolds
      <3>3. t \ {x} \in SUBSET S /\ Cardinality(t \ {x}) = n
        BY <2>1, OneLess
      <3>4. f[t \ {x}] \in Nat /\ value[x] \in Nat
        BY <1>2, <3>3
      <3> QED
        BY <3>2, <3>4
    <2> QED
      BY <2>1
  <1> HIDE DEF G
  <1>3. \A n \in Nat : n \in G
    BY <1>1, <1>2, Counting
  <1>4. \A t \in SUBSET S : Cardinality(t) \in Nat
    BY FS_Subset, FS_CardinalityType
  <1> QED
    BY <1>3, <1>4 DEF G

LEMMA SumInAnyOrder ==
  ASSUME NEW S, IsFiniteSet(S), NEW value \in [S -> Nat], NEW f, IsSum(f, S, value)
  PROVE  \A t \in SUBSET S : \A x \in t : f[t] = value[x] + f[t \ {x}]
  <1> DEFINE G == {n \in Nat : \A t \in SUBSET S : Cardinality(t) = n =>
                                 \A x \in t : f[t] = value[x] + f[t \ {x}]}
  <1>1. 0 \in G
    <2>1. ASSUME NEW t \in SUBSET S, Cardinality(t) = 0 PROVE t = {}
      BY <2>1, FS_Subset, FS_EmptySet
    <2> QED
      BY <2>1
  <1>2. ASSUME NEW n \in Nat, n \in G PROVE n + 1 \in G
    <2>1. ASSUME NEW t \in SUBSET S, Cardinality(t) = n + 1, NEW x \in t
          PROVE  f[t] = value[x] + f[t \ {x}]
      <3>1. PICK y \in t : f[t] = value[y] + f[t \ {y}]
        BY SumUnfolds
      <3>2. CASE y = x
        BY <3>1, <3>2
      <3>3. CASE y # x
        <4>1. /\ t \ {x} \in SUBSET S /\ Cardinality(t \ {x}) = n
              /\ t \ {y} \in SUBSET S /\ Cardinality(t \ {y}) = n
          BY <2>1, OneLess
        <4>2. x \in t \ {y} /\ y \in t \ {x}
          BY <3>3
        <4>3. f[t \ {y}] = value[x] + f[(t \ {y}) \ {x}]
          BY <1>2, <4>1, <4>2
        <4>4. f[t \ {x}] = value[y] + f[(t \ {x}) \ {y}]
          BY <1>2, <4>1, <4>2
        <4>5. (t \ {y}) \ {x} = (t \ {x}) \ {y} /\ (t \ {x}) \ {y} \in SUBSET S
          OBVIOUS
        <4>6. f[(t \ {x}) \ {y}] \in Nat /\ value[x] \in Nat /\ value[y] \in Nat
          BY <4>5, SumTyped
        <4> QED
          BY <3>1, <4>3, <4>4, <4>5, <4>6
      <3> QED
        BY <3>2, <3>3
    <2> QED
      BY <2>1
  <1> HIDE DEF G
  <1>3. \A n \in Nat : n \in G
    BY <1>1, <1>2, Counting
  <1>4. \A t \in SUBSET S : Cardinality(t) \in Nat
    BY FS_Subset, FS_CardinalityType
  <1> QED
    BY <1>3, <1>4 DEF G

(* The fold of a function of numbers is such a sum, of everything.         *)
Total(value) == FoldFunction(+, 0, value)

LEMMA FoldIsSum ==
  ASSUME NEW S, IsFiniteSet(S), NEW value \in [S -> Nat]
  PROVE  \E f : IsSum(f, S, value) /\ Total(value) = f[S]
  <1> DEFINE g == CHOOSE f : IsSum(f, S, value)
  <1>1. IsSum(g, S, value)
    BY SumExists
  <1>2. Total(value) = g[S]
    <2>1. DOMAIN value = S
      OBVIOUS
    <2> QED
      BY <2>1 DEF Total, FoldFunction, FoldFunctionOnSet, MapThenFoldSet, IsSum
  <1> QED
    BY <1>1, <1>2

(* What the loop has spent is what it has taken, each hit counted once.    *)
LEMMA UsedIsTheSum ==
  ASSUME NEW order \in Seq(HitTypes), IsInjective(order), NEW tokens,
         CostsAreNumbers(order, tokens),
         \A i \in DOMAIN order : Cost(order[i], tokens) <= UsableBudget,
         NEW p, IsPlanning(p, Len(order), order, tokens),
         NEW S, S = ToSet(p[Len(order)].included), IsFiniteSet(S),
         NEW value, value = [x \in S |-> Cost(x, tokens)], value \in [S -> Nat],
         NEW f, IsSum(f, S, value)
  PROVE  p[Len(order)].used = f[S]
  <1> DEFINE n == Len(order)
             In(k) == ToSet(p[k].included)
             G == {k \in 0 .. n : p[k].used = f[In(k)]}
  <1>1. n \in Nat /\ DOMAIN order = 1 .. n
    OBVIOUS
  <1>2. \A k \in 0 .. n : In(k) = {order[i] : i \in Taken(p, order, tokens, k)}
    <2>1. \A k \in 0 .. n : PlannedUpTo(p, order, tokens, k)
      BY PlanningDone
    <2> QED
      BY <2>1 DEF PlannedUpTo
  <1>3. p[0] = EmptyPlan /\ \A k \in 0 .. n : p[k] \in PlanTypes
    BY DEF IsPlanning
  <1>4. ASSUME NEW k \in 0 .. n PROVE In(k) \in SUBSET S
    <2>1. Taken(p, order, tokens, k) \subseteq Taken(p, order, tokens, n)
      BY <1>1 DEF Taken
    <2>2. n \in 0 .. n
      BY <1>1
    <2>3. S = In(n)
      OBVIOUS
    <2> HIDE DEF In, n
    <2> QED
      BY <1>2, <2>1, <2>2, <2>3
  <1>5. 0 \in G
    <2>1. p[0].used = 0 /\ p[0].included = << >>
      BY <1>3 DEF EmptyPlan
    <2>2. In(0) = {}
      BY <2>1 DEF ToSet
    <2>3. f[{}] = 0
      BY SumUnfolds
    <2>4. p[0].used = f[In(0)]
      <3>1. f[In(0)] = f[{}]
        BY ONLY <2>2
      <3> QED
        BY ONLY <2>1, <2>3, <3>1
    <2>5. 0 \in 0 .. n
      BY <1>1
    <2> HIDE DEF In, n
    <2> QED
      BY <2>4, <2>5
  <1>6. ASSUME NEW k \in 0 .. n, k \in G, k + 1 <= n PROVE k + 1 \in G
    <2> DEFINE x == order[k + 1]
    <2>1. /\ k + 1 \in 0 .. n /\ k + 1 \in 1 .. n /\ (k + 1) - 1 = k
          /\ p[k].used = f[In(k)]
      BY <1>1, <1>6
    <2>2. p[k + 1] = Consider(p[k], x, tokens)
      BY <2>1 DEF IsPlanning
    <2>3. /\ x \in HitTypes /\ p[k].included \in Seq(HitTypes) /\ p[k].used \in Nat
      BY <1>1, <1>3, <2>1 DEF PlanTypes
    <2>4. p[k] = [error |-> p[k].error, included |-> p[k].included,
                  excluded |-> p[k].excluded, used |-> p[k].used]
      BY <1>3 DEF PlanTypes
    <2>5. CASE p[k].used + Cost(x, tokens) > UsableBudget
      <3>1. p[k + 1].used = p[k].used /\ p[k + 1].included = p[k].included
        <4> HIDE DEF x
        <4> QED
          BY <2>2, <2>4, <2>5 DEF Consider
      <3>2. p[k + 1].used = f[In(k + 1)]
        BY <2>1, <3>1
      <3> QED
        BY <2>1, <3>2
    <2>6. CASE ~ (p[k].used + Cost(x, tokens) > UsableBudget)
      <3>1. /\ p[k + 1].used = p[k].used + Cost(x, tokens)
            /\ p[k + 1].included = Append(p[k].included, x)
        <4> HIDE DEF x
        <4> QED
          BY <2>2, <2>4, <2>6 DEF Consider
      <3>2. In(k + 1) = In(k) \cup {x}
        <4> HIDE DEF x
        <4> QED
          BY <2>3, <3>1, AppendedElements
      <3>3. x \notin In(k)
        <4>1. ASSUME x \in In(k) PROVE FALSE
          <5>1. PICK i \in Taken(p, order, tokens, k) : x = order[i]
            <6> HIDE DEF In, x
            <6> QED
              BY <1>2, <4>1
          <5>2. i \in 1 .. k
            BY <5>1 DEF Taken
          <5>3. i \in DOMAIN order /\ k + 1 \in DOMAIN order /\ i # k + 1
            BY <1>1, <2>1, <5>2
          <5> QED
            BY <5>1, <5>3 DEF IsInjective
        <4> QED
          BY <4>1
      <3>4. In(k + 1) \in SUBSET S /\ x \in In(k + 1)
        <4> HIDE DEF In
        <4> QED
          BY <1>4, <2>1, <3>2
      <3> HIDE DEF In
      <3>5. f[In(k + 1)] = value[x] + f[In(k + 1) \ {x}]
        BY <3>4, SumInAnyOrder
      <3>6. In(k + 1) \ {x} = In(k)
        BY <3>2, <3>3
      <3>7. value[x] = Cost(x, tokens) /\ value[x] \in Nat
        BY <3>4
      <3>8. p[k + 1].used = f[In(k + 1)]
        <4>1. f[In(k + 1)] = Cost(x, tokens) + p[k].used
          BY <2>1, <3>5, <3>6, <3>7
        <4>2. Cost(x, tokens) \in Nat /\ p[k].used \in Nat
          BY <2>3, <3>7
        <4> HIDE DEF x
        <4> QED
          BY <3>1, <4>1, <4>2
      <3> QED
        BY <2>1, <3>8 DEF In
    <2> QED
      BY <2>5, <2>6
  <1> HIDE DEF G
  <1>7. \A k \in 0 .. n : k \in G
    BY <1>1, <1>5, <1>6, CountingTo
  <1>8. n \in 0 .. n
    BY <1>1
  <1> QED
    BY <1>7, <1>8 DEF G

KeepsOrder(s, order) ==
  \A i, j \in DOMAIN s : i < j =>
    \E a, b \in DOMAIN order : a < b /\ s[i] = order[a] /\ s[j] = order[b]

(* plan_context, when it does not fail.                                    *)
LEMMA PlanIs ==
  ASSUME NEW h, IsHitList(h), NEW tokens, CostsAreNumbers(h, tokens),
         PlanContext(h, tokens).error = "none"
  PROVE  LET plan == PlanContext(h, tokens)
             order == SelectionOrder(h)
             cost == [x \in ToSet(plan.included) |-> Cost(x, tokens)]
         IN /\ plan \in PlanTypes
            /\ ScoreSource(h) # "mixed"
            /\ ToSet(plan.included) \cup ToSet(plan.excluded) = ToSet(h)
            /\ ToSet(plan.included) \cap ToSet(plan.excluded) = {}
            /\ h # << >> => /\ 1 \in DOMAIN plan.included /\ 1 \in DOMAIN order
                            /\ plan.included[1] = order[1]
            /\ \A x \in ToSet(plan.excluded) : plan.used + Cost(x, tokens) > UsableBudget
            /\ KeepsOrder(plan.included, order)
            /\ plan.used = Total(cost) /\ plan.used <= UsableBudget
  <1> DEFINE made == PlanContext(h, tokens)
             order == SelectionOrder(h)
             n == Len(order)
             S == ToSet(made.included)
             cost == [x \in S |-> Cost(x, tokens)]
  <1>1. /\ order \in Seq(HitTypes) /\ ToSet(order) = ToSet(h) /\ IsInjective(order)
        /\ n \in Nat /\ DOMAIN order = 1 .. n
    BY SelectionIs
  <1>2. ScoreSource(h) # "mixed"
    BY DEF PlanContext, EmptyPlan
  <1>3. ~ \E i \in DOMAIN h : Cost(h[i], tokens) > UsableBudget
    BY <1>2 DEF PlanContext, EmptyPlan
  <1>4. made = Selected(order, tokens)
    BY <1>2, <1>3 DEF PlanContext, Selected
  <1>5. ASSUME NEW i \in DOMAIN order
        PROVE  \E k \in DOMAIN h : order[i] = h[k]
    BY <1>1 DEF ToSet
  <1>6. UsableBudget \in Nat /\ Overhead \in Nat
    BY BudgetAssumption
  <1>7. ASSUME NEW i \in DOMAIN order
        PROVE  tokens[order[i].chunk] \in Nat /\ Cost(order[i], tokens) <= UsableBudget
    <2>1. PICK k \in DOMAIN h : order[i] = h[k]
      BY <1>5
    <2>2. tokens[h[k].chunk] \in Nat
      BY DEF CostsAreNumbers
    <2>3. Cost(h[k], tokens) \in Nat
      BY <1>6, <2>2 DEF Cost
    <2> QED
      BY <1>3, <1>6, <2>1, <2>2, <2>3
  <1> HIDE DEF made, order
  <1>8. CostsAreNumbers(order, tokens)
    BY <1>7 DEF CostsAreNumbers
  <1>9. PICK p : IsPlanning(p, n, order, tokens) /\ made = p[n]
    BY <1>1, <1>4, <1>8, PlanningExists
  <1>10. PlannedUpTo(p, order, tokens, n)
    <2>1. n \in 0 .. n
      BY <1>1
    <2> QED
      BY <1>1, <1>7, <1>8, <1>9, <2>1, PlanningDone
  <1>11. made \in PlanTypes
    BY <1>1, <1>9 DEF IsPlanning
  <1>12. /\ S = {order[i] : i \in Taken(p, order, tokens, n)}
         /\ ToSet(made.excluded) = {order[i] : i \in (1 .. n) \ Taken(p, order, tokens, n)}
    BY <1>9, <1>10 DEF PlannedUpTo
  <1>13. Taken(p, order, tokens, n) \in SUBSET (1 .. n)
    BY DEF Taken
  <1>14. ToSet(order) = {order[i] : i \in 1 .. n}
    BY <1>1 DEF ToSet
  <1>15. S \cup ToSet(made.excluded) = ToSet(h)
    <2> HIDE DEF S, n
    <2> QED
      BY <1>1, <1>12, <1>13, <1>14
  <1>16. S \cap ToSet(made.excluded) = {}
    <2>1. ASSUME NEW a \in 1 .. n, NEW b \in 1 .. n, order[a] = order[b] PROVE a = b
      BY <1>1, <2>1 DEF IsInjective
    <2> HIDE DEF S, n
    <2> QED
      BY <1>12, <1>13, <2>1
  <1>17. h # << >> => /\ 1 \in DOMAIN made.included /\ 1 \in DOMAIN order
                      /\ made.included[1] = order[1]
    <2>1. ASSUME h # << >> PROVE n > 0
      <3>1. h \in Seq(HitTypes)
        BY DEF IsHitList, HitTypes
      <3>2. 1 \in DOMAIN h
        BY <2>1, <3>1
      <3>3. h[1] \in ToSet(order)
        BY <1>1, <3>2 DEF ToSet
      <3>4. PICK i \in 1 .. n : order[i] = h[1]
        BY <1>14, <3>3
      <3> QED
        BY <1>1, <3>4
    <2> QED
      BY <1>1, <1>9, <1>10, <2>1 DEF PlannedUpTo
  <1>18. \A x \in ToSet(made.excluded) : made.used + Cost(x, tokens) > UsableBudget
    <2> TAKE x \in ToSet(made.excluded)
    <2>1. PICK i \in (1 .. n) \ Taken(p, order, tokens, n) : x = order[i]
      BY <1>12
    <2> QED
      BY <1>9, <1>10, <2>1 DEF PlannedUpTo
  <1>19. KeepsOrder(made.included, order)
    BY <1>1, <1>9, <1>10 DEF PlannedUpTo, KeepsOrder
  <1>20. IsFiniteSet(S) /\ cost \in [S -> Nat]
    <2>1. IsFiniteSet(S)
      BY <1>11, ElementsFinite DEF PlanTypes
    <2>2. ASSUME NEW x \in S PROVE Cost(x, tokens) \in Nat
      <3>1. PICK i \in 1 .. n : x = order[i]
        BY <1>12, <1>13
      <3> QED
        BY <1>1, <1>6, <1>7, <3>1 DEF Cost
    <2> QED
      BY <2>1, <2>2
  <1>21. PICK f : IsSum(f, S, cost) /\ Total(cost) = f[S]
    <2> HIDE DEF S, cost
    <2> QED
      BY <1>20, FoldIsSum
  <1>22. made.used = f[S]
    <2>1. S = ToSet(p[Len(order)].included)
      BY <1>9
    <2>2. cost = [x \in S |-> Cost(x, tokens)]
      OBVIOUS
    <2> HIDE DEF S, cost
    <2>3. /\ \A i \in DOMAIN order : Cost(order[i], tokens) <= UsableBudget
          /\ IsPlanning(p, Len(order), order, tokens)
          /\ IsSum(f, S, cost)
      BY <1>7, <1>9, <1>21
    <2>4. p[Len(order)].used = f[S]
      BY <1>1, <1>8, <1>20, <2>1, <2>2, <2>3, UsedIsTheSum
    <2> QED
      BY <1>9, <2>4
  <1>23. made.used = Total(cost) /\ made.used <= UsableBudget
    BY <1>9, <1>10, <1>21, <1>22 DEF PlannedUpTo
  <1> QED
    BY <1>2, <1>11, <1>15, <1>16, <1>17, <1>18, <1>19, <1>23 DEF made, order
=============================================================================
