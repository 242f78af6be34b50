-------------------------- MODULE Evaluation_proofs -------------------------
(***************************************************************************)
(* What Evaluation.tla promises for every corpus, golden set, scoring and  *)
(* depth: demotions are explained, the harnesses read one lure alike, and  *)
(* separated scores stop nothing.                                          *)
(***************************************************************************)
EXTENDS Evaluation, Retrieval_proofs

(* A finite set of numbers has a greatest.                                 *)
LEMMA GreatestNumber ==
  ASSUME NEW S \in SUBSET Nat, IsFiniteSet(S), S # {}
  PROVE  \E m \in S : \A x \in S : x <= m
  <1> DEFINE Has(t) == \E m \in t : \A x \in t : x <= m
             G == {n \in Nat : \A t \in SUBSET S : Cardinality(t) = n + 1 => Has(t)}
  <1>1. 0 \in G
    <2>1. ASSUME NEW t \in SUBSET S, Cardinality(t) = 1 PROVE Has(t)
      <3>1. IsFiniteSet(t)
        BY FS_Subset
      <3>2. PICK x : t = {x}
        BY <2>1, <3>1, FS_Singleton
      <3>3. x \in Nat /\ x <= x
        BY <3>2
      <3> QED
        BY <3>2, <3>3
    <2> HIDE DEF Has
    <2> QED
      BY <2>1
  <1>2. ASSUME NEW n \in Nat, n \in G PROVE n + 1 \in G
    <2>1. ASSUME NEW t \in SUBSET S, Cardinality(t) = (n + 1) + 1 PROVE Has(t)
      <3>1. t # {}
        BY <2>1, FS_EmptySet
      <3>2. PICK y \in t : TRUE
        BY <3>1
      <3>3. t \ {y} \in SUBSET S /\ Cardinality(t \ {y}) = n + 1
        <4>1. n + 1 \in Nat
          OBVIOUS
        <4> DEFINE k == n + 1
        <4>2. k \in Nat /\ Cardinality(t) = k + 1
          BY <2>1, <4>1
        <4> HIDE DEF k
        <4>3. t \ {y} \in SUBSET S /\ Cardinality(t \ {y}) = k
          BY <4>2, OneLess
        <4> QED
          BY <4>3 DEF k
      <3>4. Has(t \ {y})
        <4> HIDE DEF Has
        <4> QED
          BY <1>2, <3>3
      <3>5. PICK m \in t \ {y} : \A x \in t \ {y} : x <= m
        BY <3>4
      <3>6. m \in Nat /\ y \in Nat /\ \A x \in t : x \in Nat
        OBVIOUS
      <3>7. CASE y <= m
        <4>1. \A x \in t : x <= m
          BY <3>5, <3>7
        <4> QED
          BY <4>1
      <3>8. CASE ~ (y <= m)
        <4>1. \A x \in t : x <= y
          BY <3>5, <3>6, <3>8
        <4> QED
          BY <4>1
      <3> QED
        BY <3>7, <3>8
    <2> HIDE DEF Has
    <2> QED
      BY <2>1
  <1>3. \A n \in Nat : n \in G
    <2> HIDE DEF G
    <2> QED
      BY <1>1, <1>2, Counting
  <1>4. Cardinality(S) \in Nat /\ Cardinality(S) # 0
    BY FS_CardinalityType, FS_EmptySet
  <1>5. Cardinality(S) - 1 \in G /\ Cardinality(S) = (Cardinality(S) - 1) + 1
    <2>1. Cardinality(S) - 1 \in Nat /\ Cardinality(S) = (Cardinality(S) - 1) + 1
      BY <1>4
    <2> HIDE DEF G
    <2> QED
      BY <1>3, <2>1
  <1>6. Has(S)
    <2> HIDE DEF Has
    <2> QED
      BY <1>5
  <1> QED
    BY <1>6

(* A sorted report lies between its first value and its last, and holds    *)
(* nothing that was not measured.                                          *)
LEMMA SortedIs ==
  ASSUME NEW D, IsFiniteSet(D), NEW f \in [D -> Nat]
  PROVE  LET s == Sorted(f)
         IN /\ s \in Seq(Nat) /\ Len(s) = Cardinality(D) /\ DOMAIN s = 1 .. Len(s)
            /\ \A k \in DOMAIN s : \E x \in D : s[k] = f[x]
            /\ \A x \in D : s # << >> /\ s[1] <= f[x] /\ f[x] <= s[Len(s)]
  <1> DEFINE s == Sorted(f)
             N == Cardinality(D)
             Under(v) == {x \in D : f[x] <= v}
             Enough(k) == {v \in Values(f) : Cardinality(Under(v)) >= k}
  <1>1. N \in Nat /\ DOMAIN f = D
    BY FS_CardinalityType
  <1>2. s = [k \in 1 .. N |-> Min(Enough(k))]
    BY <1>1 DEF Sorted
  <1>3. Values(f) = {f[x] : x \in D} /\ Values(f) \in SUBSET Nat
    BY <1>1 DEF Values
  <1>4. \A v : Under(v) \in SUBSET D /\ IsFiniteSet(Under(v)) /\ Cardinality(Under(v)) \in Nat
    BY FS_Subset, FS_CardinalityType
  <1>5. ASSUME NEW k \in 1 .. N PROVE Enough(k) # {}
    <2>1. PICK x0 \in D : TRUE
      <3>1. D # {}
        BY <1>1, <1>5, FS_EmptySet
      <3> QED
        BY <3>1
    <2>2. IsFiniteSet(Values(f)) /\ Values(f) # {}
      <3>1. f \in Surjection(D, Values(f))
        BY <1>3 DEF Surjection
      <3> QED
        BY <2>1, <1>3, <3>1, FS_Surjection
    <2>3. PICK v \in Values(f) : \A w \in Values(f) : w <= v
      BY <1>3, <2>2, GreatestNumber
    <2>4. Under(v) = D
      BY <1>3, <2>3
    <2>5. v \in Enough(k)
      <3> HIDE DEF Under
      <3>1. Cardinality(Under(v)) >= k
        BY <1>1, <2>4
      <3> QED
        BY <3>1
    <2> QED
      BY <2>5
  <1>6. ASSUME NEW k \in 1 .. N
        PROVE  /\ s[k] \in Enough(k) /\ s[k] \in Nat
               /\ \A v \in Enough(k) : s[k] <= v
    <2>1. s[k] = Min(Enough(k))
      <3> HIDE DEF s, Enough, N
      <3> QED
        BY <1>2, <1>6
    <2>2. Enough(k) \in SUBSET Nat
      BY <1>3
    <2> HIDE DEF Enough, s
    <2> QED
      BY <2>1, <2>2, <1>5, MinOfNumbers
  <1>7. s \in Seq(Nat) /\ Len(s) = N /\ DOMAIN s = 1 .. N
    <2> HIDE DEF s, Enough, N
    <2>1. s \in [1 .. N -> Nat]
      BY <1>2, <1>6
    <2> QED
      BY <1>1, <2>1
  <1>8. ASSUME NEW k \in DOMAIN s PROVE \E x \in D : s[k] = f[x]
    <2>1. s[k] \in Values(f)
      <3>1. k \in 1 .. N
        BY <1>7
      <3>2. s[k] \in Enough(k)
        BY <3>1, <1>6
      <3> HIDE DEF s, Under
      <3> QED
        BY <3>2
    <2> HIDE DEF s
    <2> QED
      BY <2>1, <1>3
  <1>9. ASSUME NEW x \in D PROVE s # << >> /\ s[1] <= f[x] /\ f[x] <= s[Len(s)]
    <2>1. N >= 1
      <3>1. N # 0
        BY FS_EmptySet
      <3> HIDE DEF N
      <3> QED
        BY <1>1, <3>1
    <2>2. f[x] \in Enough(1)
      <3>1. Under(f[x]) # {}
        BY <1>3
      <3>2. Cardinality(Under(f[x])) # 0
        <4> HIDE DEF Under
        <4> QED
          BY <1>4, <3>1, FS_EmptySet
      <3>3. Cardinality(Under(f[x])) >= 1
        <4> HIDE DEF Under
        <4> QED
          BY <1>4, <3>2
      <3>4. f[x] \in Values(f)
        BY <1>3
      <3> HIDE DEF Under
      <3> QED
        BY <3>3, <3>4
    <2>3. Under(s[N]) = D
      <3> DEFINE last == s[N]
      <3>1. last \in Enough(N)
        <4>1. N \in 1 .. N
          BY <1>1, <2>1
        <4> QED
          BY <4>1, <1>6
      <3> HIDE DEF last
      <3>2. Cardinality(Under(last)) >= N
        <4> HIDE DEF Under
        <4> QED
          BY <3>1
      <3>3. Under(last) \in SUBSET D /\ Cardinality(Under(last)) <= N /\ Cardinality(Under(last)) \in Nat
        <4> HIDE DEF Under
        <4> QED
          BY <1>4, FS_Subset
      <3>4. Cardinality(Under(last)) = N
        <4> HIDE DEF Under, N
        <4> QED
          BY <1>1, <3>2, <3>3
      <3>5. Under(last) = D
        <4> HIDE DEF Under
        <4> QED
          BY <3>3, <3>4, FS_Subset
      <3> QED
        BY <3>5 DEF last
    <2>4. f[x] <= s[N]
      <3> HIDE DEF s, N
      <3> QED
        BY <2>3
    <2>5. s[1] <= f[x]
      <3>1. 1 \in 1 .. N
        BY <1>1, <2>1
      <3> HIDE DEF s, N, Enough
      <3> QED
        BY <3>1, <2>2, <1>6
    <2> HIDE DEF s, N
    <2> QED
      BY <2>1, <2>4, <2>5, <1>7
  <1> HIDE DEF N
  <1> QED
    BY <1>7, <1>8, <1>9 DEF N

(* The median of a report lies between its first value and its last.       *)
LEMMA MedianIs ==
  ASSUME NEW s \in Seq(Nat), s # << >>, NEW low \in Nat, NEW high \in Nat,
         \A k \in DOMAIN s : low <= s[k] /\ s[k] <= high
  PROVE  Median2(s) \in Nat /\ 2 * low <= Median2(s) /\ Median2(s) <= 2 * high
  <1> DEFINE n == Len(s)
             i == (n + 1) \div 2
             j == n \div 2 + 1
  <1>1. n \in Nat /\ n >= 1 /\ DOMAIN s = 1 .. n
    OBVIOUS
  <1>2. i \in 1 .. n /\ j \in 1 .. n
    <2> HIDE DEF n
    <2> QED
      BY <1>1
  <1>3. /\ s[i] \in Nat /\ low <= s[i] /\ s[i] <= high
        /\ s[j] \in Nat /\ low <= s[j] /\ s[j] <= high
    <2> HIDE DEF n, i, j
    <2> QED
      BY <1>1, <1>2
  <1>4. Median2(s) = s[i] + s[j]
    BY DEF Median2
  <1> HIDE DEF i, j
  <1> QED
    BY <1>3, <1>4

(* Sums of what balances everywhere balance.                               *)
LEMMA SumsBalance ==
  ASSUME NEW S, IsFiniteSet(S), NEW a \in [S -> Nat], NEW b \in [S -> Nat],
         NEW c \in [S -> Nat], NEW d \in [S -> Nat],
         \A x \in S : a[x] + b[x] = c[x] + d[x]
  PROVE  /\ SumOf(a) + SumOf(b) = SumOf(c) + SumOf(d)
         /\ {SumOf(a), SumOf(b), SumOf(c), SumOf(d)} \subseteq Nat
  <1>1. PICK fa : IsSum(fa, S, a) /\ Total(a) = fa[S]
    BY FoldIsSum
  <1>2. PICK fb : IsSum(fb, S, b) /\ Total(b) = fb[S]
    BY FoldIsSum
  <1>3. PICK fc : IsSum(fc, S, c) /\ Total(c) = fc[S]
    BY FoldIsSum
  <1>4. PICK fd : IsSum(fd, S, d) /\ Total(d) = fd[S]
    BY FoldIsSum
  <1>5. \A t \in SUBSET S : fa[t] \in Nat /\ fb[t] \in Nat /\ fc[t] \in Nat /\ fd[t] \in Nat
    BY <1>1, <1>2, <1>3, <1>4, SumTyped
  <1> DEFINE G == {n \in Nat : \A t \in SUBSET S : Cardinality(t) = n =>
                                 fa[t] + fb[t] = fc[t] + fd[t]}
  <1>6. 0 \in G
    <2>1. ASSUME NEW t \in SUBSET S, Cardinality(t) = 0
          PROVE  fa[t] + fb[t] = fc[t] + fd[t]
      <3>1. t = {}
        BY <2>1, FS_Subset, FS_EmptySet
      <3>2. fa[{}] = 0 /\ fb[{}] = 0 /\ fc[{}] = 0 /\ fd[{}] = 0
        BY <1>1, <1>2, <1>3, <1>4, SumUnfolds
      <3> QED
        BY <3>1, <3>2
    <2> QED
      BY <2>1
  <1>7. ASSUME NEW n \in Nat, n \in G PROVE n + 1 \in G
    <2>1. ASSUME NEW t \in SUBSET S, Cardinality(t) = n + 1
          PROVE  fa[t] + fb[t] = fc[t] + fd[t]
      <3>1. PICK x \in t : TRUE
        <4>1. Cardinality(t) # 0
          BY <2>1
        <4>2. t # {}
          BY <4>1, FS_EmptySet
        <4> QED
          BY <4>2
      <3> DEFINE u == t \ {x}
      <3>2. u \in SUBSET S /\ Cardinality(u) = n
        BY <2>1, OneLess
      <3>3. fa[u] + fb[u] = fc[u] + fd[u]
        <4> HIDE DEF u
        <4> QED
          BY <1>7, <3>2
      <3>4. fa[t] = a[x] + fa[u] /\ fb[t] = b[x] + fb[u]
        BY <1>1, <1>2, SumInAnyOrder
      <3>5. fc[t] = c[x] + fc[u] /\ fd[t] = d[x] + fd[u]
        BY <1>3, <1>4, SumInAnyOrder
      <3>6. /\ a[x] + b[x] = c[x] + d[x]
            /\ a[x] \in Nat /\ b[x] \in Nat /\ c[x] \in Nat /\ d[x] \in Nat
        OBVIOUS
      <3>7. fa[u] \in Nat /\ fb[u] \in Nat /\ fc[u] \in Nat /\ fd[u] \in Nat
        BY <1>5
      <3> HIDE DEF u
      <3>8. (a[x] + fa[u]) + (b[x] + fb[u]) = (c[x] + fc[u]) + (d[x] + fd[u])
        <4> DEFINE ax == a[x]  bx == b[x]  cx == c[x]  dx == d[x]
                   au == fa[u]  bu == fb[u]  cu == fc[u]  du == fd[u]
        <4>1. ax \in Nat /\ bx \in Nat /\ cx \in Nat /\ dx \in Nat /\ ax + bx = cx + dx
          BY <3>6
        <4>2. au \in Nat /\ bu \in Nat /\ cu \in Nat /\ du \in Nat /\ au + bu = cu + du
          BY <3>3, <3>7
        <4> HIDE DEF ax, bx, cx, dx, au, bu, cu, du
        <4>3. (ax + au) + (bx + bu) = (cx + cu) + (dx + du)
          BY <4>1, <4>2
        <4> QED
          BY <4>3 DEF ax, bx, cx, dx, au, bu, cu, du
      <3> QED
        BY <3>4, <3>5, <3>8
    <2> QED
      BY <2>1
  <1> HIDE DEF G
  <1>8. \A n \in Nat : n \in G
    BY <1>6, <1>7, Counting
  <1>9. fa[S] + fb[S] = fc[S] + fd[S]
    <2>1. Cardinality(S) \in Nat /\ S \in SUBSET S
      BY FS_CardinalityType
    <2> QED
      BY <1>8, <2>1 DEF G
  <1>10. SumOf(a) = fa[S] /\ SumOf(b) = fb[S] /\ SumOf(c) = fc[S] /\ SumOf(d) = fd[S]
    BY <1>1, <1>2, <1>3, <1>4 DEF SumOf, Total
  <1> QED
    BY <1>5, <1>9, <1>10

-----------------------------------------------------------------------------
(* What an arm of one question is searched with.                           *)
Lexical(world, a) == IF a = "vector" THEN << >> ELSE world.lexical
Vector(world, a) == IF a = "lexical" THEN << >> ELSE world.vector

LEMMA OrdersAre ==
  ASSUME NEW L \in SUBSET (0 .. CandidateK), NEW s \in Orders(L)
  PROVE  IsArm(s) /\ ToSet(s) \in SUBSET Chunks
  <1>1. CandidateK \in Nat /\ Chunks \in SUBSET Nat
    BY RetrievalAssumption, EvaluationAssumption
  <1>2. PICK n \in L : s \in [1 .. n -> Chunks] /\ IsInjective(s)
    BY DEF Orders
  <1>3. n \in Nat /\ n <= CandidateK
    BY <1>1, <1>2
  <1>4. s \in [1 .. n -> Nat]
    BY <1>1, <1>2
  <1>5. s \in Seq(Nat) /\ Len(s) = n
    BY <1>3, <1>4
  <1>6. ToSet(s) \in SUBSET Chunks
    BY <1>2 DEF ToSet
  <1> QED
    BY <1>2, <1>3, <1>5, <1>6 DEF IsArm

LEMMA WorldIs ==
  ASSUME NEW world \in Worlds, NEW a \in Arms
  PROVE  /\ IsArm(Lexical(world, a)) /\ ToSet(Lexical(world, a)) \in SUBSET Chunks
         /\ IsArm(Vector(world, a)) /\ ToSet(Vector(world, a)) \in SUBSET Chunks
         /\ world.score \in [Chunks -> Nat] /\ world.score # << >>
  <1>1. /\ world.lexical \in Orders(0 .. CandidateK) /\ world.vector \in VectorLists
        /\ world.score \in [Chunks -> Logits]
    BY DEF Worlds
  <1>2. IsArm(world.lexical) /\ ToSet(world.lexical) \in SUBSET Chunks
    BY <1>1, OrdersAre
  <1>3. IsArm(world.vector) /\ ToSet(world.vector) \in SUBSET Chunks
    <2>1. CandidateK \in Nat /\ Cardinality(Chunks) \in Nat
      BY RetrievalAssumption, EvaluationAssumption, FS_CardinalityType
    <2> DEFINE depth == Min({CandidateK, Cardinality(Chunks)})
    <2>2. depth \in 0 .. CandidateK
      <3>1. depth = IF CandidateK <= Cardinality(Chunks) THEN CandidateK ELSE Cardinality(Chunks)
        BY <2>1, MinOfTwo
      <3> HIDE DEF depth
      <3> QED
        BY <2>1, <3>1
    <2>3. world.vector \in Orders({depth})
      BY <1>1, EvaluationAssumption
    <2> HIDE DEF depth
    <2> QED
      BY <2>2, <2>3, OrdersAre
  <1>4. IsArm(<< >>) /\ ToSet(<< >>) = {}
    <2>1. << >> \in Seq(Nat) /\ Len(<< >>) = 0 /\ DOMAIN << >> = {}
      OBVIOUS
    <2> QED
      BY <2>1, RetrievalAssumption DEF IsArm, ToSet, IsInjective
  <1>5. world.score \in [Chunks -> Nat] /\ world.score # << >>
    <2>1. Logits \subseteq Nat /\ Chunks # {}
      BY EvaluationAssumption
    <2>2. DOMAIN world.score = Chunks /\ DOMAIN << >> = {}
      BY <1>1
    <2>3. world.score \in [Chunks -> Nat]
      BY <1>1, <2>1
    <2> QED
      BY <2>1, <2>2, <2>3
  <1> QED
    BY <1>2, <1>3, <1>4, <1>5 DEF Lexical, Vector

(* The chunks of a sequence without repetition are as many as its places.  *)
LEMMA InjectiveLength ==
  ASSUME NEW S, NEW s \in Seq(S), IsInjective(s)
  PROVE  IsFiniteSet(ToSet(s)) /\ Cardinality(ToSet(s)) = Len(s)
  <1>1. DOMAIN s = 1 .. Len(s) /\ Len(s) \in Nat
    OBVIOUS
  <1>2. s \in Surjection(1 .. Len(s), ToSet(s)) /\ s \in Injection(1 .. Len(s), ToSet(s))
    <2>1. s \in [1 .. Len(s) -> ToSet(s)]
      BY <1>1 DEF ToSet
    <2> QED
      BY <2>1, <1>1 DEF Surjection, Injection, ToSet, IsInjective
  <1>3. IsFiniteSet(1 .. Len(s)) /\ Cardinality(1 .. Len(s)) = Len(s)
    <2>1. Cardinality(1 .. Len(s)) = IF 1 > Len(s) THEN 0 ELSE Len(s) - 1 + 1
      BY <1>1, FS_Interval
    <2> QED
      BY <1>1, <2>1, FS_Interval
  <1> QED
    BY <1>2, <1>3, FS_Surjection

(* What retrieve() returns of one question, at every depth that a harness  *)
(* asks for: beginnings of one reranked pool and of one fused pool, which  *)
(* hold the same chunks.                                                   *)
AtDepth(k, n) == IF k <= n THEN k ELSE n

IsPool(best) == best \in Seq(Chunks) /\ Len(best) <= RerankN /\ IsInjective(best)

IsReranked(world, sorted, best) ==
  /\ sorted \in Seq(Chunks) /\ IsInjective(sorted)
  /\ ToSet(sorted) = ToSet(best) /\ Len(sorted) = Len(best)
  /\ \A i, j \in DOMAIN sorted :
       i < j => world.score[sorted[i]] >= world.score[sorted[j]]

IsPost(hits, world, sorted, k) ==
  /\ hits \in Seq(HitTypes) /\ Len(hits) = AtDepth(k, Len(sorted))
  /\ \A i \in DOMAIN hits :
       i \in DOMAIN sorted /\ hits[i].chunk = sorted[i] /\ hits[i].rerank = world.score[sorted[i]]

IsPre(hits, best, k) ==
  /\ hits \in Seq(HitTypes) /\ Len(hits) = AtDepth(k, Len(best))
  /\ \A i \in DOMAIN hits : i \in DOMAIN best /\ hits[i].chunk = best[i]

(* The pool is the same at every depth up to RERANK_N.                     *)
LEMMA OnePool ==
  ASSUME NEW world \in Worlds, NEW a \in Arms
  PROVE  \E best : /\ IsPool(best) /\ best \in Seq(Nat)
                   /\ \A k \in 1 .. RerankN :
                        Pool(Lexical(world, a), Vector(world, a), k) = best
  <1> DEFINE lex == Lexical(world, a)
             vec == Vector(world, a)
             order == FusedOrder(lex, vec)
             best == Pool(lex, vec, RerankN)
  <1>1. /\ IsArm(lex) /\ ToSet(lex) \in SUBSET Chunks
        /\ IsArm(vec) /\ ToSet(vec) \in SUBSET Chunks
    BY WorldIs
  <1> HIDE DEF lex, vec
  <1>2. RerankN \in Nat /\ RerankN >= 1
    BY RetrievalAssumption
  <1>3. order \in Seq(Nat) /\ ToSet(order) = ToSet(lex) \cup ToSet(vec)
    BY <1>1, FusedOrderIs
  <1>4. ASSUME NEW k \in 1 .. RerankN PROVE Max({RerankN, k}) = RerankN
    <2>1. k \in Nat /\ k <= RerankN
      BY <1>2, <1>4
    <2>2. Max({RerankN, k}) = IF RerankN <= k THEN k ELSE RerankN
      BY <1>2, <2>1, MaxOfTwo
    <2> QED
      BY <1>2, <2>1, <2>2
  <1>5. \A k \in 1 .. RerankN : Pool(lex, vec, k) = Cut(order, RerankN)
    BY <1>4 DEF Pool
  <1>6. best = Cut(order, RerankN)
    BY <1>2, <1>5
  <1>7. best \in Seq(Nat) /\ IsInjective(best)
    BY <1>1, <1>2, PoolIs
  <1>8. \A k \in 1 .. RerankN : Pool(lex, vec, k) = best
    BY <1>5, <1>6
  <1> HIDE DEF best, order
  <1>9. /\ Len(best) <= RerankN
        /\ \A i \in 1 .. Len(best) : i \in DOMAIN order /\ best[i] = order[i]
    <2>1. /\ Len(best) = IF RerankN <= Len(order) THEN RerankN ELSE Len(order)
          /\ \A i \in 1 .. Len(best) : i \in DOMAIN order /\ best[i] = order[i]
      BY <1>2, <1>3, <1>6, CutIs
    <2>2. Len(order) \in Nat
      BY <1>3
    <2> QED
      BY <1>2, <2>1, <2>2
  <1>10. best \in Seq(Chunks)
    <2>1. ASSUME NEW i \in 1 .. Len(best) PROVE best[i] \in Chunks
      <3>1. best[i] \in ToSet(order)
        BY <1>9 DEF ToSet
      <3> QED
        BY <1>1, <1>3, <3>1
    <2> QED
      BY <2>1, <1>7
  <1> QED
    BY <1>7, <1>8, <1>9, <1>10 DEF IsPool, lex, vec

LEMMA ArmHitsAre ==
  ASSUME NEW world \in Worlds, NEW a \in Arms
  PROVE  \E best, sorted :
           /\ IsPool(best) /\ IsReranked(world, sorted, best)
           /\ \A k \in 1 .. RerankN :
                /\ IsPost(ArmHits(world, a, world.score, k), world, sorted, k)
                /\ IsPre(ArmHits(world, a, << >>, k), best, k)
  <1> DEFINE lex == Lexical(world, a)
             vec == Vector(world, a)
             zero == [c \in Chunks |-> 0]
  <1>1. /\ IsArm(lex) /\ IsArm(vec) /\ ToSet(vec) \in SUBSET Chunks
        /\ world.score \in [Chunks -> Nat] /\ world.score # << >>
    BY WorldIs
  <1>2. PICK best : /\ IsPool(best) /\ best \in Seq(Nat)
                    /\ \A k \in 1 .. RerankN : Pool(lex, vec, k) = best
    BY OnePool
  <1>3. \A c \in ToSet(best) : c \in Chunks /\ world.score[c] \in Nat
    <2>1. ToSet(best) \in SUBSET Chunks
      BY <1>2, ElementsFinite DEF IsPool
    <2> QED
      BY <1>1, <2>1
  <1>4. PICK sorted \in Seq(Nat) :
          /\ ToSet(sorted) = ToSet(best) /\ IsInjective(sorted)
          /\ \A i, j \in DOMAIN sorted :
               i < j => \/ world.score[sorted[i]] > world.score[sorted[j]]
                        \/ world.score[sorted[i]] = world.score[sorted[j]] /\ sorted[i] < sorted[j]
          /\ \A k \in Nat : Ranked(best, world.score, k) = Cut(sorted, k)
    BY <1>2, <1>3, PoolSorted
  <1>5. \A c \in Chunks : zero[c] = 0
    OBVIOUS
  <1> HIDE DEF lex, vec, zero
  <1>6. DOMAIN sorted = 1 .. Len(sorted) /\ Len(sorted) \in Nat
    OBVIOUS
  <1>7. \A i \in DOMAIN sorted :
          sorted[i] \in ToSet(best) /\ sorted[i] \in Chunks /\ world.score[sorted[i]] \in Nat
    <2>1. \A i \in DOMAIN sorted : sorted[i] \in ToSet(sorted)
      BY DEF ToSet
    <2> QED
      BY <2>1, <1>3, <1>4
  <1>8. IsReranked(world, sorted, best)
    <2>1. sorted \in Seq(Chunks)
      BY <1>6, <1>7
    <2>2. Len(sorted) = Len(best)
      <3>1. Cardinality(ToSet(sorted)) = Len(sorted)
        BY <1>4, InjectiveLength
      <3>2. Cardinality(ToSet(best)) = Len(best)
        BY <1>2, InjectiveLength DEF IsPool
      <3> QED
        BY <1>4, <3>1, <3>2
    <2>3. ASSUME NEW i \in DOMAIN sorted, NEW j \in DOMAIN sorted, i < j
          PROVE  world.score[sorted[i]] >= world.score[sorted[j]]
      <3>1. world.score[sorted[i]] \in Nat /\ world.score[sorted[j]] \in Nat
        BY <1>7
      <3>2. \/ world.score[sorted[i]] > world.score[sorted[j]]
            \/ world.score[sorted[i]] = world.score[sorted[j]]
        BY <1>4, <2>3
      <3> QED
        BY <3>1, <3>2
    <2> QED
      BY <1>4, <2>1, <2>2, <2>3 DEF IsReranked
  <1>9. ASSUME NEW k \in 1 .. RerankN, NEW score,
               score = << >> \/ \A c \in ToSet(best) : score[c] \in Int \ {NoScore}
        PROVE  Hits(lex, vec, zero, score, k) \in Seq(HitTypes)
    <2>1. k \in Nat
      OBVIOUS
    <2>2. \A c \in ToSet(vec) : zero[c] \in Nat
      BY <1>1, <1>5
    <2>3. score = << >> \/ \A c \in ToSet(Pool(lex, vec, k)) : score[c] \in Int \ {NoScore}
      BY <1>2, <1>9
    <2>4. IsHitList(Hits(lex, vec, zero, score, k))
      BY <1>1, <2>1, <2>2, <2>3, HitsAre
    <2> QED
      BY <2>4 DEF IsHitList, HitTypes
  <1>10. ASSUME NEW k \in 1 .. RerankN
         PROVE  IsPost(ArmHits(world, a, world.score, k), world, sorted, k)
    <2> DEFINE h == Hits(lex, vec, zero, world.score, k)
               order == Cut(sorted, k)
    <2>1. ArmHits(world, a, world.score, k) = h
      BY DEF ArmHits, lex, vec, zero, Lexical, Vector
    <2>2. k \in Nat
      OBVIOUS
    <2>3. Ranked(Pool(lex, vec, k), world.score, k) = order
      BY <1>2, <1>4, <2>2
    <2>4. /\ DOMAIN h = DOMAIN order
          /\ \A i \in DOMAIN order : h[i].chunk = order[i] /\ h[i].rerank = world.score[order[i]]
      <3> HIDE DEF order
      <3> QED
        BY <1>1, <2>3 DEF Hits
    <2>5. /\ order \in Seq(Nat) /\ Len(order) = AtDepth(k, Len(sorted))
          /\ \A i \in 1 .. Len(order) : i \in DOMAIN sorted /\ order[i] = sorted[i]
      <3>1. /\ order \in Seq(Nat)
            /\ Len(order) = IF k <= Len(sorted) THEN k ELSE Len(sorted)
            /\ \A i \in 1 .. Len(order) : i \in DOMAIN sorted /\ order[i] = sorted[i]
        BY <2>2, CutIs
      <3> QED
        BY <3>1 DEF AtDepth
    <2>6. h \in Seq(HitTypes)
      <3>1. \A c \in ToSet(best) : world.score[c] \in Int \ {NoScore}
        BY <1>3 DEF NoScore
      <3> QED
        BY <1>9, <3>1
    <2> HIDE DEF h, order
    <2>7. Len(h) = Len(order) /\ DOMAIN h = 1 .. Len(order)
      BY <2>4, <2>5, <2>6
    <2> QED
      BY <2>1, <2>4, <2>5, <2>6, <2>7 DEF IsPost
  <1>11. ASSUME NEW k \in 1 .. RerankN PROVE IsPre(ArmHits(world, a, << >>, k), best, k)
    <2> DEFINE h == Hits(lex, vec, zero, << >>, k)
               order == Cut(best, k)
    <2>1. ArmHits(world, a, << >>, k) = h
      BY DEF ArmHits, lex, vec, zero, Lexical, Vector
    <2>2. k \in Nat
      OBVIOUS
    <2>3. Cut(Pool(lex, vec, k), k) = order
      BY <1>2
    <2>4. DOMAIN h = DOMAIN order /\ \A i \in DOMAIN order : h[i].chunk = order[i]
      <3> HIDE DEF order
      <3> QED
        BY <2>3 DEF Hits
    <2>5. /\ order \in Seq(Nat) /\ Len(order) = AtDepth(k, Len(best))
          /\ \A i \in 1 .. Len(order) : i \in DOMAIN best /\ order[i] = best[i]
      BY <1>2, <2>2, CutIs DEF AtDepth
    <2>6. h \in Seq(HitTypes)
      BY <1>9
    <2> HIDE DEF h, order
    <2>7. Len(h) = Len(order) /\ DOMAIN h = 1 .. Len(order)
      BY <2>4, <2>5, <2>6
    <2> QED
      BY <2>1, <2>4, <2>5, <2>6, <2>7 DEF IsPre
  <1> QED
    BY <1>2, <1>8, <1>10, <1>11

(* The one hit a decision is made on is the first of the whole pool.       *)
LEMMA FirstHits ==
  ASSUME NEW world \in Worlds, NEW a \in Arms
  PROVE  LET all == ArmHits(world, a, world.score, RerankN)
             one == ArmHits(world, a, world.score, 1)
         IN /\ DOMAIN all = 1 .. Len(all) /\ Len(all) \in Nat
            /\ DOMAIN one = IF all = << >> THEN {} ELSE {1}
            /\ all # << >> => /\ 1 \in DOMAIN all /\ all[1].rerank \in Nat
                              /\ one[1].chunk = all[1].chunk
  <1> DEFINE all == ArmHits(world, a, world.score, RerankN)
             one == ArmHits(world, a, world.score, 1)
  <1>1. PICK best, sorted :
          /\ IsPool(best) /\ IsReranked(world, sorted, best)
          /\ \A k \in 1 .. RerankN :
               IsPost(ArmHits(world, a, world.score, k), world, sorted, k)
    BY ArmHitsAre
  <1>2. RerankN \in 1 .. RerankN /\ 1 \in 1 .. RerankN
    BY RetrievalAssumption
  <1>3. IsPost(all, world, sorted, RerankN) /\ IsPost(one, world, sorted, 1)
    BY <1>1, <1>2
  <1> HIDE DEF all, one
  <1>4. /\ sorted \in Seq(Chunks) /\ Len(sorted) \in Nat /\ DOMAIN sorted = 1 .. Len(sorted)
        /\ Len(sorted) <= RerankN /\ RerankN \in Nat
    BY <1>1, RetrievalAssumption DEF IsPool, IsReranked
  <1>5. /\ all \in Seq(HitTypes) /\ Len(all) = Len(sorted)
        /\ \A i \in DOMAIN all : all[i].chunk = sorted[i] /\ all[i].rerank = world.score[sorted[i]]
    <2>1. AtDepth(RerankN, Len(sorted)) = Len(sorted)
      <3>1. \A m, n \in Nat : n <= m => (IF m <= n THEN m ELSE n) = n
        OBVIOUS
      <3> QED
        BY <1>4, <3>1 DEF AtDepth
    <2> QED
      BY <1>3, <2>1 DEF IsPost
  <1>6. /\ one \in Seq(HitTypes) /\ Len(one) = AtDepth(1, Len(sorted))
        /\ \A i \in DOMAIN one : one[i].chunk = sorted[i]
    BY <1>3 DEF IsPost
  <1>7. DOMAIN all = 1 .. Len(all) /\ Len(all) \in Nat
    BY <1>5
  <1>8. CASE all = << >>
    <2>1. Len(sorted) = 0
      BY <1>5, <1>8
    <2>2. Len(one) = 0
      BY <1>6, <2>1 DEF AtDepth
    <2>3. DOMAIN one = {}
      BY <1>6, <2>2
    <2> QED
      BY <1>7, <1>8, <2>3 DEF all, one
  <1>9. CASE all # << >>
    <2>1. Len(sorted) # 0
      BY <1>5, <1>9
    <2>2. 1 \in DOMAIN all /\ 1 \in DOMAIN sorted
      BY <1>4, <1>5, <1>7, <2>1
    <2>3. Len(one) = 1
      BY <1>4, <1>6, <2>1 DEF AtDepth
    <2>4. DOMAIN one = {1}
      <3>1. DOMAIN one = 1 .. Len(one)
        BY <1>6
      <3>2. 1 .. 1 = {1}
        OBVIOUS
      <3> QED
        BY <2>3, <3>1, <3>2
    <2>5. all[1].rerank \in Nat
      <3>1. world.score \in [Chunks -> Nat] /\ sorted[1] \in Chunks
        BY <1>4, <2>2, WorldIs
      <3> QED
        BY <1>5, <2>2, <3>1
    <2>6. one[1].chunk = all[1].chunk
      BY <1>5, <1>6, <2>2, <2>4
    <2> QED
      BY <1>7, <1>9, <2>2, <2>4, <2>5, <2>6 DEF all, one
  <1> QED
    BY <1>8, <1>9

(* So the decision of an arm sees the lure exactly when it leads the pool. *)
LEMMA RowIs ==
  ASSUME NEW world \in Worlds, NEW lure, NEW a \in Arms
  PROVE  LET row == Row(world, lure, a)
         IN /\ \A b \in Arms : row.seen[b] <=> row.rank[b] = 1
            /\ row.isLure <=> row.rank[a] = 1
            /\ row.top = NoScore \/ row.top \in Nat
  <1> DEFINE post == [b \in Arms |-> ArmHits(world, b, world.score, RerankN)]
             seen == [b \in Arms |-> Seen(world, lure, b)]
             Ranks(b) == {i \in DOMAIN post[b] : post[b][i].chunk \in lure}
             Leads(b) == post[b] # << >> /\ post[b][1].chunk \in lure
             row == Row(world, lure, a)
  <1>1. row = [top    |-> IF post[a] = << >> THEN NoScore ELSE post[a][1].rerank,
               isLure |-> Leads(a),
               rank   |-> [b \in Arms |-> Min(Ranks(b) \cup {RerankN + 1})],
               seen   |-> seen]
    BY DEF Row, RowOf
  <1>2. ASSUME NEW b \in Arms PROVE seen[b] <=> Leads(b)
    <2> DEFINE all == ArmHits(world, b, world.score, RerankN)
               one == ArmHits(world, b, world.score, 1)
    <2>1. /\ DOMAIN one = IF all = << >> THEN {} ELSE {1}
          /\ all # << >> => one[1].chunk = all[1].chunk
      BY FirstHits
    <2>2. post[b] = all
      OBVIOUS
    <2>3. seen[b] <=> Ids(one) \cap lure # {}
      BY DEF Seen
    <2> HIDE DEF all, one
    <2>4. Ids(one) = IF all = << >> THEN {} ELSE {all[1].chunk}
      BY <2>1 DEF Ids, Values
    <2> HIDE DEF post, seen
    <2> QED
      BY <2>2, <2>3, <2>4
  <1>3. ASSUME NEW b \in Arms PROVE Min(Ranks(b) \cup {RerankN + 1}) = 1 <=> Leads(b)
    <2> DEFINE all == ArmHits(world, b, world.score, RerankN)
               places == Ranks(b) \cup {RerankN + 1}
    <2>1. /\ DOMAIN all = 1 .. Len(all) /\ Len(all) \in Nat
          /\ all # << >> => 1 \in DOMAIN all
      BY FirstHits
    <2>2. post[b] = all
      OBVIOUS
    <2> HIDE DEF all, post
    <2>3. RerankN + 1 \in Nat /\ RerankN + 1 # 1
      BY RetrievalAssumption
    <2>4. places \in SUBSET Nat /\ places # {}
      BY <2>1, <2>2, <2>3
    <2>5. \A x \in places : 1 <= x
      <3>1. RerankN + 1 >= 1
        BY RetrievalAssumption
      <3> QED
        BY <2>1, <2>2, <3>1
    <2>6. Min(places) \in places /\ \A x \in places : Min(places) <= x
      <3> HIDE DEF places
      <3> QED
        BY <2>4, MinOfNumbers
    <2>7. 1 \in places <=> Leads(b)
      <3>1. 1 \in DOMAIN all <=> all # << >>
        BY <2>1
      <3> QED
        BY <2>2, <2>3, <3>1
    <2>8. Min(places) = 1 <=> 1 \in places
      <3> HIDE DEF places
      <3>1. ASSUME 1 \in places PROVE Min(places) = 1
        <4>1. Min(places) \in Nat /\ 1 <= Min(places) /\ Min(places) <= 1
          BY <2>4, <2>5, <2>6, <3>1
        <4> QED
          BY <4>1
      <3> QED
        BY <2>6, <3>1
    <2> QED
      BY <2>7, <2>8
  <1>4. row.top = NoScore \/ row.top \in Nat
    <2>1. ArmHits(world, a, world.score, RerankN) # << >> =>
            ArmHits(world, a, world.score, RerankN)[1].rerank \in Nat
      BY FirstHits
    <2>2. post[a] = ArmHits(world, a, world.score, RerankN)
      OBVIOUS
    <2>3. row.top = IF post[a] = << >> THEN NoScore ELSE post[a][1].rerank
      BY <1>1
    <2> HIDE DEF post, row
    <2> QED
      BY <2>1, <2>2, <2>3
  <1>5. /\ \A b \in Arms : row.rank[b] = Min(Ranks(b) \cup {RerankN + 1})
        /\ row.seen = seen /\ (row.isLure <=> Leads(a))
    <2> HIDE DEF post, seen, Ranks, Leads, row
    <2> QED
      BY <1>1
  <1> HIDE DEF post, seen, Ranks, Leads, row
  <1>6. \A b \in Arms : row.seen[b] <=> row.rank[b] = 1
    BY <1>2, <1>3, <1>5
  <1>7. row.isLure <=> row.rank[a] = 1
    BY <1>3, <1>5
  <1> QED
    BY <1>4, <1>6, <1>7 DEF row

-----------------------------------------------------------------------------
(* What is measured of an answerable entry: the top before and after, out  *)
(* of one pool.                                                            *)
IsTop(top, pool, world) ==
  \A c \in top, d \in pool \ top : world.score[c] >= world.score[d]

LEMMA PassesAre ==
  ASSUME NEW world \in Worlds, NEW a \in Arms
  PROVE  LET passes == BothPasses(world, a)
             top == Ids(Cut(passes.post, DecisionDepth))
             before == Ids(Cut(passes.pre, DecisionDepth))
             pool == Ids(passes.post)
         IN /\ IsFiniteSet(pool) /\ pool \in SUBSET Chunks
            /\ top \in SUBSET pool /\ before \in SUBSET pool
            /\ Cardinality(top) = Cardinality(before)
            /\ \A c \in pool : /\ ScoreOf(passes.post, c) = world.score[c]
                               /\ world.score[c] \in Nat
            /\ IsTop(top, pool, world)
  <1> DEFINE post == ArmHits(world, a, world.score, RerankN)
             pre == ArmHits(world, a, << >>, RerankN)
             passes == BothPasses(world, a)
             topHits == Cut(post, DecisionDepth)
             beforeHits == Cut(pre, DecisionDepth)
  <1>0. passes.post = post /\ passes.pre = pre
    BY DEF BothPasses
  <1>1. PICK best, sorted :
          /\ IsPool(best) /\ IsReranked(world, sorted, best)
          /\ \A k \in 1 .. RerankN :
               /\ IsPost(ArmHits(world, a, world.score, k), world, sorted, k)
               /\ IsPre(ArmHits(world, a, << >>, k), best, k)
    BY ArmHitsAre
  <1>2. RerankN \in 1 .. RerankN /\ RerankN \in Nat /\ DecisionDepth \in Nat
    BY RetrievalAssumption, EvaluationAssumption
  <1>3. IsPost(post, world, sorted, RerankN) /\ IsPre(pre, best, RerankN)
    BY <1>1, <1>2
  <1> HIDE DEF post, pre, passes
  <1> DEFINE n == Len(best)
             d == AtDepth(DecisionDepth, n)
  <1>4. /\ best \in Seq(Chunks) /\ IsInjective(best) /\ n \in Nat /\ n <= RerankN
        /\ DOMAIN best = 1 .. n
        /\ sorted \in Seq(Chunks) /\ IsInjective(sorted) /\ Len(sorted) = n
        /\ DOMAIN sorted = 1 .. n /\ ToSet(sorted) = ToSet(best)
        /\ \A i, j \in DOMAIN sorted :
             i < j => world.score[sorted[i]] >= world.score[sorted[j]]
    <2>1. best \in Seq(Chunks) /\ IsInjective(best) /\ Len(best) <= RerankN
      BY <1>1 DEF IsPool
    <2>2. /\ sorted \in Seq(Chunks) /\ IsInjective(sorted) /\ Len(sorted) = n
          /\ ToSet(sorted) = ToSet(best)
          /\ \A i, j \in DOMAIN sorted :
               i < j => world.score[sorted[i]] >= world.score[sorted[j]]
      BY <1>1 DEF IsReranked
    <2> QED
      BY <2>1, <2>2
  <1>5. AtDepth(RerankN, n) = n /\ d \in 0 .. n
    <2>1. \A m, l \in Nat : /\ l <= m => (IF m <= l THEN m ELSE l) = l
                            /\ (IF m <= l THEN m ELSE l) \in 0 .. l
      OBVIOUS
    <2> HIDE DEF n
    <2> QED
      BY <1>2, <1>4, <2>1 DEF AtDepth
  <1> HIDE DEF n
  <1>6. /\ post \in Seq(HitTypes) /\ Len(post) = n /\ DOMAIN post = 1 .. n
        /\ \A i \in 1 .. n : post[i].chunk = sorted[i] /\ post[i].rerank = world.score[sorted[i]]
    <2>1. /\ post \in Seq(HitTypes) /\ Len(post) = n
          /\ \A i \in DOMAIN post : post[i].chunk = sorted[i] /\ post[i].rerank = world.score[sorted[i]]
      BY <1>3, <1>4, <1>5 DEF IsPost
    <2> QED
      BY <2>1
  <1>7. /\ pre \in Seq(HitTypes) /\ Len(pre) = n /\ DOMAIN pre = 1 .. n
        /\ \A i \in 1 .. n : pre[i].chunk = best[i]
    <2>1. /\ pre \in Seq(HitTypes) /\ Len(pre) = n
          /\ \A i \in DOMAIN pre : pre[i].chunk = best[i]
      BY <1>3, <1>5 DEF IsPre, n
    <2> QED
      BY <2>1
  <1>8. /\ DOMAIN topHits = 1 .. d
        /\ \A i \in 1 .. d : i \in 1 .. n /\ topHits[i] = post[i]
    <2>1. /\ topHits \in Seq(HitTypes)
          /\ Len(topHits) = IF DecisionDepth <= Len(post) THEN DecisionDepth ELSE Len(post)
          /\ \A i \in 1 .. Len(topHits) : i \in DOMAIN post /\ topHits[i] = post[i]
      BY <1>2, <1>6, CutIs
    <2>2. Len(topHits) = d
      BY <1>6, <2>1 DEF AtDepth
    <2> HIDE DEF topHits, d
    <2> QED
      BY <1>6, <2>1, <2>2
  <1>9. /\ DOMAIN beforeHits = 1 .. d
        /\ \A i \in 1 .. d : i \in 1 .. n /\ beforeHits[i] = pre[i]
    <2>1. /\ beforeHits \in Seq(HitTypes)
          /\ Len(beforeHits) = IF DecisionDepth <= Len(pre) THEN DecisionDepth ELSE Len(pre)
          /\ \A i \in 1 .. Len(beforeHits) : i \in DOMAIN pre /\ beforeHits[i] = pre[i]
      BY <1>2, <1>7, CutIs
    <2>2. Len(beforeHits) = d
      BY <1>7, <2>1 DEF AtDepth
    <2> HIDE DEF beforeHits, d
    <2> QED
      BY <1>7, <2>1, <2>2
  <1> HIDE DEF topHits, beforeHits, d
  <1> DEFINE top == Ids(topHits)
             before == Ids(beforeHits)
             pool == Ids(post)
  <1>10. /\ pool = {sorted[i] : i \in 1 .. n} /\ pool = ToSet(best)
         /\ top = {sorted[i] : i \in 1 .. d} /\ before = {best[i] : i \in 1 .. d}
    <2>1. pool = {sorted[i] : i \in 1 .. n}
      BY <1>6 DEF Ids, Values
    <2>2. top = {sorted[i] : i \in 1 .. d}
      BY <1>6, <1>8 DEF Ids, Values
    <2>3. before = {best[i] : i \in 1 .. d}
      BY <1>7, <1>9 DEF Ids, Values
    <2>4. ToSet(sorted) = {sorted[i] : i \in 1 .. n}
      BY <1>4 DEF ToSet
    <2> QED
      BY <1>4, <2>1, <2>2, <2>3, <2>4
  <1> HIDE DEF top, before, pool
  <1>11. IsFiniteSet(pool) /\ pool \in SUBSET Chunks
    BY <1>4, <1>10, ElementsFinite
  <1>12. top \in SUBSET pool /\ before \in SUBSET pool
    <2>1. \A i \in 1 .. d : i \in 1 .. n
      BY <1>8
    <2>2. pool = {best[i] : i \in 1 .. n}
      BY <1>4, <1>10 DEF ToSet
    <2> QED
      BY <1>10, <2>1, <2>2
  <1>13. Cardinality(top) = Cardinality(before)
    <2> DEFINE f == [i \in 1 .. d |-> sorted[i]]
               g == [i \in 1 .. d |-> best[i]]
    <2>1. /\ f \in Seq(Chunks) /\ Len(f) = d /\ ToSet(f) = top /\ IsInjective(f)
          /\ g \in Seq(Chunks) /\ Len(g) = d /\ ToSet(g) = before /\ IsInjective(g)
      <3>1. d \in Nat /\ \A i \in 1 .. d : i \in 1 .. n
        BY <1>5, <1>8
      <3>2. f \in Seq(Chunks) /\ Len(f) = d /\ g \in Seq(Chunks) /\ Len(g) = d
        BY <1>4, <3>1
      <3>3. DOMAIN f = 1 .. d /\ DOMAIN g = 1 .. d
        OBVIOUS
      <3>4. ToSet(f) = top /\ ToSet(g) = before
        BY <1>10, <3>3 DEF ToSet
      <3>5. IsInjective(f) /\ IsInjective(g)
        BY <1>4, <3>1, <3>3 DEF IsInjective
      <3> QED
        BY <3>2, <3>4, <3>5
    <2> HIDE DEF f, g
    <2>2. Cardinality(ToSet(f)) = Len(f) /\ Cardinality(ToSet(g)) = Len(g)
      BY <2>1, InjectiveLength
    <2> QED
      BY <2>1, <2>2
  <1>14. ASSUME NEW c \in pool
         PROVE  ScoreOf(post, c) = world.score[c] /\ world.score[c] \in Nat
    <2> DEFINE i == CHOOSE i \in DOMAIN post : post[i].chunk = c
    <2>1. \E k \in DOMAIN post : post[k].chunk = c
      BY <1>6, <1>10
    <2>2. i \in 1 .. n /\ post[i].chunk = c
      BY <1>6, <2>1
    <2>3. ScoreOf(post, c) = post[i].rerank
      BY DEF ScoreOf, pool
    <2> HIDE DEF i
    <2>4. ScoreOf(post, c) = world.score[c]
      BY <1>6, <2>2, <2>3
    <2> QED
      BY <1>11, <2>4, WorldIs
  <1>15. IsTop(top, pool, world)
    <2>1. ASSUME NEW c \in top, NEW e \in pool \ top
          PROVE  world.score[c] >= world.score[e]
      <3>1. PICK i \in 1 .. d : c = sorted[i]
        BY <1>10
      <3>2. PICK j \in 1 .. n : e = sorted[j]
        BY <1>10
      <3>3. ~ (j \in 1 .. d)
        BY <1>10, <3>2
      <3>4. i < j /\ i \in 1 .. n
        BY <1>4, <1>5, <3>3
      <3> QED
        BY <1>4, <3>1, <3>2, <3>4
    <2> QED
      BY <2>1 DEF IsTop
  <1> QED
    BY <1>0, <1>11, <1>12, <1>13, <1>14, <1>15 DEF top, before, pool, topHits, beforeHits, passes

(* Two sets of one size lose to each other as much.                        *)
LEMMA Exchange ==
  ASSUME NEW A, NEW B, IsFiniteSet(A), IsFiniteSet(B)
  PROVE  /\ IsFiniteSet(A \ B) /\ IsFiniteSet(B \ A)
         /\ {Cardinality(A), Cardinality(B), Cardinality(A \ B), Cardinality(B \ A)} \subseteq Nat
         /\ Cardinality(A \ B) + Cardinality(B) = Cardinality(B \ A) + Cardinality(A)
  <1>1. /\ IsFiniteSet(A \ B) /\ Cardinality(A \ B) = Cardinality(A) - Cardinality(A \cap B)
        /\ IsFiniteSet(B \ A) /\ Cardinality(B \ A) = Cardinality(B) - Cardinality(B \cap A)
    BY FS_Difference
  <1>2. A \cap B = B \cap A /\ IsFiniteSet(A \cap B)
    BY FS_Intersection
  <1>3. /\ Cardinality(A) \in Nat /\ Cardinality(B) \in Nat /\ Cardinality(A \cap B) \in Nat
        /\ Cardinality(A \ B) \in Nat /\ Cardinality(B \ A) \in Nat
    BY <1>1, <1>2, FS_CardinalityType
  <1>4. Cardinality(A \ B) + Cardinality(B) = Cardinality(B \ A) + Cardinality(A)
    <2> DEFINE a == Cardinality(A)
               b == Cardinality(B)
               both == Cardinality(A \cap B)
    <2>1. a \in Nat /\ b \in Nat /\ both \in Nat
      BY <1>3
    <2>2. Cardinality(A \ B) = a - both /\ Cardinality(B \ A) = b - both
      BY <1>1, <1>2
    <2> HIDE DEF a, b, both
    <2>3. (a - both) + b = (b - both) + a
      BY <2>1
    <2>4. Cardinality(A \ B) + b = Cardinality(B \ A) + a
      BY <2>2, <2>3
    <2> QED
      BY <2>4 DEF a, b
  <1> QED
    BY <1>1, <1>3, <1>4

(* A loss has a cause: what left the top is scored, and as much came in    *)
(* that is scored no worse.                                                *)
Explained(m) ==
  /\ {m.pre, m.post, m.gained, m.lost} \subseteq Nat
  /\ m.gained + m.pre = m.lost + m.post
  /\ NoScore \notin m.demoted
  /\ Len(m.displacers[TRUE]) + Len(m.displacers[FALSE]) >= m.lost
  /\ \A isGold \in BOOLEAN :
       \A d \in Values(m.displacers[isGold]), s \in m.demoted : d >= s

(* What is not gold and came in is of population (c).                      *)
Reported(m) ==
  /\ m.best \in Nat \cup {NoScore} /\ m.demoted \subseteq Nat
  /\ m.others \in Seq(Nat)
  /\ \A s \in Values(m.displacers[FALSE]) :
       s \in Nat /\ \E i \in DOMAIN m.others : s <= m.others[i]

LEMMA MeasureIs ==
  ASSUME NEW world \in Worlds, NEW gold \in GoldSets, NEW a \in Arms
  PROVE  LET m == Measure(world, gold, a)
         IN /\ Explained(m) /\ Reported(m)
            /\ (\A c, d \in gold : c = d) => \A s \in m.demoted : s = m.best
  <1> DEFINE passes == BothPasses(world, a)
             top == Ids(Cut(passes.post, DecisionDepth))
             before == Ids(Cut(passes.pre, DecisionDepth))
             pool == Ids(passes.post)
             score == [c \in pool |-> world.score[c]]
             lost == (before \cap gold) \ top
             gained == (top \cap gold) \ before
             new == IF lost = {} THEN {} ELSE top \ before
             Came(isGold) == {c \in new : c \in gold <=> isGold}
             scored == {score[c] : c \in pool \cap gold}
             Scores(chunks) == [c \in chunks |-> score[c]]
             m == Measure(world, gold, a)
  <1>1. /\ IsFiniteSet(pool) /\ top \in SUBSET pool /\ before \in SUBSET pool
        /\ Cardinality(top) = Cardinality(before)
        /\ \A c \in pool : ScoreOf(passes.post, c) = score[c] /\ score[c] \in Nat
        /\ \A c \in top, d \in pool \ top : score[c] >= score[d]
    <2>1. /\ IsFiniteSet(pool) /\ top \in SUBSET pool /\ before \in SUBSET pool
          /\ Cardinality(top) = Cardinality(before)
          /\ \A c \in pool : ScoreOf(passes.post, c) = world.score[c] /\ world.score[c] \in Nat
          /\ IsTop(top, pool, world)
      BY PassesAre
    <2>2. \A c \in pool : score[c] = world.score[c]
      OBVIOUS
    <2> HIDE DEF passes, top, before, pool, score
    <2>3. \A c \in top, d \in pool \ top : score[c] >= score[d]
      BY <2>1, <2>2 DEF IsTop
    <2> QED
      BY <2>1, <2>2, <2>3
  <1>2. m = [pre        |-> Cardinality(before \cap gold),
             post       |-> Cardinality(top \cap gold),
             best       |-> IF scored = {} THEN NoScore ELSE Max(scored),
             others     |-> Sorted(Scores(top \ gold)),
             gained     |-> Cardinality(gained),
             lost       |-> Cardinality(lost),
             demoted    |-> {score[c] : c \in lost},
             displacers |-> [isGold \in BOOLEAN |-> Sorted(Scores(Came(isGold)))]]
    <2> DEFINE Of(chunks) == [c \in chunks |-> ScoreOf(passes.post, c)]
    <2>1. m = [pre        |-> Cardinality(before \cap gold),
               post       |-> Cardinality(top \cap gold),
               best       |-> IF {ScoreOf(passes.post, c) : c \in pool \cap gold} = {} THEN NoScore
                              ELSE Max({ScoreOf(passes.post, c) : c \in pool \cap gold}),
               others     |-> Sorted(Of(top \ gold)),
               gained     |-> Cardinality(gained),
               lost       |-> Cardinality(lost),
               demoted    |-> {ScoreOf(passes.post, c) : c \in lost},
               displacers |-> [isGold \in BOOLEAN |-> Sorted(Of(Came(isGold)))]]
      BY DEF Measure, Compare
    <2> HIDE DEF m, passes, top, before, pool, score
    <2>2. {ScoreOf(passes.post, c) : c \in pool \cap gold} = scored
      BY <1>1
    <2>3. {ScoreOf(passes.post, c) : c \in lost} = {score[c] : c \in lost}
      BY <1>1
    <2>4. ASSUME NEW chunks \in SUBSET pool PROVE Of(chunks) = Scores(chunks)
      BY <1>1
    <2>5. Of(top \ gold) = Scores(top \ gold)
      <3>1. top \ gold \in SUBSET pool
        BY <1>1
      <3> HIDE DEF Of, Scores
      <3> QED
        BY <2>4, <3>1
    <2>6. \A isGold \in BOOLEAN : Of(Came(isGold)) = Scores(Came(isGold))
      <3>1. \A isGold \in BOOLEAN : Came(isGold) \in SUBSET pool
        BY <1>1
      <3> HIDE DEF Of, Scores, Came
      <3> QED
        BY <2>4, <3>1
    <2>7. [isGold \in BOOLEAN |-> Sorted(Of(Came(isGold)))]
            = [isGold \in BOOLEAN |-> Sorted(Scores(Came(isGold)))]
      <3> HIDE DEF Of, Scores, Came
      <3> QED
        BY <2>6
    <2> HIDE DEF Of, Scores, Came, scored, lost, gained
    <2> QED
      BY <2>1, <2>2, <2>3, <2>5, <2>7
  <1> HIDE DEF passes, top, before, pool, score
  <1>3. /\ m.pre = Cardinality(before \cap gold) /\ m.post = Cardinality(top \cap gold)
        /\ m.best = IF scored = {} THEN NoScore ELSE Max(scored)
        /\ m.others = Sorted(Scores(top \ gold))
        /\ m.gained = Cardinality(gained) /\ m.lost = Cardinality(lost)
        /\ m.demoted = {score[c] : c \in lost}
        /\ m.displacers[TRUE] = Sorted(Scores(Came(TRUE)))
        /\ m.displacers[FALSE] = Sorted(Scores(Came(FALSE)))
    <2>1. TRUE \in BOOLEAN /\ FALSE \in BOOLEAN
      OBVIOUS
    <2> HIDE DEF m, scored, Scores, lost, gained, Came
    <2> QED
      BY <1>2, <2>1
  <1> HIDE DEF m
  <1>4. /\ IsFiniteSet(top) /\ IsFiniteSet(before)
        /\ IsFiniteSet(top \cap gold) /\ IsFiniteSet(before \cap gold)
        /\ IsFiniteSet(top \ before)
    BY <1>1, FS_Subset
  <1>5. /\ {m.pre, m.post, m.gained, m.lost} \subseteq Nat /\ m.gained + m.pre = m.lost + m.post
        /\ Cardinality(lost) \in Nat /\ IsFiniteSet(lost)
    <2> DEFINE A == top \cap gold
               B == before \cap gold
    <2>1. A \ B = gained /\ B \ A = lost
      OBVIOUS
    <2>2. IsFiniteSet(A) /\ IsFiniteSet(B)
      BY <1>4
    <2> HIDE DEF A, B
    <2>3. /\ {Cardinality(A), Cardinality(B), Cardinality(A \ B), Cardinality(B \ A)} \subseteq Nat
          /\ Cardinality(A \ B) + Cardinality(B) = Cardinality(B \ A) + Cardinality(A)
          /\ IsFiniteSet(B \ A)
      BY <2>2, Exchange
    <2> HIDE DEF gained, lost
    <2> QED
      BY <1>3, <2>1, <2>3 DEF A, B
  <1>6. \A c \in lost : c \in pool \ top /\ c \in pool \cap gold /\ score[c] \in Nat
    BY <1>1
  <1>7. m.demoted \subseteq Nat /\ NoScore \notin m.demoted
    <2>1. m.demoted \subseteq Nat
      BY <1>3, <1>6
    <2> QED
      BY <2>1 DEF NoScore
  <1>8. ASSUME NEW chunks \in SUBSET pool
        PROVE  LET s == Sorted(Scores(chunks))
               IN /\ s \in Seq(Nat) /\ Len(s) = Cardinality(chunks)
                  /\ \A v \in Values(s) : \E c \in chunks : v = score[c]
                  /\ \A c \in chunks : s # << >> /\ score[c] <= s[Len(s)]
    <2> DEFINE f == Scores(chunks)
               s == Sorted(f)
    <2>1. f \in [chunks -> Nat] /\ \A c \in chunks : f[c] = score[c]
      BY <1>1
    <2>2. IsFiniteSet(chunks)
      BY <1>1, FS_Subset
    <2> HIDE DEF f
    <2>3. /\ s \in Seq(Nat) /\ Len(s) = Cardinality(chunks) /\ DOMAIN s = 1 .. Len(s)
          /\ \A k \in DOMAIN s : \E x \in chunks : s[k] = f[x]
          /\ \A x \in chunks : s # << >> /\ s[1] <= f[x] /\ f[x] <= s[Len(s)]
      BY <2>1, <2>2, SortedIs
    <2> HIDE DEF s
    <2>4. \A v \in Values(s) : \E c \in chunks : v = score[c]
      BY <2>1, <2>3 DEF Values
    <2> QED
      BY <2>1, <2>3, <2>4 DEF s, f
  <1> HIDE DEF Scores
  <1>9. /\ new \in SUBSET top /\ new \in SUBSET pool /\ IsFiniteSet(new)
        /\ \A isGold \in BOOLEAN : Came(isGold) \in SUBSET new
    <2>1. new \in SUBSET top
      OBVIOUS
    <2>2. \A isGold \in BOOLEAN : Came(isGold) \in SUBSET new
      OBVIOUS
    <2> HIDE DEF new, Came
    <2> QED
      BY <1>1, <1>4, <2>1, <2>2, FS_Subset
  <1>10. Len(m.displacers[TRUE]) + Len(m.displacers[FALSE]) >= m.lost
    <2> DEFINE A == Came(TRUE)
               B == Came(FALSE)
    <2>1. A \cup B = new /\ A \cap B = {} /\ A \in SUBSET pool /\ B \in SUBSET pool
      <3>1. A = new \cap gold /\ B = new \ gold
        OBVIOUS
      <3> HIDE DEF new, A, B
      <3> QED
        BY <1>9, <3>1
    <2>2. Len(m.displacers[TRUE]) = Cardinality(A) /\ Len(m.displacers[FALSE]) = Cardinality(B)
      <3> HIDE DEF Came
      <3> QED
        BY <1>3, <1>8, <2>1
    <2> HIDE DEF A, B, Came
    <2>3. Cardinality(A) + Cardinality(B) = Cardinality(new)
      <3>1. IsFiniteSet(A) /\ IsFiniteSet(B)
        BY <1>1, <2>1, FS_Subset
      <3>2. Cardinality(A \cup B) = Cardinality(A) + Cardinality(B) - Cardinality(A \cap B)
        BY <3>1, FS_Union
      <3>3. Cardinality(A \cap B) = 0
        BY <2>1, FS_EmptySet
      <3>4. Cardinality(A) \in Nat /\ Cardinality(B) \in Nat
        BY <3>1, FS_CardinalityType
      <3> HIDE DEF new
      <3> QED
        BY <2>1, <3>2, <3>3, <3>4
    <2>4. Cardinality(new) >= Cardinality(lost)
      <3>1. CASE lost = {}
        <4>1. Cardinality(lost) = 0 /\ Cardinality(new) = 0
          BY <3>1, FS_EmptySet
        <4> QED
          BY <4>1
      <3>2. CASE lost # {}
        <4>1. new = top \ before
          BY <3>2
        <4>2. /\ Cardinality(top \ before) = Cardinality(before \ top)
              /\ IsFiniteSet(before \ top) /\ Cardinality(before \ top) \in Nat
          <5>1. /\ {Cardinality(top), Cardinality(before),
                    Cardinality(top \ before), Cardinality(before \ top)} \subseteq Nat
                /\ Cardinality(top \ before) + Cardinality(before)
                     = Cardinality(before \ top) + Cardinality(top)
                /\ IsFiniteSet(before \ top)
            BY <1>4, Exchange
          <5> QED
            BY <1>1, <5>1
        <4>3. lost \in SUBSET (before \ top)
          OBVIOUS
        <4>4. Cardinality(lost) <= Cardinality(before \ top)
          <5> HIDE DEF lost
          <5> QED
            BY <4>2, <4>3, FS_Subset
        <4> HIDE DEF lost, new
        <4> QED
          BY <1>5, <4>1, <4>2, <4>4
      <3> QED
        BY <3>1, <3>2
    <2> HIDE DEF new, lost
    <2> QED
      BY <1>3, <2>2, <2>3, <2>4
  <1>11. ASSUME NEW isGold \in BOOLEAN, NEW v \in Values(m.displacers[isGold])
         PROVE  \E c \in Came(isGold) : v = score[c] /\ c \in top
    <2>1. m.displacers[isGold] = Sorted(Scores(Came(isGold)))
      <3>1. isGold = TRUE \/ isGold = FALSE
        OBVIOUS
      <3> HIDE DEF Came
      <3> QED
        BY <1>3, <3>1
    <2>2. Came(isGold) \in SUBSET pool /\ Came(isGold) \in SUBSET top
      <3> HIDE DEF Came, new
      <3> QED
        BY <1>9
    <2> HIDE DEF Came
    <2>3. \E c \in Came(isGold) : v = score[c]
      BY <1>8, <2>1, <2>2
    <2> QED
      BY <2>2, <2>3
  <1>12. \A isGold \in BOOLEAN :
           \A d \in Values(m.displacers[isGold]), s \in m.demoted : d >= s
    <2>1. ASSUME NEW isGold \in BOOLEAN, NEW d \in Values(m.displacers[isGold]),
                 NEW s \in m.demoted
          PROVE  d >= s
      <3> HIDE DEF Came, lost
      <3>1. PICK c \in top : d = score[c]
        BY <1>11
      <3>2. PICK e \in lost : s = score[e]
        BY <1>3
      <3>3. e \in pool \ top
        BY <1>6
      <3> QED
        BY <1>1, <3>1, <3>2, <3>3
    <2> QED
      BY <2>1
  <1>13. m.others \in Seq(Nat)
    <2>1. top \ gold \in SUBSET pool
      BY <1>1
    <2> QED
      BY <1>3, <1>8, <2>1
  <1>14. \A s \in Values(m.displacers[FALSE]) :
           s \in Nat /\ \E i \in DOMAIN m.others : s <= m.others[i]
    <2>1. ASSUME NEW s \in Values(m.displacers[FALSE])
          PROVE  s \in Nat /\ \E i \in DOMAIN m.others : s <= m.others[i]
      <3>1. PICK c \in Came(FALSE) : s = score[c] /\ c \in top
        <4>1. FALSE \in BOOLEAN
          OBVIOUS
        <4> HIDE DEF Came
        <4> QED
          BY <1>11, <4>1
      <3>2. c \in top \ gold
        BY <3>1
      <3>3. top \ gold \in SUBSET pool /\ c \in pool
        BY <1>1, <3>2
      <3> HIDE DEF Came
      <3>4. m.others # << >> /\ score[c] <= m.others[Len(m.others)]
        BY <1>3, <1>8, <3>2, <3>3
      <3>5. Len(m.others) \in DOMAIN m.others
        BY <1>13, <3>4
      <3>6. score[c] \in Nat
        BY <1>1, <3>3
      <3> QED
        BY <3>1, <3>4, <3>5, <3>6
    <2> QED
      BY <2>1
  <1>15. scored \in SUBSET Nat /\ IsFiniteSet(scored)
    <2>1. scored \in SUBSET Nat
      BY <1>1
    <2> DEFINE f == [c \in pool \cap gold |-> score[c]]
    <2>2. f \in Surjection(pool \cap gold, scored)
      BY DEF Surjection
    <2>3. IsFiniteSet(pool \cap gold)
      BY <1>1, FS_Subset
    <2> HIDE DEF f, scored
    <2> QED
      BY <2>1, <2>2, <2>3, FS_Surjection
  <1>16. scored # {} => Max(scored) \in scored
    <2> HIDE DEF scored
    <2>1. ASSUME scored # {} PROVE Max(scored) \in scored
      <3>1. \E x \in scored : \A y \in scored : y <= x
        BY <1>15, <2>1, GreatestNumber
      <3>2. \E x \in scored : \A y \in scored : x >= y
        BY <1>15, <3>1
      <3> QED
        BY <3>2 DEF Max
    <2> QED
      BY <2>1
  <1>17. m.best \in Nat \cup {NoScore}
    <2> HIDE DEF scored
    <2> QED
      BY <1>3, <1>15, <1>16
  <1>18. ASSUME \A c, d \in gold : c = d, NEW s \in m.demoted PROVE s = m.best
    <2>1. PICK c \in lost : s = score[c]
      <3> HIDE DEF lost
      <3> QED
        BY <1>3
    <2>2. c \in pool \cap gold
      BY <1>6, <2>1
    <2>3. scored = {s}
      BY <1>18, <2>1, <2>2
    <2> HIDE DEF scored
    <2>4. Max(scored) \in scored
      BY <1>16, <2>3
    <2> QED
      BY <1>3, <2>3, <2>4
  <1> HIDE DEF Came, lost, gained, new, scored
  <1>19. Explained(m)
    BY <1>5, <1>7, <1>10, <1>12 DEF Explained
  <1>20. Reported(m)
    BY <1>7, <1>13, <1>14, <1>17 DEF Reported
  <1> QED
    BY <1>18, <1>19, <1>20 DEF m

-----------------------------------------------------------------------------
(* The inductive invariant: the run repeats, in order, what was fixed for  *)
(* its entries before it began, and every lure is counted as it was seen.  *)
Measurable(m) == \E world \in Worlds, gold \in GoldSets : m = Measure(world, gold, arm)
Rowable(row) == \E world \in Worlds, lure \in GoldSets : row = Row(world, lure, arm)

EvalInv ==
  /\ arm \in Arms
  /\ DOMAIN entries.answerable = 1 .. NumAnswerable
  /\ \A i \in 1 .. NumAnswerable : Measurable(entries.answerable[i])
  /\ DOMAIN entries.nearMiss = 1 .. NumNearMisses
  /\ \A i \in 1 .. NumNearMisses : Rowable(entries.nearMiss[i])
  /\ measured \in Seq(Values(entries.answerable))
  /\ lures \in Seq(Values(entries.nearMiss))
  /\ coverage \in [Arms -> Seq({"UNSCORED", "undecided", "ABSTAINED", "ANSWERED"})]
  /\ \A a \in Arms :
       /\ Len(coverage[a]) = Len(lures)
       /\ \A i \in DOMAIN lures : coverage[a][i] # "UNSCORED" <=> lures[i].seen[a]

(* Whatever the decision says, an item is UNSCORED exactly when its lure   *)
(* was not retrieved.                                                      *)
LEMMA OutcomeIs ==
  ASSUME NEW retrieved, NEW decision \in Decisions
  PROVE  LET outcome == NearMissOutcome(retrieved, decision)
         IN /\ outcome \in {"UNSCORED", "undecided", "ABSTAINED", "ANSWERED"}
            /\ outcome # "UNSCORED" <=> retrieved
  <1>1. decision \in {"unwired", "abstained", "answered"}
    BY EvaluationAssumption
  <1> QED
    BY <1>1 DEF NearMissOutcome

LEMMA EvalInvHolds == Spec => []EvalInv
  <1>1. Init => EvalInv
    <2>1. SUFFICES ASSUME Init PROVE EvalInv
      OBVIOUS
    <2>2. arm \in Arms
      BY <2>1 DEF Init, Arms
    <2>3. /\ entries.answerable \in [1 .. NumAnswerable ->
               {Measure(world, gold, arm) : world \in Worlds, gold \in GoldSets}]
          /\ entries.nearMiss \in [1 .. NumNearMisses ->
               {Row(world, lure, arm) : world \in Worlds, lure \in GoldSets}]
      <3> DEFINE A == [1 .. NumAnswerable ->
                         {Measure(world, gold, arm) : world \in Worlds, gold \in GoldSets}]
                 N == [1 .. NumNearMisses ->
                         {Row(world, lure, arm) : world \in Worlds, lure \in GoldSets}]
      <3>1. entries \in [answerable : A, nearMiss : N]
        BY <2>1 DEF Init
      <3> HIDE DEF A, N
      <3>2. entries.answerable \in A /\ entries.nearMiss \in N
        BY <3>1
      <3> QED
        BY <3>2 DEF A, N
    <2>4. /\ DOMAIN entries.answerable = 1 .. NumAnswerable
          /\ \A i \in 1 .. NumAnswerable : Measurable(entries.answerable[i])
      <3> DEFINE all == {Measure(world, gold, arm) : world \in Worlds, gold \in GoldSets}
      <3>1. \A m \in all : Measurable(m)
        BY DEF Measurable
      <3>2. entries.answerable \in [1 .. NumAnswerable -> all]
        BY <2>3
      <3> HIDE DEF all
      <3> QED
        BY <3>1, <3>2
    <2>5. /\ DOMAIN entries.nearMiss = 1 .. NumNearMisses
          /\ \A i \in 1 .. NumNearMisses : Rowable(entries.nearMiss[i])
      <3> DEFINE all == {Row(world, lure, arm) : world \in Worlds, lure \in GoldSets}
      <3>1. \A m \in all : Rowable(m)
        BY DEF Rowable
      <3>2. entries.nearMiss \in [1 .. NumNearMisses -> all]
        BY <2>3
      <3> HIDE DEF all
      <3> QED
        BY <3>1, <3>2
    <2>6. measured = << >> /\ lures = << >> /\ coverage = [a \in Arms |-> << >>]
      BY <2>1 DEF Init
    <2>7. /\ measured \in Seq(Values(entries.answerable))
          /\ lures \in Seq(Values(entries.nearMiss))
      BY <2>6
    <2>8. coverage \in [Arms -> Seq({"UNSCORED", "undecided", "ABSTAINED", "ANSWERED"})]
      BY <2>6
    <2>9. \A a \in Arms :
            /\ Len(coverage[a]) = Len(lures)
            /\ \A i \in DOMAIN lures : coverage[a][i] # "UNSCORED" <=> lures[i].seen[a]
      BY <2>6
    <2> QED
      BY <2>2, <2>4, <2>5, <2>7, <2>8, <2>9 DEF EvalInv
  <1>2. EvalInv /\ [Next]_vars => EvalInv'
    <2> SUFFICES ASSUME EvalInv, [Next]_vars PROVE EvalInv'
      OBVIOUS
    <2>1. UNCHANGED <<arm, entries>> =>
            /\ (\A m : Measurable(m)' <=> Measurable(m))
            /\ (\A row : Rowable(row)' <=> Rowable(row))
      BY DEF Measurable, Rowable
    <2>2. CASE UNCHANGED <<arm, entries, measured, coverage, lures>>
      BY <2>1, <2>2 DEF EvalInv
    <2>3. CASE MeasureAnswerable
      <3>1. Len(measured) \in Nat /\ NumAnswerable \in Nat /\ Len(measured) + 1 \in 1 .. NumAnswerable
        BY <2>3, EvaluationAssumption DEF EvalInv, MeasureAnswerable
      <3>2. entries.answerable[Len(measured) + 1] \in Values(entries.answerable)
        BY <3>1 DEF EvalInv, Values
      <3>3. measured' \in Seq(Values(entries.answerable))
        BY <2>3, <3>2 DEF EvalInv, MeasureAnswerable
      <3>4. UNCHANGED <<arm, entries, coverage, lures>>
        BY <2>3 DEF MeasureAnswerable
      <3> QED
        BY <2>1, <3>3, <3>4 DEF EvalInv
    <2>4. CASE MeasureNearMiss
      <3> DEFINE outcomes == {"UNSCORED", "undecided", "ABSTAINED", "ANSWERED"}
                 n == Len(lures)
                 row == entries.nearMiss[n + 1]
      <3>1. n \in Nat /\ NumNearMisses \in Nat /\ n + 1 \in 1 .. NumNearMisses
        BY <2>4, EvaluationAssumption DEF EvalInv, MeasureNearMiss
      <3>2. row \in Values(entries.nearMiss)
        BY <3>1 DEF EvalInv, Values
      <3>3. UNCHANGED <<arm, entries, measured>> /\ lures' = Append(lures, row)
        BY <2>4 DEF MeasureNearMiss
      <3>4. PICK decision \in Decisions :
              coverage' = [a \in Arms |->
                Append(coverage[a], NearMissOutcome(row.seen[a], decision))]
        BY <2>4 DEF MeasureNearMiss
      <3> DEFINE said(a) == NearMissOutcome(row.seen[a], decision)
      <3>5. \A a \in Arms : said(a) \in outcomes /\ (said(a) # "UNSCORED" <=> row.seen[a])
        BY OutcomeIs
      <3>6. /\ lures \in Seq(Values(entries.nearMiss)) /\ coverage \in [Arms -> Seq(outcomes)]
            /\ \A a \in Arms :
                 /\ Len(coverage[a]) = n
                 /\ \A i \in DOMAIN lures : coverage[a][i] # "UNSCORED" <=> lures[i].seen[a]
        BY DEF EvalInv
      <3> HIDE DEF row
      <3>7. /\ lures' \in Seq(Values(entries.nearMiss)) /\ Len(lures') = n + 1
            /\ DOMAIN lures' = 1 .. n + 1 /\ DOMAIN lures = 1 .. n
            /\ \A i \in 1 .. n : lures'[i] = lures[i]
            /\ lures'[n + 1] = row
        BY <3>2, <3>3, <3>6
      <3>8. coverage' = [a \in Arms |-> Append(coverage[a], said(a))]
        BY <3>4
      <3> HIDE DEF said, outcomes, n
      <3>9. ASSUME NEW a \in Arms
            PROVE  /\ coverage'[a] \in Seq(outcomes) /\ Len(coverage'[a]) = n + 1
                   /\ \A i \in 1 .. n : coverage'[a][i] = coverage[a][i]
                   /\ coverage'[a][n + 1] = said(a)
        <4> DEFINE c == coverage[a]
                   v == said(a)
        <4>1. c \in Seq(outcomes) /\ Len(c) = n /\ v \in outcomes
          BY <3>5, <3>6
        <4>2. coverage'[a] = Append(c, v)
          BY <3>8
        <4> HIDE DEF c, v
        <4>3. /\ Append(c, v) \in Seq(outcomes) /\ Len(Append(c, v)) = n + 1
              /\ \A i \in 1 .. n : Append(c, v)[i] = c[i]
              /\ Append(c, v)[n + 1] = v
          BY <4>1
        <4> QED
          BY <4>2, <4>3 DEF c, v
      <3>10. coverage' \in [Arms -> Seq(outcomes)]
        BY <3>8, <3>9
      <3>11. ASSUME NEW a \in Arms, NEW i \in DOMAIN lures'
             PROVE  coverage'[a][i] # "UNSCORED" <=> lures'[i].seen[a]
        <4>1. CASE i \in 1 .. n
          <5>1. coverage[a][i] # "UNSCORED" <=> lures[i].seen[a]
            BY <3>6, <3>7, <4>1
          <5> QED
            BY <3>7, <3>9, <4>1, <5>1
        <4>2. CASE i = n + 1
          BY <3>5, <3>7, <3>9, <4>2
        <4>3. i \in 1 .. n \/ i = n + 1
          BY <3>1, <3>7
        <4> QED
          BY <4>1, <4>2, <4>3
      <3>12. /\ arm' \in Arms
             /\ DOMAIN entries'.answerable = 1 .. NumAnswerable
             /\ (\A i \in 1 .. NumAnswerable : Measurable(entries.answerable[i]))'
             /\ DOMAIN entries'.nearMiss = 1 .. NumNearMisses
             /\ (\A i \in 1 .. NumNearMisses : Rowable(entries.nearMiss[i]))'
             /\ measured' \in Seq(Values(entries'.answerable))
             /\ lures' \in Seq(Values(entries'.nearMiss))
        BY <2>1, <3>3, <3>7 DEF EvalInv
      <3>13. \A a \in Arms :
               /\ Len(coverage'[a]) = Len(lures')
               /\ \A i \in DOMAIN lures' : coverage'[a][i] # "UNSCORED" <=> lures'[i].seen[a]
        BY <3>7, <3>9, <3>11
      <3> QED
        BY <3>10, <3>12, <3>13 DEF EvalInv, outcomes
    <2> QED
      BY <2>2, <2>3, <2>4 DEF Next, Gate, Write, vars
  <1> QED
    BY <1>1, <1>2, PTL DEF Spec

-----------------------------------------------------------------------------
(* What a run has in hand: every measurement is one of a question of the   *)
(* corpus, every row one of a lure.                                        *)
LEMMA MeasuredAre ==
  ASSUME EvalInv
  PROVE  /\ DOMAIN measured = 1 .. Len(measured) /\ Len(measured) \in Nat
         /\ \A i \in DOMAIN measured :
              /\ Explained(measured[i]) /\ Reported(measured[i])
              /\ (\A gold \in GoldSets : \A c, d \in gold : c = d)
                   => \A s \in measured[i].demoted : s = measured[i].best
  <1>1. measured \in Seq(Values(entries.answerable))
    BY DEF EvalInv
  <1>2. DOMAIN measured = 1 .. Len(measured) /\ Len(measured) \in Nat
    BY <1>1
  <1>3. ASSUME NEW i \in DOMAIN measured PROVE Measurable(measured[i])
    <2>1. measured[i] \in Values(entries.answerable)
      BY <1>1
    <2> QED
      BY <2>1 DEF EvalInv, Values
  <1>4. ASSUME NEW i \in DOMAIN measured
        PROVE  /\ Explained(measured[i]) /\ Reported(measured[i])
               /\ (\A gold \in GoldSets : \A c, d \in gold : c = d)
                    => \A s \in measured[i].demoted : s = measured[i].best
    <2>1. PICK world \in Worlds, gold \in GoldSets : measured[i] = Measure(world, gold, arm)
      BY <1>3 DEF Measurable
    <2>2. arm \in Arms
      BY DEF EvalInv
    <2>3. /\ Explained(measured[i]) /\ Reported(measured[i])
          /\ (\A c, d \in gold : c = d) => \A s \in measured[i].demoted : s = measured[i].best
      BY <2>1, <2>2, MeasureIs
    <2> QED
      BY <2>3
  <1> QED
    BY <1>2, <1>4

LEMMA LuresAre ==
  ASSUME EvalInv
  PROVE  /\ DOMAIN lures = 1 .. Len(lures) /\ Len(lures) \in Nat
         /\ \A i \in DOMAIN lures :
              /\ \A b \in Arms : lures[i].seen[b] <=> lures[i].rank[b] = 1
              /\ lures[i].isLure <=> lures[i].rank[arm] = 1
              /\ lures[i].top = NoScore \/ lures[i].top \in Nat
  <1>1. lures \in Seq(Values(entries.nearMiss)) /\ arm \in Arms
    BY DEF EvalInv
  <1>2. DOMAIN lures = 1 .. Len(lures) /\ Len(lures) \in Nat
    BY <1>1
  <1>3. ASSUME NEW i \in DOMAIN lures PROVE Rowable(lures[i])
    <2>1. lures[i] \in Values(entries.nearMiss)
      BY <1>1
    <2> QED
      BY <2>1 DEF EvalInv, Values
  <1>4. ASSUME NEW i \in DOMAIN lures
        PROVE  /\ \A b \in Arms : lures[i].seen[b] <=> lures[i].rank[b] = 1
               /\ lures[i].isLure <=> lures[i].rank[arm] = 1
               /\ lures[i].top = NoScore \/ lures[i].top \in Nat
    <2>1. PICK world \in Worlds, lure \in GoldSets : lures[i] = Row(world, lure, arm)
      BY <1>3 DEF Rowable
    <2> QED
      BY <1>1, <2>1, RowIs
  <1> QED
    BY <1>2, <1>4

(* evaluation.py:574-584: the rate of an arm, the rank of the lure in its  *)
(* whole pool and the row the scores are kept in never contradict.         *)
THEOREM EvaluationHarnessesAgree == Spec => []HarnessesAgree
  <1>1. EvalInv => HarnessesAgree
    <2>1. ASSUME EvalInv, NEW i \in DOMAIN lures
          PROVE  /\ \A a \in Arms : coverage[a][i] # "UNSCORED" <=> lures[i].rank[a] = 1
                 /\ lures[i].isLure <=> coverage[arm][i] # "UNSCORED"
      <3>1. /\ \A b \in Arms : lures[i].seen[b] <=> lures[i].rank[b] = 1
            /\ lures[i].isLure <=> lures[i].rank[arm] = 1
        BY <2>1, LuresAre
      <3>2. arm \in Arms /\ \A a \in Arms : coverage[a][i] # "UNSCORED" <=> lures[i].seen[a]
        BY <2>1 DEF EvalInv
      <3> QED
        BY <3>1, <3>2
    <2> QED
      BY <2>1 DEF HarnessesAgree
  <1> QED
    BY <1>1, EvalInvHolds, PTL

(* chunk7_scores.py:354-486: every gold chunk lost from the top is scored, *)
(* something scored no worse came in for it, and gains less losses are     *)
(* what the figure moved by.                                               *)
THEOREM EvaluationLossesAreLocated == Spec => []LossesAreLocated
  <1>1. ASSUME EvalInv PROVE LossesAreLocated
    <2> DEFINE D == DOMAIN measured
               gained == [i \in D |-> measured[i].gained]
               lost == [i \in D |-> measured[i].lost]
               post == [i \in D |-> measured[i].post]
               pre == [i \in D |-> measured[i].pre]
    <2>1. /\ D = 1 .. Len(measured) /\ Len(measured) \in Nat
          /\ \A i \in D : Explained(measured[i])
      BY <1>1, MeasuredAre
    <2>2. IsFiniteSet(D)
      BY <2>1, FS_Interval
    <2>3. /\ gained \in [D -> Nat] /\ pre \in [D -> Nat] /\ lost \in [D -> Nat]
          /\ post \in [D -> Nat] /\ \A i \in D : gained[i] + pre[i] = lost[i] + post[i]
      BY <2>1 DEF Explained
    <2>4. \A m \in Values(measured) :
            /\ NoScore \notin m.demoted
            /\ Len(m.displacers[TRUE]) + Len(m.displacers[FALSE]) >= m.lost
            /\ \A isGold \in BOOLEAN :
                 \A d \in Values(m.displacers[isGold]), s \in m.demoted : d >= s
      <3>1. \A m \in Values(measured) : Explained(m)
        BY <2>1 DEF Values
      <3> QED
        BY <3>1 DEF Explained
    <2>5. NetGoldChunks = SumOf(gained) - SumOf(lost)
      BY DEF NetGoldChunks
    <2> HIDE DEF D, gained, lost, post, pre
    <2>6. /\ SumOf(gained) + SumOf(pre) = SumOf(lost) + SumOf(post)
          /\ {SumOf(gained), SumOf(pre), SumOf(lost), SumOf(post)} \subseteq Nat
      BY <2>2, <2>3, SumsBalance
    <2>7. NetGoldChunks = SumOf(post) - SumOf(pre)
      <3>1. \A g, p, l, q \in Nat : g + p = l + q => g - l = q - p
        OBVIOUS
      <3> QED
        BY <2>5, <2>6, <3>1
    <2> QED
      BY <2>4, <2>7 DEF LossesAreLocated, post, pre, D
  <1> QED
    BY <1>1, EvalInvHolds, PTL

(* A report says nothing outside its own extremes.                         *)
LEMMA SortedSpan ==
  ASSUME NEW D, IsFiniteSet(D), NEW f \in [D -> Nat]
  PROVE  LET s == Sorted(f)
         IN /\ s \in Seq(Nat) /\ DOMAIN s = 1 .. Len(s)
            /\ \A x \in D : s # << >> /\ s[1] <= f[x] /\ f[x] <= s[Len(s)]
            /\ \A k \in DOMAIN s : s[1] <= s[k] /\ s[k] <= s[Len(s)]
  <1> DEFINE s == Sorted(f)
  <1>1. /\ s \in Seq(Nat) /\ DOMAIN s = 1 .. Len(s)
        /\ \A k \in DOMAIN s : \E x \in D : s[k] = f[x]
        /\ \A x \in D : s # << >> /\ s[1] <= f[x] /\ f[x] <= s[Len(s)]
    BY SortedIs
  <1> HIDE DEF s
  <1>2. \A k \in DOMAIN s : s[1] <= s[k] /\ s[k] <= s[Len(s)]
    BY <1>1
  <1> QED
    BY <1>1, <1>2 DEF s

(* Separable with the gold above: all of it is above all of the other.     *)
LEMMA Apart ==
  ASSUME NEW pos \in Seq(Nat), NEW neg \in Seq(Nat), Separable(pos, neg), pos[1] > neg[1],
         \A k \in DOMAIN pos : pos[1] <= pos[k]
  PROVE  pos # << >> /\ neg # << >> /\ pos[1] > neg[Len(neg)]
  <1> DEFINE p == pos[1]
             n == neg[1]
             pl == pos[Len(pos)]
             nl == neg[Len(neg)]
  <1>1. pos # << >> /\ neg # << >> /\ Max({p, n}) > Min({pl, nl})
    BY DEF Separable
  <1>2. p \in Nat /\ n \in Nat /\ pl \in Nat /\ nl \in Nat /\ p <= pl /\ p > n
    <2>1. 1 \in DOMAIN pos /\ Len(pos) \in DOMAIN pos /\ 1 \in DOMAIN neg /\ Len(neg) \in DOMAIN neg
      BY <1>1
    <2> QED
      BY <2>1
  <1> HIDE DEF p, n, pl, nl
  <1>3. Max({p, n}) = p
    BY <1>2, MaxOfTwo
  <1>4. Min({pl, nl}) = IF pl <= nl THEN pl ELSE nl
    BY <1>2, MinOfTwo
  <1>5. p > nl
    BY <1>1, <1>2, <1>3, <1>4
  <1> QED
    BY <1>1, <1>5 DEF p, nl

LEMMA PopulationsAre ==
  ASSUME EvalInv
  PROVE  /\ GoldBest \in Seq(Nat) /\ LureTop \in Seq(Nat) /\ NonGoldTop \in Seq(Nat)
         /\ \A k \in DOMAIN GoldBest :
              GoldBest[1] <= GoldBest[k] /\ GoldBest[k] <= GoldBest[Len(GoldBest)]
         /\ \A k \in DOMAIN LureTop : LureTop[k] <= LureTop[Len(LureTop)]
         /\ \A k \in DOMAIN NonGoldTop :
              NonGoldTop[1] <= NonGoldTop[k] /\ NonGoldTop[k] <= NonGoldTop[Len(NonGoldTop)]
         /\ \A i \in DOMAIN measured :
              /\ measured[i].best # NoScore => GoldBest # << >> /\ GoldBest[1] <= measured[i].best
              /\ \A j \in DOMAIN measured[i].others :
                   /\ NonGoldTop # << >>
                   /\ measured[i].others[j] <= NonGoldTop[Len(NonGoldTop)]
  <1>1. /\ DOMAIN measured = 1 .. Len(measured) /\ Len(measured) \in Nat
        /\ \A i \in DOMAIN measured : Reported(measured[i])
    BY MeasuredAre
  <1>2. /\ DOMAIN lures = 1 .. Len(lures) /\ Len(lures) \in Nat
        /\ \A i \in DOMAIN lures : lures[i].top = NoScore \/ lures[i].top \in Nat
    BY LuresAre
  <1>3. IsFiniteSet(DOMAIN measured) /\ IsFiniteSet(DOMAIN lures)
    BY <1>1, <1>2, FS_Interval
  <1>4. /\ GoldBest \in Seq(Nat)
        /\ \A k \in DOMAIN GoldBest :
             GoldBest[1] <= GoldBest[k] /\ GoldBest[k] <= GoldBest[Len(GoldBest)]
        /\ \A i \in DOMAIN measured :
             measured[i].best # NoScore => GoldBest # << >> /\ GoldBest[1] <= measured[i].best
    <2> DEFINE D == {i \in DOMAIN measured : measured[i].best # NoScore}
               f == [i \in D |-> measured[i].best]
    <2>1. IsFiniteSet(D)
      BY <1>3, FS_Subset
    <2>2. f \in [D -> Nat]
      BY <1>1 DEF Reported
    <2>3. GoldBest = Sorted(f)
      BY DEF GoldBest
    <2>4. \A i \in D : f[i] = measured[i].best
      OBVIOUS
    <2>5. \A i \in DOMAIN measured : measured[i].best # NoScore => i \in D
      OBVIOUS
    <2> HIDE DEF D, f
    <2> QED
      BY <2>1, <2>2, <2>3, <2>4, <2>5, SortedSpan
  <1>5. /\ LureTop \in Seq(Nat)
        /\ \A k \in DOMAIN LureTop : LureTop[k] <= LureTop[Len(LureTop)]
    <2> DEFINE D == {i \in DOMAIN lures : lures[i].top # NoScore}
               f == [i \in D |-> lures[i].top]
    <2>1. IsFiniteSet(D)
      BY <1>3, FS_Subset
    <2>2. f \in [D -> Nat]
      BY <1>2
    <2>3. LureTop = Sorted(f)
      BY DEF LureTop
    <2> HIDE DEF D, f
    <2> QED
      BY <2>1, <2>2, <2>3, SortedSpan
  <1>6. /\ NonGoldTop \in Seq(Nat)
        /\ \A k \in DOMAIN NonGoldTop :
              NonGoldTop[1] <= NonGoldTop[k] /\ NonGoldTop[k] <= NonGoldTop[Len(NonGoldTop)]
        /\ \A i \in DOMAIN measured : \A j \in DOMAIN measured[i].others :
             /\ NonGoldTop # << >>
             /\ measured[i].others[j] <= NonGoldTop[Len(NonGoldTop)]
    <2> DEFINE places(i) == {i} \X DOMAIN measured[i].others
               blocks == {places(i) : i \in DOMAIN measured}
               D == UNION blocks
               f == [p \in D |-> measured[p[1]].others[p[2]]]
    <2>1. \A p \in D : p[1] \in DOMAIN measured /\ p[2] \in DOMAIN measured[p[1]].others
      OBVIOUS
    <2>2. \A i \in DOMAIN measured : \A j \in DOMAIN measured[i].others :
            <<i, j>> \in D /\ f[<<i, j>>] = measured[i].others[j]
      <3>1. ASSUME NEW i \in DOMAIN measured, NEW j \in DOMAIN measured[i].others
            PROVE  <<i, j>> \in D
        <4>1. <<i, j>> \in places(i) /\ places(i) \in blocks
          OBVIOUS
        <4> HIDE DEF places, blocks
        <4> QED
          BY <4>1
      <3> QED
        BY <3>1
    <2>3. IsFiniteSet(D)
      <3>1. ASSUME NEW i \in DOMAIN measured PROVE IsFiniteSet(places(i))
        <4>1. measured[i].others \in Seq(Nat)
          BY <1>1 DEF Reported
        <4>2. DOMAIN measured[i].others = 1 .. Len(measured[i].others)
              /\ Len(measured[i].others) \in Nat
          BY <4>1
        <4>3. IsFiniteSet(DOMAIN measured[i].others)
          <5> DEFINE n == Len(measured[i].others)
          <5>1. n \in Nat /\ DOMAIN measured[i].others = 1 .. n
            BY <4>2
          <5> HIDE DEF n
          <5>2. IsFiniteSet(1 .. n)
            BY <5>1, FS_Interval
          <5> QED
            BY <5>1, <5>2
        <4>4. IsFiniteSet({i})
          BY FS_Singleton
        <4> QED
          BY <4>3, <4>4, FS_Product
      <3>2. IsFiniteSet(blocks)
        <4> DEFINE h == [i \in DOMAIN measured |-> places(i)]
        <4>1. h \in Surjection(DOMAIN measured, blocks)
          <5> HIDE DEF places
          <5> QED
            BY DEF Surjection
        <4> HIDE DEF h, blocks
        <4> QED
          BY <1>3, <4>1, FS_Surjection
      <3>3. \A b \in blocks : IsFiniteSet(b)
        <4> HIDE DEF places
        <4> QED
          BY <3>1
      <3> HIDE DEF blocks
      <3> QED
        BY <3>2, <3>3, FS_UNION
    <2>4. f \in [D -> Nat]
      <3>1. ASSUME NEW p \in D PROVE measured[p[1]].others[p[2]] \in Nat
        <4>1. p[1] \in DOMAIN measured /\ p[2] \in DOMAIN measured[p[1]].others
          BY <2>1
        <4>2. measured[p[1]].others \in Seq(Nat)
          BY <1>1, <4>1 DEF Reported
        <4> HIDE DEF D
        <4> QED
          BY <4>1, <4>2
      <3> HIDE DEF D
      <3> QED
        BY <3>1
    <2>5. NonGoldTop = Sorted(f)
      BY DEF NonGoldTop
    <2> HIDE DEF D, f
    <2>6. /\ NonGoldTop \in Seq(Nat)
          /\ \A p \in D : NonGoldTop # << >> /\ f[p] <= NonGoldTop[Len(NonGoldTop)]
          /\ \A k \in DOMAIN NonGoldTop :
              NonGoldTop[1] <= NonGoldTop[k] /\ NonGoldTop[k] <= NonGoldTop[Len(NonGoldTop)]
      BY <2>3, <2>4, <2>5, SortedSpan
    <2> QED
      BY <2>2, <2>6
  <1> QED
    BY <1>4, <1>5, <1>6

(* chunk7_scores.py:489-536: where each entry has one span and so one gold *)
(* chunk, as load_golden_set reads version 3, scores that separate gold    *)
(* from everything else stop nothing, in either direction.  (Of several,   *)
(* as in version 2, the best is reported and the loss of another may fire.)*)
THEOREM EvaluationSeparableMeansQuiet ==
  ASSUME \A gold \in GoldSets : \A c, d \in gold : c = d
  PROVE  Spec => []SeparableMeansQuiet
  <1>1. ASSUME EvalInv PROVE SeparableMeansQuiet
    <2> SUFFICES ASSUME Separable(GoldBest, NonGoldTop), GoldBest[1] > NonGoldTop[1],
                        Separable(GoldBest, LureTop), GoldBest[1] > LureTop[1]
                 PROVE  ~Stop
      BY DEF SeparableMeansQuiet
    <2> DEFINE gold == GoldBest[1]
               other == NonGoldTop[Len(NonGoldTop)]
               lure == LureTop[Len(LureTop)]
    <2>1. /\ GoldBest \in Seq(Nat) /\ LureTop \in Seq(Nat) /\ NonGoldTop \in Seq(Nat)
          /\ \A k \in DOMAIN GoldBest :
               gold <= GoldBest[k] /\ GoldBest[k] <= GoldBest[Len(GoldBest)]
          /\ \A k \in DOMAIN LureTop : LureTop[k] <= lure
          /\ \A k \in DOMAIN NonGoldTop : NonGoldTop[1] <= NonGoldTop[k] /\ NonGoldTop[k] <= other
          /\ \A i \in DOMAIN measured :
               /\ measured[i].best # NoScore => gold <= measured[i].best
               /\ \A j \in DOMAIN measured[i].others : measured[i].others[j] <= other
      BY <1>1, PopulationsAre
    <2>2. \A i \in DOMAIN measured :
            Reported(measured[i]) /\ \A s \in measured[i].demoted : s = measured[i].best
      BY <1>1, MeasuredAre
    <2>3. /\ GoldBest # << >> /\ NonGoldTop # << >> /\ LureTop # << >>
          /\ gold > other /\ gold > lure
      BY <2>1, Apart
    <2>4. gold \in Nat /\ other \in Nat /\ lure \in Nat
      <3>1. 1 \in DOMAIN GoldBest /\ Len(NonGoldTop) \in DOMAIN NonGoldTop /\ Len(LureTop) \in DOMAIN LureTop
        BY <2>1, <2>3
      <3> QED
        BY <2>1, <3>1
    <2>5. Median2(NonGoldTop) \in Nat /\ Median2(NonGoldTop) <= 2 * other
      <3>1. NonGoldTop[1] \in Nat
        BY <2>1, <2>3
      <3> HIDE DEF other
      <3> QED
        BY <2>1, <2>3, <2>4, <3>1, MedianIs
    <2>6. Median2(GoldBest) \in Nat /\ 2 * gold <= Median2(GoldBest)
      <3>1. GoldBest[Len(GoldBest)] \in Nat
        BY <2>1, <2>3
      <3> HIDE DEF gold
      <3> QED
        BY <2>1, <2>3, <2>4, <3>1, MedianIs
    <2> HIDE DEF gold, other, lure
    <2>7. ~LowFires
      <3>1. ASSUME NEW m \in Regressed, NEW s \in m.demoted \ {NoScore}
            PROVE  ~ (2 * s < Median2(NonGoldTop))
        <4>1. PICK i \in DOMAIN measured : m = measured[i]
          BY <3>1 DEF Regressed, Values
        <4>2. s = measured[i].best /\ s \in Nat
          BY <2>2, <4>1 DEF Reported
        <4>3. gold <= s
          BY <2>1, <4>1, <4>2
        <4> QED
          BY <2>3, <2>4, <2>5, <4>2, <4>3
      <3> QED
        BY <3>1 DEF LowFires
    <2>8. ASSUME NEW s \in Values(LureTop) PROVE ~ (2 * s > Median2(GoldBest))
      <3>1. PICK k \in DOMAIN LureTop : s = LureTop[k]
        BY DEF Values
      <3>2. s \in Nat /\ s <= lure
        BY <2>1, <3>1
      <3> QED
        BY <2>3, <2>4, <2>6, <3>2
    <2>9. ASSUME NEW m \in Regressed, NEW s \in Values(m.displacers[FALSE])
          PROVE  ~ (2 * s > Median2(GoldBest))
      <3>1. PICK i \in DOMAIN measured : m = measured[i]
        BY DEF Regressed, Values
      <3>2. PICK j \in DOMAIN measured[i].others : s \in Nat /\ s <= measured[i].others[j]
        BY <2>2, <3>1 DEF Reported
      <3>3. measured[i].others[j] \in Nat /\ measured[i].others[j] <= other
        <4> DEFINE others == measured[i].others
        <4>1. others \in Seq(Nat)
          BY <2>2 DEF Reported
        <4>2. others[j] \in Nat
          <5> HIDE DEF others
          <5>1. \A k \in DOMAIN others : others[k] \in Nat
            BY <4>1
          <5> QED
            BY <5>1 DEF others
        <4> QED
          BY <2>1, <4>2
      <3> QED
        BY <2>3, <2>4, <2>6, <3>2, <3>3
    <2> QED
      BY <2>7, <2>8, <2>9 DEF Stop, HighFires
  <1> QED
    BY <1>1, EvalInvHolds, PTL

=============================================================================
