--------------------------- MODULE Pipeline_proofs --------------------------
(***************************************************************************)
(* What one question through RetrievalPipeline.tla keeps, for every        *)
(* corpus, every outcome of the searches, of the reranker and of the token *)
(* counter, and every setting of the depths, the cut and the budget.       *)
(***************************************************************************)
EXTENDS RetrievalPipeline, Retrieval_proofs

(* What each stage has left behind is what the operators of Retrieval,     *)
(* ContextBudget and Provenance make of the stage before.                  *)
ArmsInv ==
  /\ IsArm(lexical) /\ IsArm(vector)
  /\ vector # << >> => /\ distance \in [Chunks -> Distances]
                       /\ vector \in NearestArms(Chunks, distance, CandidateK)

HitsInv ==
  /\ IsHitList(hits)
  /\ ScoreSource(hits) = "rerank" =>
       \A i, j \in DOMAIN hits : i < j => SelectedAhead("rerank", hits[i], hits[j])
  /\ stage \in {"reranked", "judged"} => hits = Hits(lexical, vector, distance, score, TopK)
  /\ stage \in {"reranked", "judged"} =>
       score = << >> \/ score \in [ToSet(Pool(lexical, vector, TopK)) -> Int \ {NoScore}]

VerdictInv == stage \in {"judged", "planned"} => verdict = FarFieldGate(hits)

PlanInv ==
  stage = "planned" =>
    /\ verdict = "unverified"
    /\ CostsAreNumbers(hits, tokens)
    /\ plan = PlanContext(hits, tokens)
    /\ plan.error = "none" => rendered = Render(plan.included)

PipelineInv ==
  /\ stage \in {"asked", "searched", "reranked", "judged", "planned"}
  /\ ArmsInv
  /\ HitsInv
  /\ VerdictInv
  /\ PlanInv

-----------------------------------------------------------------------------
LEMMA NothingFound == IsArm(<< >>)
  BY RetrievalAssumption DEF IsArm, IsInjective

(* What vector_search returns: nearest first, none nearer left out.        *)
LEMMA NearestAre ==
  ASSUME NEW dist \in [Chunks -> Distances],
         NEW arm \in NearestArms(Chunks, dist, CandidateK)
  PROVE  /\ IsArm(arm) /\ ToSet(arm) \in SUBSET Chunks
         /\ arm # << >> => /\ 1 \in DOMAIN arm
                           /\ \A d \in Chunks : dist[arm[1]] <= dist[d]
  <1> DEFINE n == Min({CandidateK, Cardinality(Chunks)})
  <1>1. CandidateK \in Nat /\ Cardinality(Chunks) \in Nat
    BY RetrievalAssumption, PipelineAssumption, FS_CardinalityType
  <1>2. n \in Nat /\ n <= CandidateK
    BY <1>1, MinOfTwo
  <1>3. \A c \in Chunks : c \in Nat /\ dist[c] \in Nat
    BY PipelineAssumption
  <1>4. /\ arm \in [1 .. n -> Chunks]
        /\ \A i, j \in DOMAIN arm : i < j =>
             \/ dist[arm[i]] < dist[arm[j]]
             \/ dist[arm[i]] = dist[arm[j]] /\ arm[i] < arm[j]
        /\ \A i \in DOMAIN arm, d \in Chunks \ ToSet(arm) : dist[arm[i]] <= dist[d]
    BY DEF NearestArms
  <1> HIDE DEF n
  <1>5. arm \in Seq(Nat) /\ Len(arm) = n /\ DOMAIN arm = 1 .. n
    BY <1>2, <1>3, <1>4
  <1>6. ASSUME NEW i \in DOMAIN arm, NEW j \in DOMAIN arm, i < j PROVE arm[i] # arm[j]
    BY <1>3, <1>4, <1>6
  <1>7. IsInjective(arm)
    BY <1>2, <1>5, <1>6 DEF IsInjective
  <1>8. ToSet(arm) \in SUBSET Chunks
    BY <1>4 DEF ToSet
  <1>9. ASSUME arm # << >>
        PROVE  1 \in DOMAIN arm /\ \A d \in Chunks : dist[arm[1]] <= dist[d]
    <2>1. 1 \in DOMAIN arm
      BY <1>2, <1>5, <1>9
    <2>2. ASSUME NEW d \in Chunks PROVE dist[arm[1]] <= dist[d]
      <3>1. CASE d \in ToSet(arm)
        <4>1. PICK j \in DOMAIN arm : d = arm[j]
          BY <3>1 DEF ToSet
        <4>2. arm[1] \in Chunks /\ dist[arm[1]] \in Nat /\ dist[d] \in Nat
          BY <1>3, <1>4, <2>1
        <4>3. j = 1 \/ 1 < j
          BY <1>2, <1>5
        <4> QED
          BY <1>4, <2>1, <4>1, <4>2, <4>3
      <3>2. CASE d \notin ToSet(arm)
        BY <1>4, <2>1, <3>2
      <3> QED
        BY <3>1, <3>2
    <2> QED
      BY <2>1, <2>2
  <1> QED
    BY <1>2, <1>5, <1>7, <1>8, <1>9 DEF IsArm

LEMMA ArmsAre ==
  ASSUME NEW arm \in Arms(0 .. CandidateK)
  PROVE  IsArm(arm)
  <1>1. PICK n \in 0 .. CandidateK : arm \in [1 .. n -> Chunks] /\ IsInjective(arm)
    BY DEF Arms
  <1>2. Chunks \subseteq Nat /\ CandidateK \in Nat
    BY PipelineAssumption, RetrievalAssumption
  <1>3. arm \in Seq(Nat) /\ Len(arm) = n /\ n <= CandidateK
    <2>1. n \in Nat /\ n <= CandidateK
      BY <1>2
    <2>2. arm \in [1 .. n -> Nat]
      BY <1>1, <1>2
    <2> QED
      BY <2>1, <2>2
  <1> QED
    BY <1>1, <1>2, <1>3 DEF IsArm

-----------------------------------------------------------------------------
LEMMA PipelineStarts == Init => PipelineInv
  BY NothingFound, NoHits
  DEF Init, PipelineInv, ArmsInv, HitsInv, VerdictInv, PlanInv

LEMMA PipelineGoesOn == PipelineInv /\ [Next]_vars => PipelineInv'
  <1> SUFFICES ASSUME PipelineInv, [Next]_vars PROVE PipelineInv'
    OBVIOUS
  <1>1. CASE Search
    <2>1. /\ stage = "asked" /\ stage' = "searched"
          /\ UNCHANGED <<score, hits, verdict, tokens, plan, rendered>>
          /\ lexical' \in Arms(0 .. CandidateK)
      BY <1>1 DEF Search
    <2>2. ArmsInv'
      <3>1. CASE vector' = << >> /\ distance' = << >>
        BY <2>1, <3>1, ArmsAre, NothingFound DEF ArmsInv
      <3>2. CASE /\ distance' \in [Chunks -> Distances]
                 /\ vector' \in NearestArms(Chunks, distance', CandidateK)
        BY <2>1, <3>2, ArmsAre, NearestAre DEF ArmsInv
      <3> QED
        BY <1>1, <3>1, <3>2 DEF Search
    <2>3. HitsInv' /\ VerdictInv' /\ PlanInv'
      BY <2>1 DEF PipelineInv, HitsInv, VerdictInv, PlanInv
    <2> QED
      BY <2>1, <2>2, <2>3 DEF PipelineInv
  <1>2. CASE Rerank
    <2>1. /\ stage = "searched" /\ stage' = "reranked"
          /\ UNCHANGED <<lexical, vector, distance, verdict, tokens, plan, rendered>>
          /\ score' \in {<< >>} \cup [ToSet(Pool(lexical, vector, TopK)) -> Logits]
          /\ hits' = Hits(lexical, vector, distance, score', TopK)
      BY <1>2 DEF Rerank
    <2>2. ArmsInv
      BY DEF PipelineInv
    <2>3. IsArm(lexical) /\ IsArm(vector)
      BY <2>2 DEF ArmsInv
    <2>4. score' = << >> \/ score' \in [ToSet(Pool(lexical, vector, TopK)) -> Int \ {NoScore}]
      <3>1. Logits \subseteq Int \ {NoScore}
        BY PipelineAssumption
      <3> QED
        BY <2>1, <3>1
    <2>5. \A c \in ToSet(vector) : distance[c] \in Nat
      <3>1. CASE vector = << >>
        BY <3>1 DEF ToSet
      <3>2. CASE vector # << >>
        <4>1. distance \in [Chunks -> Distances] /\ ToSet(vector) \in SUBSET Chunks
          BY <2>2, <3>2, NearestAre DEF ArmsInv
        <4> QED
          BY <4>1, PipelineAssumption
      <3> QED
        BY <3>1, <3>2
    <2>6. /\ IsHitList(hits')
          /\ ScoreSource(hits') = "rerank" =>
               \A i, j \in DOMAIN hits' : i < j => SelectedAhead("rerank", hits'[i], hits'[j])
      <3>1. TopK \in Nat
        BY RetrievalAssumption
      <3>2. \/ score' = << >>
            \/ \A c \in ToSet(Pool(lexical, vector, TopK)) : score'[c] \in Int \ {NoScore}
        BY <2>4
      <3> QED
        BY <2>1, <2>3, <2>5, <3>1, <3>2, HitsAre
    <2>7. HitsInv'
      BY <2>1, <2>4, <2>6 DEF HitsInv
    <2>8. ArmsInv' /\ VerdictInv' /\ PlanInv'
      BY <2>1, <2>2 DEF ArmsInv, VerdictInv, PlanInv
    <2> QED
      BY <2>1, <2>7, <2>8 DEF PipelineInv
  <1>3. CASE Judge
    <2>1. /\ stage = "reranked" /\ stage' = "judged" /\ verdict' = FarFieldGate(hits)
          /\ UNCHANGED <<lexical, vector, distance, score, hits, tokens, plan, rendered>>
      BY <1>3 DEF Judge
    <2>2. ArmsInv' /\ HitsInv' /\ VerdictInv' /\ PlanInv'
      BY <2>1 DEF PipelineInv, ArmsInv, HitsInv, VerdictInv, PlanInv
    <2> QED
      BY <2>1, <2>2 DEF PipelineInv
  <1>4. CASE Plan
    <2>1. /\ stage = "judged" /\ verdict = "unverified" /\ stage' = "planned"
          /\ tokens' \in [{hits[i].chunk : i \in DOMAIN hits} -> TokenCounts]
          /\ plan' = PlanContext(hits, tokens')
          /\ plan'.error = "none" => rendered' = Render(plan'.included)
          /\ lexical' = << >> /\ vector' = << >> /\ distance' = << >> /\ score' = << >>
          /\ UNCHANGED <<hits, verdict>>
      BY <1>4 DEF Plan
    <2>2. ArmsInv'
      BY <2>1, NothingFound DEF ArmsInv
    <2>3. HitsInv'
      BY <2>1 DEF PipelineInv, HitsInv
    <2>4. VerdictInv'
      BY <2>1 DEF PipelineInv, VerdictInv
    <2>5. CostsAreNumbers(hits, tokens')
      BY <2>1, PipelineAssumption DEF CostsAreNumbers
    <2>6. PlanInv'
      BY <2>1, <2>5 DEF PlanInv, CostsAreNumbers
    <2> QED
      BY <2>1, <2>2, <2>3, <2>4, <2>6 DEF PipelineInv
  <1>5. CASE UNCHANGED vars
    BY <1>5 DEF vars, PipelineInv, ArmsInv, HitsInv, VerdictInv, PlanInv, CostsAreNumbers
  <1> QED
    BY <1>1, <1>2, <1>3, <1>4, <1>5 DEF Next

(* The stages hand on what they made: arms that are rankings, hits that    *)
(* are each one chunk, a verdict and a plan of those hits.                 *)
THEOREM StagesAgree == Spec => []PipelineInv
  <1>1. Init => PipelineInv
    BY PipelineStarts
  <1>2. PipelineInv /\ [Next]_vars => PipelineInv'
    BY PipelineGoesOn
  <1> QED
    BY <1>1, <1>2, PTL DEF Spec

-----------------------------------------------------------------------------
(* render, turn by turn: as long as no locator comes twice, a block and a  *)
(* citation for each hit, in their order.                                  *)
Blocks == {Block(x) : x \in HitTypes}
Citations == {Citation(x) : x \in HitTypes}
RenderTypes == [error : {"none", "duplicate"}, text : Seq(Blocks),
                citations : Seq(Citations)]

IsRendering(p, s) ==
  /\ p \in [0 .. Len(s) -> RenderTypes]
  /\ p[0] = NothingRendered
  /\ \A k \in 1 .. Len(s) : p[k] = Cite(p[k - 1], s[k])

RenderedUpTo(p, s, k) ==
  \/ /\ p[k].error = "none"
     /\ Len(p[k].text) = k /\ Len(p[k].citations) = k
     /\ \A i \in 1 .. k : p[k].text[i] = Block(s[i]) /\ p[k].citations[i] = Citation(s[i])
  \/ /\ p[k].error = "duplicate"
     /\ \E a, b \in 1 .. k : a # b /\ Locator[s[a].chunk] = Locator[s[b].chunk]

LEMMA CiteTyped ==
  ASSUME NEW r \in RenderTypes, NEW hit \in HitTypes
  PROVE  Cite(r, hit) \in RenderTypes
  <1>1. Block(hit) \in Blocks /\ Citation(hit) \in Citations
    BY DEF Blocks, Citations
  <1>2. /\ r.text \in Seq(Blocks) /\ r.citations \in Seq(Citations)
        /\ r.error \in {"none", "duplicate"}
    BY DEF RenderTypes
  <1>3. /\ Append(r.text, Block(hit)) \in Seq(Blocks)
        /\ Append(r.citations, Citation(hit)) \in Seq(Citations)
    BY <1>1, <1>2
  <1>4. [r EXCEPT !.error = "duplicate"] \in RenderTypes
    BY <1>2 DEF RenderTypes
  <1>5. [r EXCEPT !.text = Append(@, Block(hit)), !.citations = Append(@, Citation(hit))]
          \in RenderTypes
    BY <1>2, <1>3 DEF RenderTypes
  <1> QED
    BY <1>4, <1>5 DEF Cite

LEMMA RenderingExists ==
  ASSUME NEW s \in Seq(HitTypes)
  PROVE  \E p : IsRendering(p, s) /\ Render(s) = p[Len(s)]
  <1> DEFINE n == Len(s)
             step == [q \in RenderTypes \X (1 .. n) |-> Cite(q[1], s[q[2]])]
             Body(f, t) == IF t = {} THEN NothingRendered
                           ELSE Cite(f[t \ {Max(t)}], s[Max(t)])
             g == CHOOSE f : f = [t \in SUBSET (1 .. n) |-> Body(f, t)]
  <1>1. n \in Nat /\ DOMAIN s = 1 .. n /\ \A i \in 1 .. n : s[i] \in HitTypes
    OBVIOUS
  <1>2. Render(s) = g[1 .. n]
    BY <1>1 DEF Render, FoldLeft, MapThenFoldSet
  <1> HIDE DEF n
  <1>3. NothingRendered \in RenderTypes
    BY DEF NothingRendered, RenderTypes
  <1>4. \A q \in RenderTypes, i \in 1 .. n :
          /\ Cite(q, s[i]) \in RenderTypes
          /\ step[<<q, i>>] = Cite(q, s[i])
    <2> TAKE q \in RenderTypes, i \in 1 .. n
    <2>1. s[i] \in HitTypes
      BY <1>1
    <2>2. Cite(q, s[i]) \in RenderTypes
      BY <2>1, CiteTyped
    <2> QED
      BY <2>2
  <1>5. step \in [RenderTypes \X (1 .. n) -> RenderTypes]
    <2> HIDE DEF RenderTypes
    <2> QED
      BY <1>4
  <1> HIDE DEF step
  <1>6. PICK f \in [SUBSET (1 .. n) -> RenderTypes] : FoldsLeft(f, n, NothingRendered, step)
    BY <1>1, <1>3, <1>5, SequenceFold
  <1>7. ASSUME NEW t \in SUBSET (1 .. n) PROVE f[t] = Body(f, t)
    <2>1. CASE t = {}
      BY <2>1, <1>6 DEF FoldsLeft
    <2>2. CASE t # {}
      <3>1. f[t] = step[<<f[t \ {Max(t)}], Max(t)>>]
        BY <1>6, <2>2 DEF FoldsLeft
      <3>2. Max(t) \in 1 .. n
        BY <2>2, <1>1, MaxInRange
      <3>3. f[t \ {Max(t)}] \in RenderTypes
        BY <1>6
      <3> QED
        BY <3>1, <3>2, <3>3, <1>4, <2>2
    <2> QED
      BY <2>1, <2>2
  <1>8. g = [t \in SUBSET (1 .. n) |-> Body(g, t)]
    <2>1. f = [t \in SUBSET (1 .. n) |-> Body(f, t)]
      <3>1. f = [t \in SUBSET (1 .. n) |-> f[t]]
        BY <1>6
      <3> HIDE DEF Body
      <3> QED
        BY <3>1, <1>7
    <2> HIDE DEF Body
    <2> QED
      BY <2>1
  <1> HIDE DEF g
  <1> DEFINE p == [k \in 0 .. n |-> g[1 .. k]]
  <1>9. p[0] = NothingRendered
    <2>1. 1 .. 0 = {} /\ {} \in SUBSET (1 .. n)
      OBVIOUS
    <2>2. g[{}] = NothingRendered
      BY <1>8, <2>1
    <2> QED
      BY <2>1, <2>2, <1>1
  <1>10. ASSUME NEW k \in 1 .. n PROVE p[k] = Cite(p[k - 1], s[k])
    <2>0. n \in Nat
      BY <1>1
    <2>1. /\ k \in Nat \ {0} /\ 1 .. k \in SUBSET (1 .. n)
          /\ k \in 1 .. k
          /\ k \in 0 .. n /\ k - 1 \in 0 .. n
      BY <2>0
    <2>2. Max(1 .. k) = k /\ (1 .. k) \ {k} = 1 .. (k - 1)
      BY <2>1, LastOfRange
    <2>3. g[1 .. k] = Cite(g[(1 .. k) \ {Max(1 .. k)}], s[Max(1 .. k)])
      BY <1>8, <2>1
    <2>4. g[1 .. k] = Cite(g[1 .. (k - 1)], s[k])
      BY <2>2, <2>3
    <2> QED
      BY <2>1, <2>4
  <1> HIDE DEF p
  <1>11. \A k \in 0 .. n : p[k] \in RenderTypes
    <2> DEFINE G == {k \in 0 .. n : p[k] \in RenderTypes}
    <2>1. 0 \in G
      BY <1>1, <1>3, <1>9
    <2>2. ASSUME NEW k \in 0 .. n, k \in G, k + 1 <= n PROVE k + 1 \in G
      <3>1. k + 1 \in 1 .. n /\ (k + 1) - 1 = k /\ k + 1 \in 0 .. n
        BY <1>1, <2>2
      <3>2. p[k + 1] = Cite(p[k], s[k + 1])
        BY <1>10, <3>1
      <3> QED
        BY <2>2, <3>1, <3>2, <1>4
    <2> HIDE DEF G
    <2>3. \A k \in 0 .. n : k \in G
      BY <1>1, <2>1, <2>2, CountingTo
    <2> QED
      BY <2>3 DEF G
  <1>12. IsRendering(p, s)
    <2>1. p \in [0 .. n -> RenderTypes]
      BY <1>11 DEF p
    <2> QED
      BY <2>1, <1>9, <1>10 DEF IsRendering, n
  <1>13. p[n] = g[1 .. n]
    BY <1>1 DEF p
  <1> QED
    BY <1>2, <1>12, <1>13 DEF n

LEMMA RenderingGoesOn ==
  ASSUME NEW s \in Seq(HitTypes), NEW p, IsRendering(p, s),
         NEW k \in 0 .. Len(s), k + 1 <= Len(s), RenderedUpTo(p, s, k)
  PROVE  RenderedUpTo(p, s, k + 1)
  <1> DEFINE hit == s[k + 1]
             before == p[k]
             after == p[k + 1]
  <1>1. /\ Len(s) \in Nat /\ DOMAIN s = 1 .. Len(s) /\ k \in Nat
        /\ k + 1 \in 1 .. Len(s) /\ (k + 1) - 1 = k /\ hit \in HitTypes
    OBVIOUS
  <1>2. after = Cite(before, hit)
    BY <1>1 DEF IsRendering
  <1>3. before \in RenderTypes
    BY DEF IsRendering
  <1>4. before = [error |-> before.error, text |-> before.text,
                  citations |-> before.citations]
        /\ before.text \in Seq(Blocks) /\ before.citations \in Seq(Citations)
    BY <1>3 DEF RenderTypes
  <1>5. CASE before.error = "duplicate"
    <2>1. after.error = "duplicate"
      <3> HIDE DEF hit, before, after
      <3> QED
        BY <1>2, <1>4, <1>5 DEF Cite
    <2>2. PICK a \in 1 .. k, b \in 1 .. k :
            a # b /\ Locator[s[a].chunk] = Locator[s[b].chunk]
      BY <1>5 DEF RenderedUpTo
    <2>3. a \in 1 .. k + 1 /\ b \in 1 .. k + 1
      BY <1>1
    <2> QED
      BY <2>1, <2>2, <2>3 DEF RenderedUpTo
  <1>6. CASE before.error = "none"
    <2>1. /\ Len(before.text) = k /\ Len(before.citations) = k
          /\ \A i \in 1 .. k : /\ before.text[i] = Block(s[i])
                               /\ before.citations[i] = Citation(s[i])
      BY <1>6 DEF RenderedUpTo
    <2>2. CASE Locator[hit.chunk] \in Cited(before)
      <3>1. after.error = "duplicate"
        <4> HIDE DEF hit, before, after
        <4> QED
          BY <1>2, <1>4, <2>2 DEF Cite
      <3>2. PICK c \in ToSet(before.citations) : Locator[hit.chunk] = c.locator
        <4> HIDE DEF hit, before
        <4> QED
          BY <2>2 DEF Cited
      <3>3. PICK i \in 1 .. k : c = before.citations[i]
        BY <1>4, <2>1, <3>2 DEF ToSet
      <3>4. c.locator = Locator[s[i].chunk]
        <4>1. c = Citation(s[i])
          BY <2>1, <3>3
        <4> QED
          BY <4>1 DEF Citation
      <3>5. i \in 1 .. k + 1 /\ k + 1 \in 1 .. k + 1 /\ i # k + 1
        BY <1>1
      <3>6. Locator[s[i].chunk] = Locator[s[k + 1].chunk]
        BY <3>2, <3>4
      <3> QED
        BY <3>1, <3>5, <3>6 DEF RenderedUpTo
    <2>3. CASE Locator[hit.chunk] \notin Cited(before)
      <3>1. /\ after.error = "none" /\ after.text = Append(before.text, Block(hit))
            /\ after.citations = Append(before.citations, Citation(hit))
        <4> HIDE DEF hit, before, after
        <4> QED
          BY <1>2, <1>4, <1>6, <2>3 DEF Cite
      <3>2. Block(hit) \in Blocks /\ Citation(hit) \in Citations
        BY <1>1 DEF Blocks, Citations
      <3>3. /\ Len(after.text) = k + 1 /\ Len(after.citations) = k + 1
            /\ \A i \in 1 .. k : /\ after.text[i] = before.text[i]
                                 /\ after.citations[i] = before.citations[i]
            /\ after.text[k + 1] = Block(hit) /\ after.citations[k + 1] = Citation(hit)
        <4> HIDE DEF hit, before, after
        <4> QED
          BY <1>4, <2>1, <3>1, <3>2
      <3>4. ASSUME NEW i \in 1 .. k + 1
            PROVE  after.text[i] = Block(s[i]) /\ after.citations[i] = Citation(s[i])
        <4>1. i \in 1 .. k \/ i = k + 1
          BY <1>1
        <4> QED
          BY <2>1, <3>3, <4>1
      <3> QED
        BY <3>1, <3>3, <3>4 DEF RenderedUpTo
    <2> QED
      BY <2>2, <2>3
  <1> QED
    BY <1>3, <1>5, <1>6 DEF RenderTypes

LEMMA RenderIs ==
  ASSUME NEW s \in Seq(HitTypes)
  PROVE  LET r == Render(s)
         IN \/ /\ r.error = "none"
               /\ Len(r.text) = Len(s) /\ Len(r.citations) = Len(s)
               /\ \A i \in 1 .. Len(s) : /\ r.text[i] = Block(s[i])
                                         /\ r.citations[i] = Citation(s[i])
            \/ /\ r.error = "duplicate"
               /\ \E a, b \in 1 .. Len(s) :
                    a # b /\ Locator[s[a].chunk] = Locator[s[b].chunk]
  <1> DEFINE n == Len(s)
  <1>1. n \in Nat
    OBVIOUS
  <1>2. PICK p : IsRendering(p, s) /\ Render(s) = p[n]
    BY RenderingExists
  <1> DEFINE G == {k \in 0 .. n : RenderedUpTo(p, s, k)}
  <1>3. 0 \in G
    <2>1. p[0].error = "none" /\ p[0].text = << >> /\ p[0].citations = << >>
      BY <1>2 DEF IsRendering, NothingRendered
    <2>2. RenderedUpTo(p, s, 0)
      BY <2>1 DEF RenderedUpTo
    <2> QED
      BY <1>1, <2>2
  <1>4. ASSUME NEW k \in 0 .. n, k \in G, k + 1 <= n PROVE k + 1 \in G
    <2>1. RenderedUpTo(p, s, k + 1)
      BY <1>2, <1>4, RenderingGoesOn
    <2>2. k + 1 \in 0 .. n
      BY <1>1, <1>4
    <2> QED
      BY <2>1, <2>2
  <1> HIDE DEF G
  <1>5. \A k \in 0 .. n : k \in G
    BY <1>1, <1>3, <1>4, CountingTo
  <1>6. RenderedUpTo(p, s, n)
    BY <1>1, <1>5 DEF G
  <1> QED
    BY <1>2, <1>6 DEF RenderedUpTo

-----------------------------------------------------------------------------
(* The searches have been made: what fusion does with two rankings.        *)
THEOREM PipelineFusesInOrder == Spec => []FusionRespectsBothArms
  <1>1. PipelineInv => FusionRespectsBothArms
    BY FusionRespects DEF PipelineInv, ArmsInv, FusionRespectsBothArms
  <1> QED
    BY <1>1, StagesAgree, PTL

(* As long as the pool is deeper than an arm (retrieval.py:47 and          *)
(* reranking.py:50 make it 40 against 30), the best of either arm is read. *)
THEOREM PipelineReranksTheBest ==
  ASSUME CandidateK < Max({RerankN, TopK})
  PROVE  Spec => []BestOfEachArmIsReranked
  <1>1. PipelineInv => BestOfEachArmIsReranked
    <2>1. TopK \in Nat
      BY RetrievalAssumption
    <2> QED
      BY <2>1, PoolHasTheBest DEF PipelineInv, ArmsInv, BestOfEachArmIsReranked
  <1> QED
    BY <1>1, StagesAgree, PTL

(* The distance of a hit is that of its chunk, if the vector arm found it. *)
LEMMA HitDistance ==
  ASSUME NEW lex, NEW vec, NEW dist, NEW sc,
         NEW i \in DOMAIN Hits(lex, vec, dist, sc, TopK)
  PROVE  LET hit == Hits(lex, vec, dist, sc, TopK)[i]
         IN hit.distance = IF hit.chunk \in ToSet(vec) THEN dist[hit.chunk] ELSE NoDistance
  BY DEF Hits

(* With the vector arm alone, fusion leaves its nearest first.             *)
LEMMA NearestIsFusedFirst ==
  ASSUME NEW vec, IsArm(vec), 1 \in DOMAIN vec
  PROVE  /\ 1 \in DOMAIN FusedOrder(<< >>, vec)
         /\ FusedOrder(<< >>, vec)[1] = vec[1]
  <1> DEFINE order == FusedOrder(<< >>, vec)
  <1>1. IsArm(<< >>)
    BY NothingFound
  <1>2. /\ order \in Seq(Nat) /\ ToSet(order) = ToSet(<< >>) \cup ToSet(vec)
        /\ DOMAIN order = 1 .. Len(order) /\ Len(order) \in Nat
    BY <1>1, FusedOrderIs
  <1>3. ToSet(<< >>) = {}
    BY DEF ToSet
  <1>4. vec[1] \in ToSet(vec) /\ Rank(vec, vec[1]) = 1
    BY RankOfPlace
  <1>5. vec[1] \in ToSet(order)
    BY <1>2, <1>4
  <1>6. PICK p \in DOMAIN order : order[p] = vec[1]
    BY <1>5 DEF ToSet
  <1>7. 1 \in DOMAIN order
    BY <1>2, <1>6
  <1>8. NoRank \in Nat /\ \A c : Rank(<< >>, c) = NoRank
    BY <1>1, <1>3, RankIs, RetrievalAssumption DEF NoRank
  <1>9. Rank(<< >>, order[p]) <= Rank(<< >>, order[1])
    BY <1>8
  <1>10. Rank(vec, order[p]) <= Rank(vec, order[1])
    <2>1. Rank(vec, order[1]) \in 1 .. NoRank
      BY RankIs
    <2> QED
      BY <1>4, <1>6, <1>8, <2>1
  <1>11. p <= 1
    BY <1>1, <1>7, <1>9, <1>10, FusionRespects
  <1>12. p = 1
    BY <1>2, <1>11
  <1> QED
    BY <1>6, <1>7, <1>12

(* The one hit the gate reads speaks for the corpus: what it finds near is *)
(* near, and what the exact search puts first nothing is nearer than.      *)
THEOREM PipelineJudgesTheCorpus == Spec => []VerdictSpeaksOfTheCorpus
  <1>1. PipelineInv => VerdictSpeaksOfTheCorpus
    <2> SUFFICES ASSUME PipelineInv, stage = "judged" PROVE VerdictSpeaksOfTheCorpus
      BY DEF VerdictSpeaksOfTheCorpus
    <2> DEFINE near == {c \in DOMAIN distance : distance[c] < FarCut}
    <2>1. /\ IsArm(lexical) /\ IsArm(vector)
          /\ hits = Hits(lexical, vector, distance, score, TopK) /\ IsHitList(hits)
          /\ verdict = FarFieldGate(hits)
          /\ vector # << >> => /\ distance \in [Chunks -> Distances]
                               /\ vector \in NearestArms(Chunks, distance, CandidateK)
      BY DEF PipelineInv, ArmsInv, HitsInv, VerdictInv
    <2>2. ToSet(<< >>) = {}
      BY DEF ToSet
    <2>3. vector # << >> =>
            /\ ToSet(vector) \in SUBSET Chunks /\ DOMAIN distance = Chunks
            /\ 1 \in DOMAIN vector /\ \A d \in Chunks : distance[vector[1]] <= distance[d]
            /\ \A d \in Chunks : distance[d] \in Nat
      BY <2>1, NearestAre, PipelineAssumption
    <2>4. ASSUME verdict = "unverified" PROVE near # {}
      <3>1. /\ 1 \in DOMAIN hits
            /\ hits[1].distance # NoDistance /\ hits[1].distance < FarCut
        BY <2>1, <2>4, GateIs
      <3>2. hits[1].distance = IF hits[1].chunk \in ToSet(vector)
                               THEN distance[hits[1].chunk] ELSE NoDistance
        BY <2>1, <3>1, HitDistance
      <3>3. hits[1].chunk \in ToSet(vector) /\ distance[hits[1].chunk] < FarCut
        BY <3>1, <3>2
      <3>4. hits[1].chunk \in DOMAIN distance
        BY <2>2, <2>3, <3>3
      <3>5. hits[1].chunk \in near
        BY <3>3, <3>4
      <3> QED
        BY <3>5
    <2>5. ASSUME vector # << >>, lexical = << >>, score = << >>
          PROVE  verdict = "abstain" <=> near = {}
      <3>1. /\ 1 \in DOMAIN FusedOrder(lexical, vector)
            /\ FusedOrder(lexical, vector)[1] = vector[1]
        BY <2>1, <2>3, <2>5, NearestIsFusedFirst
      <3>2. 1 \in DOMAIN hits /\ hits[1].chunk = vector[1]
        <4>1. TopK \in Nat \ {0}
          BY RetrievalAssumption
        <4> QED
          BY <2>1, <2>5, <3>1, <4>1, UnscoredHits
      <3>3. vector[1] \in ToSet(vector) /\ vector[1] \in Chunks
        BY <2>3, <2>5 DEF ToSet
      <3>4. hits[1].distance = distance[vector[1]]
        BY <2>1, <3>2, <3>3, HitDistance
      <3>5. hits # << >> /\ hits[1].distance # NoDistance
        BY <2>3, <2>5, <3>2, <3>3, <3>4 DEF NoDistance
      <3>6. verdict = "abstain" <=> distance[vector[1]] >= FarCut
        BY <2>1, <3>4, <3>5, GateIs
      <3>7. FarCut \in Nat
        BY RetrievalAssumption
      <3>8. near = {} <=> distance[vector[1]] >= FarCut
        <4>1. ASSUME near = {} PROVE distance[vector[1]] >= FarCut
          BY <2>3, <2>5, <3>3, <3>7, <4>1
        <4>2. ASSUME distance[vector[1]] >= FarCut PROVE near = {}
          <5>1. ASSUME NEW d \in Chunks PROVE ~ (distance[d] < FarCut)
            BY <2>3, <2>5, <3>3, <3>7, <4>2
          <5> QED
            BY <2>3, <2>5, <5>1
        <4> QED
          BY <4>1, <4>2
      <3> QED
        BY <3>6, <3>8
    <2> QED
      BY <2>4, <2>5 DEF VerdictSpeaksOfTheCorpus
  <1> QED
    BY <1>1, StagesAgree, PTL

-----------------------------------------------------------------------------
(* A plan is made of a retrieval that has hits, in the order of their      *)
(* scores, no hit twice.                                                   *)
LEMMA PlannedIs ==
  ASSUME PipelineInv, Planned
  PROVE  LET order == SelectionOrder(hits)
         IN /\ plan = PlanContext(hits, tokens) /\ plan \in PlanTypes
            /\ IsHitList(hits) /\ CostsAreNumbers(hits, tokens)
            /\ hits # << >> /\ 1 \in DOMAIN hits
            /\ 1 \in DOMAIN order /\ 1 \in DOMAIN plan.included
            /\ plan.included[1] = order[1]
            /\ KeepsOrder(plan.included, order)
            /\ rendered = Render(plan.included)
            /\ Included = ToSet(plan.included) /\ Excluded = ToSet(plan.excluded)
            /\ ToSet(hits) = {hits[i] : i \in DOMAIN hits}
  <1>1. /\ plan = PlanContext(hits, tokens) /\ plan.error = "none"
        /\ IsHitList(hits) /\ CostsAreNumbers(hits, tokens)
        /\ verdict = FarFieldGate(hits) /\ verdict = "unverified"
        /\ rendered = Render(plan.included)
    BY DEF Planned, PipelineInv, HitsInv, VerdictInv, PlanInv
  <1>2. hits # << >> /\ 1 \in DOMAIN hits
    BY <1>1, GateIs
  <1>3. /\ plan \in PlanTypes /\ 1 \in DOMAIN SelectionOrder(hits)
        /\ 1 \in DOMAIN plan.included /\ plan.included[1] = SelectionOrder(hits)[1]
    BY <1>1, <1>2, PlanIs
  <1>4. /\ Included = ToSet(plan.included) /\ Excluded = ToSet(plan.excluded)
        /\ ToSet(hits) = {hits[i] : i \in DOMAIN hits}
    BY DEF Included, Excluded, ToSet
  <1>5. KeepsOrder(plan.included, SelectionOrder(hits))
    BY <1>1, PlanIs
  <1> QED
    BY <1>1, <1>2, <1>3, <1>4, <1>5

THEOREM PipelineFitsThePrompt == Spec => []PromptFits
  <1>1. PipelineInv => PromptFits
    <2> SUFFICES ASSUME PipelineInv, Planned PROVE PromptFits
      BY DEF PromptFits
    <2>1. /\ plan = PlanContext(hits, tokens) /\ plan.error = "none"
          /\ IsHitList(hits) /\ CostsAreNumbers(hits, tokens)
          /\ Included = ToSet(plan.included)
      BY PlannedIs DEF Planned
    <2>2. /\ plan.used = Total([x \in ToSet(plan.included) |-> Cost(x, tokens)])
          /\ plan.used <= UsableBudget
      BY <2>1, PlanIs
    <2>3. /\ plan.used = Total([h \in Included |-> Cost(h, tokens)])
          /\ plan.used <= UsableBudget
      BY <2>1, <2>2
    <2> QED
      BY <2>3 DEF PromptFits, Total
  <1> QED
    BY <1>1, StagesAgree, PTL

THEOREM PipelineDropsTheUnfitting == Spec => []OnlyTheUnfittingIsDropped
  <1>1. PipelineInv => OnlyTheUnfittingIsDropped
    <2> SUFFICES ASSUME PipelineInv, Planned PROVE OnlyTheUnfittingIsDropped
      BY DEF OnlyTheUnfittingIsDropped
    <2>1. /\ plan = PlanContext(hits, tokens) /\ plan.error = "none"
          /\ IsHitList(hits) /\ CostsAreNumbers(hits, tokens)
          /\ Included = ToSet(plan.included) /\ Excluded = ToSet(plan.excluded)
          /\ ToSet(hits) = {hits[i] : i \in DOMAIN hits}
          /\ 1 \in DOMAIN plan.included /\ plan.included[1] = SelectionOrder(hits)[1]
      BY PlannedIs DEF Planned
    <2>2. /\ ToSet(plan.included) \cup ToSet(plan.excluded) = ToSet(hits)
          /\ ToSet(plan.included) \cap ToSet(plan.excluded) = {}
          /\ \A x \in ToSet(plan.excluded) : plan.used + Cost(x, tokens) > UsableBudget
      BY <2>1, PlanIs
    <2>3. SelectionOrder(hits)[1] \in Included
      BY <2>1 DEF Included
    <2> QED
      BY <2>1, <2>2, <2>3 DEF OnlyTheUnfittingIsDropped
  <1> QED
    BY <1>1, StagesAgree, PTL

(* A list sorted by the reranker's score is selected from in its own       *)
(* order: nothing else can come first.                                     *)
LEMMA SelectedInTheirOrder ==
  ASSUME NEW h, IsHitList(h), ScoreSource(h) = "rerank",
         \A i, j \in DOMAIN h : i < j => SelectedAhead("rerank", h[i], h[j]),
         NEW a \in DOMAIN SelectionOrder(h), NEW b \in DOMAIN SelectionOrder(h), a < b
  PROVE  \E k, l \in DOMAIN h :
           k < l /\ SelectionOrder(h)[a] = h[k] /\ SelectionOrder(h)[b] = h[l]
  <1> DEFINE order == SelectionOrder(h)
  <1>1. /\ order \in Seq(HitTypes) /\ ToSet(order) = ToSet(h)
        /\ \A i, j \in DOMAIN order : i < j <=> SelectedAhead("rerank", order[i], order[j])
        /\ \A i \in DOMAIN order : i \in Nat
    BY SelectionIs
  <1>2. order[a] \in ToSet(h) /\ order[b] \in ToSet(h)
    BY <1>1 DEF ToSet
  <1>3. PICK k \in DOMAIN h : order[a] = h[k]
    BY <1>2 DEF ToSet
  <1>4. PICK l \in DOMAIN h : order[b] = h[l]
    BY <1>2 DEF ToSet
  <1>5. k \in Nat /\ l \in Nat
    BY DEF IsHitList
  <1> HIDE DEF order
  <1>6. ~ SelectedAhead("rerank", order[b], order[a])
    BY <1>1 DEF order
  <1>7. SelectedAhead("rerank", order[a], order[b])
    BY <1>1 DEF order
  <1>8. k # l
    BY <1>3, <1>4, <1>6, <1>7
  <1>9. ~ (l < k)
    BY <1>3, <1>4, <1>6
  <1> QED
    BY <1>3, <1>4, <1>5, <1>8, <1>9 DEF order

LEMMA SelectedFirst ==
  ASSUME NEW h, IsHitList(h), ScoreSource(h) = "rerank", 1 \in DOMAIN h,
         \A i, j \in DOMAIN h : i < j => SelectedAhead("rerank", h[i], h[j]),
         1 \in DOMAIN SelectionOrder(h)
  PROVE  SelectionOrder(h)[1] = h[1]
  <1> DEFINE order == SelectionOrder(h)
  <1>1. order \in Seq(HitTypes) /\ ToSet(order) = ToSet(h) /\ DOMAIN order = 1 .. Len(order)
    BY SelectionIs
  <1>2. h[1] \in ToSet(order)
    BY <1>1 DEF ToSet
  <1>3. PICK a \in DOMAIN order : order[a] = h[1]
    BY <1>2 DEF ToSet
  <1>4. a = 1 \/ 1 < a
    BY <1>1
  <1>5. ASSUME 1 < a PROVE FALSE
    <2>1. PICK k \in DOMAIN h, l \in DOMAIN h : k < l /\ order[1] = h[k] /\ order[a] = h[l]
      BY <1>5, SelectedInTheirOrder
    <2>2. h[l].chunk = h[1].chunk
      BY <1>3, <2>1
    <2>3. l = 1
      BY <2>2 DEF IsHitList
    <2>4. k \in DOMAIN h /\ h \in Seq(HitTypes)
      BY DEF IsHitList, HitTypes
    <2> QED
      BY <2>1, <2>3, <2>4
  <1> QED
    BY <1>3, <1>4, <1>5

THEOREM PipelineCitesTheJudgedFirst == Spec => []JudgedIsFirstCited
  <1>1. PipelineInv => JudgedIsFirstCited
    <2> SUFFICES ASSUME PipelineInv, Planned, ScoreSource(hits) = "rerank"
                 PROVE  JudgedIsFirstCited
      BY DEF JudgedIsFirstCited
    <2>1. /\ plan = PlanContext(hits, tokens) /\ plan.error = "none"
          /\ IsHitList(hits) /\ CostsAreNumbers(hits, tokens)
          /\ 1 \in DOMAIN hits /\ 1 \in DOMAIN SelectionOrder(hits)
          /\ plan.included[1] = SelectionOrder(hits)[1]
      BY PlannedIs DEF Planned
    <2>2. \A i, j \in DOMAIN hits : i < j => SelectedAhead("rerank", hits[i], hits[j])
      BY DEF PipelineInv, HitsInv
    <2>3. plan.included[1] = hits[1]
      BY <2>1, <2>2, SelectedFirst
    <2>4. ASSUME NEW i \in DOMAIN plan.included, NEW j \in DOMAIN plan.included, i < j
          PROVE  \E k, l \in DOMAIN hits :
                   k < l /\ plan.included[i] = hits[k] /\ plan.included[j] = hits[l]
      <3>1. PICK a \in DOMAIN SelectionOrder(hits), b \in DOMAIN SelectionOrder(hits) :
              /\ a < b /\ plan.included[i] = SelectionOrder(hits)[a]
              /\ plan.included[j] = SelectionOrder(hits)[b]
        BY <2>4, PlannedIs DEF KeepsOrder
      <3> QED
        BY <2>1, <2>2, <3>1, SelectedInTheirOrder
    <2> QED
      BY <2>3, <2>4 DEF JudgedIsFirstCited
  <1> QED
    BY <1>1, StagesAgree, PTL

(* A citation for each block and a block for each hit, or two hits of one  *)
(* span.                                                                   *)
THEOREM PipelineCitesWhatItSends == Spec => []CitationsFollowTheText
  <1>1. PipelineInv => CitationsFollowTheText
    <2> SUFFICES ASSUME PipelineInv, Planned PROVE CitationsFollowTheText
      BY DEF CitationsFollowTheText
    <2>1. /\ plan = PlanContext(hits, tokens) /\ plan.error = "none"
          /\ IsHitList(hits) /\ CostsAreNumbers(hits, tokens)
          /\ rendered = Render(plan.included) /\ plan \in PlanTypes
      BY PlannedIs DEF Planned
    <2> DEFINE s == plan.included
    <2>2. s \in Seq(HitTypes) /\ DOMAIN s = 1 .. Len(s) /\ Len(s) \in Nat
      BY <2>1 DEF PlanTypes
    <2>3. CASE /\ rendered.error = "none"
               /\ Len(rendered.text) = Len(s) /\ Len(rendered.citations) = Len(s)
               /\ \A i \in 1 .. Len(s) : /\ rendered.text[i] = Block(s[i])
                                         /\ rendered.citations[i] = Citation(s[i])
      <3>1. ASSUME NEW i \in DOMAIN s
            PROVE  /\ rendered.text[i].body = s[i].chunk
                   /\ rendered.citations[i].chunk = s[i].chunk
                   /\ rendered.citations[i].locator = rendered.text[i].header
        <4>1. rendered.text[i] = Block(s[i]) /\ rendered.citations[i] = Citation(s[i])
          BY <2>2, <2>3
        <4> QED
          BY <4>1 DEF Block, Citation
      <3> QED
        BY <2>3, <3>1 DEF CitationsFollowTheText
    <2>4. ASSUME rendered.error = "duplicate",
                 NEW a \in 1 .. Len(s), NEW b \in 1 .. Len(s),
                 a # b, Locator[s[a].chunk] = Locator[s[b].chunk]
          PROVE  CitationsFollowTheText
      <3>1. s[a] # s[b]
        <4>1. ASSUME NEW i \in DOMAIN s, NEW j \in DOMAIN s, i < j PROVE s[i] # s[j]
          <5>1. PICK k \in DOMAIN SelectionOrder(hits), l \in DOMAIN SelectionOrder(hits) :
                  k < l /\ s[i] = SelectionOrder(hits)[k] /\ s[j] = SelectionOrder(hits)[l]
            BY <4>1, PlannedIs DEF KeepsOrder
          <5>2. IsInjective(SelectionOrder(hits)) /\ SelectionOrder(hits) \in Seq(HitTypes)
            BY <2>1, SelectionIs
          <5>3. k # l
            BY <5>1, <5>2
          <5> QED
            BY <5>1, <5>2, <5>3 DEF IsInjective
        <4>2. a < b \/ b < a
          BY <2>2, <2>4
        <4> QED
          BY <2>2, <4>1, <4>2
      <3>2. s[a] \in Included /\ s[b] \in Included
        BY <2>2 DEF Included
      <3> QED
        BY <2>4, <3>1, <3>2 DEF CitationsFollowTheText
    <2> QED
      BY <2>1, <2>2, <2>3, <2>4, RenderIs
  <1> QED
    BY <1>1, StagesAgree, PTL
=============================================================================
