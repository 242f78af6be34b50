----------------------------- MODULE Evaluation -----------------------------
(***************************************************************************)
(* app/services/evaluation.py and the two measurements built on it,        *)
(* scripts/chunk5_benchmark.py and scripts/chunk7_scores.py: a golden set  *)
(* run through retrieve(), before and after the reranker, the gate in      *)
(* front, and what is reported of it.                                      *)
(*                                                                         *)
(* Nothing a run reads changes under it (the corpus is frozen, the query   *)
(* vectors are cached), so what an entry of the golden set will measure is *)
(* fixed before the run begins, and its passes are taken entry by entry.   *)
(* Scores are kept and chunk ids are not: that is what the files the       *)
(* scripts write are read for.  u06, which is reported apart, is left out. *)
(***************************************************************************)
EXTENDS Retrieval

CONSTANTS
  Chunks,         \* the corpus, in chunk id order
  VectorLists,    \* what the vector search may find
  Logits,         \* what the cross-encoder may say of a chunk
  GoldSets,       \* what resolve_target_chunk_ids may return for one entry
  NumAnswerable,  \* entries of the golden set that have an answer
  NumNearMisses,  \* entries that have a near_miss_to span instead
  DecisionDepth,  \* TOP_K_DECISION
  Decisions       \* what abstained_by may say; the scripts leave it unwired

Orders(lengths) ==
  UNION {{s \in [1 .. n -> Chunks] : IsInjective(s)} : n \in lengths}

ASSUME EvaluationAssumption ==
  /\ Chunks \subseteq Nat /\ IsFiniteSet(Chunks) /\ Chunks # {}
  /\ VectorLists \subseteq Orders({Min({CandidateK, Cardinality(Chunks)})})
  /\ GoldSets \subseteq SUBSET Chunks
  /\ Logits \subseteq Nat
  /\ {NumAnswerable, NumNearMisses} \subseteq Nat
  /\ DecisionDepth \in 1 .. RerankN
  /\ Decisions \subseteq {"unwired", "abstained", "answered"}

VARIABLES
  phase,        \* "gate", "measuring", "refused" or "written"
  arm,          \* the arm chunk7_scores measures
  entries,      \* what the entries of the golden set will measure
  measured,     \* what the answerable entries measured, in order
  coverage,     \* NearMissCoverage of each arm in the reranked report
  lures         \* rows of population (b), the lure's ranks beside them

vars == <<phase, arm, entries, measured, coverage, lures>>

Arms == {"lexical", "vector", "hybrid"}
Values(s) == {s[i] : i \in DOMAIN s}

-----------------------------------------------------------------------------
(* One question in one corpus: what each search finds, what the            *)
(* cross-encoder says of every chunk.                                      *)
Worlds ==
  [lexical : Orders(0 .. CandidateK),
   vector  : VectorLists,
   score   : [Chunks -> Logits]]

(* One retrieve() call of the harness.  Distances are not read here.       *)
ArmHits(world, a, score, k) ==
  Hits(IF a = "vector" THEN << >> ELSE world.lexical,
       IF a = "lexical" THEN << >> ELSE world.vector,
       [c \in Chunks |-> 0], score, k)

PassesAtDecision(world, a) ==   \* mutant: only what is decided on is asked for
  [post |-> ArmHits(world, a, world.score, DecisionDepth),
   pre  |-> ArmHits(world, a, << >>, DecisionDepth)]

(* _both_passes: the whole pool, reranked and not.                         *)
BothPasses(world, a) ==
  [post |-> ArmHits(world, a, world.score, RerankN),
   pre  |-> ArmHits(world, a, << >>, RerankN)]

Ids(hits) == {h.chunk : h \in Values(hits)}

(* A report keeps scores sorted and forgets whose they are: the k-th is    *)
(* the least that k of them do not exceed.                                 *)
Sorted(f) ==
  [k \in 1 .. Cardinality(DOMAIN f) |->
     Min({v \in Values(f) : Cardinality({x \in DOMAIN f : f[x] <= v}) >= k})]

-----------------------------------------------------------------------------
(* _populations and _recall_at_5_regression for one answerable entry:      *)
(* hits of the gold set in the top before and after, its best score, the   *)
(* scores of what else came to the top, and, when gold was lost from the   *)
(* top, the scores of the lost and of the chunks that came in, gold or not.*)
ScoreOf(hits, c) ==
  IF c \in Ids(hits) THEN hits[CHOOSE i \in DOMAIN hits : hits[i].chunk = c].rerank
                     ELSE NoScore

Compare(passes, gold) ==
  LET postTop == Ids(Cut(passes.post, DecisionDepth))
      preTop == Ids(Cut(passes.pre, DecisionDepth))
      lost == (preTop \cap gold) \ postTop
      gained == (postTop \cap gold) \ preTop
      new == IF lost = {} THEN {} ELSE postTop \ preTop
      scored == {ScoreOf(passes.post, c) : c \in Ids(passes.post) \cap gold}
      SortedScores(chunks) == Sorted([c \in chunks |-> ScoreOf(passes.post, c)])
  IN [pre        |-> Cardinality(preTop \cap gold),
      post       |-> Cardinality(postTop \cap gold),
      best       |-> IF scored = {} THEN NoScore ELSE Max(scored),
      others     |-> SortedScores(postTop \ gold),
      gained     |-> Cardinality(gained),
      lost       |-> Cardinality(lost),
      demoted    |-> {ScoreOf(passes.post, c) : c \in lost},
      displacers |-> [isGold \in BOOLEAN |->
                        SortedScores({c \in new : c \in gold <=> isGold})]]

Measure(world, gold, a) == Compare(BothPasses(world, a), gold)

-----------------------------------------------------------------------------
(* near_miss_outcome                                                       *)
NearMissOutcome(retrieved, decision) ==
  IF ~retrieved
  THEN "UNSCORED"
  ELSE CASE decision = "unwired"   -> "undecided"
         [] decision = "abstained" -> "ABSTAINED"
         [] decision = "answered"  -> "ANSWERED"

SeenInPool(world, lure, a) ==   \* mutant: scored against the pool
  Ids(ArmHits(world, a, world.score, RerankN)) \cap lure # {}

(* The near-miss loop of evaluate(): the span counts as retrieved if it is *)
(* in the ABSTENTION_TOP_K = 1 hits the decision of this arm consumes.     *)
Seen(world, lure, a) ==
  Ids(ArmHits(world, a, world.score, 1)) \cap lure # {}

(* What one near-miss entry measures: the row of population (b), the ranks *)
(* of _u05_trajectory, and whether the decision of each arm saw the lure.  *)
RowOf(post, seen, lure, a) ==
  LET ranks(b) == {i \in DOMAIN post[b] : post[b][i].chunk \in lure}
  IN [top    |-> IF post[a] = << >> THEN NoScore ELSE post[a][1].rerank,
      isLure |-> post[a] # << >> /\ post[a][1].chunk \in lure,
      rank   |-> [b \in Arms |-> Min(ranks(b) \cup {RerankN + 1})],
      seen   |-> seen]

Row(world, lure, a) ==
  RowOf([b \in Arms |-> ArmHits(world, b, world.score, RerankN)],
        [b \in Arms |-> Seen(world, lure, b)], lure, a)

-----------------------------------------------------------------------------
Init ==
  /\ phase = "gate"
  /\ arm \in {"vector", "hybrid"}     \* ARMS_MEASURED
  /\ entries \in
       [answerable : [1 .. NumAnswerable ->
          {Measure(world, gold, arm) : world \in Worlds, gold \in GoldSets}],
        nearMiss : [1 .. NumNearMisses ->
          {Row(world, lure, arm) : world \in Worlds, lure \in GoldSets}]]
  /\ measured = << >>
  /\ lures = << >>
  /\ coverage = [a \in Arms |-> << >>]

(* assert_gate: the twelve figures of the NoOp report are the recorded     *)
(* ones, or nothing is measured and the reranker is not even built.  The   *)
(* recorded figures are of some corpus, this one or another.               *)
Gate ==
  /\ phase = "gate"
  /\ phase' \in {"measuring", "refused"}
  /\ UNCHANGED <<arm, entries, measured, coverage, lures>>

MeasureAnswerable ==
  /\ phase = "measuring"
  /\ Len(measured) < NumAnswerable
  /\ measured' = Append(measured, entries.answerable[Len(measured) + 1])
  /\ UNCHANGED <<phase, arm, entries, coverage, lures>>

MeasureNearMiss ==
  /\ phase = "measuring"
  /\ Len(measured) = NumAnswerable
  /\ Len(lures) < NumNearMisses
  /\ LET row == entries.nearMiss[Len(lures) + 1]
     IN /\ lures' = Append(lures, row)
        /\ \E decision \in Decisions :
             coverage' = [a \in Arms |->
               Append(coverage[a], NearMissOutcome(row.seen[a], decision))]
  /\ UNCHANGED <<phase, arm, entries, measured>>

(* One write, at the end.                                                  *)
Write ==
  /\ phase = "measuring"
  /\ Len(measured) = NumAnswerable
  /\ Len(lures) = NumNearMisses
  /\ phase' = "written"
  /\ UNCHANGED <<arm, entries, measured, coverage, lures>>

Next == Gate \/ MeasureAnswerable \/ MeasureNearMiss \/ Write
Spec == Init /\ [][Next]_vars

-----------------------------------------------------------------------------
(* What is reported: populations (a), (b) and (c), each as a sorted list.  *)
GoldBest ==
  Sorted([i \in {i \in DOMAIN measured : measured[i].best # NoScore} |-> measured[i].best])
LureTop ==
  Sorted([i \in {i \in DOMAIN lures : lures[i].top # NoScore} |-> lures[i].top])
NonGoldTop ==
  Sorted([p \in UNION {{i} \X DOMAIN measured[i].others : i \in DOMAIN measured} |->
            measured[p[1]].others[p[2]]])

(* statistics.median of a sorted list, doubled                             *)
Median2(s) == s[(Len(s) + 1) \div 2] + s[Len(s) \div 2 + 1]

(* _overlap: no score could be of either population                        *)
Separable(pos, neg) ==
  /\ pos # << >> /\ neg # << >>
  /\ Max({pos[1], neg[1]}) > Min({pos[Len(pos)], neg[Len(neg)]})

(* _stop_condition, low and high.                                          *)
Regressed == {m \in Values(measured) : m.lost > 0}
LowFires ==
  /\ NonGoldTop # << >>
  /\ \E m \in Regressed : \E s \in m.demoted \ {NoScore} : 2 * s < Median2(NonGoldTop)
HighAgainstNonGold ==   \* mutant: lures are held against the other median
  /\ NonGoldTop # << >>
  /\ \E s \in Values(LureTop) : 2 * s > Median2(NonGoldTop)
HighFires ==
  /\ GoldBest # << >>
  /\ \/ \E s \in Values(LureTop) : 2 * s > Median2(GoldBest)
     \/ \E m \in Regressed : \E s \in Values(m.displacers[FALSE]) :
          2 * s > Median2(GoldBest)
Stop == LowFires \/ HighFires

SumOf(f) == FoldFunction(+, 0, f)
NetGoldChunks == SumOf([i \in DOMAIN measured |-> measured[i].gained])
                 - SumOf([i \in DOMAIN measured |-> measured[i].lost])

-----------------------------------------------------------------------------
(* chunk7_scores.py:354-486: no demotion goes unexplained.  A gold chunk   *)
(* the reranker pushes out of the top is still in the pool and scored, and *)
(* as many chunks took the places of those that left, none scored below    *)
(* it; gains less losses are exactly what the figure moved by.             *)
LossesAreLocated ==
  /\ \A m \in Values(measured) :
       /\ NoScore \notin m.demoted
       /\ Len(m.displacers[TRUE]) + Len(m.displacers[FALSE]) >= m.lost
       /\ \A isGold \in BOOLEAN :
            \A d \in Values(m.displacers[isGold]), s \in m.demoted : d >= s
  /\ NetGoldChunks = SumOf([i \in DOMAIN measured |-> measured[i].post])
                      - SumOf([i \in DOMAIN measured |-> measured[i].pre])

(* evaluation.py:574-584 with chunk7_scores.py:242-250 and                 *)
(* chunk5_benchmark.py:309-348: three readings of one lure agree.  An item *)
(* counts in an arm's rate exactly when, in the whole reranked pool of     *)
(* that arm, its lure is first: what the decision saw and what the scores  *)
(* are of are the same hit, though retrieved by calls of different depth.  *)
HarnessesAgree ==
  \A i \in DOMAIN lures :
    /\ \A a \in Arms : coverage[a][i] # "UNSCORED" <=> lures[i].rank[a] = 1
    /\ lures[i].isLure <=> coverage[arm][i] # "UNSCORED"

(* chunk7_scores.py:489-536: the stop condition raises no false alarm.     *)
(* When every gold score lies above every lure and everything else that    *)
(* reached the top, it does not fire, in either direction.                 *)
SeparableMeansQuiet ==
  /\ phase = "written"
  /\ Separable(GoldBest, NonGoldTop) /\ GoldBest[1] > NonGoldTop[1]
  /\ Separable(GoldBest, LureTop) /\ GoldBest[1] > LureTop[1]
  => ~Stop
=============================================================================
