-------------------------- MODULE RetrievalPipeline -------------------------
(***************************************************************************)
(* One question through retrieve(), far_field_gate(), plan_context() and   *)
(* render(), over every outcome of the two searches, of the reranker and   *)
(* of the token counter.  What later stages do not read is forgotten.      *)
(***************************************************************************)
EXTENDS Provenance

CONSTANTS
  Chunks,       \* 1 .. n: the corpus, in chunk id order
  Distances,    \* how far a chunk may be from the question
  Logits,       \* what the cross-encoder may say of a chunk
  TokenCounts   \* what the counter may say of a chunk

ASSUME PipelineAssumption ==
  /\ Chunks \subseteq Nat /\ IsFiniteSet(Chunks)
  /\ Distances \subseteq Nat
  /\ Logits \subseteq Int \ {NoScore}
  /\ TokenCounts \subseteq Nat

VARIABLES
  stage,        \* the stage just finished
  lexical,      \* _LexicalHit ids, best first
  vector,       \* _VectorHit ids, nearest first
  distance,     \* distance of every chunk; << >>: the arm did not run
  score,        \* cross-encoder scores of the pool; << >>: NoOpReranker
  hits,         \* Retrieval.hits
  verdict,      \* of the gate
  tokens,       \* token counts of the hits
  plan,         \* BudgetedContext
  rendered      \* RenderedContext

vars == <<stage, lexical, vector, distance, score, hits, verdict, tokens, plan,
          rendered>>

Arms(lengths) ==
  UNION {{s \in [1 .. n -> Chunks] : IsInjective(s)} : n \in lengths}

Init ==
  /\ stage = "asked" /\ verdict = "none" /\ plan = EmptyPlan
  /\ lexical = << >> /\ vector = << >> /\ distance = << >>
  /\ score = << >> /\ hits = << >> /\ tokens = << >>
  /\ rendered = NothingRendered

(* lexical_search finds any chunks, in any order; vector_search the        *)
(* nearest, or does not run (arm = "lexical").                             *)
Search ==
  /\ stage = "asked"
  /\ stage' = "searched"
  /\ lexical' \in Arms(0 .. CandidateK)
  /\ \/ vector' = << >> /\ distance' = << >>
     \/ /\ distance' \in [Chunks -> Distances]
        /\ vector' \in NearestArms(Chunks, distance', CandidateK)
  /\ UNCHANGED <<score, hits, verdict, tokens, plan, rendered>>

Rerank ==
  /\ stage = "searched"
  /\ stage' = "reranked"
  /\ score' \in {<< >>} \cup [ToSet(Pool(lexical, vector, TopK)) -> Logits]
  /\ hits' = Hits(lexical, vector, distance, score', TopK)
  /\ UNCHANGED <<lexical, vector, distance, verdict, tokens, plan, rendered>>

Judge ==
  /\ stage = "reranked"
  /\ stage' = "judged"
  /\ verdict' = FarFieldGate(hits)
  /\ UNCHANGED <<lexical, vector, distance, score, hits, tokens, plan, rendered>>

(* Only a question that is answered is planned for; a plan that fails is   *)
(* not rendered.                                                           *)
Plan ==
  /\ stage = "judged"
  /\ verdict = "unverified"
  /\ stage' = "planned"
  /\ tokens' \in [{hits[i].chunk : i \in DOMAIN hits} -> TokenCounts]
  /\ plan' = PlanContext(hits, tokens')
  /\ rendered' = IF plan'.error = "none" THEN Render(plan'.included) ELSE rendered
  /\ lexical' = << >> /\ vector' = << >> /\ distance' = << >> /\ score' = << >>
  /\ UNCHANGED <<hits, verdict>>

Next == Search \/ Rerank \/ Judge \/ Plan
Spec == Init /\ [][Next]_vars

-----------------------------------------------------------------------------
(* retrieval.py:327-330 and 393-397: fusion respects both arms.  A chunk   *)
(* no arm ranks below another, and some arm above it, stays before it; in  *)
(* particular a single arm's own order survives fusion.                    *)
FusionRespectsBothArms ==
  stage = "searched" =>
    LET order == FusedOrder(lexical, vector)
    IN \A i, j \in DOMAIN order :
         /\ Rank(lexical, order[i]) <= Rank(lexical, order[j])
         /\ Rank(vector, order[i]) <= Rank(vector, order[j])
         => i <= j

(* retrieval.py:390-397: the pool is deeper than an arm, so what either    *)
(* arm found best always reaches the reranker, whatever the other arm      *)
(* found: nothing one arm is sure of is lost before it is read.            *)
BestOfEachArmIsReranked ==
  stage = "searched" =>
    \A arm \in {lexical, vector} :
      arm # << >> => arm[1] \in ToSet(Pool(lexical, vector, TopK))

(* retrieval.py:196-202, query.py:57-62: the verdict speaks of the whole   *)
(* corpus, though the gate reads one hit.  A question that is answered has *)
(* a near passage in the corpus; with the vector arm alone, and its order  *)
(* kept, it is refused exactly when the corpus has none.                   *)
VerdictSpeaksOfTheCorpus ==
  stage = "judged" =>
    LET near == {c \in DOMAIN distance : distance[c] < FarCut}
    IN /\ verdict = "unverified" => near # {}
       /\ vector # << >> /\ lexical = << >> /\ score = << >> =>
            (verdict = "abstain" <=> near = {})

Included == {plan.included[i] : i \in DOMAIN plan.included}
Excluded == {plan.excluded[i] : i \in DOMAIN plan.excluded}
Planned == stage = "planned" /\ plan.error = "none"

(* query.py:110-156 with reranking._rank and _selection_key: with the      *)
(* cross-encoder, the passage the gate judged is the first the model sees  *)
(* and cites, and the others keep the order they were returned in.         *)
JudgedIsFirstCited ==
  Planned /\ ScoreSource(hits) = "rerank" =>
    /\ plan.included[1] = hits[1]
    /\ \A i, j \in DOMAIN plan.included :
         i < j => \E k, l \in DOMAIN hits :
                    k < l /\ plan.included[i] = hits[k] /\ plan.included[j] = hits[l]

(* context_budget.py:350-400: what is included fits the window with its    *)
(* overhead, and tokens_used is exactly what it costs.                     *)
PromptFits ==
  Planned =>
    LET cost == [h \in Included |-> Cost(h, tokens)]
    IN plan.used = FoldFunction(+, 0, cost) /\ plan.used <= UsableBudget

(* context_budget.py:458-463 and 544-550: every hit is accounted for, the  *)
(* best is never the one dropped, and nothing was dropped that still fits. *)
OnlyTheUnfittingIsDropped ==
  Planned =>
    /\ Included \cup Excluded = {hits[i] : i \in DOMAIN hits}
    /\ Included \cap Excluded = {}
    /\ hits # << >> => SelectionOrder(hits)[1] \in Included
    /\ \A h \in Excluded : plan.used + Cost(h, tokens) > UsableBudget

(* provenance.py:124-132 and 87-96: the nth citation addresses the nth     *)
(* block the model reads, all of what was planned is there, and two chunks *)
(* of one span (two runs of one document can leave both their rows) are    *)
(* never merged into one citation.                                         *)
CitationsFollowTheText ==
  Planned =>
    \/ /\ rendered.error = "none"
       /\ Len(rendered.citations) = Len(plan.included)
       /\ Len(rendered.text) = Len(plan.included)
       /\ \A i \in DOMAIN plan.included :
            /\ rendered.text[i].body = plan.included[i].chunk
            /\ rendered.citations[i].chunk = plan.included[i].chunk
            /\ rendered.citations[i].locator = rendered.text[i].header
    \/ /\ rendered.error = "duplicate"
       /\ \E g, h \in Included : g # h /\ Locator[g.chunk] = Locator[h.chunk]
=============================================================================
