---------------------------- MODULE ContextBudget ---------------------------
(***************************************************************************)
(* app/services/context_budget.py: which of the hits go into the prompt.   *)
(* Whole chunks only, greedily by score, continuing past those that do not *)
(* fit.  A hit is a record of Retrieval.tla; tokens[c] is what the counter *)
(* says of the text of chunk c.                                            *)
(***************************************************************************)
EXTENDS Retrieval

CONSTANTS
  UsableBudget,   \* context_window less the three reserves
  Overhead        \* per_chunk_overhead_tokens

ASSUME BudgetAssumption == UsableBudget \in Nat \ {0} /\ Overhead \in Nat

Unscored(hits) == {i \in DOMAIN hits : hits[i].rerank = NoScore}

(* _score_source(): which score the selection ranks on; a mixture raises.  *)
ScoreSource(hits) ==
  CASE Unscored(hits) = DOMAIN hits        -> "rrf"
    [] hits # << >> /\ Unscored(hits) = {} -> "rerank"
    [] OTHER                               -> "mixed"

Score(hit, source) == IF source = "rerank" THEN hit.rerank ELSE hit.rrf

(* _selection_key: score descending, chunk id breaking ties.               *)
SelectionOrder(hits) ==
  LET source == ScoreSource(hits)
  IN Arranged(ToSet(hits), LAMBDA a, b :
       \/ Score(a, source) > Score(b, source)
       \/ Score(a, source) = Score(b, source) /\ a.chunk < b.chunk)

Cost(hit, tokens) == tokens[hit.chunk] + Overhead

(* mutants: the overhead is never charged; packing stops at the first      *)
(* chunk that does not fit                                                 *)
ConsiderUncharged(plan, hit, tokens) ==
  IF plan.used + Cost(hit, tokens) > UsableBudget
  THEN [plan EXCEPT !.excluded = Append(@, hit)]
  ELSE [plan EXCEPT !.included = Append(@, hit), !.used = @ + tokens[hit.chunk]]
ConsiderStopping(plan, hit, tokens) ==
  IF plan.used + Cost(hit, tokens) > UsableBudget \/ plan.excluded # << >>
  THEN [plan EXCEPT !.excluded = Append(@, hit)]
  ELSE [plan EXCEPT !.included = Append(@, hit), !.used = @ + Cost(hit, tokens)]

Consider(plan, hit, tokens) ==
  IF plan.used + Cost(hit, tokens) > UsableBudget
  THEN [plan EXCEPT !.excluded = Append(@, hit)]
  ELSE [plan EXCEPT !.included = Append(@, hit), !.used = @ + Cost(hit, tokens)]

EmptyPlan == [error |-> "none", included |-> << >>, excluded |-> << >>, used |-> 0]

(* plan_context(); MixedScoreSources and ChunkExceedsBudget are errors.    *)
PlanContext(hits, tokens) ==
  IF ScoreSource(hits) = "mixed"
  THEN [EmptyPlan EXCEPT !.error = "mixed"]
  ELSE IF \E i \in DOMAIN hits : Cost(hits[i], tokens) > UsableBudget
  THEN [EmptyPlan EXCEPT !.error = "exceeds"]
  ELSE FoldLeft(LAMBDA plan, hit : Consider(plan, hit, tokens),
                EmptyPlan, SelectionOrder(hits))
=============================================================================
