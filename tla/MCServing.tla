------------------------------ MODULE MCServing -----------------------------
(***************************************************************************)
(* QueryService on small retrievals: a far top hit, a top hit only full    *)
(* text found, one hit too long for the window, and three hits of which    *)
(* the second does not fit beside the first but the third does.            *)
(***************************************************************************)
EXTENDS QueryService

Hit(c, rrf, rerank, distance) ==
  [chunk |-> c, rrf |-> rrf, rerank |-> rerank, distance |-> distance]

SmallTokens == <<2, 4, 1, 9>>

Reranked == {
  << Hit(1, 3, 8, FarCut), Hit(2, 4, 7, FarCut - 1) >>,
  << Hit(1, 3, 8, NoDistance), Hit(2, 4, 7, 0) >>,
  << Hit(1, 3, 8, 0), Hit(4, 4, 7, 1) >>,
  << Hit(1, 3, 8, FarCut - 1), Hit(2, 4, 7, 0), Hit(3, 5, 6, NoDistance) >> }

SmallHitLists == [
  local |-> Reranked,
  none  |-> {<< Hit(2, 5, NoScore, 0), Hit(3, 4, NoScore, 1) >>} ]

(* One hit each, for a question that does not turn on the packing: far,    *)
(* found by full text only, too long, near.                                *)
ShortHitLists == [
  local |-> {<< Hit(1, 3, 8, FarCut) >>, << Hit(2, 4, 7, NoDistance) >>,
             << Hit(4, 3, 8, 0) >>, << Hit(1, 3, 8, FarCut - 1) >>},
  none  |-> {<< Hit(2, 5, NoScore, 0) >>} ]
Symmetry == Permutations(Requests)
=============================================================================
