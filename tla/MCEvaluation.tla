---------------------------- MODULE MCEvaluation ----------------------------
(***************************************************************************)
(* Evaluation over golden spans that one chunk owns, as in version 3.  The *)
(* reranker breaks ties by chunk id, so the vector search finds low ids,   *)
(* high ids, or one of each.                                               *)
(***************************************************************************)
EXTENDS Evaluation

OwnedSpans == {{c} : c \in Chunks}
LowHighMixed == {<< 1, 2 >>, << 4, 3 >>, << 3, 1 >>}
=============================================================================
