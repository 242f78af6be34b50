------------------------------ MODULE Retrieval -----------------------------
(***************************************************************************)
(* app/services/retrieval.py and the ordering of reranking.py, as pure     *)
(* operators: rank fusion of the two arms, the rerank pool, the reranked   *)
(* hits and the far-field gate.                                            *)
(*                                                                         *)
(* A chunk is a number (its place in chunk_id order).  lexical is what the *)
(* full-text arm returned, best first; vector what the exact search        *)
(* returned, nearest first; distance[c], the squared L2 distance of c from *)
(* the question, is on the scale of FarCut.                                *)
(***************************************************************************)
EXTENDS Integers, Sequences, SequencesExt, FiniteSetsExt

CONSTANTS
  RrfK,         \* RRF_K
  CandidateK,   \* DEFAULT_CANDIDATE_K: how deep each arm goes
  RerankN,      \* RERANK_N: how many fused chunks the reranker sees
  TopK,         \* DEFAULT_TOP_K
  FarCut        \* FAR_FIELD_ABSTAIN_DISTANCE

ASSUME RetrievalAssumption ==
  /\ RrfK \in Nat
  /\ {CandidateK, RerankN, TopK} \subseteq Nat \ {0}
  /\ FarCut \in Nat

NoScore == -1      \* rerank_score is None
NoDistance == -1   \* vector_distance is None
NoRank == CandidateK + 1

(* sorted() by a key no two elements share: each stands behind as many as  *)
(* go before it.                                                           *)
Arranged(S, Before(_, _)) ==
  LET places == {<<x, Cardinality({y \in S : Before(y, x)}) + 1>> : x \in S}
  IN [k \in 1 .. Cardinality(S) |-> (CHOOSE p \in places : p[2] = k)[1]]

(* mutant: the rows argpartition kept, in the order it left them           *)
NearestArmsUnsorted(rows, distance, k) ==
  {arm \in [1 .. Min({k, Cardinality(rows)}) -> rows] :
     /\ \A i, j \in DOMAIN arm : i < j => arm[i] < arm[j]
     /\ \A i \in DOMAIN arm, d \in rows \ ToSet(arm) : distance[arm[i]] <= distance[d]}

(* What ExactVectorStore.query may return of rows: the k nearest, nearest  *)
(* first and ids breaking ties.  Which of the rows that tie at the cut     *)
(* argpartition keeps is its own affair.                                   *)
NearestArms(rows, distance, k) ==
  LET Before(c, d) == \/ distance[c] < distance[d]
                      \/ distance[c] = distance[d] /\ c < d
  IN {arm \in [1 .. Min({k, Cardinality(rows)}) -> rows] :
        /\ \A i, j \in DOMAIN arm : i < j => Before(arm[i], arm[j])
        /\ \A i \in DOMAIN arm, d \in rows \ ToSet(arm) : distance[arm[i]] <= distance[d]}

Rank(arm, c) == Min({i \in DOMAIN arm : arm[i] = c} \cup {NoRank})

(* 1 / (rrf_k + rank) over the common denominator of all ranks.            *)
RrfScale == ProductSet({RrfK + i : i \in 1 .. CandidateK})
RrfTerm(rank) == IF rank = NoRank THEN 0 ELSE RrfScale \div (RrfK + rank)
RrfScore(lexical, vector, c) ==
  RrfTerm(Rank(lexical, c)) + RrfTerm(Rank(vector, c))

(* The fused dict: an entry for each chunk found, with its score and its   *)
(* place in insertion order, the lexical hits first.                       *)
Inserted(lexical, vector, c) ==
  IF c \in ToSet(lexical) THEN Rank(lexical, c) ELSE CandidateK + Rank(vector, c)

(* mutant: a chunk both arms found keeps the vector arm's score only       *)
FusedReplaced(lexical, vector) ==
  {[chunk |-> c, place |-> Inserted(lexical, vector, c),
    score |-> IF c \in ToSet(vector) THEN RrfTerm(Rank(vector, c))
                                     ELSE RrfTerm(Rank(lexical, c))] :
     c \in ToSet(lexical) \cup ToSet(vector)}

Fused(lexical, vector) ==
  {[chunk |-> c, place |-> Inserted(lexical, vector, c),
    score |-> RrfScore(lexical, vector, c)] :
     c \in ToSet(lexical) \cup ToSet(vector)}

(* sorted(..., reverse=True) is stable: equal scores keep insertion order. *)
FusedOrder(lexical, vector) ==
  LET order == Arranged(Fused(lexical, vector), LAMBDA a, b :
                 a.score > b.score \/ (a.score = b.score /\ a.place < b.place))
  IN [i \in DOMAIN order |-> order[i].chunk]

Cut(s, n) == SubSeq(s, 1, Min({n, Len(s)}))

(* What retrieve(top_k = k) gives the reranker; mutant: only what it will  *)
(* return.                                                                 *)
PoolOfTopK(lexical, vector, k) == Cut(FusedOrder(lexical, vector), k)
Pool(lexical, vector, k) == Cut(FusedOrder(lexical, vector), Max({RerankN, k}))

(* mutant: no tie-break, so equal scores come in dict order, latest first  *)
RankedLatestFirst(pool, score, k) ==
  Cut(Arranged(ToSet(pool), LAMBDA c, d :
        score[c] > score[d] \/ (score[c] = score[d] /\ c > d)), k)

(* reranking._rank: score descending, chunk id breaking ties.              *)
Ranked(pool, score, k) ==
  Cut(Arranged(ToSet(pool), LAMBDA c, d :
        score[c] > score[d] \/ (score[c] = score[d] /\ c < d)), k)

(* The reranked hits, k of them.  score is what the cross-encoder says of  *)
(* every chunk of the pool, or << >> with the NoOp reranker, which keeps   *)
(* the order.                                                              *)
Hits(lexical, vector, distance, score, k) ==
  LET pool == Pool(lexical, vector, k)
      order == IF score = << >> THEN Cut(pool, k) ELSE Ranked(pool, score, k)
  IN [i \in DOMAIN order |->
        [chunk    |-> order[i],
         rrf      |-> RrfScore(lexical, vector, order[i]),
         rerank   |-> IF score = << >> THEN NoScore ELSE score[order[i]],
         distance |-> IF order[i] \in ToSet(vector) THEN distance[order[i]]
                                                    ELSE NoDistance]]

(* RetrievedChunk, and a list of them: no chunk twice.                     *)
IsHitList(hits) ==
  /\ hits \in Seq([chunk : Nat, rrf : Nat, rerank : Int, distance : Int])
  /\ \A i, j \in DOMAIN hits : hits[i].chunk = hits[j].chunk => i = j

(* far_field_gate(): the verdict on a retrieval, or the refusal to judge.  *)
(* Only the first hit is looked at.                                        *)
FarFieldGate(hits) ==
  CASE hits = << >> \/ hits[1].distance = NoDistance -> "unjudgeable"
    [] hits # << >> /\ hits[1].distance >= FarCut    -> "abstain"
    [] OTHER                                         -> "unverified"
=============================================================================
