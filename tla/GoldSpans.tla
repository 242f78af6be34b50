----------------------------- MODULE GoldSpans ------------------------------
(***************************************************************************)
(* resolve_target_chunk_ids (services/evaluation.py): the golden set names *)
(* spans of the canonical text, and the chunk ids they stand for are found *)
(* again against whatever the last ingestion has cut.                      *)
(***************************************************************************)
EXTENDS Indexing, FiniteSetsExt

(* The chunks a span is contained in; ORDER BY char_start puts them in the *)
(* order they were cut, and the first is taken.                            *)
OwnersStrictly(from, to) ==         \* mutant: > for >=
  {c \in 1 .. Total : chunks[c].start <= from /\ chunks[c].end > to}
Owners(from, to) ==
  {c \in 1 .. Total : chunks[c].start <= from /\ chunks[c].end >= to}

Resolved(from, to) == Min(Owners(from, to))

(* The sentences of page p that a chunk can hold: what a golden set quotes.*)
Quotable(p) ==
  {span \in (0 .. Len(pages[p])) \X (0 .. Len(pages[p])) :
     /\ span[1] \in SentenceEnds(pages[p]) \cup {0}
     /\ span[2] \in SentenceFrom(pages[p], span[1])
     /\ span[2] - span[1] <= ChunkChars
     /\ HasInk(pages[p], span[1], span[2])}

(* evaluation.py:194-206: "exact rather than approximate".  After any      *)
(* ingestion a span that quotes one sentence, given by its offsets in the  *)
(* canonical text, has an owner, and the chunk it resolves to is of the    *)
(* page the sentence stands on: gold survives a re-ingest.                 *)
GoldSpansResolve ==
  stage = "indexed" =>
    \A p \in 1 .. Len(pages) : \A span \in Quotable(p) :
      LET s == PageEnd[p - 1] + span[1]
          e == PageEnd[p - 1] + span[2]
      IN  /\ Owners(s, e) # {}
          /\ chunks[Resolved(s, e)].page = p
=============================================================================
