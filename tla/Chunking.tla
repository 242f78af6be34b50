------------------------------ MODULE Chunking ------------------------------
(***************************************************************************)
(* chunk_document (services/chunking.py): the text of each page is cut     *)
(* into atoms, whole sentences and pieces of those that are too long, and  *)
(* runs of atoms are packed into chunks that overlap.  Every iteration of  *)
(* its loops is a step.                                                    *)
(***************************************************************************)
EXTENDS Parsing, FiniteSets

CONSTANTS ChunkChars, OverlapChars

ASSUME ChunkingAssumption ==
  /\ ChunkChars \in Nat \ {0}
  /\ OverlapChars \in Nat

VARIABLES
  page,     \* the page in progress
  base,     \* base_offset: where that page starts in the canonical text
  cuts,     \* atom j of that page is [cuts[j], cuts[j + 1])
  first,    \* i: the first atom of the chunk in progress
  last,     \* end_idx: its last one
  carry,    \* overlap_idx
  step,     \* the loop it is in
  chunks    \* [page, start, end], offsets into the canonical text

chunking == <<page, base, cuts, first, last, carry, step, chunks>>

Separator == 2                          \* len(PAGE_SEPARATOR)
Text == pages[page]
AtomCount == Len(cuts) - 1
CutEnd == cuts[Len(cuts)]

(* _SENTENCE_BOUNDARY_RE: a run of blanks between a stop and a capital     *)
(* ends a sentence, any other run does at the last of two or more newlines.*)
BlankRuns(text) ==
  {r \in (1 .. Len(text)) \X (1 .. Len(text)) :
     /\ r[1] <= r[2]
     /\ \A k \in r[1] .. r[2] : text[k] \in Blank
     /\ r[1] = 1 \/ text[r[1] - 1] \notin Blank
     /\ r[2] = Len(text) \/ text[r[2] + 1] \notin Blank}

BoundaryEnd(text, r) ==
  LET lines == {k \in r[1] .. r[2] : text[k] = "line"}
  IN  IF r[1] > 1 /\ r[2] < Len(text) /\ text[r[1] - 1] = "stop" THEN {r[2]}
      ELSE IF Cardinality(lines) < 2 THEN {}
      ELSE {k \in lines : \A j \in lines : j <= k}

(* _sentence_spans: the empty span it may put at the end always joins the  *)
(* chunk before it and is left out.                                        *)
SentenceEnds(text) == {Len(text)} \cup UNION {BoundaryEnd(text, r) : r \in BlankRuns(text)}

SentenceFrom(text, s) ==
  {e \in SentenceEnds(text) : e > s /\ \A x \in SentenceEnds(text) : x > s => e <= x}

PieceOfPage(text, s, e) ==              \* mutant: limited by the page, not by the sentence
  LET found == RFind("space", text, s, s + ChunkChars) \ {s}
  IN  IF Len(text) - s <= ChunkChars THEN {Len(text)}
      ELSE IF found # {} THEN {k + 1 : k \in found}
      ELSE {s + ChunkChars}

(* _hard_split: the piece of [s, e) that starts at s.                      *)
Piece(text, s, e) ==
  LET found == RFind("space", text, s, s + ChunkChars) \ {s}
  IN  IF e - s <= ChunkChars THEN {e}
      ELSE IF found # {} THEN {k + 1 : k \in found}
      ELSE {s + ChunkChars}

ChunkingInit ==
  /\ page = 1 /\ base = 0
  /\ cuts = <<0>>
  /\ first = 1 /\ last = 1 /\ carry = 1
  /\ step = "atoms"
  /\ chunks = <<>>

At(s) == stage = "chunk" /\ step = s

(* _atomize: the next atom; then the packing of the page starts.           *)
Atomize ==
  /\ At("atoms")
  /\ CutEnd < Len(Text)
  /\ \E e \in SentenceFrom(Text, CutEnd) : \E f \in Piece(Text, CutEnd, e) :
       cuts' = Append(cuts, f)
  /\ UNCHANGED <<page, base, first, last, carry, step, chunks>>

StartPacking ==
  /\ At("atoms")
  /\ CutEnd = Len(Text)
  /\ first' = 1 /\ last' = 1 /\ carry' = 1
  /\ step' = IF AtomCount = 0 THEN "page" ELSE "extend"
  /\ UNCHANGED <<page, base, cuts, chunks>>

FitsBefore == cuts[last + 1] - cuts[first] <= ChunkChars    \* mutant: the end before it is tested

Fits == cuts[last + 2] - cuts[first] <= ChunkChars

Extend ==
  /\ At("extend")
  /\ last < AtomCount /\ Fits
  /\ last' = last + 1
  /\ UNCHANGED <<page, base, cuts, first, carry, step, chunks>>

EmittedUnlessLast ==                    \* mutant: the break before the append
  IF HasInk(Text, cuts[first], cuts[last + 1]) /\ last < AtomCount
  THEN Append(chunks, [page |-> page, start |-> base + cuts[first], end |-> base + cuts[last + 1]])
  ELSE chunks

(* A chunk without ink is dropped; the last atom ends the page.            *)
Emitted ==
  IF HasInk(Text, cuts[first], cuts[last + 1])
  THEN Append(chunks, [page |-> page, start |-> base + cuts[first], end |-> base + cuts[last + 1]])
  ELSE chunks

Emit ==
  /\ At("extend")
  /\ ~ (last < AtomCount /\ Fits)
  /\ chunks' = Emitted
  /\ carry' = last
  /\ step' = IF last = AtomCount THEN "page" ELSE "carry"
  /\ UNCHANGED <<page, base, cuts, first, last>>

MayCarry == carry > first /\ cuts[last + 1] - cuts[carry - 1] <= OverlapChars

CarryBack ==
  /\ At("carry") /\ MayCarry
  /\ carry' = carry - 1
  /\ UNCHANGED <<page, base, cuts, first, last, step, chunks>>

NextFirstCarried == carry               \* mutant: no progress when one atom is the chunk

(* i = max(overlap_idx, i + 1)                                             *)
NextFirst == IF carry > first THEN carry ELSE first + 1

Advance ==
  /\ At("carry") /\ ~ MayCarry
  /\ first' = NextFirst /\ last' = NextFirst
  /\ step' = "extend"
  /\ UNCHANGED <<page, base, cuts, carry, chunks>>

NextBaseUnseparated == base + Len(Text) \* mutant: the separator is not counted

NextBase == base + Len(Text) + Separator

NextPage ==
  /\ At("page")
  /\ page < Len(pages)
  /\ page' = page + 1 /\ base' = NextBase
  /\ cuts' = <<0>> /\ step' = "atoms"
  /\ UNCHANGED <<first, last, carry, chunks>>

ChunkStep ==
  \/ Atomize \/ StartPacking \/ Extend \/ Emit \/ CarryBack \/ Advance \/ NextPage

-----------------------------------------------------------------------------
(* The chunks that hold [s, e) of the page in progress.                    *)
Holding(s, e) ==
  {c \in 1 .. Len(chunks) :
     chunks[c].page = page /\ chunks[c].start <= base + s /\ base + e <= chunks[c].end}

(* When a page is done, every character that is not blank is in a chunk:   *)
(* the hard split of an oversized sentence "must not crash or silently     *)
(* drop text", and no break of the packing loop loses the tail of a page.  *)
InkIsIndexed ==
  step = "page" => \A k \in 1 .. Len(Text) : Text[k] \notin Blank => Holding(k - 1, k) # {}

(* "Structure-aware sentence packing": a sentence that fits in a chunk is  *)
(* whole in one of them, however the sentences around it fall.             *)
SentencesStayWhole ==
  step = "page" =>
    \A s \in SentenceEnds(Text) \cup {0} : \A e \in SentenceFrom(Text, s) :
      (e - s <= ChunkChars /\ HasInk(Text, s, e)) => Holding(s, e) # {}

(* No chunk is empty or over chunk_chars, so no text reaches the embedder  *)
(* that the sizing did not allow for.                                      *)
ChunksFit ==
  \A c \in 1 .. Len(chunks) : chunks[c].end - chunks[c].start \in 1 .. ChunkChars

(* Chunks start ever later: the packing makes progress, ordinals follow    *)
(* the text, and two chunks never share the (document, start, end) that    *)
(* provenance.render refuses as a duplicate locator.                       *)
OffsetsIncrease ==
  \A c, d \in 1 .. Len(chunks) : c < d => chunks[c].start < chunks[d].start

(* VIOLATED.  "Carry trailing atoms whose combined length is <=            *)
(* overlap_chars into the next chunk": the text two chunks of a page share *)
(* is never longer than that.                                              *)
OverlapIsBounded ==
  \A c \in 2 .. Len(chunks) :
    chunks[c].page = chunks[c - 1].page
      => chunks[c - 1].end - chunks[c].start <= OverlapChars
=============================================================================
