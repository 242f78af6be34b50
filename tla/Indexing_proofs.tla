--------------------------- MODULE Indexing_proofs --------------------------
(***************************************************************************)
(* What Indexing.tla and GoldSpans.tla promise for every text, page size,  *)
(* chunk size, overlap and cap.  The chunks of a page hold all of it,      *)
(* sentence by sentence, and keep to their size, their order and their     *)
(* page; golden spans are found again among them; requests keep to the     *)
(* caps, and each vector goes to the chunk it was computed from.           *)
(***************************************************************************)
EXTENDS GoldSpans, TLAPS, WellFoundedInduction

Fresh ==
  /\ page = 1 /\ base = 0 /\ cuts = <<0>>
  /\ first = 1 /\ last = 1 /\ carry = 1
  /\ step = "atoms" /\ chunks = <<>>

ParseTypes ==
  /\ file.text \in Seq(Chars)
  /\ start \in Nat
  /\ pages \in Seq(Seq(Chars))

(* The cuts made so far: increasing, no piece too long, every character    *)
(* behind the last one in an atom, no fitting sentence torn.               *)
CutsInOrder ==
  /\ page \in 1 .. Len(pages)
  /\ base \in Nat
  /\ cuts \in Seq(Nat) /\ Len(cuts) >= 1 /\ cuts[1] = 0
  /\ CutEnd <= Len(Text)
  /\ \A i, j \in 1 .. Len(cuts) : i < j => cuts[i] < cuts[j]

AtomsFit == \A j \in 1 .. AtomCount : cuts[j + 1] - cuts[j] <= ChunkChars

AtomsTile ==
  \A k \in 1 .. CutEnd : \E j \in 1 .. AtomCount : cuts[j] < k /\ k <= cuts[j + 1]

NoneTorn ==
  \A s \in SentenceEnds(Text) \cup {0} : \A e \in SentenceFrom(Text, s) :
    e - s <= ChunkChars => \A j \in 1 .. Len(cuts) : ~ (s < cuts[j] /\ cuts[j] < e)

SentencesAreAtoms ==
  \A s \in SentenceEnds(Text) \cup {0} : \A e \in SentenceFrom(Text, s) :
    (e - s <= ChunkChars /\ e <= CutEnd) => \E j \in 1 .. AtomCount : cuts[j] = s /\ cuts[j + 1] = e

CutsInv == CutsInOrder /\ AtomsFit /\ AtomsTile /\ NoneTorn /\ SentencesAreAtoms

Kept(j) == HasInk(Text, cuts[j], cuts[j + 1]) => Holding(cuts[j], cuts[j + 1]) # {}
StartBefore(offset) == \A c \in 1 .. Len(chunks) : chunks[c].start < offset

(* What each loop has established.                                         *)
InStep ==
  /\ step \in {"atoms", "extend", "carry", "page"}
  /\ step = "atoms" => StartBefore(base)
  /\ step # "atoms" => CutEnd = Len(Text)
  /\ step = "extend" =>
       /\ first \in 1 .. AtomCount /\ last \in first .. AtomCount
       /\ cuts[last + 1] - cuts[first] <= ChunkChars
       /\ \A j \in 1 .. first - 1 : Kept(j)
       /\ StartBefore(base + cuts[first])
  /\ step = "carry" =>
       /\ first \in 1 .. AtomCount /\ last \in first .. AtomCount - 1
       /\ carry \in first .. last
       /\ \A j \in 1 .. last : Kept(j)
       /\ StartBefore(base + cuts[first] + 1)
  /\ step = "page" =>
       /\ \A j \in 1 .. AtomCount : Kept(j)
       /\ StartBefore(base + Len(Text) + Separator)

ChunksInv ==
  /\ chunks \in Seq([page : Nat, start : Nat, end : Nat])
  /\ ChunksFit
  /\ OffsetsIncrease

Packing == CutsInv /\ InStep /\ ChunksInv

IndexInv ==
  /\ ParseTypes
  /\ Fresh \/ Packing
  /\ stage = "parse" => Fresh
  /\ stage = "chunk" => Packing

-----------------------------------------------------------------------------
(* Where sentences end, and where a piece of one does.                     *)
LEMMA SentenceEndsInText ==
  ASSUME NEW t \in Seq(Chars), NEW e \in SentenceEnds(t)
  PROVE  e \in 0 .. Len(t)
  <1>1. CASE e = Len(t)
    BY <1>1
  <1>2. CASE e # Len(t)
    <2>1. PICK r \in BlankRuns(t) : e \in BoundaryEnd(t, r)
      BY <1>2 DEF SentenceEnds
    <2>2. r[1] \in 1 .. Len(t) /\ r[2] \in 1 .. Len(t)
      BY <2>1 DEF BlankRuns
    <2>3. e \in r[1] .. r[2] \/ e = r[2]
      BY <2>1 DEF BoundaryEnd
    <2> QED
      BY <2>2, <2>3
  <1> QED
    BY <1>1, <1>2

LEMMA SentenceFromInText ==
  ASSUME NEW t \in Seq(Chars), NEW s \in Nat, NEW e \in SentenceFrom(t, s)
  PROVE  /\ e \in SentenceEnds(t) /\ e \in 1 .. Len(t) /\ s < e
         /\ \A x \in SentenceEnds(t) : x > s => e <= x
  BY SentenceEndsInText DEF SentenceFrom

LEMMA PieceFits ==
  ASSUME NEW t \in Seq(Chars), NEW s \in Nat, NEW e \in Nat, s < e,
         NEW f \in Piece(t, s, e)
  PROVE  /\ f \in Nat /\ s < f /\ f <= e /\ f - s <= ChunkChars
         /\ e - s <= ChunkChars => f = e
  BY ChunkingAssumption DEF Piece, RFind

LEMMA WindowEndTyped ==
  ASSUME NEW t \in Seq(Chars), NEW s \in Nat, NEW e \in WindowEnd(t, s)
  PROVE  e \in Nat
  BY ParsingAssumption DEF WindowEnd, RFind

LEMMA IndexingStarts == Init => IndexInv
  <1> SUFFICES ASSUME Init PROVE IndexInv
    OBVIOUS
  <1>1. file.text \in Seq(Chars) /\ file.at \in Nat /\ file.at <= Len(file.text)
    BY ParsingAssumption DEF Init, ParsingInit
  <1>2. ParseTypes
    BY <1>1 DEF Init, ParsingInit, ParseTypes
  <1>3. Fresh /\ stage = "parse"
    BY DEF Init, ParsingInit, ChunkingInit, Fresh
  <1> QED
    BY <1>2, <1>3 DEF IndexInv

LEMMA ParsingKeeps == IndexInv /\ ParseStep => IndexInv'
  <1> SUFFICES ASSUME IndexInv, ParseStep PROVE IndexInv'
    OBVIOUS
  <1>1. Fresh /\ Fresh'
    BY DEF IndexInv, ParseStep, RefuseFile, Paginate, Parsed, Fresh, chunking
  <1>2. ParseTypes'
    <2>1. CASE RefuseFile \/ Parsed
      BY <2>1 DEF IndexInv, ParseTypes, RefuseFile, Parsed
    <2>2. CASE Paginate
      <3>1. PICK e \in WindowEnd(file.text, start) :
              pages' = Append(pages, SubSeq(file.text, start + 1, e)) /\ start' = e
        BY <2>2 DEF Paginate
      <3>2. e \in Nat
        BY WindowEndTyped DEF IndexInv, ParseTypes
      <3>3. e <= Len(file.text)
        BY ParsingAssumption DEF WindowEnd, RFind, IndexInv, ParseTypes
      <3>4. SubSeq(file.text, start + 1, e) \in Seq(Chars)
        BY <3>2, <3>3 DEF IndexInv, ParseTypes
      <3> QED
        BY <2>2, <3>1, <3>2, <3>4 DEF IndexInv, ParseTypes, Paginate
    <2> QED
      BY <2>1, <2>2 DEF ParseStep
  <1>3. ASSUME stage' = "chunk" PROVE Packing'
    <2>1. Parsed
      BY <1>3 DEF ParseStep, RefuseFile, Paginate, Parsed, IndexInv, Fresh
    <2>2. pages' \in Seq(Seq(Chars)) /\ Len(pages') >= 1
      BY <1>2, <2>1 DEF Parsed, ParseTypes, IndexInv
    <2>3. pages'[1] \in Seq(Chars)
      BY <2>2
    <2>4. CutsInOrder' /\ AtomsFit' /\ AtomsTile'
      BY <1>1, <2>2, <2>3 DEF Fresh, CutsInOrder, AtomsFit, AtomsTile, CutEnd, AtomCount, Text
    <2>5. NoneTorn' /\ SentencesAreAtoms'
      BY <1>1, <2>2, <2>3, SentenceFromInText, SentenceEndsInText
         DEF Fresh, NoneTorn, SentencesAreAtoms, CutEnd, AtomCount, Text
    <2>6. InStep' /\ ChunksInv'
      BY <1>1 DEF Fresh, InStep, ChunksInv, StartBefore, ChunksFit, OffsetsIncrease
    <2> QED
      BY <2>4, <2>5, <2>6 DEF Packing, CutsInv
  <1> QED
    BY <1>1, <1>2, <1>3 DEF IndexInv

-----------------------------------------------------------------------------
(* A step of the chunker inside one page: its pages stay, so does Packing  *)
(* once each part of it is shown.                                          *)
LEMMA PackingIsEnough ==
  ASSUME IndexInv, ChunkStep, UNCHANGED <<parsing, embedding>>, Packing'
  PROVE  IndexInv'
  BY DEF IndexInv, ParseTypes, parsing, Fresh, ChunkStep, Atomize, StartPacking,
         Extend, Emit, CarryBack, Advance, NextPage, At

LEMMA AtomizeKeeps ==
  ASSUME IndexInv, Atomize, UNCHANGED parsing
  PROVE  Packing'
  <1>0. Packing /\ pages \in Seq(Seq(Chars)) /\ Text \in Seq(Chars) /\ page \in 1 .. Len(pages)
    BY DEF IndexInv, ParseTypes, Atomize, At, Packing, CutsInv, CutsInOrder, Text
  <1>1. CutEnd \in Nat /\ CutEnd < Len(Text) /\ step = "atoms" /\ Text' = Text
    BY <1>0 DEF Atomize, At, Packing, CutsInv, CutsInOrder, CutEnd, Text, parsing
  <1>2. PICK e0 \in SentenceFrom(Text, CutEnd) : \E f \in Piece(Text, CutEnd, e0) : cuts' = Append(cuts, f)
    BY DEF Atomize
  <1>3. PICK f \in Piece(Text, CutEnd, e0) : cuts' = Append(cuts, f)
    BY <1>2
  <1>4. /\ e0 \in SentenceEnds(Text) /\ e0 \in 1 .. Len(Text) /\ CutEnd < e0
        /\ \A x \in SentenceEnds(Text) : x > CutEnd => e0 <= x
    BY <1>0, <1>1, SentenceFromInText
  <1>5. /\ f \in Nat /\ CutEnd < f /\ f <= e0 /\ f - CutEnd <= ChunkChars
        /\ e0 - CutEnd <= ChunkChars => f = e0
    BY <1>1, <1>4, PieceFits, <1>0
  <1>6. /\ cuts' \in Seq(Nat) /\ Len(cuts') = Len(cuts) + 1 /\ CutEnd' = f
        /\ AtomCount' = AtomCount + 1 /\ AtomCount' = Len(cuts)
        /\ \A j \in 1 .. Len(cuts) : cuts'[j] = cuts[j]
        /\ cuts'[Len(cuts) + 1] = f /\ cuts[Len(cuts)] = CutEnd
    BY <1>0, <1>3, <1>5 DEF Packing, CutsInv, CutsInOrder, CutEnd, AtomCount
  <1>7. CutsInOrder'
    <2>1. ASSUME NEW j \in 1 .. Len(cuts) PROVE cuts[j] \in Nat /\ cuts[j] <= CutEnd
      <3>1. Len(cuts) \in 1 .. Len(cuts) /\ cuts[j] \in Nat
        BY <1>0 DEF Packing, CutsInv, CutsInOrder
      <3>2. CASE j < Len(cuts)
        BY <3>1, <3>2, <1>0, <1>1, <1>6 DEF Packing, CutsInv, CutsInOrder
      <3>3. CASE j = Len(cuts)
        BY <3>1, <3>3, <1>1, <1>6
      <3> QED
        BY <3>1, <3>2, <3>3
    <2>2. \A i, j \in 1 .. Len(cuts') : i < j => cuts'[i] < cuts'[j]
      <3> SUFFICES ASSUME NEW i \in 1 .. Len(cuts'), NEW j \in 1 .. Len(cuts'), i < j
                   PROVE  cuts'[i] < cuts'[j]
        OBVIOUS
      <3>1. CASE j <= Len(cuts)
        <4>1. i \in 1 .. Len(cuts) /\ j \in 1 .. Len(cuts)
          BY <3>1
        <4>2. cuts[i] < cuts[j]
          BY <4>1, <1>0 DEF Packing, CutsInv, CutsInOrder
        <4> QED
          BY <4>1, <4>2, <1>6
      <3>2. CASE j = Len(cuts) + 1
        <4>1. i \in 1 .. Len(cuts) /\ cuts'[i] = cuts[i] /\ cuts[i] \in Nat
          BY <3>2, <1>0, <1>6 DEF Packing, CutsInv, CutsInOrder
        <4> QED
          BY <3>2, <4>1, <1>1, <1>5, <1>6, <2>1
      <3> QED
        BY <3>1, <3>2, <1>6, <1>0 DEF Packing, CutsInv, CutsInOrder
    <2>3. Len(cuts) >= 1 /\ cuts[1] = 0 /\ base \in Nat
      BY <1>0 DEF Packing, CutsInv, CutsInOrder
    <2>4. pages' = pages /\ page' = page /\ base' = base
      BY DEF Atomize, parsing
    <2> QED
      BY <2>2, <2>3, <2>4, <1>0, <1>1, <1>4, <1>5, <1>6 DEF CutsInOrder
  <1>8. AtomsFit'
    <2> SUFFICES ASSUME NEW j \in 1 .. Len(cuts) PROVE cuts'[j + 1] - cuts'[j] <= ChunkChars
      BY <1>6 DEF AtomsFit
    <2>1. CASE j = Len(cuts)
      BY <2>1, <1>5, <1>6
    <2>2. CASE j # Len(cuts)
      <3>1. j \in 1 .. AtomCount /\ j + 1 \in 1 .. Len(cuts)
        BY <2>2, <1>0 DEF AtomCount, Packing, CutsInv, CutsInOrder
      <3>2. cuts[j + 1] - cuts[j] <= ChunkChars
        BY <3>1, <1>0 DEF Packing, CutsInv, AtomsFit
      <3> QED
        BY <3>1, <3>2, <1>6
    <2> QED
      BY <2>1, <2>2
  <1>9. AtomsTile'
    <2> SUFFICES ASSUME NEW k \in 1 .. f
                 PROVE  \E j \in 1 .. Len(cuts) : cuts'[j] < k /\ k <= cuts'[j + 1]
      BY <1>6 DEF AtomsTile
    <2>1. CASE k <= CutEnd
      <3>1. PICK j \in 1 .. AtomCount : cuts[j] < k /\ k <= cuts[j + 1]
        BY <2>1, <1>0, <1>1 DEF Packing, CutsInv, AtomsTile
      <3> QED
        BY <3>1, <1>0, <1>6 DEF AtomCount, Packing, CutsInv, CutsInOrder
    <2>2. CASE k > CutEnd
      BY <2>2, <1>0, <1>6 DEF Packing, CutsInv, CutsInOrder
    <2> QED
      BY <2>1, <2>2, <1>1
  <1>10. NoneTorn'
    <2> SUFFICES ASSUME NEW s \in SentenceEnds(Text) \cup {0}, NEW e \in SentenceFrom(Text, s),
                        e - s <= ChunkChars, NEW j \in 1 .. Len(cuts) + 1,
                        s < cuts'[j], cuts'[j] < e
                 PROVE  FALSE
      BY <1>1, <1>6 DEF NoneTorn
    <2>1. /\ s \in Nat /\ e \in Nat /\ s < e /\ e \in SentenceEnds(Text)
          /\ \A x \in SentenceEnds(Text) : x > s => e <= x
      BY <1>0, SentenceEndsInText, SentenceFromInText
    <2>2. j = Len(cuts) + 1
      <3>1. CASE j \in 1 .. Len(cuts)
        BY <3>1, <1>0, <1>6 DEF Packing, CutsInv, NoneTorn
      <3> QED
        BY <3>1, <1>0 DEF Packing, CutsInv, CutsInOrder
    <2>3. s < f /\ f < e
      BY <2>2, <1>6
    <2>4. e0 <= e
      BY <2>1, <2>3, <1>1, <1>4, <1>5
    <2>5. s <= CutEnd
      BY <2>1, <2>3, <1>1, <1>4, <1>5
    <2>6. e <= e0
      BY <2>1, <2>5, <1>1, <1>4
    <2> QED
      BY <2>1, <2>3, <2>4, <2>5, <2>6, <1>1, <1>4, <1>5, ChunkingAssumption
  <1>11. SentencesAreAtoms'
    <2> SUFFICES ASSUME NEW s \in SentenceEnds(Text) \cup {0}, NEW e \in SentenceFrom(Text, s),
                        e - s <= ChunkChars, e <= f
                 PROVE  \E j \in 1 .. Len(cuts) : cuts'[j] = s /\ cuts'[j + 1] = e
      BY <1>1, <1>6 DEF SentencesAreAtoms
    <2>1. /\ s \in Nat /\ e \in Nat /\ s < e /\ e \in SentenceEnds(Text)
          /\ \A x \in SentenceEnds(Text) : x > s => e <= x
      BY <1>0, SentenceEndsInText, SentenceFromInText
    <2>2. CASE e <= CutEnd
      <3>1. PICK j \in 1 .. AtomCount : cuts[j] = s /\ cuts[j + 1] = e
        BY <2>2, <1>0 DEF Packing, CutsInv, SentencesAreAtoms
      <3> QED
        BY <3>1, <1>0, <1>6 DEF AtomCount, Packing, CutsInv, CutsInOrder
    <2>3. CASE e > CutEnd
      <3>1. e = f
        BY <2>1, <2>3, <1>1, <1>4, <1>5
      <3>2. ~ (CutEnd < s)
        BY <2>1, <3>1, <1>1, <1>4, <1>5
      <3>3. ~ (s < CutEnd)
        <4> SUFFICES ASSUME s < CutEnd PROVE FALSE
          OBVIOUS
        <4>1. Len(cuts) \in 1 .. Len(cuts)
          BY <1>0 DEF Packing, CutsInv, CutsInOrder
        <4> QED
          BY <4>1, <2>3, <1>0, <1>6 DEF Packing, CutsInv, NoneTorn
      <3>4. cuts'[Len(cuts)] = s /\ cuts'[Len(cuts) + 1] = e
        BY <3>1, <3>2, <3>3, <2>1, <1>0, <1>1, <1>6 DEF Packing, CutsInv, CutsInOrder
      <3> QED
        BY <3>4, <1>0 DEF Packing, CutsInv, CutsInOrder
    <2> QED
      BY <2>2, <2>3, <2>1, <1>1
  <1>12. InStep' /\ ChunksInv'
    BY <1>0, <1>1 DEF Atomize, Packing, InStep, ChunksInv, ChunksFit, OffsetsIncrease, StartBefore
  <1> QED
    BY <1>7, <1>8, <1>9, <1>10, <1>11, <1>12 DEF Packing, CutsInv

(* The packing loop leaves the cuts of the page alone.                     *)
LEMMA CutsStay ==
  ASSUME CutsInv, UNCHANGED <<pages, page, base, cuts>>
  PROVE  CutsInv' /\ Text' = Text /\ AtomCount' = AtomCount /\ CutEnd' = CutEnd
  BY DEF CutsInv, CutsInOrder, AtomsFit, AtomsTile, NoneTorn, SentencesAreAtoms,
         Text, AtomCount, CutEnd

LEMMA CutsTyped ==
  ASSUME CutsInv
  PROVE  /\ base \in Nat /\ AtomCount \in Nat
         /\ \A j \in 1 .. AtomCount + 1 : cuts[j] \in Nat
         /\ \A i, j \in 1 .. AtomCount + 1 : i < j => cuts[i] < cuts[j]
         /\ cuts[AtomCount + 1] = CutEnd
         /\ cuts[1] = 0 /\ Len(cuts) = AtomCount + 1
  BY DEF CutsInv, CutsInOrder, AtomCount, CutEnd

LEMMA ChunksTyped ==
  ASSUME ChunksInv, NEW c \in 1 .. Len(chunks)
  PROVE  chunks[c].start \in Nat /\ chunks[c].end \in Nat
  <1> DEFINE Span == [page : Nat, start : Nat, end : Nat]
  <1>1. chunks \in Seq(Span)
    BY DEF ChunksInv
  <1>2. chunks[c] \in Span
    <2> HIDE DEF Span
    <2> QED
      BY <1>1
  <1> QED
    BY <1>2

LEMMA PackingStays ==
  ASSUME Packing, UNCHANGED <<pages, page, base, cuts>>, UNCHANGED <<first, last, carry, step, chunks>>
  PROVE  Packing'
  <1>1. CutsInv' /\ Text' = Text /\ AtomCount' = AtomCount /\ CutEnd' = CutEnd
    BY CutsStay DEF Packing
  <1>4. InStep'
    BY <1>1 DEF Packing, InStep, StartBefore, Kept, Holding
  <1>5. ChunksInv'
    BY DEF Packing, ChunksInv, ChunksFit, OffsetsIncrease
  <1> QED
    BY <1>1, <1>4, <1>5 DEF Packing

LEMMA StartPackingKeeps ==
  ASSUME IndexInv, StartPacking, UNCHANGED parsing
  PROVE  Packing'
  <1>0. Packing /\ step = "atoms" /\ CutEnd = Len(Text)
    BY DEF IndexInv, StartPacking, At
  <1>1. CutsInv' /\ Text' = Text /\ AtomCount' = AtomCount /\ CutEnd' = CutEnd
    BY <1>0, CutsStay DEF StartPacking, Packing, parsing
  <1>2. /\ base \in Nat /\ AtomCount \in Nat /\ cuts[1] = 0 /\ chunks' = chunks /\ cuts' = cuts
        /\ base' = base /\ pages' = pages /\ page' = page
    BY <1>0, CutsTyped DEF StartPacking, Packing, parsing
  <1>3. ChunksInv'
    BY <1>0, <1>2 DEF Packing, ChunksInv, ChunksFit, OffsetsIncrease
  <1>4. StartBefore(base)
    BY <1>0 DEF Packing, InStep
  <1>5. CASE AtomCount = 0
    <2>1. StartBefore(base + Len(Text) + Separator)'
      <3>1. Len(Text) \in Nat
        BY <1>0, <1>5, CutsTyped DEF Packing, CutEnd, AtomCount
      <3>2. \A c \in 1 .. Len(chunks) : chunks[c].start \in Nat
        BY <1>0, ChunksTyped DEF Packing
      <3> QED
        BY <3>1, <3>2, <1>1, <1>2, <1>4 DEF StartBefore, Separator
    <2> QED
      BY <2>1, <1>0, <1>1, <1>2, <1>3, <1>5 DEF StartPacking, Packing, InStep
  <1>6. CASE AtomCount # 0
    <2>1. cuts[2] - cuts[1] <= ChunkChars
      BY <1>0, <1>2, <1>6 DEF Packing, CutsInv, AtomsFit
    <2>2. first' = 1 /\ last' = 1 /\ step' = "extend"
      BY <1>6 DEF StartPacking
    <2>3. StartBefore(base + cuts[first])'
      BY <1>2, <1>4, <2>2 DEF StartBefore
    <2> QED
      BY <2>1, <2>2, <2>3, <1>0, <1>1, <1>2, <1>3, <1>6 DEF Packing, InStep
  <1> QED
    BY <1>5, <1>6

LEMMA ExtendKeeps ==
  ASSUME IndexInv, Extend, UNCHANGED parsing
  PROVE  Packing'
  <1>0. Packing /\ step = "extend"
    BY DEF IndexInv, Extend, At
  <1>1. CutsInv' /\ Text' = Text /\ AtomCount' = AtomCount /\ CutEnd' = CutEnd
    BY <1>0, CutsStay DEF Extend, Packing, parsing
  <1>2. /\ UNCHANGED <<pages, page, base, cuts, first, step, chunks>>
        /\ last' = last + 1 /\ last < AtomCount
    BY DEF Extend, parsing
  <1>3. ChunksInv'
    BY <1>0, <1>2 DEF Packing, ChunksInv, ChunksFit, OffsetsIncrease
  <1>4. cuts[last' + 1] - cuts[first] <= ChunkChars
    <2>1. last' + 1 = last + 2
      BY <1>0, <1>2, CutsTyped DEF Packing, InStep
    <2> QED
      BY <2>1 DEF Extend, Fits
  <1>5. \A j \in 1 .. first - 1 : Kept(j)'
    BY <1>0, <1>1, <1>2 DEF Packing, InStep, Kept, Holding
  <1>6. StartBefore(base + cuts[first])'
    BY <1>0, <1>2 DEF Packing, InStep, StartBefore
  <1> QED
    BY <1>0, <1>1, <1>2, <1>3, <1>4, <1>5, <1>6, CutsTyped DEF Packing, InStep

LEMMA EmitKeeps ==
  ASSUME IndexInv, Emit, UNCHANGED parsing
  PROVE  Packing'
  <1>0. Packing /\ step = "extend" /\ page \in 1 .. Len(pages) /\ Len(Text) \in Nat
    BY DEF IndexInv, ParseTypes, Emit, At, Packing, CutsInv, CutsInOrder, Text
  <1>1. CutsInv' /\ Text' = Text /\ AtomCount' = AtomCount /\ CutEnd' = CutEnd
    BY <1>0, CutsStay DEF Emit, Packing, parsing
  <1>2. /\ UNCHANGED <<pages, page, base, cuts, first, last>>
        /\ chunks' = Emitted /\ carry' = last
        /\ step' = IF last = AtomCount THEN "page" ELSE "carry"
    BY DEF Emit, parsing
  <1>3. /\ base \in Nat /\ AtomCount \in Nat
        /\ \A j \in 1 .. AtomCount + 1 : cuts[j] \in Nat
        /\ \A i, j \in 1 .. AtomCount + 1 : i < j => cuts[i] < cuts[j]
        /\ cuts[AtomCount + 1] = CutEnd
    BY <1>0, CutsTyped DEF Packing
  <1>4. /\ first \in 1 .. AtomCount /\ last \in first .. AtomCount
        /\ cuts[last + 1] - cuts[first] <= ChunkChars
        /\ \A j \in 1 .. first - 1 : Kept(j)
        /\ StartBefore(base + cuts[first])
        /\ CutEnd = Len(Text)
    BY <1>0 DEF Packing, InStep
  <1>5. cuts[first] \in Nat /\ cuts[last + 1] \in Nat /\ cuts[first] < cuts[last + 1]
    BY <1>3, <1>4
  <1> DEFINE new == [page |-> page, start |-> base + cuts[first], end |-> base + cuts[last + 1]]
  <1>6. new \in [page : Nat, start : Nat, end : Nat]
    BY <1>0, <1>3, <1>5
  <1>7. chunks \in Seq([page : Nat, start : Nat, end : Nat]) /\ ChunksFit /\ OffsetsIncrease
    BY <1>0 DEF Packing, ChunksInv
  <1>8. \/ HasInk(Text, cuts[first], cuts[last + 1]) /\ chunks' = Append(chunks, new)
        \/ ~ HasInk(Text, cuts[first], cuts[last + 1]) /\ chunks' = chunks
    BY <1>2 DEF Emitted
  <1>9. /\ chunks' \in Seq([page : Nat, start : Nat, end : Nat])
        /\ Len(chunks) \in Nat
        /\ Len(chunks') \in {Len(chunks), Len(chunks) + 1}
        /\ \A c \in 1 .. Len(chunks) : chunks'[c] = chunks[c] /\ c \in 1 .. Len(chunks')
        /\ Len(chunks') = Len(chunks) + 1 => chunks'[Len(chunks) + 1] = new
    <2>1. CASE chunks' = Append(chunks, new)
      <3> HIDE DEF new
      <3> QED
        BY <2>1, <1>6, <1>7
    <2>2. CASE chunks' = chunks
      BY <2>2, <1>7
    <2> QED
      BY <2>1, <2>2, <1>8
  <1>9a. ASSUME NEW c \in 1 .. Len(chunks')
         PROVE  \/ c \in 1 .. Len(chunks) /\ chunks'[c] = chunks[c]
                \/ c = Len(chunks) + 1 /\ chunks'[c].page = page
                   /\ chunks'[c].start = base + cuts[first]
                   /\ chunks'[c].end = base + cuts[last + 1]
    <2>1. CASE c \in 1 .. Len(chunks)
      BY <2>1, <1>9
    <2>2. CASE c = Len(chunks) + 1 /\ Len(chunks') = Len(chunks) + 1
      <3>1. chunks'[c] = new
        BY <2>2, <1>9
      <3> QED
        BY <2>2, <3>1
    <2>3. c \in 1 .. Len(chunks) \/ (c = Len(chunks) + 1 /\ Len(chunks') = Len(chunks) + 1)
      <3> HIDE DEF new
      <3> QED
        BY <1>9
    <2> QED
      BY <2>1, <2>2, <2>3
  <1>9b. ASSUME NEW c \in 1 .. Len(chunks) PROVE chunks[c].start \in Nat /\ chunks[c].end \in Nat
    BY <1>0, ChunksTyped DEF Packing
  <1>10. ChunksInv'
    <2>1. ChunksFit'
      <3> SUFFICES ASSUME NEW c \in 1 .. Len(chunks')
                   PROVE  chunks'[c].end - chunks'[c].start \in 1 .. ChunkChars
        BY DEF ChunksFit
      <3>1. CASE c \in 1 .. Len(chunks) /\ chunks'[c] = chunks[c]
        BY <3>1, <1>7 DEF ChunksFit
      <3>2. CASE chunks'[c].start = base + cuts[first] /\ chunks'[c].end = base + cuts[last + 1]
        <4> HIDE DEF new
        <4> QED
          BY <3>2, <1>3, <1>4, <1>5, ChunkingAssumption
      <3> QED
        BY <3>1, <3>2, <1>9a
    <2>2. OffsetsIncrease'
      <3> SUFFICES ASSUME NEW c \in 1 .. Len(chunks'), NEW d \in 1 .. Len(chunks'), c < d
                   PROVE  chunks'[c].start < chunks'[d].start
        BY DEF OffsetsIncrease
      <3> HIDE DEF new
      <3>1. CASE d \in 1 .. Len(chunks)
        <4>1. c \in 1 .. Len(chunks) /\ chunks'[c] = chunks[c] /\ chunks'[d] = chunks[d]
          BY <3>1, <1>9
        <4> QED
          BY <4>1, <3>1, <1>7 DEF OffsetsIncrease
      <3>2. CASE d = Len(chunks) + 1
        <4>1. c \in 1 .. Len(chunks) /\ chunks'[c] = chunks[c]
          BY <3>2, <1>9
        <4>2. chunks'[d].start = base + cuts[first]
          BY <3>2, <1>9, <1>9a
        <4> QED
          BY <4>1, <4>2, <1>4 DEF StartBefore
      <3> QED
        BY <3>1, <3>2, <1>9a
    <2> QED
      BY <2>1, <2>2, <1>9 DEF ChunksInv
  <1>11. ASSUME NEW j \in 1 .. first - 1 PROVE Kept(j)'
    <2>1. Kept(j)
      BY <1>4
    <2> QED
      BY <2>1, <1>1, <1>2, <1>9 DEF Kept, Holding
  <1>12. ASSUME NEW j \in first .. last PROVE Kept(j)'
    <2> SUFFICES ASSUME HasInk(Text, cuts[j], cuts[j + 1])
                 PROVE  \E c \in 1 .. Len(chunks') :
                          /\ chunks'[c].page = page
                          /\ chunks'[c].start <= base + cuts[j] /\ base + cuts[j + 1] <= chunks'[c].end
      BY <1>1, <1>2 DEF Kept, Holding
    <2>1. /\ cuts[j] \in Nat /\ cuts[j + 1] \in Nat
          /\ cuts[first] <= cuts[j] /\ cuts[j + 1] <= cuts[last + 1]
      <3>1. j = first \/ cuts[first] < cuts[j]
        BY <1>3, <1>4
      <3>2. j = last \/ cuts[j + 1] < cuts[last + 1]
        BY <1>3, <1>4
      <3>3. cuts[j] \in Nat /\ cuts[j + 1] \in Nat
        BY <1>3, <1>4
      <3> QED
        BY <3>1, <3>2, <3>3, <1>5
    <2>2. HasInk(Text, cuts[first], cuts[last + 1])
      BY <2>1, <1>5 DEF HasInk
    <2>3. chunks' = Append(chunks, new)
      BY <2>2, <1>8
    <2>4. Len(chunks) + 1 \in 1 .. Len(chunks') /\ chunks'[Len(chunks) + 1] = new
      <3> HIDE DEF new
      <3> QED
        BY <2>3, <1>6, <1>7
    <2>5. base + cuts[first] <= base + cuts[j] /\ base + cuts[j + 1] <= base + cuts[last + 1]
      BY <2>1, <1>3, <1>5
    <2> QED
      BY <2>4, <2>5
  <1>13. \A j \in 1 .. last : Kept(j)'
    BY <1>11, <1>12, <1>4, <1>3
  <1>14. \A c \in 1 .. Len(chunks') : chunks'[c].start < base + cuts[first] + 1
    <2> SUFFICES ASSUME NEW c \in 1 .. Len(chunks') PROVE chunks'[c].start < base + cuts[first] + 1
      OBVIOUS
    <2>1. CASE c \in 1 .. Len(chunks) /\ chunks'[c] = chunks[c]
      <3>1. chunks[c].start < base + cuts[first] /\ chunks[c].start \in Nat
        BY <2>1, <1>0, <1>4, ChunksTyped DEF Packing, StartBefore
      <3> QED
        BY <3>1, <2>1, <1>3, <1>5
    <2>2. CASE chunks'[c].start = base + cuts[first]
      BY <2>2, <1>3, <1>5
    <2> QED
      BY <2>1, <2>2, <1>9a
  <1>15. CASE last = AtomCount
    <2>1. cuts[first] < Len(Text)
      BY <1>3, <1>4, <1>5, <1>15
    <2>2. StartBefore(base + Len(Text) + Separator)'
      <3> SUFFICES ASSUME NEW c \in 1 .. Len(chunks') PROVE chunks'[c].start < base + Len(Text) + 2
        BY <1>1, <1>2 DEF StartBefore, Separator
      <3>1. chunks'[c].start \in Nat
        <4> HIDE DEF new
        <4> QED
          BY <1>9a, <1>9b, <1>3, <1>5
      <3> QED
        BY <3>1, <2>1, <1>0, <1>3, <1>5, <1>14
    <2> QED
      BY <2>2, <1>0, <1>1, <1>2, <1>4, <1>10, <1>13, <1>15 DEF Packing, InStep
  <1>16. CASE last # AtomCount
    <2>1. StartBefore(base + cuts[first] + 1)'
      BY <1>2, <1>14 DEF StartBefore
    <2> QED
      BY <2>1, <1>1, <1>2, <1>3, <1>4, <1>10, <1>13, <1>16 DEF Packing, InStep
  <1> QED
    BY <1>15, <1>16

LEMMA CarryBackKeeps ==
  ASSUME IndexInv, CarryBack, UNCHANGED parsing
  PROVE  Packing'
  <1>0. Packing /\ step = "carry"
    BY DEF IndexInv, CarryBack, At
  <1>1. CutsInv' /\ Text' = Text /\ AtomCount' = AtomCount /\ CutEnd' = CutEnd
    BY <1>0, CutsStay DEF CarryBack, Packing, parsing
  <1>2. /\ UNCHANGED <<pages, page, base, cuts, first, last, step, chunks>>
        /\ carry' = carry - 1 /\ carry > first
    BY DEF CarryBack, MayCarry, parsing
  <1>3. ChunksInv'
    BY <1>0, <1>2 DEF Packing, ChunksInv, ChunksFit, OffsetsIncrease
  <1>4. \A j \in 1 .. last : Kept(j)'
    BY <1>0, <1>1, <1>2 DEF Packing, InStep, Kept, Holding
  <1>5. StartBefore(base + cuts[first] + 1)'
    BY <1>0, <1>2 DEF Packing, InStep, StartBefore
  <1> QED
    BY <1>0, <1>1, <1>2, <1>3, <1>4, <1>5, CutsTyped DEF Packing, InStep

LEMMA AdvanceKeeps ==
  ASSUME IndexInv, Advance, UNCHANGED parsing
  PROVE  Packing'
  <1>0. Packing /\ step = "carry"
    BY DEF IndexInv, Advance, At
  <1>1. CutsInv' /\ Text' = Text /\ AtomCount' = AtomCount /\ CutEnd' = CutEnd
    BY <1>0, CutsStay DEF Advance, Packing, parsing
  <1>2. /\ UNCHANGED <<pages, page, base, cuts, chunks>>
        /\ first' = NextFirst /\ last' = NextFirst /\ step' = "extend"
    BY DEF Advance, parsing
  <1>3. ChunksInv'
    BY <1>0, <1>2 DEF Packing, ChunksInv, ChunksFit, OffsetsIncrease
  <1>4. /\ first \in 1 .. AtomCount /\ last \in first .. AtomCount - 1 /\ carry \in first .. last
        /\ CutEnd = Len(Text) /\ AtomCount \in Nat
    BY <1>0, CutsTyped DEF Packing, InStep
  <1>5. first' \in first + 1 .. last + 1 /\ first' \in 1 .. AtomCount
    BY <1>2, <1>4 DEF NextFirst
  <1>6. \A j \in 1 .. first' - 1 : Kept(j)'
    BY <1>0, <1>1, <1>2, <1>4, <1>5 DEF Packing, InStep, Kept, Holding
  <1>7. StartBefore(base + cuts[first])'
    <2>1. cuts[first] < cuts[first'] /\ cuts[first] \in Nat /\ cuts[first'] \in Nat /\ base \in Nat
      BY <1>0, <1>4, <1>5, CutsTyped DEF Packing
    <2>2. ASSUME NEW c \in 1 .. Len(chunks) PROVE chunks[c].start < base + cuts[first']
      <3>1. chunks[c].start \in Nat /\ chunks[c].start < base + cuts[first] + 1
        BY <1>0, ChunksTyped DEF Packing, InStep, StartBefore
      <3> QED
        BY <2>1, <3>1
    <2> QED
      BY <2>2, <1>2 DEF StartBefore
  <1>8. cuts[first' + 1] - cuts[first'] <= ChunkChars
    BY <1>0, <1>5 DEF Packing, CutsInv, AtomsFit
  <1> QED
    BY <1>1, <1>2, <1>3, <1>4, <1>5, <1>6, <1>7, <1>8 DEF Packing, InStep

LEMMA NextPageKeeps ==
  ASSUME IndexInv, NextPage, UNCHANGED parsing
  PROVE  Packing'
  <1>0. Packing /\ step = "page" /\ pages \in Seq(Seq(Chars)) /\ page \in 1 .. Len(pages) /\ base \in Nat
    BY DEF IndexInv, ParseTypes, NextPage, At, Packing, CutsInv, CutsInOrder
  <1>1. /\ pages' = pages /\ chunks' = chunks /\ page' = page + 1 /\ page < Len(pages)
        /\ base' = base + Len(Text) + Separator /\ cuts' = <<0>> /\ step' = "atoms"
    BY DEF NextPage, NextBase, parsing
  <1>2. page' \in 1 .. Len(pages) /\ Text' \in Seq(Chars) /\ base' \in Nat
    BY <1>0, <1>1 DEF Text, Separator
  <1>3. CutsInOrder' /\ AtomsFit' /\ AtomsTile'
    BY <1>1, <1>2 DEF CutsInOrder, AtomsFit, AtomsTile, CutEnd, AtomCount
  <1>4. NoneTorn' /\ SentencesAreAtoms'
    BY <1>1, <1>2, SentenceFromInText, SentenceEndsInText
       DEF NoneTorn, SentencesAreAtoms, CutEnd, AtomCount
  <1>5. ChunksInv'
    BY <1>0, <1>1 DEF Packing, ChunksInv, ChunksFit, OffsetsIncrease
  <1>6. InStep'
    BY <1>0, <1>1 DEF Packing, InStep, StartBefore
  <1> QED
    BY <1>3, <1>4, <1>5, <1>6 DEF Packing, CutsInv

LEMMA IndexingKeeps == IndexInv /\ [Next]_vars => IndexInv'
  <1> SUFFICES ASSUME IndexInv, [Next]_vars PROVE IndexInv'
    OBVIOUS
  <1>1. CASE ParseStep
    BY <1>1, ParsingKeeps
  <1>2. CASE CutStep
    <2>1. ChunkStep /\ UNCHANGED parsing /\ UNCHANGED <<parsing, embedding>>
      BY <1>2 DEF CutStep
    <2>2. Packing'
      BY <2>1, AtomizeKeeps, StartPackingKeeps, ExtendKeeps, EmitKeeps, CarryBackKeeps,
         AdvanceKeeps, NextPageKeeps DEF ChunkStep
    <2> QED
      BY <2>1, <2>2, PackingIsEnough
  <1>3. CASE EmbedStep
    <2>1. UNCHANGED <<file, start, pages, chunking>> /\ stage' \notin {"parse", "chunk"}
      BY <1>3 DEF EmbedStep, Chunked, Gather, CloseLast, BatchEmbedded, AttemptFailed,
         BatchRejected, Upsert, Sending, parsing, At, IndexInv
    <2>2. UNCHANGED <<pages, page, base, cuts>> /\ UNCHANGED <<first, last, carry, step, chunks>>
      BY <2>1 DEF chunking
    <2>3. ParseTypes'
      BY <2>1 DEF IndexInv, ParseTypes
    <2>4. Fresh => Fresh'
      BY <2>2 DEF Fresh
    <2>5. Packing => Packing'
      BY <2>2, PackingStays
    <2> QED
      BY <2>1, <2>3, <2>4, <2>5 DEF IndexInv
  <1>4. CASE UNCHANGED vars
    <2>1. UNCHANGED <<file, stage, start, pages>> /\ UNCHANGED <<page, base, cuts, first, last, carry, step, chunks>>
      BY <1>4 DEF vars, parsing, chunking
    <2>2. Packing => Packing'
      BY <2>1, PackingStays
    <2> QED
      BY <2>1, <2>2 DEF IndexInv, ParseTypes, Fresh
  <1> QED
    BY <1>1, <1>2, <1>3, <1>4 DEF Next, Done

-----------------------------------------------------------------------------
LEMMA PageDone ==
  ASSUME IndexInv, step = "page"
  PROVE  /\ Packing /\ Text \in Seq(Chars) /\ CutEnd = Len(Text)
         /\ \A j \in 1 .. AtomCount : Kept(j)
  BY DEF IndexInv, ParseTypes, Fresh, Packing, InStep, CutsInv, CutsInOrder, Text

LEMMA ShiftedInside ==
  ASSUME NEW b \in Nat, NEW lo \in Nat, NEW k \in Nat, NEW hi \in Nat,
         NEW from \in Nat, NEW to \in Nat,
         lo <= k - 1, k <= hi, from <= b + lo, b + hi <= to
  PROVE  from <= b + (k - 1) /\ b + k <= to
  OBVIOUS

LEMMA PagesAreKept == IndexInv => InkIsIndexed /\ SentencesStayWhole
  <1> SUFFICES ASSUME IndexInv, step = "page" PROVE InkIsIndexed /\ SentencesStayWhole
    BY DEF InkIsIndexed, SentencesStayWhole
  <1>0. Packing /\ Text \in Seq(Chars) /\ CutEnd = Len(Text) /\ \A j \in 1 .. AtomCount : Kept(j)
    BY PageDone
  <1>1. /\ base \in Nat /\ AtomCount \in Nat /\ \A j \in 1 .. AtomCount + 1 : cuts[j] \in Nat
    BY <1>0, CutsTyped DEF Packing
  <1>2. ASSUME NEW k \in 1 .. Len(Text), Text[k] \notin Blank
        PROVE  Holding(k - 1, k) # {}
    <2>1. PICK j \in 1 .. AtomCount : cuts[j] < k /\ k <= cuts[j + 1]
      BY <1>0 DEF Packing, CutsInv, AtomsTile
    <2>2. cuts[j] \in Nat /\ cuts[j + 1] \in Nat
      BY <1>1
    <2>3. HasInk(Text, cuts[j], cuts[j + 1])
      BY <1>2, <2>1, <2>2 DEF HasInk
    <2>4. PICK c \in 1 .. Len(chunks) :
            chunks[c].page = page /\ chunks[c].start <= base + cuts[j] /\ base + cuts[j + 1] <= chunks[c].end
      BY <2>3, <1>0 DEF Kept, Holding
    <2>5. chunks[c].start \in Nat /\ chunks[c].end \in Nat
      BY <1>0, ChunksTyped DEF Packing
    <2>6. chunks[c].start <= base + (k - 1) /\ base + k <= chunks[c].end
      <3>1. k \in Nat /\ cuts[j] <= k - 1
        BY <2>1, <2>2, <1>0
      <3> QED
        BY <3>1, <2>1, <2>2, <2>4, <2>5, <1>1, ShiftedInside
    <2> QED
      BY <2>4, <2>6 DEF Holding
  <1>3. ASSUME NEW s \in SentenceEnds(Text) \cup {0}, NEW e \in SentenceFrom(Text, s),
               e - s <= ChunkChars, HasInk(Text, s, e)
        PROVE  Holding(s, e) # {}
    <2>1. e <= CutEnd
      BY <1>0, SentenceFromInText, SentenceEndsInText
    <2>2. PICK j \in 1 .. AtomCount : cuts[j] = s /\ cuts[j + 1] = e
      BY <1>0, <1>3, <2>1 DEF Packing, CutsInv, SentencesAreAtoms
    <2> QED
      BY <2>2, <1>0, <1>3 DEF Kept
  <1> QED
    BY <1>2, <1>3 DEF InkIsIndexed, SentencesStayWhole

LEMMA ChunksAreKept == IndexInv => ChunksFit /\ OffsetsIncrease
  BY DEF IndexInv, Fresh, Packing, ChunksInv, ChunksFit, OffsetsIncrease

(* Whatever the text, the pages and the sizes, chunk_document keeps every  *)
(* character that is not blank.                                            *)
THEOREM ChunkingLosesNothing == Spec => []InkIsIndexed
  <1>1. IndexInv => InkIsIndexed
    BY PagesAreKept
  <1> QED
    BY <1>1, IndexingStarts, IndexingKeeps, PTL DEF Spec

(* Whatever the text, the pages and the sizes, chunk_document never tears  *)
(* a sentence that fits in a chunk.                                        *)
THEOREM SentencesAreKept == Spec => []SentencesStayWhole
  <1>1. IndexInv => SentencesStayWhole
    BY PagesAreKept
  <1> QED
    BY <1>1, IndexingStarts, IndexingKeeps, PTL DEF Spec

(* Whatever the text, the pages and the sizes, no chunk is empty or longer *)
(* than chunk_chars.                                                       *)
THEOREM ChunksAreSized == Spec => []ChunksFit
  <1>1. IndexInv => ChunksFit
    BY ChunksAreKept
  <1> QED
    BY <1>1, IndexingStarts, IndexingKeeps, PTL DEF Spec

(* Whatever the text, the pages and the sizes, each chunk starts after the *)
(* one before it.                                                          *)
THEOREM ChunksAreInOrder == Spec => []OffsetsIncrease
  <1>1. IndexInv => OffsetsIncrease
    BY ChunksAreKept
  <1> QED
    BY <1>1, IndexingStarts, IndexingKeeps, PTL DEF Spec

-----------------------------------------------------------------------------
(* synthetic_paginate splits no word it could have kept, whatever the text *)
(* and the window.  The lemmas on least and greatest numbers take the      *)
(* place of an induction.                                                  *)
NatOrder == OpToRel(<, Nat)

LEMMA NatIsWellFounded == IsWellFoundedOn(NatOrder, Nat)
  BY NatLessThanWellFounded DEF NatOrder

LEMMA NatOrderIsLess == \A m, n \in Nat : <<m, n>> \in NatOrder <=> m < n
  BY DEF NatOrder, OpToRel

LEMMA Least ==
  ASSUME NEW S \in SUBSET Nat, S # {}
  PROVE  \E m \in S : \A x \in S : m <= x
  <1>1. PICK m \in S : \A x \in S : ~ (<<x, m>> \in NatOrder)
    BY NatIsWellFounded, WFMin
  <1>2. ASSUME NEW x \in S PROVE m <= x
    <2>1. ~ (x < m) /\ x \in Nat /\ m \in Nat
      BY <1>1, NatOrderIsLess
    <2> QED
      BY <2>1
  <1> QED
    BY <1>2

LEMMA Greatest ==
  ASSUME NEW b \in Nat, NEW S \in SUBSET (0 .. b), S # {}
  PROVE  \E m \in S : \A x \in S : x <= m
  <1> DEFINE Below == {b - x : x \in S}
  <1>1. Below \in SUBSET Nat /\ Below # {}
    <2>1. ASSUME NEW x \in S PROVE b - x \in Nat
      <3>1. x \in 0 .. b
        OBVIOUS
      <3> QED
        BY <3>1
    <2> QED
      BY <2>1
  <1>2. PICK d \in Below : \A y \in Below : d <= y
    <2> HIDE DEF Below
    <2> QED
      BY <1>1, Least
  <1>3. PICK m \in S : d = b - m
    BY <1>2
  <1>4. ASSUME NEW x \in S PROVE x <= m
    <2>1. b - x \in Below
      OBVIOUS
    <2>2. b - m <= b - x
      BY <1>2, <1>3, <2>1
    <2> QED
      BY <2>2
  <1> QED
    BY <1>4

(* rfind that finds nothing after the first character has nothing there to *)
(* find.                                                                   *)
LEMMA NothingFound ==
  ASSUME NEW c, NEW text, NEW s \in Nat, NEW to \in Nat,
         RFind(c, text, s, to) \ {s} = {}
  PROVE  \A k \in s + 1 .. to - 1 : text[k + 1] # c
  <1> DEFINE There == {k \in s + 1 .. to - 1 : text[k + 1] = c}
  <1> SUFFICES ASSUME There # {} PROVE FALSE
    OBVIOUS
  <1>1. There \in SUBSET (0 .. to)
    OBVIOUS
  <1>2. PICK m \in There : \A x \in There : x <= m
    <2> HIDE DEF There
    <2> QED
      BY <1>1, Greatest
  <1>3. m \in s .. to - 1 /\ text[m + 1] = c /\ m # s
    OBVIOUS
  <1>4. \A j \in m + 1 .. to - 1 : text[j + 1] # c
    BY <1>2, <1>3
  <1>5. m \in RFind(c, text, s, to)
    BY <1>3, <1>4 DEF RFind
  <1> QED
    BY <1>3, <1>5

-----------------------------------------------------------------------------
PaginationInv ==
  /\ file.text \in Seq(Chars)
  /\ start \in Nat
  /\ start <= Len(file.text)
  /\ WordsSurvivePagination

LEMMA PaginationStarts == Init => PaginationInv
  <1> SUFFICES ASSUME Init PROVE PaginationInv
    OBVIOUS
  <1>1. file.text \in Seq(Chars)
    BY ParsingAssumption DEF Init, ParsingInit
  <1>2. start = 0 \/ start = Len(file.text)
    BY DEF Init, ParsingInit
  <1> QED
    BY <1>1, <1>2 DEF PaginationInv, WordsSurvivePagination

(* A window ends at a separator, at the end of the text, or where it is    *)
(* full, with none in it but perhaps its first character.                  *)
LEMMA WindowEndIs ==
  ASSUME NEW text \in Seq(Chars), NEW s \in Nat, s <= Len(text), NEW e \in WindowEnd(text, s)
  PROVE  /\ e \in Nat /\ e <= Len(text)
         /\ e < Len(text) /\ text[e + 1] \notin Separators =>
              /\ e = s + PageChars
              /\ \A k \in s + 2 .. e : text[k] \notin Separators
  <1> DEFINE limit == s + PageChars
             found(c) == RFind(c, text, s, limit) \ {s}
  <1>1. limit \in Nat
    BY ParsingAssumption
  <1>2. CASE limit >= Len(text)
    BY <1>2 DEF WindowEnd
  <1>3. CASE limit < Len(text) /\ (found("line") # {} \/ found("space") # {})
    <2>1. e \in found("line") \/ e \in found("space")
      BY <1>3, <1>1 DEF WindowEnd
    <2>2. e \in s .. limit - 1 /\ text[e + 1] \in {"line", "space"}
      BY <2>1 DEF RFind
    <2> QED
      BY <1>1, <1>3, <2>2 DEF Separators
  <1>4. CASE limit < Len(text) /\ found("line") = {} /\ found("space") = {}
    <2>1. e = limit
      BY <1>4, <1>1 DEF WindowEnd
    <2>2. \A k \in s + 1 .. limit - 1 : text[k + 1] # "line" /\ text[k + 1] # "space"
      BY <1>4, <1>1, NothingFound
    <2>3. ASSUME NEW k \in s + 2 .. limit PROVE text[k] \notin Separators
      <3>1. k - 1 \in s + 1 .. limit - 1 /\ (k - 1) + 1 = k
        BY <1>1
      <3> QED
        BY <2>2, <3>1 DEF Separators
    <2> QED
      BY <1>1, <1>4, <2>1, <2>3, ParsingAssumption
  <1> QED
    BY <1>1, <1>2, <1>3, <1>4

(* So a stretch that goes on over the end of a window fills it.            *)
LEMMA WindowKeepsStretches ==
  ASSUME NEW text \in Seq(Chars), NEW n \in Nat, n <= Len(text), NEW end \in WindowEnd(text, n),
         NEW s \in 0 .. end - 1, NEW e \in end + 1 .. Len(text), IsStretch(text, s, e)
  PROVE  e - s >= PageChars
  <1>1. end \in Nat /\ end < Len(text) /\ end + 1 \in s + 1 .. e
    BY WindowEndIs
  <1>2. text[end + 1] \notin Separators
    BY <1>1 DEF IsStretch
  <1>3. end = n + PageChars /\ \A k \in n + 2 .. end : text[k] \notin Separators
    BY <1>1, <1>2, WindowEndIs
  <1>4. s = 0 \/ text[s] \in Separators
    BY DEF IsStretch
  <1>5. s <= n + 1
    BY <1>1, <1>3, <1>4
  <1> QED
    BY <1>1, <1>3, <1>5, ParsingAssumption

LEMMA PaginationKeeps == PaginationInv /\ [Next]_vars => PaginationInv'
  <1> SUFFICES ASSUME PaginationInv, [Next]_vars PROVE PaginationInv'
    OBVIOUS
  <1>1. CASE Paginate
    <2>1. PICK e \in WindowEnd(file.text, start) : start' = e
      BY <1>1 DEF Paginate
    <2>2. file' = file
      BY <1>1 DEF Paginate
    <2>3. e \in Nat /\ e <= Len(file.text)
      BY <2>1, WindowEndIs DEF PaginationInv
    <2>4. WordsSurvivePagination'
      BY <2>1, <2>2, WindowKeepsStretches DEF WordsSurvivePagination, PaginationInv
    <2> QED
      BY <2>1, <2>2, <2>3, <2>4 DEF PaginationInv
  <1>2. CASE UNCHANGED <<file, start>>
    BY <1>2 DEF PaginationInv, WordsSurvivePagination, RealPages
  <1> QED
    BY <1>1, <1>2 DEF Next, vars, parsing, ParseStep, RefuseFile, Parsed, CutStep, EmbedStep,
       Chunked, Gather, CloseLast, BatchEmbedded, AttemptFailed, BatchRejected, Upsert, Done

(* parsing/base.py: whatever the text, with whatever blanks, and the size  *)
(* of a window, what stands between two spaces or newlines is on one page  *)
(* if it is shorter than a window.                                         *)
THEOREM PaginationKeepsWords == Spec => []WordsSurvivePagination
  <1>1. PaginationInv => WordsSurvivePagination
    BY DEF PaginationInv
  <1> QED
    BY <1>1, PaginationStarts, PaginationKeeps, PTL DEF Spec

-----------------------------------------------------------------------------
(* Running totals exist, which is what makes the recursive functions of    *)
(* Indexing what their definitions say.                                    *)
LEMMA RunningTotals ==
  ASSUME NEW n \in Nat, NEW inc \in [1 .. n -> Nat]
  PROVE  \E f \in [0 .. n -> Nat] :
           f[0] = 0 /\ \A k \in 1 .. n : f[k] = f[k - 1] + inc[k]
  <1> DEFINE Totals(m, f) == f[0] = 0 /\ \A k \in 1 .. m : f[k] = f[k - 1] + inc[k]
             Missing == {m \in 0 .. n : ~ \E f \in [0 .. m -> Nat] : Totals(m, f)}
  <1>0. n \notin Missing => \E f \in [0 .. n -> Nat] : Totals(n, f)
    <2>1. n \in 0 .. n
      OBVIOUS
    <2> QED
      BY <2>1
  <1> SUFFICES ASSUME Missing # {} PROVE FALSE
    BY <1>0
  <1>1. PICK m \in Missing : \A x \in Missing : m <= x
    <2>1. Missing \in SUBSET Nat
      OBVIOUS
    <2> HIDE DEF Missing
    <2> QED
      BY <2>1, Least
  <1>2. m # 0
    <2> SUFFICES ASSUME m = 0 PROVE FALSE
      OBVIOUS
    <2>1. [k \in 0 .. 0 |-> 0] \in [0 .. 0 -> Nat] /\ Totals(0, [k \in 0 .. 0 |-> 0])
      OBVIOUS
    <2> QED
      BY <2>1
  <1>3. m \in 1 .. n /\ m - 1 \in 0 .. n /\ m - 1 \notin Missing
    <2>1. m \in 0 .. n
      OBVIOUS
    <2>2. m - 1 \in 0 .. n /\ ~ (m <= m - 1)
      BY <2>1, <1>2
    <2>3. m - 1 \notin Missing
      <3> HIDE DEF Missing
      <3> QED
        BY <2>2, <1>1
    <2>4. m \in 1 .. n
      BY <2>1, <1>2
    <2> QED
      BY <2>2, <2>3, <2>4
  <1>4. PICK f \in [0 .. m - 1 -> Nat] : Totals(m - 1, f)
    BY <1>3
  <1> DEFINE g == [k \in 0 .. m |-> IF k = m THEN f[m - 1] + inc[m] ELSE f[k]]
  <1>5. g \in [0 .. m -> Nat]
    <2>1. f[m - 1] \in Nat /\ inc[m] \in Nat
      BY <1>3
    <2> QED
      BY <2>1, <1>3
  <1>6. Totals(m, g)
    <2>1. g[0] = 0
      BY <1>3, <1>4
    <2>2. ASSUME NEW k \in 1 .. m PROVE g[k] = g[k - 1] + inc[k]
      <3>1. CASE k = m
        BY <3>1, <1>3
      <3>2. CASE k # m
        <4>1. k \in 1 .. m - 1 /\ k - 1 \in 0 .. m - 1 /\ k - 1 # m
          BY <3>2, <1>3
        <4>2. f[k] = f[k - 1] + inc[k]
          BY <4>1, <1>4
        <4> QED
          BY <4>1, <4>2, <3>2, <1>3
      <3> QED
        BY <3>1, <3>2
    <2> QED
      BY <2>1, <2>2
  <1> QED
    BY <1>1, <1>5, <1>6

LEMMA PageEndUnfolds ==
  ASSUME pages \in Seq(Seq(Chars))
  PROVE  PageEnd = [n \in 0 .. Len(pages) |->
                      IF n = 0 THEN 0 ELSE PageEnd[n - 1] + Len(pages[n]) + Separator]
  <1> DEFINE inc == [k \in 1 .. Len(pages) |-> Len(pages[k]) + Separator]
  <1>1. Len(pages) \in Nat /\ inc \in [1 .. Len(pages) -> Nat]
    BY DEF Separator
  <1>2. PICK f \in [0 .. Len(pages) -> Nat] :
          f[0] = 0 /\ \A k \in 1 .. Len(pages) : f[k] = f[k - 1] + inc[k]
    <2> HIDE DEF inc
    <2> QED
      BY <1>1, RunningTotals
  <1>3. f = [n \in 0 .. Len(pages) |-> IF n = 0 THEN 0 ELSE f[n - 1] + Len(pages[n]) + Separator]
    <2>1. ASSUME NEW n \in 0 .. Len(pages)
          PROVE  f[n] = IF n = 0 THEN 0 ELSE f[n - 1] + Len(pages[n]) + Separator
      <3>1. CASE n = 0
        BY <3>1, <1>2
      <3>2. CASE n # 0
        <4>1. n \in 1 .. Len(pages) /\ n - 1 \in 0 .. Len(pages)
          BY <3>2, <1>1
        <4>2. f[n - 1] \in Nat
          BY <4>1, <1>2
        <4>3. Len(pages[n]) \in Nat
          <5>1. n \in 1 .. Len(pages) => pages[n] \in Seq(Chars)
            OBVIOUS
          <5> QED
            BY <4>1, <5>1
        <4>4. f[n] = f[n - 1] + inc[n] /\ inc[n] = Len(pages[n]) + Separator
          BY <4>1, <1>2
        <4> HIDE DEF inc
        <4>5. f[n] = f[n - 1] + (Len(pages[n]) + Separator)
          BY <4>4
        <4> QED
          BY <4>2, <4>3, <4>5, <3>2 DEF Separator
      <3> QED
        BY <3>1, <3>2
    <2> QED
      BY <2>1, <1>2
  <1> QED
    BY <1>3 DEF PageEnd

(* Pages lie one after the other, a separator apart.                       *)
LEMMA PageEndStarts == pages \in Seq(Seq(Chars)) => PageEnd[0] = 0
  <1> SUFFICES ASSUME pages \in Seq(Seq(Chars)) PROVE PageEnd[0] = 0
    OBVIOUS
  <1>1. 0 \in 0 .. Len(pages)
    OBVIOUS
  <1> QED
    BY <1>1, PageEndUnfolds

LEMMA PageEndGoesOn ==
  ASSUME pages \in Seq(Seq(Chars)), NEW p \in 1 .. Len(pages)
  PROVE  /\ PageEnd[p] = PageEnd[p - 1] + Len(pages[p]) + Separator
         /\ Len(pages[p]) \in Nat
  <1>1. p \in 0 .. Len(pages) /\ p # 0
    OBVIOUS
  <1> QED
    BY <1>1, PageEndUnfolds

LEMMA PageEndTyped ==
  ASSUME pages \in Seq(Seq(Chars)), NEW p \in 0 .. Len(pages)
  PROVE  PageEnd[p] \in Nat
  <1> DEFINE Wrong == {k \in 0 .. Len(pages) : PageEnd[k] \notin Nat}
  <1> SUFFICES ASSUME Wrong # {} PROVE FALSE
    OBVIOUS
  <1>1. PICK m \in Wrong : \A x \in Wrong : m <= x
    <2>1. Wrong \in SUBSET Nat
      OBVIOUS
    <2> HIDE DEF Wrong
    <2> QED
      BY <2>1, Least
  <1>2. m \in 0 .. Len(pages) /\ PageEnd[m] \notin Nat
    OBVIOUS
  <1>3. m # 0
    BY <1>2, PageEndStarts
  <1>4. m \in 1 .. Len(pages) /\ m - 1 \in 0 .. Len(pages) /\ ~ (m <= m - 1)
    BY <1>2, <1>3
  <1>5. m - 1 \notin Wrong
    <2> HIDE DEF Wrong
    <2> QED
      BY <1>1, <1>4
  <1>6. PageEnd[m - 1] \in Nat
    BY <1>4, <1>5
  <1>7. PageEnd[m] = PageEnd[m - 1] + Len(pages[m]) + Separator /\ Len(pages[m]) \in Nat
    BY <1>4, PageEndGoesOn
  <1>8. PageEnd[m] \in Nat
    BY <1>6, <1>7 DEF Separator
  <1> QED
    BY <1>2, <1>8

LEMMA PagesApart ==
  ASSUME pages \in Seq(Seq(Chars)), NEW p \in 1 .. Len(pages), NEW q \in 1 .. Len(pages), p < q
  PROVE  PageEnd[p] <= PageEnd[q - 1]
  <1> DEFINE Wrong == {k \in 1 .. Len(pages) : p < k /\ ~ (PageEnd[p] <= PageEnd[k - 1])}
  <1> SUFFICES ASSUME Wrong # {} PROVE FALSE
    OBVIOUS
  <1>1. PICK m \in Wrong : \A x \in Wrong : m <= x
    <2>1. Wrong \in SUBSET Nat
      OBVIOUS
    <2> HIDE DEF Wrong
    <2> QED
      BY <2>1, Least
  <1>2. m \in 1 .. Len(pages) /\ p < m /\ ~ (PageEnd[p] <= PageEnd[m - 1])
    OBVIOUS
  <1>3. PageEnd[p] \in Nat /\ PageEnd[m - 1] \in Nat
    <2>1. p \in 0 .. Len(pages) /\ m - 1 \in 0 .. Len(pages)
      BY <1>2
    <2> QED
      BY <2>1, PageEndTyped
  <1>4. m - 1 # p
    <2>1. m - 1 = p => PageEnd[m - 1] = PageEnd[p]
      OBVIOUS
    <2> HIDE DEF Wrong
    <2> QED
      BY <2>1, <1>2, <1>3
  <1>5. m - 1 \in 1 .. Len(pages) /\ p < m - 1 /\ (m - 1) - 1 \in 0 .. Len(pages) /\ ~ (m <= m - 1)
    BY <1>2, <1>4
  <1>6. m - 1 \notin Wrong
    <2> HIDE DEF Wrong
    <2> QED
      BY <1>1, <1>5
  <1>7. PageEnd[p] <= PageEnd[(m - 1) - 1]
    BY <1>5, <1>6
  <1>8. /\ PageEnd[m - 1] = PageEnd[(m - 1) - 1] + Len(pages[m - 1]) + Separator
        /\ Len(pages[m - 1]) \in Nat /\ PageEnd[(m - 1) - 1] \in Nat
    <2>1. /\ PageEnd[m - 1] = PageEnd[(m - 1) - 1] + Len(pages[m - 1]) + Separator
          /\ Len(pages[m - 1]) \in Nat
      BY <1>5, PageEndGoesOn
    <2>2. PageEnd[(m - 1) - 1] \in Nat
      BY <1>5, PageEndTyped
    <2> QED
      BY <2>1, <2>2
  <1>9. \A a, b, c, d \in Nat : a <= b /\ d = b + c + Separator => a <= d
    BY DEF Separator
  <1>10. PageEnd[p] <= PageEnd[m - 1]
    <2> HIDE DEF Wrong
    <2> QED
      BY <1>9, <1>3, <1>7, <1>8
  <1> QED
    BY <1>2, <1>10

-----------------------------------------------------------------------------
(* Where the chunks lie, and that the sentences of the pages done so far   *)
(* are whole in chunks of their page.                                      *)
Found(p) ==
  \A span \in Quotable(p) : \E c \in 1 .. Len(chunks) :
    /\ chunks[c].page = p
    /\ chunks[c].start <= PageEnd[p - 1] + span[1]
    /\ PageEnd[p - 1] + span[2] <= chunks[c].end

PlacesInv ==
  /\ page \in Nat \ {0}
  /\ base = PageEnd[page - 1]
  /\ ChunksStayOnTheirPage
  /\ \A p \in 1 .. page - 1 : Found(p)
  /\ stage \in {"batch", "embed", "indexed"} =>
       page = Len(pages) /\ step = "page" /\ chunks # <<>>

LEMMA PlacesStart == Init => PlacesInv
  <1> SUFFICES ASSUME Init PROVE PlacesInv
    OBVIOUS
  <1>1. pages \in Seq(Seq(Chars)) /\ PageEnd[0] = 0
    BY IndexingStarts, PageEndStarts DEF IndexInv, ParseTypes
  <1> QED
    BY <1>1 DEF Init, ParsingInit, ChunkingInit, PlacesInv, ChunksStayOnTheirPage

(* No page is lost and no chunk made.                                      *)
LEMMA PlacesStay ==
  ASSUME PlacesInv, UNCHANGED <<pages, page, base, chunks>>
  PROVE  /\ (page \in Nat \ {0})' /\ (base = PageEnd[page - 1])'
         /\ ChunksStayOnTheirPage' /\ (\A p \in 1 .. page - 1 : Found(p))'
  <1>1. PageEnd' = PageEnd
    BY DEF PageEnd
  <1> QED
    BY <1>1 DEF PlacesInv, ChunksStayOnTheirPage, Found, Quotable

LEMMA ParsingPlaces ==
  ASSUME IndexInv, PlacesInv, ParseStep
  PROVE  PlacesInv'
  <1>1. IndexInv'
    BY ParsingKeeps
  <1>2. /\ page' = 1 /\ base' = 0 /\ chunks' = <<>>
        /\ stage' \in {"parse", "chunk", "failed"}
    BY DEF IndexInv, Fresh, ParseStep, RefuseFile, Paginate, Parsed, chunking
  <1>3. (PageEnd[0] = 0)'
    <2>1. (pages \in Seq(Seq(Chars)))'
      BY <1>1 DEF IndexInv, ParseTypes
    <2>2. (pages \in Seq(Seq(Chars)) => PageEnd[0] = 0)'
      BY PageEndStarts, PTL
    <2> QED
      BY <2>1, <2>2
  <1> QED
    BY <1>2, <1>3 DEF PlacesInv, ChunksStayOnTheirPage

(* Emit adds the chunk in progress, or none.                               *)
LEMMA EmitAppends ==
  ASSUME IndexInv, Emit, NEW c \in 1 .. Len(chunks')
  PROVE  \/ c \in 1 .. Len(chunks) /\ chunks'[c] = chunks[c]
         \/ /\ chunks'[c].page = page
            /\ chunks'[c].start = base + cuts[first]
            /\ chunks'[c].end = base + cuts[last + 1]
  <1> DEFINE Span == [page : Nat, start : Nat, end : Nat]
             new == [page |-> page, start |-> base + cuts[first], end |-> base + cuts[last + 1]]
  <1>1. chunks \in Seq(Span)
    BY DEF IndexInv, Emit, At, Packing, ChunksInv
  <1>2. chunks' = Append(chunks, new) \/ chunks' = chunks
    BY DEF Emit, Emitted
  <1>3. (c \in 1 .. Len(chunks) /\ chunks'[c] = chunks[c]) \/ chunks'[c] = new
    <2> HIDE DEF Span, new
    <2> QED
      BY <1>1, <1>2
  <1>4. CASE chunks'[c] = new
    <2>1. /\ new.page = page
          /\ new.start = base + cuts[first]
          /\ new.end = base + cuts[last + 1]
      OBVIOUS
    <2> HIDE DEF new
    <2> QED
      BY <1>4, <2>1
  <1> HIDE DEF new
  <1> QED
    BY <1>3, <1>4

LEMMA EmitLengthens ==
  ASSUME IndexInv, Emit, NEW c \in 1 .. Len(chunks)
  PROVE  c \in 1 .. Len(chunks') /\ chunks'[c] = chunks[c]
  <1> DEFINE Span == [page : Nat, start : Nat, end : Nat]
             new == [page |-> page, start |-> base + cuts[first], end |-> base + cuts[last + 1]]
  <1>1. chunks \in Seq(Span)
    BY DEF IndexInv, Emit, At, Packing, ChunksInv
  <1>2. chunks' = Append(chunks, new) \/ chunks' = chunks
    BY DEF Emit, Emitted
  <1> HIDE DEF Span, new
  <1> QED
    BY <1>1, <1>2

LEMMA EmitPlaces ==
  ASSUME IndexInv, PlacesInv, Emit, UNCHANGED parsing
  PROVE  PlacesInv'
  <1>1. /\ Packing /\ step = "extend" /\ page \in 1 .. Len(pages) /\ stage = "chunk"
        /\ UNCHANGED <<pages, page, base, stage>> /\ Len(Text) \in Nat
    BY DEF IndexInv, ParseTypes, Emit, At, Packing, CutsInv, CutsInOrder, Text, parsing
  <1>2. PageEnd' = PageEnd
    BY <1>1 DEF PageEnd
  <1>3. /\ base \in Nat /\ cuts[first] \in Nat /\ cuts[last + 1] \in Nat
        /\ cuts[last + 1] <= Len(Text)
    <2>1. /\ base \in Nat /\ AtomCount \in Nat
          /\ \A j \in 1 .. AtomCount + 1 : cuts[j] \in Nat
          /\ \A i, j \in 1 .. AtomCount + 1 : i < j => cuts[i] < cuts[j]
          /\ cuts[AtomCount + 1] = CutEnd /\ CutEnd = Len(Text)
          /\ first \in 1 .. AtomCount /\ last \in first .. AtomCount
      BY <1>1, CutsTyped DEF Packing, InStep
    <2>2. last + 1 \in 1 .. AtomCount + 1 /\ first \in 1 .. AtomCount + 1
          /\ AtomCount + 1 \in 1 .. AtomCount + 1
          /\ (last + 1 < AtomCount + 1 \/ last + 1 = AtomCount + 1)
      BY <2>1
    <2>3. cuts[last + 1] < cuts[AtomCount + 1] \/ cuts[last + 1] = cuts[AtomCount + 1]
      BY <2>1, <2>2
    <2> QED
      BY <2>1, <2>2, <2>3
  <1>4. ChunksStayOnTheirPage'
    <2> SUFFICES ASSUME NEW c \in 1 .. Len(chunks')
                 PROVE  /\ chunks'[c].page \in 1 .. Len(pages)
                        /\ PageEnd[chunks'[c].page - 1] <= chunks'[c].start
                        /\ chunks'[c].end <= PageEnd[chunks'[c].page - 1] + Len(pages[chunks'[c].page])
      BY <1>1, <1>2 DEF ChunksStayOnTheirPage
    <2>1. CASE c \in 1 .. Len(chunks) /\ chunks'[c] = chunks[c]
      BY <2>1 DEF PlacesInv, ChunksStayOnTheirPage
    <2>2. CASE /\ chunks'[c].page = page
               /\ chunks'[c].start = base + cuts[first]
               /\ chunks'[c].end = base + cuts[last + 1]
      BY <2>2, <1>1, <1>3 DEF PlacesInv, Text
    <2> QED
      BY <2>1, <2>2, EmitAppends
  <1>5. ASSUME NEW p \in 1 .. page - 1 PROVE Found(p)'
    <2>1. Found(p)
      BY DEF PlacesInv
    <2> SUFFICES ASSUME NEW span \in Quotable(p)
                 PROVE  \E c \in 1 .. Len(chunks') :
                          /\ chunks'[c].page = p
                          /\ chunks'[c].start <= PageEnd[p - 1] + span[1]
                          /\ PageEnd[p - 1] + span[2] <= chunks'[c].end
      BY <1>1, <1>2 DEF Found, Quotable
    <2>2. PICK c \in 1 .. Len(chunks) :
            /\ chunks[c].page = p
            /\ chunks[c].start <= PageEnd[p - 1] + span[1]
            /\ PageEnd[p - 1] + span[2] <= chunks[c].end
      BY <2>1 DEF Found
    <2>3. c \in 1 .. Len(chunks') /\ chunks'[c] = chunks[c]
      BY EmitLengthens
    <2> QED
      BY <2>2, <2>3
  <1> QED
    BY <1>1, <1>2, <1>4, <1>5 DEF PlacesInv

(* When a page is done its sentences are found on it.                      *)
LEMMA PageFound ==
  ASSUME IndexInv, PlacesInv, step = "page"
  PROVE  Found(page) /\ page \in 1 .. Len(pages)
  <1>1. /\ Packing /\ Text \in Seq(Chars) /\ CutEnd = Len(Text)
        /\ page \in 1 .. Len(pages)
    BY PageDone DEF Packing, CutsInv, CutsInOrder
  <1>2. ASSUME NEW span \in Quotable(page)
        PROVE  \E c \in 1 .. Len(chunks) :
                 /\ chunks[c].page = page
                 /\ chunks[c].start <= PageEnd[page - 1] + span[1]
                 /\ PageEnd[page - 1] + span[2] <= chunks[c].end
    <2>1. /\ span[1] \in SentenceEnds(Text) \cup {0}
          /\ span[2] \in SentenceFrom(Text, span[1])
          /\ span[2] - span[1] <= ChunkChars
          /\ HasInk(Text, span[1], span[2])
      BY DEF Quotable, Text
    <2>2. Holding(span[1], span[2]) # {}
      BY <2>1, PagesAreKept DEF SentencesStayWhole
    <2> QED
      BY <2>2 DEF Holding, PlacesInv
  <1> QED
    BY <1>1, <1>2 DEF Found

LEMMA NextPagePlaces ==
  ASSUME IndexInv, PlacesInv, NextPage, UNCHANGED parsing
  PROVE  PlacesInv'
  <1>1. /\ step = "page" /\ page' = page + 1 /\ base' = base + Len(Text) + Separator
        /\ UNCHANGED <<pages, chunks, stage>> /\ stage = "chunk"
        /\ pages \in Seq(Seq(Chars))
    BY DEF NextPage, NextBase, At, parsing, IndexInv, ParseTypes
  <1>2. PageEnd' = PageEnd
    BY <1>1 DEF PageEnd
  <1>3. Found(page) /\ page \in 1 .. Len(pages)
    BY <1>1, PageFound
  <1>4. PageEnd[page] = PageEnd[page - 1] + Len(pages[page]) + Separator
    BY <1>1, <1>3, PageEndGoesOn
  <1>5. base' = PageEnd[page' - 1]
    BY <1>1, <1>3, <1>4 DEF PlacesInv, Text
  <1>6. ChunksStayOnTheirPage'
    BY <1>1, <1>2 DEF PlacesInv, ChunksStayOnTheirPage
  <1>7. ASSUME NEW p \in 1 .. page' - 1 PROVE Found(p)'
    <2>1. Found(p)
      BY <1>1, <1>3 DEF PlacesInv
    <2> QED
      BY <2>1, <1>1, <1>2 DEF Found, Quotable
  <1> QED
    BY <1>1, <1>2, <1>3, <1>5, <1>6, <1>7 DEF PlacesInv

LEMMA PlacesKeep == IndexInv /\ PlacesInv /\ [Next]_vars => PlacesInv'
  <1> SUFFICES ASSUME IndexInv, PlacesInv, [Next]_vars PROVE PlacesInv'
    OBVIOUS
  <1>1. CASE ParseStep
    BY <1>1, ParsingPlaces
  <1>2. CASE CutStep
    <2>1. CASE Emit \/ NextPage
      BY <1>2, <2>1, EmitPlaces, NextPagePlaces DEF CutStep
    <2>2. CASE ~ (Emit \/ NextPage)
      <3>1. UNCHANGED <<pages, page, base, chunks, stage>> /\ stage = "chunk"
        BY <1>2, <2>2 DEF CutStep, ChunkStep, Atomize, StartPacking, Extend, CarryBack,
           Advance, At, parsing
      <3> QED
        BY <3>1, PlacesStay DEF PlacesInv
    <2> QED
      BY <2>1, <2>2
  <1>3. CASE EmbedStep
    <2>1. UNCHANGED <<pages, page, base, chunks, step>>
      BY <1>3 DEF EmbedStep, Chunked, Gather, CloseLast, BatchEmbedded, AttemptFailed,
         BatchRejected, Upsert, parsing, chunking
    <2>2. stage' \in {"batch", "embed", "indexed"} =>
            page = Len(pages) /\ step = "page" /\ chunks # <<>>
      BY <1>3 DEF EmbedStep, Chunked, Gather, CloseLast, BatchEmbedded, AttemptFailed,
         BatchRejected, Upsert, Sending, parsing, At, PlacesInv
    <2> QED
      BY <2>1, <2>2, PlacesStay DEF PlacesInv
  <1>4. CASE UNCHANGED vars
    <2>1. UNCHANGED <<pages, page, base, chunks, step, stage>>
      BY <1>4 DEF vars, parsing, chunking
    <2> QED
      BY <2>1, PlacesStay DEF PlacesInv
  <1> QED
    BY <1>1, <1>2, <1>3, <1>4 DEF Next, Done

-----------------------------------------------------------------------------
(* What starts on page p and ends there is on no other page.               *)
LEMMA PageIsFound ==
  ASSUME pages \in Seq(Seq(Chars)), ChunksStayOnTheirPage, NEW p \in 1 .. Len(pages),
         NEW c \in 1 .. Len(chunks), chunks[c].start \in Nat, chunks[c].end \in Nat,
         NEW s \in Nat, NEW e \in Nat,
         PageEnd[p - 1] <= s, s < e, e <= PageEnd[p - 1] + Len(pages[p]),
         chunks[c].start <= s, e <= chunks[c].end
  PROVE  chunks[c].page = p
  <1>1. PICK q \in 1 .. Len(pages) :
          /\ q = chunks[c].page
          /\ PageEnd[q - 1] <= chunks[c].start
          /\ chunks[c].end <= PageEnd[q - 1] + Len(pages[q])
    BY DEF ChunksStayOnTheirPage
  <1>2. PICK a \in Nat, b \in Nat, m \in Nat, n \in Nat :
          a = PageEnd[p - 1] /\ b = PageEnd[q - 1] /\ m = Len(pages[p]) /\ n = Len(pages[q])
    <2>1. p - 1 \in 0 .. Len(pages) /\ q - 1 \in 0 .. Len(pages)
      OBVIOUS
    <2>2. /\ PageEnd[p - 1] \in Nat /\ PageEnd[q - 1] \in Nat
          /\ Len(pages[p]) \in Nat /\ Len(pages[q]) \in Nat
      BY <2>1, PageEndTyped, PageEndGoesOn
    <2> QED
      BY <2>2
  <1>3. PageEnd[p] = a + m + Separator /\ PageEnd[q] = b + n + Separator
    BY <1>2, PageEndGoesOn
  <1>4. a <= s /\ e <= a + m
    BY <1>2
  <1>5. b <= s /\ e <= b + n
    <2>1. PICK from \in Nat, to \in Nat : from = chunks[c].start /\ to = chunks[c].end
      OBVIOUS
    <2>2. b <= from /\ from <= s /\ e <= to /\ to <= b + n
      BY <2>1, <1>1, <1>2
    <2> QED
      BY <2>2
  <1>6. ~ (p < q)
    <2>1. p < q => PageEnd[p] <= PageEnd[q - 1]
      BY PagesApart
    <2>2. p < q => a + m + Separator <= b
      BY <2>1, <1>2, <1>3
    <2> QED
      BY <2>2, <1>4, <1>5 DEF Separator
  <1>7. ~ (q < p)
    <2>1. q < p => PageEnd[q] <= PageEnd[p - 1]
      BY PagesApart
    <2>2. q < p => b + n + Separator <= a
      BY <2>1, <1>2, <1>3
    <2> QED
      BY <2>2, <1>4, <1>5 DEF Separator
  <1> QED
    BY <1>1, <1>6, <1>7

LEMMA ChunkOffsets ==
  ASSUME IndexInv, NEW c \in 1 .. Len(chunks)
  PROVE  chunks[c].start \in Nat /\ chunks[c].end \in Nat
  <1>1. Fresh => Len(chunks) = 0
    BY DEF Fresh
  <1>2. Packing => ChunksInv
    BY DEF Packing
  <1> QED
    BY <1>1, <1>2, ChunksTyped DEF IndexInv

LEMMA GoldIsFound ==
  ASSUME IndexInv, PlacesInv, stage = "indexed",
         NEW p \in 1 .. Len(pages), NEW span \in Quotable(p)
  PROVE  /\ Owners(PageEnd[p - 1] + span[1], PageEnd[p - 1] + span[2]) # {}
         /\ chunks[Resolved(PageEnd[p - 1] + span[1], PageEnd[p - 1] + span[2])].page = p
  <1> DEFINE s == PageEnd[p - 1] + span[1]
             e == PageEnd[p - 1] + span[2]
             owners == Owners(s, e)
  <1>1. pages \in Seq(Seq(Chars)) /\ page = Len(pages) /\ step = "page"
    BY DEF IndexInv, ParseTypes, PlacesInv
  <1>2. Found(p)
    BY <1>1, PageFound DEF PlacesInv
  <1>3. /\ span[1] \in Nat /\ span[2] \in Nat /\ span[1] < span[2] /\ span[2] <= Len(pages[p])
    BY SentenceFromInText DEF Quotable, SentenceFrom
  <1>4. PageEnd[p - 1] \in Nat /\ Len(pages[p]) \in Nat
    <2>1. p - 1 \in 0 .. Len(pages)
      OBVIOUS
    <2> QED
      BY <1>1, <2>1, PageEndTyped
  <1>5. /\ s \in Nat /\ e \in Nat /\ PageEnd[p - 1] <= s /\ s < e
        /\ e <= PageEnd[p - 1] + Len(pages[p])
    BY <1>3, <1>4
  <1>6. owners # {}
    <2>1. PICK c \in 1 .. Len(chunks) :
            /\ chunks[c].page = p
            /\ chunks[c].start <= PageEnd[p - 1] + span[1]
            /\ PageEnd[p - 1] + span[2] <= chunks[c].end
      BY <1>2 DEF Found
    <2>2. chunks[c].end \in Nat
      BY ChunkOffsets
    <2>3. chunks[c].end >= e
      BY <2>1, <2>2, <1>5
    <2> QED
      BY <2>1, <2>3 DEF Owners, Total
  <1>7. Resolved(s, e) \in owners
    <2> HIDE DEF s, e
    <2>1. owners \in SUBSET Nat
      BY DEF Owners
    <2>2. \E m \in owners : \A x \in owners : m <= x
      <3> HIDE DEF owners
      <3> QED
        BY <1>6, <2>1, Least
    <2> QED
      BY <2>2 DEF Resolved, Min
  <1>8. chunks[Resolved(s, e)].page = p
    <2> HIDE DEF s, e
    <2>1. PICK c \in 1 .. Len(chunks) :
            c = Resolved(s, e) /\ chunks[c].start <= s /\ chunks[c].end >= e
      BY <1>7 DEF Owners, Total
    <2>2. chunks[c].start \in Nat /\ chunks[c].end \in Nat
      BY ChunkOffsets
    <2>3. e <= chunks[c].end
      BY <2>1, <2>2, <1>5
    <2> QED
      BY <2>1, <2>2, <2>3, <1>1, <1>5, PageIsFound DEF PlacesInv
  <1> QED
    BY <1>6, <1>8

(* chunking.py: whatever the text, the pages and the sizes, every chunk    *)
(* lies inside the page it names and takes in no separator.                *)
THEOREM ChunksStay == Spec => []ChunksStayOnTheirPage
  <1>1. PlacesInv => ChunksStayOnTheirPage
    BY DEF PlacesInv
  <1> QED
    BY <1>1, IndexingStarts, IndexingKeeps, PlacesStart, PlacesKeep, PTL DEF Spec

(* evaluation.py: whatever the text, the pages and the sizes, a sentence   *)
(* the golden set quotes is found again after any ingestion, in a chunk of *)
(* its page.                                                               *)
THEOREM GoldSurvives == Spec => []GoldSpansResolve
  <1>1. IndexInv /\ PlacesInv => GoldSpansResolve
    BY GoldIsFound DEF GoldSpansResolve
  <1> QED
    BY <1>1, IndexingStarts, IndexingKeeps, PlacesStart, PlacesKeep, PTL DEF Spec

-----------------------------------------------------------------------------
LEMMA TotalTyped == IndexInv => Total \in Nat
  BY DEF IndexInv, Fresh, Packing, ChunksInv, Total

LEMMA TokensTyped ==
  ASSUME IndexInv, NEW k \in 1 .. Total
  PROVE  Tokens(k) \in Nat
  <1>1. PICK from \in Nat, to \in Nat : from = chunks[k].start /\ to = chunks[k].end
    BY ChunkOffsets DEF Total
  <1>2. (to - from) \div CharsPerToken \in Int
    BY EmbeddingAssumption
  <1> QED
    BY <1>1, <1>2 DEF Tokens

LEMMA TokensUnfold ==
  ASSUME IndexInv
  PROVE  TokensUpTo = [k \in 0 .. Total |-> IF k = 0 THEN 0 ELSE TokensUpTo[k - 1] + Tokens(k)]
  <1> DEFINE inc == [k \in 1 .. Total |-> Tokens(k)]
  <1>1. Total \in Nat /\ inc \in [1 .. Total -> Nat]
    BY TotalTyped, TokensTyped
  <1>2. PICK f \in [0 .. Total -> Nat] :
          f[0] = 0 /\ \A k \in 1 .. Total : f[k] = f[k - 1] + inc[k]
    <2> HIDE DEF inc
    <2> QED
      BY <1>1, RunningTotals
  <1>3. f = [k \in 0 .. Total |-> IF k = 0 THEN 0 ELSE f[k - 1] + Tokens(k)]
    <2>1. ASSUME NEW k \in 0 .. Total
          PROVE  f[k] = IF k = 0 THEN 0 ELSE f[k - 1] + Tokens(k)
      <3>1. CASE k = 0
        BY <3>1, <1>2
      <3>2. CASE k # 0
        <4>1. k \in 1 .. Total /\ inc[k] = Tokens(k)
          BY <3>2, <1>1
        <4>2. f[k] = f[k - 1] + inc[k]
          BY <4>1, <1>2
        <4> HIDE DEF inc
        <4> QED
          BY <4>1, <4>2, <3>2
      <3> QED
        BY <3>1, <3>2
    <2> QED
      BY <2>1, <1>2
  <1> HIDE DEF inc
  <1>4. \E g : g = [k \in 0 .. Total |-> IF k = 0 THEN 0 ELSE g[k - 1] + Tokens(k)]
    BY <1>3
  <1> QED
    BY <1>4 DEF TokensUpTo

LEMMA TokensGoOn ==
  ASSUME IndexInv, NEW k \in 1 .. Total
  PROVE  TokensUpTo[k] = TokensUpTo[k - 1] + Tokens(k)
  <1>1. k \in 0 .. Total /\ k # 0
    OBVIOUS
  <1> QED
    BY <1>1, TokensUnfold

LEMMA TokensUpToTyped ==
  ASSUME IndexInv, NEW k \in 0 .. Total
  PROVE  TokensUpTo[k] \in Nat
  <1> DEFINE Wrong == {n \in 0 .. Total : TokensUpTo[n] \notin Nat}
  <1> SUFFICES ASSUME Wrong # {} PROVE FALSE
    OBVIOUS
  <1>1. PICK m \in Wrong : \A x \in Wrong : m <= x
    <2>1. Wrong \in SUBSET Nat
      OBVIOUS
    <2> HIDE DEF Wrong
    <2> QED
      BY <2>1, Least
  <1>2. m \in 0 .. Total /\ TokensUpTo[m] \notin Nat /\ Total \in Nat
    BY TotalTyped
  <1>3. m # 0
    <2>1. 0 \in 0 .. Total
      BY <1>2
    <2>2. TokensUpTo[0] = 0
      BY <2>1, TokensUnfold
    <2> QED
      BY <2>2, <1>2
  <1>4. m \in 1 .. Total /\ m - 1 \in 0 .. Total /\ ~ (m <= m - 1)
    BY <1>2, <1>3
  <1>5. m - 1 \notin Wrong
    <2> HIDE DEF Wrong
    <2> QED
      BY <1>1, <1>4
  <1>6. TokensUpTo[m - 1] \in Nat
    BY <1>4, <1>5
  <1>7. TokensUpTo[m] \in Nat
    BY <1>4, <1>6, TokensGoOn, TokensTyped
  <1> QED
    BY <1>2, <1>7

-----------------------------------------------------------------------------
(* The batches follow each other over the texts, what has been answered is *)
(* in its place, and the batch in progress keeps to the caps.              *)
SentTo == IF sent = 0 THEN 0 ELSE batches[sent].to

BatchesInOrder ==
  /\ gathered \in Nat /\ gathered <= Total
  /\ batches \in Seq([from : Nat, to : Nat])
  /\ \A b \in 1 .. Len(batches) :
       /\ batches[b].from = IF b = 1 THEN 0 ELSE batches[b - 1].to
       /\ batches[b].to <= gathered
  /\ RequestsFit

BatchInProgress ==
  /\ sent = 0
  /\ Opened <= gathered
  /\ gathered > 0 => Opened < gathered
  /\ gathered - Opened <= MaxTexts
  /\ gathered - Opened <= 1 \/ BatchTokens(Opened, gathered) <= MaxTokens

EmbedInv ==
  /\ BatchesInOrder
  /\ stage \in {"parse", "chunk"} => gathered = 0 /\ batches = <<>> /\ sent = 0
  /\ stage = "batch" => BatchInProgress
  /\ sent \in 0 .. Len(batches)
  /\ stage \in {"embed", "indexed"} =>
       /\ batches # <<>> /\ Opened = Total
       /\ \A k \in 1 .. Total : k <= SentTo => vectors[k] = k
  /\ stage = "indexed" => sent = Len(batches)

LEMMA EmbeddingStarts == Init => EmbedInv
  <1> SUFFICES ASSUME Init PROVE EmbedInv
    OBVIOUS
  <1>1. /\ gathered = 0 /\ batches = <<>> /\ sent = 0 /\ stage = "parse"
        /\ Total \in Nat
    BY IndexingStarts, TotalTyped DEF Init, ParsingInit
  <1> QED
    BY <1>1 DEF EmbedInv, BatchesInOrder, RequestsFit

LEMMA OpenedTyped ==
  ASSUME BatchesInOrder
  PROVE  Opened \in Nat /\ Opened <= gathered
  <1> DEFINE Batch == [from : Nat, to : Nat]
  <1>1. batches \in Seq(Batch)
    BY DEF BatchesInOrder
  <1>2. batches # <<>> => Len(batches) \in 1 .. Len(batches) /\ batches[Len(batches)] \in Batch
    <2> HIDE DEF Batch
    <2> QED
      BY <1>1
  <1> QED
    BY <1>2 DEF Opened, BatchesInOrder

LEMMA BatchTyped ==
  ASSUME BatchesInOrder, NEW b \in 1 .. Len(batches)
  PROVE  batches[b].from \in Nat /\ batches[b].to \in Nat
  <1> DEFINE Batch == [from : Nat, to : Nat]
  <1>1. batches \in Seq(Batch)
    BY DEF BatchesInOrder
  <1>2. batches[b] \in Batch
    <2> HIDE DEF Batch
    <2> QED
      BY <1>1
  <1> QED
    BY <1>2

(* Chunks that stay keep their tokens and their batches.                   *)
LEMMA BatchesStay ==
  ASSUME BatchesInOrder, UNCHANGED <<chunks, batches>>, gathered' \in Nat,
         gathered <= gathered', gathered' <= Total
  PROVE  BatchesInOrder'
  <1>1. Total' = Total /\ TokensUpTo' = TokensUpTo
    BY DEF Total, TokensUpTo, Tokens
  <1>2. \A from, to : BatchTokens(from, to)' = BatchTokens(from, to)
    BY <1>1 DEF BatchTokens
  <1>3. RequestsFit'
    BY <1>2 DEF BatchesInOrder, RequestsFit
  <1>4. \A b \in 1 .. Len(batches) : batches[b].to <= gathered'
    <2> SUFFICES ASSUME NEW b \in 1 .. Len(batches) PROVE batches[b].to <= gathered'
      OBVIOUS
    <2>1. batches[b].to \in Nat /\ batches[b].to <= gathered /\ gathered \in Nat
      BY BatchTyped DEF BatchesInOrder
    <2> QED
      BY <2>1
  <1> QED
    BY <1>1, <1>3, <1>4 DEF BatchesInOrder

(* A batch is closed.                                                      *)
LEMMA BatchCloses ==
  ASSUME IndexInv, BatchesInOrder, BatchInProgress, Opened < gathered, UNCHANGED chunks,
         batches' = Append(batches, [from |-> Opened, to |-> gathered]),
         gathered' \in Nat, gathered <= gathered', gathered' <= Total
  PROVE  /\ BatchesInOrder'
         /\ batches' # <<>> /\ Opened' = gathered
  <1> DEFINE Batch == [from : Nat, to : Nat]
             new == [from |-> Opened, to |-> gathered]
             n == Len(batches)
  <1>1. batches \in Seq(Batch) /\ gathered \in Nat /\ Opened \in Nat /\ new \in Batch
        /\ batches' = Append(batches, new)
    BY OpenedTyped DEF BatchesInOrder
  <1>2. new.from = Opened /\ new.to = gathered
    OBVIOUS
  <1>3. /\ batches' \in Seq(Batch) /\ Len(batches') = n + 1 /\ n \in Nat
        /\ batches'[n + 1] = new /\ \A b \in 1 .. n : batches'[b] = batches[b]
    <2> HIDE DEF Batch, new
    <2> QED
      BY <1>1
  <1>4. Total' = Total /\ TokensUpTo' = TokensUpTo
    BY DEF Total, TokensUpTo, Tokens
  <1>5. \A from, to : BatchTokens(from, to)' = BatchTokens(from, to)
    BY <1>4 DEF BatchTokens
  <1> HIDE DEF new
  <1>6. batches' # <<>> /\ Opened' = gathered
    BY <1>2, <1>3 DEF Opened
  <1>7. ASSUME NEW b \in 1 .. Len(batches')
        PROVE  /\ batches'[b].from = IF b = 1 THEN 0 ELSE batches'[b - 1].to
               /\ batches'[b].to <= gathered'
    <2>1. CASE b = n + 1
      <3>1. Opened = IF n = 0 THEN 0 ELSE batches[n].to
        BY <1>1 DEF Opened
      <3>2. batches'[b - 1] = batches[n] \/ n = 0
        BY <2>1, <1>3
      <3>3. batches'[b].from = Opened /\ batches'[b].to = gathered
        BY <2>1, <1>2, <1>3
      <3>4. b = 1 <=> n = 0
        BY <2>1, <1>3
      <3>5. b - 1 = n
        BY <2>1, <1>3
      <3>6. batches'[b].to <= gathered'
        BY <3>3
      <3>7. CASE n = 0
        BY <3>1, <3>3, <3>4, <3>6, <3>7
      <3>8. CASE n # 0
        BY <3>1, <3>2, <3>3, <3>4, <3>6, <3>8
      <3> QED
        BY <3>7, <3>8
    <2>2. CASE b # n + 1
      <3>1. b \in 1 .. n /\ (b = 1 \/ b - 1 \in 1 .. n)
        BY <2>2, <1>3
      <3>2. batches[b].to \in Nat /\ batches[b].to <= gathered
        BY <3>1, BatchTyped DEF BatchesInOrder
      <3>3. batches[b].to <= gathered'
        BY <3>2, <1>1
      <3> QED
        BY <3>1, <3>3, <1>3 DEF BatchesInOrder
    <2> QED
      BY <2>1, <2>2
  <1>8. ASSUME NEW b \in 1 .. Len(batches')
        PROVE  LET from == batches'[b].from
                   to == batches'[b].to
               IN  /\ to - from \in 1 .. MaxTexts
                   /\ to - from = 1 \/ BatchTokens(from, to) <= MaxTokens
    <2>1. CASE b = n + 1
      <3>1. batches'[b].from = Opened /\ batches'[b].to = gathered
        BY <2>1, <1>2, <1>3
      <3>2. gathered - Opened \in 1 .. MaxTexts
        BY <1>1, EmbeddingAssumption DEF BatchInProgress
      <3>3. gathered - Opened = 1 \/ BatchTokens(Opened, gathered) <= MaxTokens
        BY <3>2 DEF BatchInProgress
      <3> QED
        BY <3>1, <3>2, <3>3
    <2>2. CASE b # n + 1
      <3>1. b \in 1 .. n
        BY <2>2, <1>3
      <3> QED
        BY <3>1, <1>3 DEF BatchesInOrder, RequestsFit
    <2> QED
      BY <2>1, <2>2
  <1>9. RequestsFit'
    BY <1>5, <1>8 DEF RequestsFit
  <1> QED
    BY <1>3, <1>4, <1>6, <1>7, <1>9 DEF BatchesInOrder

LEMMA GatherKeeps ==
  ASSUME IndexInv, EmbedInv, Gather
  PROVE  EmbedInv'
  <1>1. /\ BatchesInOrder /\ BatchInProgress /\ sent = 0
        /\ gathered' = gathered + 1 /\ gathered' <= Total /\ gathered \in Nat
        /\ UNCHANGED <<chunks, sent, stage>> /\ stage = "batch" /\ Total \in Nat
    BY TotalTyped DEF Gather, EmbedInv, BatchInProgress, BatchesInOrder, parsing, chunking
  <1>2. Total' = Total /\ TokensUpTo' = TokensUpTo
    BY <1>1 DEF Total, TokensUpTo, Tokens
  <1>3. Opened \in Nat /\ Opened <= gathered
    BY <1>1, OpenedTyped
  <1>4. CASE gathered > Opened /\ Full(gathered + 1)
    <2>1. BatchesInOrder' /\ batches' # <<>> /\ Opened' = gathered
      BY <1>1, <1>3, <1>4, BatchCloses DEF Gather
    <2>2. BatchInProgress'
      BY <2>1, <1>1, EmbeddingAssumption DEF BatchInProgress
    <2>3. sent' \in 0 .. Len(batches')
      BY <2>1, <1>1 DEF BatchesInOrder
    <2> QED
      BY <1>1, <2>1, <2>2, <2>3 DEF EmbedInv
  <1>5. CASE ~ (gathered > Opened /\ Full(gathered + 1))
    <2>1. batches' = batches
      BY <1>5 DEF Gather
    <2>2. BatchesInOrder' /\ Opened' = Opened
      BY <2>1, <1>1, BatchesStay DEF Opened
    <2>3. gathered' - Opened' <= MaxTexts
      BY <2>2, <1>1, <1>3, <1>5, EmbeddingAssumption DEF Full
    <2>4. gathered' - Opened' <= 1 \/ BatchTokens(Opened, gathered + 1) <= MaxTokens
      <3>1. CASE gathered = Opened
        BY <3>1, <2>2, <1>1, <1>3
      <3>2. CASE gathered # Opened
        <4>1. ~ (BatchTokens(Opened, gathered) + Tokens(gathered + 1) > MaxTokens)
          BY <3>2, <1>1, <1>3, <1>5 DEF Full
        <4>2. gathered + 1 \in 1 .. Total /\ (gathered + 1) - 1 = gathered
              /\ gathered \in 0 .. Total /\ Opened \in 0 .. Total
          BY <1>1, <1>3
        <4>3. PICK opened \in Nat, upTo \in Nat, more \in Nat :
                /\ opened = TokensUpTo[Opened] /\ upTo = TokensUpTo[gathered]
                /\ more = Tokens(gathered + 1)
          BY <4>2, TokensUpToTyped, TokensTyped
        <4>4. TokensUpTo[gathered + 1] = upTo + more
          BY <4>2, <4>3, TokensGoOn
        <4>5. BatchTokens(Opened, gathered + 1) = (upTo + more) - opened
              /\ BatchTokens(Opened, gathered) = upTo - opened
          BY <4>3, <4>4 DEF BatchTokens
        <4> QED
          BY <4>1, <4>3, <4>5, EmbeddingAssumption
      <3> QED
        BY <3>1, <3>2
    <2>5. BatchInProgress'
      BY <2>2, <2>3, <2>4, <1>1, <1>2, <1>3 DEF BatchInProgress, BatchTokens
    <2> QED
      BY <1>1, <2>1, <2>2, <2>5 DEF EmbedInv
  <1> QED
    BY <1>4, <1>5

LEMMA CloseLastKeeps ==
  ASSUME IndexInv, PlacesInv, EmbedInv, CloseLast
  PROVE  EmbedInv'
  <1>1. /\ BatchesInOrder /\ BatchInProgress /\ sent = 0 /\ gathered = Total
        /\ UNCHANGED <<chunks, sent, gathered>> /\ stage' = "embed" /\ Total \in Nat
        /\ chunks # <<>>
    BY TotalTyped DEF CloseLast, EmbedInv, BatchInProgress, PlacesInv, chunking
  <1>2. Total # 0
    BY <1>1 DEF Total, IndexInv, Packing, Fresh, ChunksInv
  <1>3. Opened < gathered
    BY <1>1, <1>2 DEF BatchInProgress
  <1>4. BatchesInOrder' /\ batches' # <<>> /\ Opened' = gathered
    BY <1>1, <1>3, BatchCloses DEF CloseLast, BatchesInOrder
  <1>5. Total' = Total
    BY <1>1 DEF Total
  <1>6. sent' \in 0 .. Len(batches') /\ SentTo' = 0
    BY <1>1, <1>4 DEF BatchesInOrder, SentTo
  <1>7. \A k \in 1 .. Total : ~ (k <= 0)
    OBVIOUS
  <1> QED
    BY <1>1, <1>4, <1>5, <1>6, <1>7 DEF EmbedInv

LEMMA BatchEmbeddedKeeps ==
  ASSUME IndexInv, EmbedInv, BatchEmbedded
  PROVE  EmbedInv'
  <1>1. /\ BatchesInOrder /\ sent \in Nat /\ sent < Len(batches) /\ stage = "embed"
        /\ UNCHANGED <<chunks, batches, gathered, stage>> /\ sent' = sent + 1
        /\ Total \in Nat /\ gathered <= Total /\ gathered \in Nat /\ Len(batches) \in Nat
    BY TotalTyped DEF BatchEmbedded, Sending, EmbedInv, BatchesInOrder, parsing, chunking
  <1>2. Total' = Total /\ Opened' = Opened
    BY <1>1 DEF Total, Opened
  <1>3. BatchesInOrder'
    BY <1>1, BatchesStay
  <1>4. SentTo' = batches[sent + 1].to
    BY <1>1 DEF SentTo
  <1>5. batches[sent + 1].from = SentTo
    <2>1. sent + 1 \in 1 .. Len(batches) /\ (sent + 1 = 1 <=> sent = 0) /\ (sent + 1) - 1 = sent
      BY <1>1
    <2>2. batches[sent + 1].from = IF sent + 1 = 1 THEN 0 ELSE batches[(sent + 1) - 1].to
      BY <2>1, <1>1 DEF BatchesInOrder
    <2>3. CASE sent = 0
      BY <2>1, <2>2, <2>3 DEF SentTo
    <2>4. CASE sent # 0
      BY <2>1, <2>2, <2>4 DEF SentTo
    <2> QED
      BY <2>3, <2>4
  <1>6. PICK from \in Nat, to \in Nat : from = batches[sent + 1].from /\ to = batches[sent + 1].to
    <2>1. sent + 1 \in 1 .. Len(batches)
      BY <1>1
    <2> QED
      BY <2>1, <1>1, BatchTyped
  <1>7. ASSUME NEW k \in 1 .. Total', k <= SentTo'
        PROVE  vectors'[k] = k
    <2>1. k \in 1 .. Total /\ k <= to
      BY <1>2, <1>4, <1>6, <1>7
    <2>2. vectors'[k] = IF k \in from + 1 .. to THEN k ELSE vectors[k]
      BY <2>1, <1>6 DEF BatchEmbedded, Placed, Current
    <2>3. k \in from + 1 .. to \/ k <= from
      BY <2>1
    <2>4. CASE k \in from + 1 .. to
      BY <2>2, <2>4
    <2>5. CASE ~ (k \in from + 1 .. to)
      <3>1. k <= SentTo
        BY <2>3, <2>5, <1>5, <1>6
      <3> QED
        BY <2>1, <2>2, <2>5, <3>1, <1>1 DEF EmbedInv
    <2> QED
      BY <2>4, <2>5
  <1>8. batches' # <<>> /\ Opened' = Total' /\ sent' \in 0 .. Len(batches')
    BY <1>1, <1>2 DEF EmbedInv
  <1> QED
    BY <1>1, <1>3, <1>7, <1>8 DEF EmbedInv

LEMMA EmbedKeeps == IndexInv /\ PlacesInv /\ EmbedInv /\ [Next]_vars => EmbedInv'
  <1> SUFFICES ASSUME IndexInv, PlacesInv, EmbedInv, [Next]_vars PROVE EmbedInv'
    OBVIOUS
  <1>0. IndexInv'
    BY IndexingKeeps
  <1>1. CASE ParseStep \/ CutStep
    <2>1. /\ gathered = 0 /\ batches = <<>> /\ sent = 0 /\ UNCHANGED embedding
          /\ stage' \in {"parse", "chunk", "failed"}
      BY <1>1 DEF EmbedInv, ParseStep, RefuseFile, Paginate, Parsed, CutStep, parsing,
         ChunkStep, Atomize, StartPacking, Extend, Emit, CarryBack, Advance, NextPage, At
    <2>2. /\ gathered' = 0 /\ batches' = <<>> /\ sent' = 0
      BY <2>1 DEF embedding
    <2>3. (Total \in Nat)'
      BY <1>0 DEF IndexInv, Fresh, Packing, ChunksInv, Total
    <2> QED
      BY <2>1, <2>2, <2>3 DEF EmbedInv, BatchesInOrder, RequestsFit
  <1>2. CASE Gather
    BY <1>2, GatherKeeps
  <1>3. CASE CloseLast
    BY <1>3, CloseLastKeeps
  <1>4. CASE BatchEmbedded
    BY <1>4, BatchEmbeddedKeeps
  <1>5. CASE Chunked
    <2>1. /\ gathered = 0 /\ batches = <<>> /\ sent = 0
          /\ gathered' = 0 /\ batches' = <<>> /\ sent' = 0 /\ stage' \in {"failed", "batch"}
      BY <1>5 DEF EmbedInv, Chunked, At
    <2>2. Opened' = 0
      BY <2>1 DEF Opened
    <2>3. (Total \in Nat)'
      BY <1>0 DEF IndexInv, Fresh, Packing, ChunksInv, Total
    <2>4. BatchInProgress'
      BY <2>1, <2>2, EmbeddingAssumption DEF BatchInProgress
    <2> QED
      BY <2>1, <2>3, <2>4 DEF EmbedInv, BatchesInOrder, RequestsFit
  <1>6. CASE AttemptFailed \/ BatchRejected \/ Upsert \/ UNCHANGED vars
    <2>1. UNCHANGED <<chunks, gathered, batches, sent, vectors>>
      BY <1>6 DEF AttemptFailed, BatchRejected, Upsert, vars, parsing, chunking, embedding
    <2>2. BatchesInOrder'
      BY <2>1, BatchesStay DEF EmbedInv, BatchesInOrder
    <2>3. /\ stage' \in {stage, "failed"} \/ (stage = "embed" /\ stage' = "indexed" /\ sent = Len(batches))
      BY <1>6 DEF AttemptFailed, BatchRejected, Upsert, vars, parsing
    <2>4. Total' = Total /\ Opened' = Opened /\ SentTo' = SentTo /\ TokensUpTo' = TokensUpTo
      BY <2>1 DEF Total, Opened, SentTo, TokensUpTo, Tokens
    <2>5. BatchInProgress => BatchInProgress'
      BY <2>1, <2>4 DEF BatchInProgress, BatchTokens
    <2> QED
      BY <2>1, <2>2, <2>3, <2>4, <2>5 DEF EmbedInv
  <1> QED
    BY <1>1, <1>2, <1>3, <1>4, <1>5, <1>6 DEF Next, EmbedStep, Done

(* Every text has been answered for.                                       *)
LEMMA AllPlaced == IndexInv /\ EmbedInv => VectorsAreTheirOwn
  <1> SUFFICES ASSUME IndexInv, EmbedInv, stage = "indexed", NEW k \in 1 .. Total
               PROVE  vectors[k] = k
    BY DEF VectorsAreTheirOwn
  <1>1. SentTo = Total
    <2>1. batches # <<>> /\ Opened = Total /\ sent = Len(batches)
      BY DEF EmbedInv
    <2>2. sent # 0
      BY <2>1 DEF EmbedInv, BatchesInOrder
    <2> QED
      BY <2>1, <2>2 DEF SentTo, Opened
  <1>2. k <= SentTo
    BY <1>1, TotalTyped
  <1> QED
    BY <1>2 DEF EmbedInv

(* embeddings.py: whatever the texts, the caps and the attempts, the rows  *)
(* that are upserted carry the vectors of their own texts.                 *)
THEOREM EmbeddingKeepsOrder == Spec => []VectorsAreTheirOwn
  BY AllPlaced, IndexingStarts, IndexingKeeps, PlacesStart, PlacesKeep, EmbeddingStarts,
     EmbedKeeps, PTL DEF Spec

(* embeddings.py: whatever the texts and the caps, no request is over one. *)
THEOREM BatchesFit == Spec => []RequestsFit
  <1>1. EmbedInv => RequestsFit
    BY DEF EmbedInv, BatchesInOrder
  <1> QED
    BY <1>1, IndexingStarts, IndexingKeeps, PlacesStart, PlacesKeep, EmbeddingStarts,
       EmbedKeeps, PTL DEF Spec
=============================================================================
