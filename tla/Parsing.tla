------------------------------ MODULE Parsing ------------------------------
(***************************************************************************)
(* A file becomes pages (services/parsing).  A character is kept as far as *)
(* pagination and chunking look at it: "ink", a sentence mark that a       *)
(* capital follows ("stop"), a "space", a newline ("line"), or any other   *)
(* blank, which \s and strip() know and rfind is not asked for ("tab").  A *)
(* PDF, and a DOCX with manual page breaks, brings its own pages; other    *)
(* text is cut into windows.  Offsets count from 0, as in the code: the    *)
(* character at offset k is text[k + 1], and [s, e) holds those after s up *)
(* to e.                                                                   *)
(***************************************************************************)
EXTENDS Integers, Sequences

CONSTANTS
  Texts,        \* the texts a file can hold
  PageBreaks,   \* where the real pages of a file may break
  PageChars     \* _SYNTHETIC_PAGE_CHARS

Chars == {"ink", "stop", "space", "line", "tab"}
Blank == {"space", "line", "tab"}       \* what the chunker takes for a blank
Separators == {"space", "line"}         \* what pagination does

ASSUME ParsingAssumption ==
  /\ PageChars \in Nat \ {0}
  /\ PageBreaks \subseteq Nat
  /\ Texts \subseteq Seq(Chars)

VARIABLES
  file,    \* [kind, text, at]: at is where its real pages break
  stage,   \* how far the ingestion of the file is
  start,   \* synthetic_paginate: the offset of the next window
  pages    \* ParsedDocument.pages: their texts

parsing == <<file, stage, start, pages>>

HasInk(text, s, e) == \E k \in s + 1 .. e : text[k] \notin Blank

(* text.rfind(c, from, to): the last one, or none.                         *)
RFind(c, text, from, to) ==
  {k \in from .. to - 1 : text[k + 1] = c /\ \A j \in k + 1 .. to - 1 : text[j + 1] # c}

RealPages(f) == \/ f.kind = "pdf"
                \/ f.kind = "docx" /\ f.at > 0

ParsingInit ==
  /\ file \in {f \in [kind : {"text", "docx", "pdf"}, text : Texts, at : PageBreaks] :
                 f.at <= Len(f.text) /\ (f.kind = "text" => f.at = 0)}
  /\ stage = "parse"
  /\ pages = IF RealPages(file)
             THEN <<SubSeq(file.text, 1, file.at), SubSeq(file.text, file.at + 1, Len(file.text))>>
             ELSE <<>>
  /\ start = IF RealPages(file) THEN Len(file.text) ELSE 0

WindowEndAtLines(text, s) ==            \* mutant: the space is not looked for
  LET limit == s + PageChars
      found(c) == RFind(c, text, s, limit) \ {s}
  IN  IF limit >= Len(text) THEN {Len(text)}
      ELSE IF found("line") # {} THEN found("line")
      ELSE {limit}

(* Where the window from s ends: at its last newline, failing that at its  *)
(* last space, failing that wherever it is full, though a tab stand in it. *)
WindowEnd(text, s) ==
  LET limit == s + PageChars
      found(c) == RFind(c, text, s, limit) \ {s}
  IN  IF limit >= Len(text) THEN {Len(text)}
      ELSE IF found("line") # {} THEN found("line")
      ELSE IF found("space") # {} THEN found("space")
      ELSE {limit}

(* check_not_empty; PdfParser refuses a file without a text layer.         *)
Unreadable ==
  \/ file.kind = "text" /\ file.text = <<>>
  \/ file.kind = "pdf" /\ ~ HasInk(file.text, 0, Len(file.text))

RefuseFile ==
  /\ stage = "parse" /\ Unreadable
  /\ stage' = "failed"
  /\ UNCHANGED <<file, start, pages>>

(* One window.  An empty text has one empty page.                          *)
Paginate ==
  /\ stage = "parse" /\ ~ Unreadable
  /\ ~ RealPages(file)
  /\ start < Len(file.text) \/ pages = <<>>
  /\ \E e \in WindowEnd(file.text, start) :
       /\ pages' = Append(pages, SubSeq(file.text, start + 1, e))
       /\ start' = e
  /\ UNCHANGED <<file, stage>>

Parsed ==
  /\ stage = "parse" /\ ~ Unreadable
  /\ start = Len(file.text) /\ pages # <<>>
  /\ stage' = "chunk"
  /\ UNCHANGED <<file, start, pages>>

(* [s, e) is a stretch: all that stands between two separators, one word   *)
(* or several with tabs between them.                                      *)
IsStretch(text, s, e) ==
  /\ \A k \in s + 1 .. e : text[k] \notin Separators
  /\ s = 0 \/ text[s] \in Separators
  /\ e = Len(text) \/ text[e + 1] \in Separators

(* base.py:63-80 says that "a synthetic page never splits a word".  What   *)
(* the code keeps is less: wherever the windows before it ended, no        *)
(* stretch shorter than a window is on two pages.  A word that fills one   *)
(* is split, and so is a short word that only a tab parts from the others. *)
WordsSurvivePagination ==
  ~ RealPages(file) =>
    \A s \in 0 .. start - 1 : \A e \in start + 1 .. Len(file.text) :
      IsStretch(file.text, s, e) => e - s >= PageChars
=============================================================================
