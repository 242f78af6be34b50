----------------------------- MODULE Provenance -----------------------------
(***************************************************************************)
(* app/services/provenance.py: the text the model is sent and the          *)
(* citations that address it, written in one pass.  A block is its header  *)
(* and its body; the citations are a dict in insertion order.              *)
(***************************************************************************)
EXTENDS ContextBudget

CONSTANT Locator   \* Locator[c]: (document_id, char_start, char_end) of c

NothingRendered == [error |-> "none", text |-> << >>, citations |-> << >>]

Block(hit) == [header |-> Locator[hit.chunk], body |-> hit.chunk]
Citation(hit) == [locator |-> Locator[hit.chunk], chunk |-> hit.chunk]
Cited(rendered) == {c.locator : c \in ToSet(rendered.citations)}

(* mutant: no DuplicateLocator, the later citation takes the place         *)
CiteOverwriting(rendered, hit) ==
  [rendered EXCEPT
     !.text = Append(@, Block(hit)),
     !.citations = IF Locator[hit.chunk] \in Cited(rendered)
                   THEN [i \in DOMAIN @ |-> IF @[i].locator = Locator[hit.chunk]
                                            THEN Citation(hit) ELSE @[i]]
                   ELSE Append(@, Citation(hit))]

(* One turn of the loop of render(); DuplicateLocator ends it.             *)
Cite(rendered, hit) ==
  IF rendered.error # "none" \/ Locator[hit.chunk] \in Cited(rendered)
  THEN [rendered EXCEPT !.error = "duplicate"]
  ELSE [rendered EXCEPT !.text = Append(@, Block(hit)),
                        !.citations = Append(@, Citation(hit))]

Render(included) == FoldLeft(Cite, NothingRendered, included)
=============================================================================
