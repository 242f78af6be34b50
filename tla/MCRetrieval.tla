----------------------------- MODULE MCRetrieval ----------------------------
(***************************************************************************)
(* RetrievalPipeline over chunks two of which are the same span of the     *)
(* same document.                                                          *)
(***************************************************************************)
EXTENDS RetrievalPipeline

SmallLocators == <<1, 2, 3, 4, 4>>
=============================================================================
