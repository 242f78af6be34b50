--------------------------- MODULE DocumentStatus ---------------------------
(***************************************************************************)
(* The table of app/documents/status.py: the six statuses a `documents`    *)
(* row can have and the moves `transition()` accepts.  Constant operators  *)
(* only, so that every module about documents reads the same table.        *)
(***************************************************************************)
EXTENDS Sequences, Naturals

Status == {"queued", "parsing", "indexing", "ready", "failed", "quarantined"}

(* mutant: a way out of quarantine *)
LegalTransitionsReopened ==
  [s \in Status |->
     CASE s = "queued"      -> {"parsing", "quarantined", "failed"}
       [] s = "parsing"     -> {"indexing", "quarantined", "failed"}
       [] s = "indexing"    -> {"ready", "failed"}
       [] s = "ready"       -> {"parsing"}
       [] s \in {"failed", "quarantined"} -> {"queued"}]

LegalTransitions ==
  [s \in Status |->
     CASE s = "queued"      -> {"parsing", "quarantined", "failed"}
       [] s = "parsing"     -> {"indexing", "quarantined", "failed"}
       [] s = "indexing"    -> {"ready", "failed"}
       [] s = "ready"       -> {"parsing"}
       [] s = "failed"      -> {"queued"}
       [] s = "quarantined" -> {}]

(* The inverted table: the WHERE clause of the conditional UPDATE.         *)
LegalPredecessors ==
  [to \in Status |-> {from \in Status : to \in LegalTransitions[from]}]

(* A sequence of statuses in which every step is a legal move.             *)
LegalPath(path) ==
  \A i \in 1 .. Len(path) - 1 : path[i + 1] \in LegalTransitions[path[i]]

(* The entries of path continue a document that now has status from.       *)
LegalFrom(from, path) ==
  /\ path # << >>
  /\ path[1] \in LegalTransitions[from]
  /\ LegalPath(path)
=============================================================================
