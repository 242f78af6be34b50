------------------------------ MODULE CliStats ------------------------------
(***************************************************************************)
(* `python -m app.cli stats` beside the commands of Ingestion.tla.  It     *)
(* reads the documents rows, and then, at a later instant, counts the      *)
(* vectors of each row that was in a terminal status, and warns when the   *)
(* count is not the row's chunk_count (cli.py:377-441).                    *)
(***************************************************************************)
EXTENDS Ingestion

VARIABLES
  stats,        \* the row stats read, what it is doing, and its verdict
  calm          \* history: no command has taken a step since stats read it

statsVars == <<vars, stats, calm>>

Terminal == {"ready", "failed", "quarantined"}

MismatchSurplus(r, actual) == actual > r.count   \* mutant: only a surplus warns
(* The comparison: actual is the number of vectors counted for the row.    *)
Mismatch(r, actual) == actual # r.count

StatsInit ==
  /\ Init
  /\ stats = [at |-> "rows", read |-> NoRow, verdict |-> "none"]
  /\ calm = FALSE

(* SELECT id, filename, status, chunk_count FROM documents                 *)
ReadRows ==
  /\ stats.at = "rows"
  /\ row # NoRow
  /\ stats' = [at |-> "vectors", read |-> row, verdict |-> "none"]
  /\ calm' = TRUE
  /\ UNCHANGED vars

(* count_by_document for the terminal rows; the others are only counted.   *)
CountVectors ==
  /\ stats.at = "vectors"
  /\ stats' = [stats EXCEPT
       !.at = "rows",
       !.verdict =
         IF stats.read.status \notin Terminal THEN "in_progress"
         ELSE IF Mismatch(stats.read, Cardinality(BatchesOf(stats.read.id, vectors)))
              THEN "mismatch" ELSE "clean"]
  /\ UNCHANGED <<vars, calm>>

StatsNext ==
  \/ ReadRows
  \/ CountVectors
  \/ Next /\ calm' = FALSE /\ UNCHANGED stats

StatsSpec == StatsInit /\ [][StatsNext]_statsVars

-----------------------------------------------------------------------------
(* When nothing runs while stats looks, its verdict on a ready document is *)
(* the truth about both stores, though it compares two numbers and never   *)
(* an id: clean means each chunk row has its vector and the other way      *)
(* round, and a warning about any document means some are missing.         *)
QuietVerdictIsTrue ==
  calm /\ Quiet /\ stats.at = "rows" =>
    /\ stats.verdict = "clean" /\ stats.read.status = "ready" => vectors = chunks
    /\ stats.verdict = "mismatch" => vectors # chunks
=============================================================================
