----------------------------- MODULE Ingestion ------------------------------
(***************************************************************************)
(* app/services/ingestion.py driven by app/cli.py: processes that ingest,  *)
(* reindex or delete one file, over two stores that share no transaction.  *)
(*                                                                         *)
(*   Postgres      row, chunks and audit change only when a transaction    *)
(*                 commits.  The conditional UPDATE of transition() waits  *)
(*                 for a row lock and then re-reads the row.               *)
(*   vector store  changes at once, call by call, and never rolls back.    *)
(*                                                                         *)
(* One file of one user is enough: UNIQUE(user_id, sha256) keeps documents *)
(* of different content apart, in both stores.  The chunks a run cuts are  *)
(* one batch, [doc, run]: the same bytes give the same number of chunks,   *)
(* so chunk_count is counted in batches.  A document row is named by the   *)
(* run that inserted it (0: it was there at the start).                    *)
(***************************************************************************)
EXTENDS DocumentStatus, Integers, FiniteSets

CONSTANTS
  Workers,      \* CLI processes
  NoWorker,     \* nobody holds the lock on the documents row
  MaxRuns,      \* bound: commands issued in a behaviour
  StoreKinds,   \* which stores may be configured: TRUE the frozen one
  Crashes       \* TRUE: a process may die at any await

ASSUME IngestionAssumption ==
  /\ NoWorker \notin Workers
  /\ MaxRuns \in Nat
  /\ StoreKinds \subseteq BOOLEAN
  /\ Crashes \in BOOLEAN

VARIABLES
  row,          \* the committed documents row of the file
  chunks,       \* committed chunk rows
  audit,        \* audit[d]: statuses of the committed audit events of d
  frozen,       \* TRUE: ExactVectorStore, which refuses every write
  vectors,      \* the vector store
  rowLock,      \* holder of a DELETE lock on row in an open transaction
  pc,           \* pc[w]: the await worker w is at
  job,          \* job[w]: what worker w has in memory
  outcome,      \* outcome[w]: how the last command of w ended
  runs          \* commands issued so far

stores == <<row, chunks, audit, vectors>>
vars == <<row, chunks, audit, frozen, vectors, rowLock, pc, job, outcome, runs>>

NoDoc == -1
DocIds == 0 .. MaxRuns
Runs == 0 .. MaxRuns
Batch == [doc : DocIds, run : Runs]

Row == [id : DocIds \cup {NoDoc}, status : Status \cup {"absent"}, count : {0, 1}]
NoRow == [id |-> NoDoc, status |-> "absent", count |-> 0]

(* held is the ORM object as this session loaded it: expire_on_commit is   *)
(* off and transition() refreshes only its status, so count stays what it  *)
(* was.  mine is what the DELETE statement of the open transaction matched *)
Job == [op : {"none", "ingest", "reindex", "delete"}, net : BOOLEAN,
        run : Runs, held : Row, mine : SUBSET Batch]
NoJob == [op |-> "none", net |-> FALSE, run |-> 0, held |-> NoRow, mine |-> {}]

InFinalTransaction == {"delete_vectors", "embed", "upsert", "commit", "abandon"}
PC == {"idle", "lookup", "select", "resume", "create", "start", "parse", "chunk",
       "delete_chunks", "find", "erase_vectors", "erase_row", "cascade"}
        \cup InFinalTransaction
Outcome == {"none", "returned", "refused", "illegal", "not_found", "conflict",
            "unavailable", "deadlock", "crashed"}

Doc(w) == job[w].held.id
BatchesOf(d, store) == {b \in store : b.doc = d}

(* Rows an uncommitted DELETE of w has locked.                             *)
Locked(w) == IF pc[w] \in InFinalTransaction THEN job[w].mine ELSE {}

(* One step of w.  Which store is configured never changes.                *)
Goto(w, label) ==
  /\ pc' = [pc EXCEPT ![w] = label]
  /\ UNCHANGED frozen

(* mutant: the DELETE lock survives the session *)
FinishKeepsLock(w, how) ==
  /\ Goto(w, "idle")
  /\ job' = [job EXCEPT ![w] = NoJob]
  /\ outcome' = [outcome EXCEPT ![w] = how]
  /\ UNCHANGED <<rowLock, runs>>

(* The command ends; leaving the session rolls back whatever is open.      *)
Finish(w, how) ==
  /\ Goto(w, "idle")
  /\ job' = [job EXCEPT ![w] = NoJob]
  /\ outcome' = [outcome EXCEPT ![w] = how]
  /\ rowLock' = IF rowLock = w THEN NoWorker ELSE rowLock
  /\ UNCHANGED runs

-----------------------------------------------------------------------------
(* transition(): UPDATE ... WHERE id AND status IN predecessors, with the  *)
(* audit event of the same transaction.  path is one move, or the sweep    *)
(* and the retry; count the chunk_count written with it.                   *)
LegalById(w, to) == row.id = Doc(w)   \* mutant: no status in the WHERE clause
Legal(w, to) == row.id = Doc(w) /\ row.status \in LegalPredecessors[to]

Moved(path, count) ==
  /\ row' = [row EXCEPT !.status = path[Len(path)], !.count = count]
  /\ audit' = [audit EXCEPT ![row.id] = audit[row.id] \o path]

(* Zero rows matched: the caller's transaction is rolled back.             *)
TransitionRaises(w, to) ==
  /\ ~Legal(w, to)
  /\ Finish(w, IF row.id = Doc(w) THEN "illegal" ELSE "not_found")
  /\ UNCHANGED stores

(* A transition commits and the run goes on.                               *)
TransitionTo(w, path, label) ==
  /\ rowLock = NoWorker
  /\ \/ /\ Legal(w, path[1])
        /\ Moved(path, row.count)
        /\ Goto(w, label)
        /\ UNCHANGED <<chunks, vectors, rowLock, job, outcome, runs>>
     \/ TransitionRaises(w, path[1])

(* A transition commits and the document is returned.                      *)
TransitionLast(w, path) ==
  /\ rowLock = NoWorker
  /\ \/ /\ Legal(w, path[1])
        /\ Moved(path, row.count)
        /\ Finish(w, "returned")
        /\ UNCHANGED <<chunks, vectors>>
     \/ TransitionRaises(w, path[1])

-----------------------------------------------------------------------------
Init ==
  /\ \/ /\ row = NoRow
        /\ chunks = {}
        /\ audit = [d \in DocIds |-> << >>]
     \/ /\ row = [id |-> 0, status |-> "ready", count |-> 1]
        /\ chunks = {[doc |-> 0, run |-> 0]}
        /\ audit = [d \in DocIds |->
                      IF d = 0 THEN <<"queued", "parsing", "indexing", "ready">>
                               ELSE << >>]
  /\ vectors = chunks
  /\ frozen \in StoreKinds
  /\ rowLock = NoWorker
  /\ pc = [w \in Workers |-> "idle"]
  /\ job = [w \in Workers |-> NoJob]
  /\ outcome = [w \in Workers |-> "none"]
  /\ runs = 0

(* main(): a command is issued; each is a process and a session of its own *)
Begin(w, op, net) ==
  /\ pc[w] = "idle"
  /\ runs < MaxRuns
  /\ runs' = runs + 1
  /\ job' = [job EXCEPT ![w] = [NoJob EXCEPT !.op = op, !.net = net, !.run = runs + 1]]
  /\ Goto(w, CASE op = "ingest" -> "select"
               [] op = "reindex" -> "lookup"
               [] op = "delete" -> "find")
  /\ outcome' = [outcome EXCEPT ![w] = "none"]
  /\ UNCHANGED <<row, chunks, audit, vectors, rowLock>>

(* _cmd_reindex: the document is loaded by its id; its sha256 is the       *)
(* file's, and ingest_document is called with force.                       *)
Lookup(w) ==
  /\ pc[w] = "lookup"
  /\ \/ /\ row = NoRow
        /\ Finish(w, "not_found")
     \/ /\ row # NoRow
        /\ job' = [job EXCEPT ![w].held = row]
        /\ Goto(w, "select")
        /\ UNCHANGED <<rowLock, outcome, runs>>
  /\ UNCHANGED stores

(* The SELECT of ingest_document.  A row this session has loaded before is *)
(* not refreshed: its identity map keeps the older attributes.             *)
Found(w) == IF row # NoRow /\ Doc(w) = row.id THEN job[w].held ELSE row

Select(w) ==
  LET found == Found(w) IN
  /\ pc[w] = "select"
  /\ \/ /\ \/ found.status = "ready" /\ job[w].op # "reindex"
           \/ found.status = "quarantined"
        /\ Finish(w, "returned")
     \/ /\ found.status \in {"queued", "parsing", "indexing", "failed"}
             \/ (found.status = "ready" /\ job[w].op = "reindex")
        /\ job' = [job EXCEPT ![w].held = found]
        /\ Goto(w, "resume")
        /\ UNCHANGED <<rowLock, outcome, runs>>
     \/ /\ found = NoRow
        /\ job' = [job EXCEPT ![w].held = NoRow]
        /\ Goto(w, "create")
        /\ UNCHANGED <<rowLock, outcome, runs>>
  /\ UNCHANGED stores

(* The existing row is swept and requeued as the loaded status says.       *)
ResumePath(status) ==
  CASE status \in {"parsing", "indexing"} -> <<"failed", "queued">>
    [] status = "failed"                  -> <<"queued">>
    [] OTHER                              -> << >>

Resume(w) ==
  LET path == ResumePath(job[w].held.status) IN
  /\ pc[w] = "resume"
  /\ \/ /\ path # << >>
        /\ TransitionTo(w, path, "start")
     \/ /\ path = << >>
        /\ Goto(w, "start")
        /\ UNCHANGED <<stores, rowLock, job, outcome, runs>>

(* INSERT of a new row; a row committed since the SELECT makes it a        *)
(* violation of UNIQUE(user_id, sha256).                                   *)
CreateRow(w) ==
  LET new == [id |-> job[w].run, status |-> "queued", count |-> 0] IN
  /\ pc[w] = "create"
  /\ rowLock = NoWorker
  /\ \/ /\ row = NoRow
        /\ row' = new
        /\ audit' = [audit EXCEPT ![job[w].run] = <<"queued">>]
        /\ job' = [job EXCEPT ![w].held = new]
        /\ Goto(w, "start")
        /\ UNCHANGED <<chunks, vectors, rowLock, outcome, runs>>
     \/ /\ row # NoRow
        /\ Finish(w, "conflict")
        /\ UNCHANGED stores

Start(w) ==
  /\ pc[w] = "start"
  /\ TransitionTo(w, <<"parsing">>, "parse")

(* parse_file: pages, a ParseError, or one of kind UNSAFE_STRUCTURE.  The  *)
(* verdict on the same bytes may change between runs, with the parsers.    *)
Parse(w) ==
  /\ pc[w] = "parse"
  /\ \/ TransitionTo(w, <<"indexing">>, "chunk")
     \/ \E outcomeStatus \in {"failed", "quarantined"} :
          TransitionLast(w, <<outcomeStatus>>)

(* No chunk, or more than EMBEDDING_MAX_TOKENS_PER_DOC.                    *)
Unindexable(w) ==
  /\ pc[w] = "chunk"
  /\ TransitionLast(w, <<"failed">>)

(* raise NetworkNotAllowedError                                            *)
RefuseNetwork(w) ==
  /\ pc[w] = "chunk"
  /\ ~job[w].net
  /\ Finish(w, "refused")
  /\ UNCHANGED stores

(* mutant: the gate comes after the deletes *)
SendDeleteUngated(w) ==
  /\ pc[w] = "chunk"
  /\ job' = [job EXCEPT ![w].mine = BatchesOf(Doc(w), chunks)]
  /\ Goto(w, "delete_chunks")
  /\ UNCHANGED <<stores, rowLock, outcome, runs>>

(* DELETE FROM chunks is sent: its snapshot is the rows committed by now.  *)
SendDelete(w) ==
  /\ pc[w] = "chunk"
  /\ job[w].net
  /\ job' = [job EXCEPT ![w].mine = BatchesOf(Doc(w), chunks)]
  /\ Goto(w, "delete_chunks")
  /\ UNCHANGED <<stores, rowLock, outcome, runs>>

(* It returns once no other transaction has those rows locked; rows that   *)
(* are gone by then are skipped, rows inserted since are not seen.         *)
DeleteChunks(w) ==
  /\ pc[w] = "delete_chunks"
  /\ \A v \in Workers \ {w} : Locked(v) \cap job[w].mine = {}
  /\ job' = [job EXCEPT ![w].mine = job[w].mine \cap chunks]
  /\ Goto(w, "delete_vectors")
  /\ UNCHANGED <<stores, rowLock, outcome, runs>>

(* mutants: the wrong collection is emptied; a refusal is swallowed *)
VectorDeleteElsewhere(w, label) ==
  /\ Goto(w, label)
  /\ UNCHANGED <<stores, rowLock, job, outcome, runs>>
VectorDeleteSwallowed(w, label) ==
  /\ vectors' = IF frozen THEN vectors ELSE vectors \ BatchesOf(Doc(w), vectors)
  /\ Goto(w, label)
  /\ UNCHANGED <<row, chunks, audit, rowLock, job, outcome, runs>>

(* VectorStore.delete_by_document, in the store that is configured.        *)
VectorDelete(w, label) ==
  \/ /\ frozen
     /\ Finish(w, "unavailable")
     /\ UNCHANGED stores
  \/ /\ ~frozen
     /\ vectors' = vectors \ BatchesOf(Doc(w), vectors)
     /\ Goto(w, label)
     /\ UNCHANGED <<row, chunks, audit, rowLock, job, outcome, runs>>

DeleteVectors(w) ==
  /\ pc[w] = "delete_vectors"
  /\ VectorDelete(w, "embed")

Embed(w) ==
  /\ pc[w] = "embed"
  /\ \E label \in {"upsert", "abandon"} : Goto(w, label)
  /\ UNCHANGED <<stores, rowLock, job, outcome, runs>>

(* EmbeddingError: failed, together with the DELETE and, only if this      *)
(* session had loaded another value, with chunk_count = 0.                 *)
CountKept(w) == row.count             \* mutant: chunk_count is never reset
AbandonedCount(w) == IF job[w].held.count = 0 THEN row.count ELSE 0

Abandon(w) ==
  /\ pc[w] = "abandon"
  /\ rowLock = NoWorker
  /\ \/ /\ Legal(w, "failed")
        /\ Moved(<<"failed">>, AbandonedCount(w))
        /\ chunks' = chunks \ job[w].mine
        /\ Finish(w, "returned")
        /\ UNCHANGED vectors
     \/ TransitionRaises(w, "failed")

(* VectorStore.upsert.  A store that refuses writes has refused the delete *)
(* before, so nobody comes here with it.                                   *)
Upsert(w) ==
  /\ pc[w] = "upsert"
  /\ vectors' = vectors \cup {[doc |-> Doc(w), run |-> job[w].run]}
  /\ Goto(w, "commit")
  /\ UNCHANGED <<row, chunks, audit, rowLock, job, outcome, runs>>

(* The last flush and commit: the DELETE, the INSERT of the chunk rows,    *)
(* ready, chunk_count.  A row that is gone or not indexing rolls it back.  *)
(* mutant: the new rows are flushed before the DELETE *)
ChunksWrittenFirst(w) ==
  {b \in chunks \cup {[doc |-> Doc(w), run |-> job[w].run]} : b.doc # Doc(w)}
ChunksWritten(w) ==
  (chunks \ job[w].mine) \cup {[doc |-> Doc(w), run |-> job[w].run]}

CountAdded == row.count + 1           \* mutant: added to, not set
CountWritten == 1

Commit(w) ==
  /\ pc[w] = "commit"
  /\ rowLock = NoWorker
  /\ \/ /\ Legal(w, "ready")
        /\ Moved(<<"ready">>, CountWritten)
        /\ chunks' = ChunksWritten(w)
        /\ Finish(w, "returned")
        /\ UNCHANGED vectors
     \/ TransitionRaises(w, "ready")

-----------------------------------------------------------------------------
(* _cmd_delete loads the document, asks, and calls delete_document.        *)
Find(w) ==
  /\ pc[w] = "find"
  /\ \/ /\ row = NoRow
        /\ Finish(w, "not_found")
     \/ /\ row # NoRow
        /\ job' = [job EXCEPT ![w].held = row]
        /\ Goto(w, "erase_vectors")
        /\ UNCHANGED <<rowLock, outcome, runs>>
  /\ UNCHANGED stores

(* The operator answers no at the prompt.                                  *)
DeclineErase(w) ==
  /\ pc[w] = "erase_vectors"
  /\ Finish(w, "returned")
  /\ UNCHANGED stores

EraseVectors(w) ==
  /\ pc[w] = "erase_vectors"
  /\ VectorDelete(w, "erase_row")

(* DELETE FROM documents locks the row, and finds nothing if it is gone.   *)
EraseRow(w) ==
  /\ pc[w] = "erase_row"
  /\ rowLock = NoWorker
  /\ \/ /\ row.id = Doc(w)
        /\ rowLock' = w
        /\ Goto(w, "cascade")
        /\ UNCHANGED <<job, outcome, runs>>
     \/ /\ row.id # Doc(w)
        /\ Finish(w, "returned")
  /\ UNCHANGED stores

(* ON DELETE CASCADE waits for the chunk rows others have locked.          *)
Cascade(w) ==
  /\ pc[w] = "cascade"
  /\ \A v \in Workers \ {w} : Locked(v) \cap BatchesOf(Doc(w), chunks) = {}
  /\ row' = NoRow
  /\ chunks' = chunks \ BatchesOf(Doc(w), chunks)
  /\ Finish(w, "returned")
  /\ UNCHANGED <<audit, vectors>>

(* v waits for the row w has locked, w for chunk rows v has locked:        *)
(* Postgres fails the statement of either.                                 *)
Deadlocked(v, w) ==
  /\ pc[v] \in {"commit", "abandon"}
  /\ pc[w] = "cascade"
  /\ Locked(v) \cap BatchesOf(Doc(w), chunks) # {}

DeadlockVictim(w) ==
  /\ \E v \in Workers : Deadlocked(v, w) \/ Deadlocked(w, v)
  /\ Finish(w, "deadlock")
  /\ UNCHANGED stores

(* The process dies.  Its transaction rolls back; what it did to the       *)
(* vector store stays.                                                     *)
Crash(w) ==
  /\ Crashes
  /\ pc[w] # "idle"
  /\ Finish(w, "crashed")
  /\ UNCHANGED stores

-----------------------------------------------------------------------------
IngestStep(w) ==
  \/ Select(w) \/ Resume(w) \/ CreateRow(w) \/ Start(w) \/ Parse(w)
  \/ Unindexable(w) \/ RefuseNetwork(w) \/ SendDelete(w) \/ DeleteChunks(w)
  \/ DeleteVectors(w) \/ Embed(w) \/ Abandon(w) \/ Upsert(w) \/ Commit(w)

CommandStep(w) ==
  \/ Lookup(w) \/ IngestStep(w)
  \/ Find(w) \/ DeclineErase(w) \/ EraseVectors(w) \/ EraseRow(w) \/ Cascade(w)
  \/ DeadlockVictim(w)

Next ==
  \E w \in Workers :
    \/ \E op \in {"ingest", "reindex", "delete"}, net \in BOOLEAN : Begin(w, op, net)
    \/ CommandStep(w)
    \/ Crash(w)

Spec == Init /\ [][Next]_vars

(* A command is straight-line code: nothing but a lock can hold it up, and *)
(* Postgres grants locks and breaks cycles.  Nobody has to issue commands  *)
(* and nobody has to crash.                                                *)
FairSpec == Spec /\ \A w \in Workers : WF_vars(CommandStep(w))

-----------------------------------------------------------------------------
TypeOK ==
  /\ row \in Row
  /\ chunks \subseteq Batch
  /\ audit \in [DocIds -> Seq(Status)]
  /\ frozen \in BOOLEAN
  /\ vectors \subseteq Batch
  /\ rowLock \in Workers \cup {NoWorker}
  /\ pc \in [Workers -> PC]
  /\ job \in [Workers -> Job]
  /\ outcome \in [Workers -> Outcome]
  /\ runs \in 0 .. MaxRuns

Quiet == \A w \in Workers : pc[w] = "idle"

(* ---- true of any number of processes, with crashes ------------------- *)

(* The two stores of Postgres implement the abstract life of a document:   *)
(* every committed transaction is a legal move (or the sweep-and-retry     *)
(* pair) recorded in the audit trail, and there is never a second live row *)
(* for the file (status.py:86-148, document.py UNIQUE(user_id, sha256)).   *)
Lifecycle == INSTANCE DocumentLifecycle WITH
  status <- [d \in DocIds |-> IF row.id = d THEN row.status ELSE "absent"],
  trail <- audit

ImplementsLifecycle == Lifecycle!LifecycleSpec

(* A document that says ready has chunk rows and a chunk_count that claims *)
(* them, and chunk rows never outlive their document: no interleaving of   *)
(* sweeps, reindexes, failures and crashes can commit the DELETE of the    *)
(* old chunk rows while the row stays or becomes ready without new ones    *)
(* (ingestion.py:218-276).                                                 *)
ReadyHasChunks == row.status = "ready" => chunks # {} /\ row.count = 1
ChunksHaveRow == \A b \in chunks : b.doc = row.id
ReadyIsSearchable == ReadyHasChunks /\ ChunksHaveRow

(* Quarantine is final: whatever stale command still runs on the document, *)
(* its row and its chunk rows stay as they are until it is deleted         *)
(* (ingestion.py:130-132, status.py:43).                                   *)
QuarantineIsFinal ==
  [][row.status = "quarantined" => \/ row' = NoRow
                                   \/ row' = row /\ chunks' = chunks]_<<row, chunks>>

(* Every command ends, whoever else runs: waiting for the rows a DELETE or *)
(* a CASCADE has locked never becomes waiting for ever.                    *)
CommandsEnd == \A w \in Workers : pc[w] # "idle" ~> pc[w] = "idle"

(* ---- true when one command runs at a time, with crashes -------------- *)

(* chunk_count is the number of chunk rows at every commit, on every path: *)
(* success, each failure, a crash anywhere, and the runs that repair one.  *)
CountMatchesRows == Cardinality(chunks) = row.count

(* No vector outlives its document: a crash leaves at most vectors the     *)
(* next ingest, reindex or delete of the document will find and remove     *)
(* (ingestion.py:223, 287).                                                *)
NoOrphanVectors == \A b \in vectors : b.doc = row.id

(* A command that may not use the network, and was not interrupted before, *)
(* leaves what can be searched alone: as long as no command was given      *)
(* --allow-network or asked to delete, both stores hold what they held     *)
(* (the gate of ingestion.py:207-216 stands before both deletes).          *)
GateBeforeDestruction ==
  [][(\A w \in Workers : ~job[w].net /\ job[w].op # "delete")
       => UNCHANGED <<chunks, vectors>>]_vars

(* ---- the shipped configuration: the frozen store --------------------- *)

(* With the read-only store no command whatever, deletes included, removes *)
(* a chunk row or a vector that search depends on (ingestion.py:222-223,   *)
(* 287-289; vector_store.py:310-327 raise before the commit).              *)
FrozenKeepsCorpus ==
  [][frozen => UNCHANGED <<chunks, vectors>>]_<<chunks, vectors>>

(* ---- what a comment or a document says, and the code does not do ----- *)

(* "a refusal has zero side effects": the row is as the run found it       *)
(* (ingestion.py:43-45, 114-115; README.md:108).                           *)
RefusalHasNoSideEffects ==
  [][\A w \in Workers :
       pc[w] = "chunk" /\ outcome'[w] = "refused" /\ job[w].held.status = "ready"
         => row'.status = job[w].held.status]_vars

(* "re-ingesting an already-ready document is a no-op that spends nothing, *)
(* unless force=True" (ingestion.py:91-93).                                *)
OnlyForceReopensReady ==
  [][row.status = "ready" /\ row'.status = "parsing"
       => \E w \in Workers : job[w].op = "reindex" /\ pc[w] = "start"
                             /\ pc'[w] # "start"]_vars

(* "Delete the document row (chunks CASCADE at the DB level) and its       *)
(* vectors from the vector store" (ingestion.py:283-284): a delete that    *)
(* returned left nothing behind once no command runs.                      *)
DeletedLeavesNothing == Quiet /\ row = NoRow => vectors = {}
=============================================================================
