# A TLA+ verification of the RAG reliability system

The repository holds a small retrieval-augmented question answering service: a
command line that ingests documents into Postgres and a vector store, an HTTP
server that answers questions over them, and scripts that measure it and fetch
what it needs. The modules here model its core logic, check it with TLC on small
instances, and prove most of it with TLAPS for every instance. Paths below are
relative to the repository's root; a comment `file.py:n` in a module points at
the code it is about.

## 1. Inventory

| Component | Source | State it keeps | Operations | Hard behaviour |
|---|---|---|---|---|
| document status table | `app/documents/status.py`, `app/db/models/document.py` | `documents.status`, audit events | `transition`, start-up enum check | conditional UPDATE between concurrent runs |
| ingestion | `app/services/ingestion.py` | rows, chunk rows, vectors | `ingest_document`, `delete_document` | two stores without a common transaction, many short commits, crashes, races, row locks |
| command line | `app/cli.py` | one process and session per command | ingest, reindex, delete, list, stats, query, evaluate | consent to spend, stale reads, `stats` beside running commands |
| parsing | `app/services/parsing/` | pages | sniff, guards, three formats | page windows, refusal of unsafe files |
| chunking | `app/services/chunking.py` | offsets | sentence spans, hard split, packing, overlap | off-by-one, progress, offsets over pages |
| embeddings | `app/services/embeddings.py` | batches, attempts | `embed` | two caps, retries, placing of results |
| vector store | `app/services/vector_store.py` | vectors; the frozen corpus | upsert, delete, query, counts, load | read-only store, ties, three files read while they are replaced |
| retrieval | `app/services/retrieval.py` | none | two arms, fusion, far-field gate | ordering across stages |
| reranking | `app/services/reranking.py` | weights; one executor thread | verify, load, score, rank | files opened twice, queueing, failure |
| context budget | `app/services/context_budget.py` | none | `plan_context` | edge of the window |
| provenance | `app/services/provenance.py` | none | `render` | text and citations in lockstep |
| rate limiter, guard | `app/core/security.py` | four counters | `acquire`, `guard_query` | windows, order of charges |
| query endpoint | `app/api/v1/query.py`, `app/core/errors.py` | one request | retrieve, judge, plan, generate | interleaved requests, a shared pool, failures everywhere |
| generation | `app/services/generation.py` | none | one provider call | failure kinds |
| evaluation | `app/services/evaluation.py`, `scripts/chunk5_benchmark.py`, `scripts/chunk7_scores.py` | query-vector cache, reports | resolve spans, metrics, gate, near misses, stop condition | stale gold, calls of different depth compared, offsetting movements |
| start-up, health | `app/main.py`, `app/api/v1/health.py` | process state | lifespan, readiness | fatal and non-fatal failures, the shared pool, the lazily loaded corpus |
| downloads and exports | `scripts/fetch_reranker_model.py`, `scripts/fetch_tiktoken_cache.py`, `scripts/export_vectors.py` | files the server starts from | download, verify, rename, overwrite | interruption, replacement under a running server |
| the rest | configuration, logging, middleware, ids, migrations, injection scanner, two checking scripts | | | no state that the above depends on |

How they interact. A command opens a session, moves a `documents` row through
`transition` (a conditional UPDATE and an audit event in one transaction), calls
the parser and the chunker in between, and in one last transaction deletes the
old chunk rows, calls the vector store and the embedder, and inserts the new
rows. The vector store is changed at once, by calls that never roll back. The
server shares one limiter, one connection pool, one reranker thread, one frozen
corpus and two providers between all requests; a request holds its connection
from its first statement until `retrieve()` is left, and readiness checks draw on
the same pool. The scripts share nothing with the server but files. What
ingestion cuts is what retrieval returns, the budget counts, provenance renders
and evaluation looks up again by offset.

What makes each part correct is stated with its modules in section 3; the
hazards are listed one by one, with source lines, in `PROJECT.json`.

## 2. Modules

| Module | Extends | Models |
|---|---|---|
| `DocumentStatus` | | the table of legal moves |
| `DocumentLifecycle` | DocumentStatus | abstract specification: the life of one uploaded file |
| `Ingestion` | DocumentStatus | processes that ingest, reindex and delete, over both stores |
| `CliStats` | Ingestion | `stats` beside them |
| `Parsing`, `Chunking`, `Indexing` | in that order | one file: pages, chunks, batched embedding |
| `GoldSpans` | Indexing | golden spans found again in what was cut |
| `Retrieval`, `ContextBudget`, `Provenance` | in that order | pure operators of the query path |
| `RetrievalPipeline` | Provenance | one question through all of them |
| `Evaluation` | Retrieval | a golden set through retrieval, before and after the reranker, and what is reported |
| `RateLimiter` | | the limiter alone |
| `QueryService` | RateLimiter, ContextBudget | the server: requests and readiness checks that interleave |
| `Artifacts` | | the server's start-up and corpus, beside the scripts that replace its files |
| `MCIndexing`, `MCRetrieval`, `MCServing`, `MCEvaluation` | | small values for TLC |
| `DocumentLifecycle_proofs`, `Ingestion_proofs`, `Artifacts_proofs` | the module they name | theorems |
| `Indexing_proofs` | GoldSpans | theorems on pages, chunks, offsets, golden spans and batches |
| `Retrieval_proofs` | ContextBudget | lemmas on sorting, fusion, the pool, the hits and the plan |
| `Pipeline_proofs` | RetrievalPipeline, Retrieval_proofs | theorems on one question |
| `Evaluation_proofs` | Evaluation, Retrieval_proofs | theorems on what an evaluation reports |
| `QueryService_proofs` | QueryService, Retrieval_proofs | theorems on the limiter and on the server |

### State and actions against the code

*Ingestion.* One file of one user (`UNIQUE(user_id, sha256)` keeps others
apart). `row`, `chunks` and `audit` are the committed state of Postgres and
change only in an action that commits; `vectors` changes call by call. `pc[w]`
is the await worker `w` is at and `job[w]` what it has in memory, in particular
the row as its session loaded it: `expire_on_commit=False` and the identity map
make it stale, and the model keeps it stale. `Legal` is the WHERE clause of
`transition`. A batch is the set of chunks one run cuts (`[doc, run]`), so
`chunk_count` counts batches. `SendDelete` and `DeleteChunks` separate the
snapshot of the DELETE from its return, because a row inserted in between is not
seen. `EraseRow`, `Cascade` and `DeadlockVictim` are Postgres's row locks and its
deadlock breaker, modelled from how the code uses them. `Crash` may happen at
any await. `frozen` chooses the store that refuses writes.

*Parsing, Chunking, Indexing.* Characters are kept as far as the code looks at
them: ink, a stop that a capital follows, a space, a newline, and any other blank
(`tab`), which `\s` and `strip()` know and the two `rfind` calls of pagination do
not. `Paginate` is one window of `synthetic_paginate`; a PDF or DOCX may bring its
own pages. `Atomize`,
`Extend`, `Emit`, `CarryBack` and `Advance` are the iterations of the loops of
`chunking.py`, `NextPage` its outer one. `Gather`, `CloseLast`, `BatchEmbedded`,
`AttemptFailed` and `BatchRejected` are the embedder. `TokensUpTo` (tokens of the
first texts) and `PageEnd` (where a page ends in the canonical text) are
recursive functions, so that they can be proved about. The empty span
`_sentence_spans` may put last always joins the chunk before it and is left out.

*Retrieval path.* A chunk is a number, its place in id order. `NearestArms` is
the exact search: with ties at the cut, any of the tied rows may stay. RRF terms
are exact integers over a common denominator, where the code has floats. Every
`sorted()` is `Arranged`: an element stands behind as many as go before it, which
is the sorted list whenever the key tells the elements apart, as all keys here do
(the fused dict is sorted with the place of insertion, which is what a stable sort
falls back on). `PlanContext` folds `Consider` over the hits as `plan_context` loops; `Render`
folds `Cite`. `RetrievalPipeline` goes through the stages in one behaviour and
forgets what later stages cannot read.

*Evaluation.* Nothing a run reads changes under it, so `Init` draws what every
entry of the golden set will measure from all worlds (`Worlds`: what each search
finds, what the reranker says of every chunk), by `Measure` and `Row`, which call
the operators of `Retrieval` at the depths the code asks for: the whole pool for
`_both_passes`, one hit for the decision of a near-miss entry. What the scripts
keep as a sorted list of scores is `Sorted` of the function that scores whatever
is listed: its k-th value is the least that k of them do not exceed. The actions are the
gate and the passes, entry by entry; `Gate` is a choice, because the recorded
figures are of some corpus. `GoldBest`, `LureTop` and `NonGoldTop` are populations
(a), (b) and (c); `Stop` is `_stop_condition`.

*Serving.* `pc[r]` is the await request `r` is at. `Guard` is one step because
`acquire()` has no await. `pool` holds the requests with a connection, `pinging`
the readiness checks with one (`Ping`, `Pong`), `queue` is the reranker's executor
with its one thread. Every action has the failing outcomes of what it awaits;
`Raise` is an exception leaving the session and turning into the response its
handler gives. The clock ticks on its own.

*Artifacts.* A downloaded file is whole and right, whole and wrong, or short;
what one export writes carries its number, and a digest is what it is a digest
of; `sized` are the exports whose count, type and dimensions are those the server
expects. Each script is a process that opens, streams, checks and renames, or opens
and fills in place, and may crash in between. `Boot`, `Verify`, `Load`, `Counter`,
`Probe` are the lifespan's stages in their order; `ReadManifest`, `ReadVectors` and
`ReadText` are `_load_corpus`, which the scripts do not wait for although the
event loop does; `ReadVectors` compares the digest and then count, type and
dimensions. `Stop` is a shutdown or crash at any stage. The history variable
`replaced` holds the weight files replaced since they were verified.

## 3. Runs

All bounds are constants of the `.cfg` files. A run marked V checks one statement
of the repository that the code does not keep, and TLC finds the
counterexample.

| Run | Question | Properties |
|---|---|---|
| `IngestRaces` | two processes, three commands, crashes | `TypeOK`, `ReadyIsSearchable`, `ImplementsLifecycle`, `QuarantineIsFinal`, `CommandsEnd` |
| `IngestSolo` | one command at a time, crashes, either store, `stats` beside it | `CountMatchesRows`, `NoOrphanVectors`, `QuietVerdictIsTrue`, `GateBeforeDestruction`, `FrozenKeepsCorpus` |
| `RefusalEffects` V | has a refused spend no side effect? | `RefusalHasNoSideEffects` |
| `UnforcedReindex` V | does only force reopen a ready document? | `OnlyForceReopensReady` |
| `DeleteLeftovers` V | does a delete leave nothing? | `DeletedLeavesNothing` |
| `Indexing` | every text of up to seven characters (six where one of them is a tab), all formats | `WordsSurvivePagination`, `InkIsIndexed`, `SentencesStayWhole`, `ChunksFit`, `OffsetsIncrease`, `ChunksStayOnTheirPage`, `VectorsAreTheirOwn`, `RequestsFit`, `GoldSpansResolve` |
| `OverlapBound` V | is the overlap within `overlap_chars`? | `OverlapIsBounded` |
| `Retrieval` | every outcome of search, reranker and token counter | `FusionRespectsBothArms`, `BestOfEachArmIsReranked`, `JudgedIsFirstCited`, `PromptFits`, `OnlyTheUnfittingIsDropped`, `VerdictSpeaksOfTheCorpus`, `CitationsFollowTheText` |
| `Evaluation` | every golden set over every small corpus, search and scoring | `LossesAreLocated`, `HarnessesAgree`, `SeparableMeansQuiet` |
| `Serving` | three requests and a readiness check over minutes and days, all failures | `BudgetHolds`, `ChargesAreAdmissions`, `NoConnectionIsLeaked`, `SpendIsBounded`, `AnswersCiteWhatWasRead`, `RetryAfterIsExact` |
| `ServingEnds` | is every request answered? | `EveryRequestIsAnswered` |
| `Artifacts` | the server beside two exports and both downloads, crashes | `CorpusIsOneExport`, `ServedWeightsAreVerified`, `FetchesDoNoHarm`, `CorpusHeals` |

What they show:

- **Ingestion.** However two processes race and crash, the committed history of
  a file is a history of `DocumentLifecycle` (legal moves only, each audited,
  one live row), a document that says `ready` has chunk rows, quarantine is
  left only by deletion, and every command ends. With one command at a time
  `chunk_count` is right at every commit and vectors never outlive their
  document. What does not hold is in the V runs: the refusal that leaves a ready
  document `indexing`, the plain ingest that reopens a ready one, and the vectors
  a delete leaves behind. What needs two processes (`IngestRaces`,
  `UnforcedReindex`, `DeleteLeftovers`) is about a store that takes writes, which
  the `VectorStore` protocol and `ingestion.py` allow for; the command line as it
  is shipped opens the frozen one, and meets `FrozenKeepsCorpus` and
  `RefusalEffects` instead.
- **Indexing.** A page boundary falls inside a stretch of text between two
  separators (space or newline) only when that stretch is as long as a window; no
  character that is not blank is lost, no sentence that fits is torn, chunks keep
  their size, order and page, vectors go to the chunk they were computed from, and
  a golden span that lies in one sentence is found again (one that crosses a
  sentence boundary may have no owner, and `evaluation.py:201-203` raises for it;
  those spans are outside the property). The comment on
  the overlap does not hold: one whole sentence is carried whatever its length
  (with the defaults, sentences of 101, 1800 and 501 characters give the chunks
  [0,1901), [101,1901), [1901,2402)).
- **Retrieval.** The stages agree with each other on what is first, what fits
  and what is cited, over all outcomes, ties included. Two chunks of one span are
  refused rather than merged. Such chunks can really exist: with `IngestRaces`'
  bounds (two processes, three commands) two runs can leave both their batches,
  when a forced reindex makes the row `indexing` again between the DELETE and
  the commit of the other run.
- **Evaluation.** Every gold chunk the reranker pushes out of the top is still
  scored and has its displacers beside it; the net of gains and losses is the
  movement of the figure; an arm's near-miss rate and the score reported for the
  same lure speak of the same hit; and the stop condition stays silent when the
  populations are apart. The last holds for entries of one gold chunk, which is
  what `load_golden_set` makes of version 3 of the golden set. With two, which
  version 2 allows, TLC finds it false: the better of the two is what is reported
  as the entry's score, and the loss of the other fires the low side.
- **Serving.** Limits, money, connections, citations and `Retry-After` are right
  in every interleaving, and nobody waits for ever.
- **Artifacts.** The corpus that is searched never mixes two exports and is
  never one of another size than the frozen corpus. A weight that scores and is
  not the pinned one is one whose own file a fetch replaced between its
  verification and its loading: the code leaves that window open
  (`reranking.py:312-350` opens the files again by name), and the property says
  that nothing else gets through. An interrupted download leaves what is in place
  usable. The corpus is loaded without a restart once its files agree and have
  the expected count and shape; an export of another size agrees with itself and
  is refused for ever, as `vector_store.py:180-184` and `245-254` intend.

Observations met on the way, for which there is no run:

- Pagination. `base.py:63-65` says a page "never splits a word". A word that fills
  the window is split; so is a shorter one when the only blank in the window is
  neither a newline nor a space, since `base.py:76-78` look for those two alone
  while `chunking.py:35` and `110` take any white space. With pages of 4,
  `aa<TAB>bbbbb` becomes `aa<TAB>b` and `bbbb`, and `ab<TAB>cd` becomes `ab<TAB>c`
  and `d`. Stated for words instead of stretches, TLC finds
  `WordsSurvivePagination` false on a text of five characters. `_hard_split`, "at
  word boundaries" (`chunking.py:69`), looks only for a space (79).
- Ingestion. Setting `chunk_count` to the value the session loaded writes
  nothing (`ingestion.py:224-226`), so a run that fails to embed can leave the
  count of another run behind. `stats` only counts a row left `indexing` by a
  crash as in progress, though `cli.py:397-402` says it catches the half-state.
  `README.md:169-170` of the repository says a frozen ingest spends the embedding
  first, but `ingestion.py:223` is refused before it.
- Query path. The gate reads the first hit after reranking while its message
  speaks of the nearest passage (`query.py:58-62`), so `abstain` does not mean the
  corpus is far (`VerdictSpeaksOfTheCorpus` states what is true). A first hit found
  by full text only makes the retrieval unjudgeable, a 503, with both arms healthy
  (`errors.py:170-173` speaks of a degraded arm). `EmbeddingError` and `RerankError`
  have no handler and become 500s, though `reranking.py:84-85` says the serving
  layer degrades.
- Start-up. Without `corpus_text.json` readiness is 200 while every query is a 503
  until a restart, because the corpus without its text is kept
  (`vector_store.py:295-298`, `339-341`). The enum drift check is skipped for the
  life of the process when Postgres cannot be reached at boot.
- Scripts. `fetch_reranker_model.py:94-96` says a reader never sees a half-written
  file; two fetches at once share one `.part` file and can put one in place.
  Running it again replaces verified weights before it verifies the new ones. An
  export overwrites its outputs in place: a crash leaves files no start can load
  until it is repeated.
- Evaluation. `evaluation.py:702-704` calls `worst` what `max` selects.
  `chunk7_scores.py:318-325` notes "entirely above" also when the gold scores lie
  entirely below. `AGGREGATION_NOTE` speaks of several gold chunks per question
  but the resolution adds the first owner only. The manifest of
  `chunk5_benchmark.py:202-206` names `HeuristicCharCounter` while tiktoken counts.

### Bounds, and why they are enough

- Two processes are what each race needs; three commands let a third one run
  between two steps of the first two (the duplicate batches above need exactly
  that). `MaxRuns = 4` in `IngestSolo` is crash, repair, and a command each side.
- Seven characters (six with a tab, of which there is at most one) with pages of
  4, chunks of 5 and an overlap of 4 give several
  pages, several chunks on a page, hard splits, every kind of boundary and
  batches closed by either cap (`MaxTexts = 2`, `MaxTokens = 3`).
- Arms of three over five chunks leave chunks outside each arm, in both, and cut
  by the pool of four; three token sizes give fitting, skipped and oversized hits.
- In `Evaluation` arms of two over four chunks, a pool of three and a decision on
  two put gold in the pool and below the cut; three scores give a median with
  something on either side; two answerable entries can gain and lose at once.
- Three requests against limits of one a minute and two a day, with four minutes
  a day, make each limit refuse first in some behaviour, and by more than one
  second; the clock crosses minutes and a day; two connections for three requests
  and a readiness check make some wait. Symmetry over requests is used in the
  safety run only.
- In `Artifacts` two exporters may write at once, and two jobs (`MaxJobs`) are an
  export or fetch that crashes and one that repairs, or one that interferes, each
  export of the expected size or not.

### Fairness

Commands are straight-line code, so `CommandsEnd` assumes weak fairness of each
worker's steps, and Postgres's promise to grant free locks and break cycles;
starting a command and crashing are not fair. `EveryRequestIsAnswered` assumes
weak fairness of every request's step and of the executor thread: the event loop
runs what is ready, the pool gives up after `db_pool_timeout`, both providers
have HTTP timeouts, inference is finite. Readiness checks need not be fair, and
nothing is assumed of the clock. `CorpusHeals` assumes weak fairness of the loader
only, because a deployed server is polled at `/health/ready` and every poll asks
for the corpus; the scripts and the restarts are not fair. The deadlock check is
off where a system that has nothing left to do stops.

## 4. Proofs

Checked by TLAPS for every value of the constants, under the assumptions the
modules name (`IngestionAssumption`, `LimiterAssumption`, `ServiceAssumption`,
`RetrievalAssumption`, `BudgetAssumption`, `ParsingAssumption`,
`ChunkingAssumption`, `EmbeddingAssumption`, `PipelineAssumption`,
`EvaluationAssumption`, `ArtifactsAssumption`; TLC evaluates each of them).

| Theorem | Says |
|---|---|
| `LifecycleIsSafe` | the abstract specification keeps one live row and a trail that ends in its status |
| `IngestionTypeOK`, `IngestionReadyIsSearchable`, `IngestionQuarantineIsFinal`, `IngestionFrozenKeepsCorpus`, `IngestionGateBeforeDestruction` | the properties of those names |
| `IngestionImplementsLifecycle` | every step of `Ingestion` is a step of `DocumentLifecycle` or a stutter |
| `IngestionTrailTellsTheStory` | so every audit trail is a legal path from `queued` to the status its row has |
| `IngestionCountMatchesRows`, `IngestionNoOrphanVectors` | the properties of those names, when there is one worker (`Alone`) |
| `StatsVerdictIsTrue` | `QuietVerdictIsTrue` of `CliStats`, beside one worker |
| `LimiterHoldsTheBudget` | the limiter alone: no window admits more than its limit |
| `ServiceImplementsLimiter` | every step of `QueryService` is a step of `RateLimiter` or leaves the limiter alone |
| `ServiceHoldsTheBudget`, `ServiceChargesAdmissions`, `ServiceTellsWhenToRetry` | the same inside the server; counters are admissions; `RetryAfterIsExact` |
| `ServiceLeaksNoConnection`, `ServiceBoundsTheSpend` | the pool, the money |
| `ServiceCitesWhatWasRead` | `AnswersCiteWhatWasRead` |
| `StagesAgree` | what one question keeps from stage to stage (`PipelineInv`) |
| `PipelineFusesInOrder`, `PipelineReranksTheBest` | `FusionRespectsBothArms`; `BestOfEachArmIsReranked`, when the pool is deeper than an arm |
| `PipelineJudgesTheCorpus` | `VerdictSpeaksOfTheCorpus` |
| `PipelineFitsThePrompt`, `PipelineDropsTheUnfitting` | `PromptFits`, `OnlyTheUnfittingIsDropped` |
| `PipelineCitesTheJudgedFirst`, `PipelineCitesWhatItSends` | `JudgedIsFirstCited`, `CitationsFollowTheText` |
| `PaginationKeepsWords` | `WordsSurvivePagination`: no stretch shorter than a window is on two pages |
| `ChunkingLosesNothing`, `SentencesAreKept`, `ChunksAreSized`, `ChunksAreInOrder` | `InkIsIndexed`, `SentencesStayWhole`, `ChunksFit`, `OffsetsIncrease` |
| `ChunksStay`, `GoldSurvives` | `ChunksStayOnTheirPage`, `GoldSpansResolve` |
| `EmbeddingKeepsOrder`, `BatchesFit` | `VectorsAreTheirOwn`, `RequestsFit` |
| `EvaluationLossesAreLocated`, `EvaluationHarnessesAgree` | `LossesAreLocated`, `HarnessesAgree` |
| `EvaluationSeparableMeansQuiet` | `SeparableMeansQuiet`, when every entry has one gold chunk |
| `ArtifactsLoadOneExport`, `ArtifactsServeVerifiedWeights`, `ArtifactsFetchesDoNoHarm` | `CorpusIsOneExport`, `ServedWeightsAreVerified`, `FetchesDoNoHarm` |

The arguments:

- *Ingestion.* `TypedShape` is the type invariant with what `pc[w]` says of
  `job[w]`: whoever is past the lookup holds a row. `SearchInv` adds that in
  `cascade` the locked row is the one that will go; without it `ready` could lose
  its chunks. `RefineInv` adds that runs not yet begun have left no trace, so a
  new row has an empty trail. `FrozenInv` says that with the read-only store no
  worker is past a vector delete, `GateInv` that whoever is past the gate may use
  the network and only a delete erases.
- *Refinement put to use.* `IngestionTrailTellsTheStory` proves nothing about
  `Ingestion` anew: it takes `LifecycleInitInv` and `LifecycleStepInv`, proved of
  the abstract life, under the mapping of the refinement (`History`).
- *One worker.* The stale row is what breaks `CountMatchesRows` under races. With
  one worker it never is stale: `SoloInv` says that the worker holds the row as it
  is (`Holds`), that its DELETE matched every chunk row, that vectors are gone
  before their row is, and that there is one batch with count 1 or none with 0.
  `WholeInv` adds what the vector store holds, by `pc[w]`: nothing between the
  vector delete and the upsert, this run's batch before the commit, and of a ready
  document all of its vectors or none. That is why `stats` may compare two numbers
  (`VerdictInv`: as long as no command moves, its verdict is the comparison it
  would make now).
- *Limiter.* `LimiterInv` says, for minutes and days alike (`WindowOK` over any
  monotone clock), that the counter of the current window is the number of
  requests admitted in it and no earlier window is over its limit.
- *Service.* `ServiceInv` orders each request's counters by its `pc` (`InOrder`),
  says the executor holds each waiting request once (`QueueInOrder`) and that the
  pool is the set of requests inside `retrieve()`. `BudgetHolds` alone is not
  inductive: it needs the counters. `CiteInv` adds what each request may be
  answered with, by its `pc`, and that a request about to ask the model has a plan
  that did not fail; that a plan of some hits is never empty is `PlanIs`. `RetryAfterIsExact` is arithmetic (`WaitIsExact`:
  truncating the clock to seconds never makes the wait a second too short or too
  long) and the fact that only the limiter answers 429 (`OnlyTheLimiterRefuses`).
- *Sorting and fusion.* `ArrangedEnumerates`: for a strict total order on a finite
  set, `Arranged` lists the set, each element once, in that order; by an induction
  over numbers inside the proof, not over data. `FusedOrderIs`, `RankedIs` and
  `SelectionIs` are its three uses. That RRF is monotone (`TermsFall`) needs that
  the common denominator is a multiple of every rank (`ProductIsMultiple`), and
  that insertion order follows rank (`InsertedApart`). An arm's best chunk stands
  at most `CandidateK + 1` deep (`FewAhead`: whatever is ahead of it is found by the
  other arm), which is why `PipelineReranksTheBest` assumes
  `CandidateK < Max({RerankN, TopK})`: the code has 30 against 40.
- *Folds.* The fold of a loop is unfolded once (`PlanningExists`,
  `RenderingExists`: the states of the loop are a function of the turn), and
  what holds after k turns (`PlannedUpTo`, `RenderedUpTo`) is carried from turn to
  turn. `PlannedUpTo` has to remember that what was skipped still does not fit.
  `SumInAnyOrder` says that a sum does not depend on the order it is taken in.
- *One question.* `PipelineInv` says that each stage left what the operators make
  of the stage before, as long as a later stage reads it. The properties follow
  from it by the lemmas above: the exact search puts nothing behind a farther
  chunk (`NearestAre`), and a list already sorted by the reranker's score is
  selected from in its own order (`SelectedInTheirOrder`).
- *Pagination.* `PaginationInv` says that the boundary just placed lies in the text,
  and inside a stretch only when that stretch is as long as a window.
  `WindowEndIs` says where the next boundary falls, `WindowKeepsStretches` that a
  stretch reaching over it fills the window. Least and
  greatest members of sets of numbers, from the well-foundedness of `<`, stand
  where an induction would; the same lemma unfolds the recursive functions
  `PageEnd` and `TokensUpTo`.
- *Chunking.* `IndexInv` says the cuts of a page are increasing, tile what they
  cover and tear no sentence that fits (`CutsInv`), how the loop variables lie to
  each other in every loop (`InStep`), and that what lies before the chunk in
  progress is already in a chunk (`ChunksInv`).
- *Places and golden spans.* `PlacesInv` adds that the base of the page in progress
  is `PageEnd` of the one before, and that the sentences of every page done are
  whole in chunks of their page (`Found`), so a span of one sentence has an owner;
  that pages do not overlap (`PagesApart`) makes the first owner one of the right page.
- *Embedding.* `EmbedInv` says the closed batches follow each other over the texts
  and keep the caps (`BatchesInOrder`), what the open one may hold
  (`BatchInProgress`), and that everything up to the last answered batch is in its
  place (`SentTo`).
- *Evaluation.* `EvalInv` says that what was measured is what `Measure` and `Row`
  make of some question of the corpus, and that every lure is counted as the
  decision saw it. The rest is about one question: the hits at any depth are
  beginnings of one reranked pool (`ArmHitsAre`), so the single hit of the decision
  is the first of the pool (`FirstHits`), and both tops are out of it and of one
  size (`PassesAre`), so that as many chunks come in as go out (`Exchange`) and none
  of them scores below one that went (`MeasureIs`). A sorted report lies between
  its first and last value and so does its median (`SortedIs`, `MedianIs`);
  movements that balance in every entry balance in sum (`SumsBalance`).
- *Artifacts.* `ArtifactsInv` is the types, that what has been read of the corpus
  is of one export (`ReadingIsOneExport`), what each script is about to put in
  place (`ScriptsInPlace`, `NothingShort`), and how far verification and loading
  have come, file by file (`VerifiedSoFar`). `ReadingIsOneExport` has to remember
  from the first reads that the vectors were of the expected size.

Only model-checked: the liveness properties `CommandsEnd`,
`EveryRequestIsAnswered` and `CorpusHeals`, which rest on fairness and are out of
the prover's reach, and what the runs marked V refute.

## 5. Not modelled, and why

Postgres, the clock and the providers are modelled from how the code uses them.
The clock does not step back and one process lifetime is modelled in
`QueryService`: the limiter keeps its counts in memory, so a restart or a second
worker doubles the budget by design. File contents do not change under a running
command. What parsers extract, token counters count, and models answer is any
value of a small set, and a provider's 200 has one vector per text. Two runs of
one download script at once are left out of `Artifacts` (see the observations).
The sniffing of bytes and the archive guards decide on bytes the models do not
keep. The query-vector cache is one file written by one evaluation at a time; MRR,
per-entry reports and their layout are arithmetic on what `Evaluation` keeps.
Injection scanning, logging, request ids, identifiers, configuration, migrations
and the two checking scripts (`verify_golden_set`, `validate_token_counter`) keep no
state the properties depend on. `PROJECT.json` names the status of every component.

## 6. Plan

Built, in this order: ingestion and its refinement, the limiter and the server,
indexing, retrieval, evaluation, artifacts, and a proof module beside each part
that can be proved about. What is left, in order of worth:

1. `CliStats` with two workers: which mismatches a comparison of counts cannot see.
2. `Parsing`: the sniffing of bytes and the archive guards, with the order in
   which they refuse.
3. Two evaluations at once over the query-vector cache.
