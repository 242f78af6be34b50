------------------------------ MODULE Artifacts -----------------------------
(***************************************************************************)
(* The files the server starts from, and the scripts that replace them     *)
(* under it: scripts/fetch_reranker_model.py, scripts/fetch_tiktoken_cache *)
(* .py and scripts/export_vectors.py beside the lifespan of app/main.py,   *)
(* which verifies the weights before it loads them and loads the frozen    *)
(* corpus once, whenever it can.  Any of them may crash between two steps. *)
(*                                                                         *)
(* A downloaded file is whole and right, whole and wrong, or short.  What  *)
(* one export writes carries its number, and is of the size the server     *)
(* expects or not; a digest is what it is a digest of.  Each download      *)
(* script is run by one process at a time (two would share its .part       *)
(* files); any number of processes may export.                             *)
(***************************************************************************)
EXTENDS Integers, Sequences

CONSTANTS
  Exporters,           \* processes that run export_vectors
  MaxJobs              \* bound: scripts started

ASSUME ArtifactsAssumption ==
  /\ MaxJobs \in Nat
  /\ Exporters \cap {"reranker", "cache"} = {}

VARIABLES
  disk,       \* the downloaded files, in place
  part,       \* and their .part files
  pins,       \* reranker_model.sha256
  export,     \* corpus_text.json, corpus_vectors.npy and its manifest
  pc,         \* what each script is about to do
  item,       \* which of its files it is at, counted from 1
  job,        \* the number of the job it runs
  jobs,       \* scripts started so far
  sized,      \* the exports of EXPECTED_COUNT vectors, float32, as long as they say
  server,     \* the stage the lifespan is at
  step,       \* which weight file it is at
  expected,   \* the checksums it verifies against
  weights,    \* the weights in memory, in the order they were read
  replaced,   \* the weight files replaced since they were verified
  reading,    \* what _load_corpus has read so far
  corpus      \* ExactVectorStore._corpus

downloads == <<disk, part, pins>>
scripts == <<pc, item, job, jobs, sized>>
startup == <<server, step, expected, weights, replaced>>
store == <<reading, corpus>>
vars == <<downloads, export, scripts, startup, store>>

Weights == <<"model.onnx", "tokenizer.json", "config.json">>
LoadOrder == <<"config.json", "model.onnx", "tokenizer.json", "tokenizer.json">>
WeightFiles == {"model.onnx", "tokenizer.json", "config.json"}
Encoding == "cl100k_base"
Fetchers == {"reranker", "cache"}
Processes == Fetchers \cup Exporters

NoPins == [f \in WeightFiles |-> "absent"]
NoWeights == [i \in 1 .. 4 |-> "absent"]
Absent == -1
Torn == -2
Outputs == <<"text", "vectors", "manifest">>    \* in the order main() writes
Idle == [manifest |-> Absent, vectors |-> Absent]
NoCorpus == [ids |-> Absent, matrix |-> Absent, text |-> Absent]

(* The weights and the encoding are baked into the image, or not; vectors, *)
(* their manifest and the pins are tracked files, the text is not.  The    *)
(* tracked vectors are the ones the server expects.                        *)
Init ==
  /\ \E content \in {"absent", "right"} :
       disk = [f \in WeightFiles \cup {Encoding} |-> content]
  /\ part = [f \in WeightFiles \cup {Encoding} |-> "absent"]
  /\ pins = [f \in WeightFiles |-> "right"]
  /\ export = [text |-> Absent, vectors |-> 0, manifest |-> 0]
  /\ pc = [p \in Processes |-> "idle"]
  /\ item = [p \in Processes |-> 1]
  /\ job = [p \in Processes |-> 0]
  /\ jobs = 0
  /\ sized = {0}
  /\ server = "down"
  /\ step = 1
  /\ expected = NoPins
  /\ weights = NoWeights
  /\ replaced = {}
  /\ reading = Idle
  /\ corpus = NoCorpus

-----------------------------------------------------------------------------
(* The scripts.                                                            *)
FileOf(p) == IF p = "cache" THEN Encoding ELSE Weights[item[p]]

Goto(p, label) ==
  /\ pc' = [pc EXCEPT ![p] = label]
  /\ UNCHANGED <<job, jobs, sized>>

(* The script exits, whatever its status.                                  *)
Exit(p) ==
  /\ Goto(p, "idle")
  /\ item' = [item EXCEPT ![p] = 1]

(* fetch() is a no-op on a verified cache, and refuses without             *)
(* allow_network; neither changes anything.  An export writes what the     *)
(* index holds, however many vectors that is.                              *)
Begin(p) ==
  /\ pc[p] = "idle"
  /\ jobs < MaxJobs
  /\ p = "cache" => disk[Encoding] # "right"
  /\ pc' = [pc EXCEPT ![p] = "open"]
  /\ jobs' = jobs + 1
  /\ job' = [job EXCEPT ![p] = jobs + 1]
  /\ \/ UNCHANGED sized
     \/ p \in Exporters /\ sized' = sized \cup {jobs + 1}
  /\ UNCHANGED <<item, downloads, export, startup, store>>

(* partial.open("wb"): a .part file left by an earlier run is cut short.   *)
Open(p) ==
  /\ p \in Fetchers
  /\ pc[p] = "open"
  /\ part' = [part EXCEPT ![FileOf(p)] = "short"]
  /\ Goto(p, "stream")
  /\ UNCHANGED <<item, disk, pins, export, startup, store>>

(* The response has been read to its end; what was delivered need not be   *)
(* what was asked for.  Or an HTTP error ends the script.                  *)
Stream(p) ==
  /\ pc[p] = "stream"
  /\ \/ /\ \E content \in {"right", "wrong"} :
             part' = [part EXCEPT ![FileOf(p)] = content]
        /\ Goto(p, IF p = "cache" THEN "check" ELSE "rename")
        /\ UNCHANGED item
     \/ Exit(p) /\ UNCHANGED part
  /\ UNCHANGED <<disk, pins, export, startup, store>>

CheckAfterRename(p) ==   \* mutant: what is renamed has not been looked at
  /\ pc[p] = "check"
  /\ Goto(p, "rename")
  /\ UNCHANGED <<item, downloads, export, startup, store>>

(* The digest of the .part file; a mismatch unlinks it.                    *)
Check(p) ==
  /\ pc[p] = "check"
  /\ \/ /\ part[Encoding] = "right"
        /\ Goto(p, "rename")
        /\ UNCHANGED <<item, part>>
     \/ /\ part[Encoding] # "right"
        /\ part' = [part EXCEPT ![Encoding] = "absent"]
        /\ Exit(p)
  /\ UNCHANGED <<disk, pins, export, startup, store>>

Rename(p) ==
  /\ pc[p] = "rename"
  /\ disk' = [disk EXCEPT ![FileOf(p)] = part[FileOf(p)]]
  /\ part' = [part EXCEPT ![FileOf(p)] = "absent"]
  /\ \/ /\ p = "reranker" /\ item[p] < Len(Weights)
        /\ Goto(p, "open")
        /\ item' = [item EXCEPT ![p] = item[p] + 1]
     \/ /\ p = "reranker" /\ item[p] = Len(Weights)
        /\ Goto(p, "digest")
        /\ UNCHANGED item
     \/ p = "cache" /\ Exit(p)
  /\ replaced' = IF p = "reranker" /\ server \in {"verify", "load"}
                 THEN replaced \cup {FileOf(p)} ELSE replaced
  /\ UNCHANGED <<pins, export, server, step, expected, weights, store>>

(* --write-manifest, which opens the manifest in place before it fills it, *)
(* or not; the verification that ends the script changes nothing.          *)
OpenManifest(p) ==
  /\ pc[p] = "digest"
  /\ \/ /\ pins' = NoPins
        /\ Goto(p, "record")
        /\ UNCHANGED item
     \/ Exit(p) /\ UNCHANGED pins
  /\ UNCHANGED <<disk, part, export, startup, store>>

WriteManifest(p) ==
  /\ pc[p] = "record"
  /\ pins' = [f \in WeightFiles |-> disk[f]]
  /\ Exit(p)
  /\ UNCHANGED <<disk, part, export, startup, store>>

(* export_vectors opens each output in place, and then fills it; a second  *)
(* export at work on them may leave a mixture.                             *)
OpenOutput(p) ==
  /\ p \in Exporters
  /\ pc[p] = "open"
  /\ export' = [export EXCEPT ![Outputs[item[p]]] = Torn]
  /\ Goto(p, "write")
  /\ UNCHANGED <<item, downloads, startup, store>>

WriteOutput(p) ==
  /\ pc[p] = "write"
  /\ \/ export' = [export EXCEPT ![Outputs[item[p]]] = job[p]]
     \/ /\ \E q \in Exporters \ {p} : pc[q] # "idle"
        /\ export' = [export EXCEPT ![Outputs[item[p]]] = Torn]
  /\ \/ /\ item[p] < Len(Outputs)
        /\ Goto(p, "open")
        /\ item' = [item EXCEPT ![p] = item[p] + 1]
     \/ item[p] = Len(Outputs) /\ Exit(p)
  /\ UNCHANGED <<downloads, startup, store>>

Crash(p) ==
  /\ pc[p] # "idle"
  /\ Exit(p)
  /\ UNCHANGED <<downloads, export, startup, store>>

-----------------------------------------------------------------------------
(* The server.  The lifespan up to the corpus:                             *)
Stage(next) == server' = next /\ UNCHANGED <<downloads, export, scripts>>

(* build_reranker: the manifest is read once; none, or one without a       *)
(* checksum, keeps the server down.  RERANKER=none has no weights.         *)
Boot ==
  /\ server = "down"
  /\ \/ /\ pins # NoPins
        /\ expected' = pins
        /\ Stage("verify")
     \/ expected' = NoPins /\ Stage("counter")
  /\ step' = 1
  /\ replaced' = {}
  /\ UNCHANGED <<weights, store>>

VerifyFirstOnly ==   \* mutant: the weights proper, not what goes with them
  /\ server = "verify"
  /\ disk[Weights[step]] = expected[Weights[step]]
  /\ Stage("load")
  /\ UNCHANGED <<step, expected, weights, replaced, store>>

(* verify_model_files, one file.  Two wrong files need not be the same.    *)
Verify ==
  /\ server = "verify"
  /\ LET f == Weights[step] IN
     \/ /\ disk[f] = expected[f]
        /\ IF step < Len(Weights) THEN Stage("verify") /\ step' = step + 1
                                  ELSE Stage("load") /\ step' = 1
        /\ replaced' = replaced \ {f}
     \/ /\ disk[f] # expected[f] \/ disk[f] = "wrong"
        /\ Stage("down") /\ UNCHANGED <<step, replaced>>
  /\ UNCHANGED <<expected, weights, store>>

(* LocalOnnxReranker.__init__: each file is opened again, by its name.     *)
Load ==
  /\ server = "load"
  /\ LET f == LoadOrder[step] IN
     \/ /\ disk[f] # "absent"
        /\ weights' = [weights EXCEPT ![step] = disk[f]]
        /\ IF step < Len(LoadOrder) THEN Stage("load") /\ step' = step + 1
                                    ELSE Stage("counter") /\ step' = 1
     \/ /\ disk[f] # "right"
        /\ Stage("down") /\ weights' = NoWeights /\ step' = 1
  /\ UNCHANGED <<expected, replaced, store>>

(* TiktokenCounter, which may not reach the network, then the check of     *)
(* llm_max_tokens against the reserve.                                     *)
Counter ==
  /\ server = "counter"
  /\ \/ disk[Encoding] = "right" /\ Stage("probe") /\ UNCHANGED weights
     \/ Stage("down") /\ weights' = NoWeights
  /\ UNCHANGED <<step, expected, replaced, store>>

(* A Postgres that cannot be reached is logged; one that can and has other *)
(* statuses than DOCUMENT_STATUSES is fatal.                               *)
Probe ==
  /\ server = "probe"
  /\ \/ Stage("corpus") /\ UNCHANGED weights
     \/ Stage("down") /\ weights' = NoWeights
  /\ UNCHANGED <<step, expected, replaced, store>>

-----------------------------------------------------------------------------
(* ExactVectorStore._get_corpus, called by the lifespan once and then by   *)
(* every probe and query that finds nothing loaded.  It never yields to    *)
(* the event loop, so there is one at a time; the exports do not wait.     *)
AskedOnce ==   \* mutant: a failure at start-up is final
  server = "corpus" /\ corpus = NoCorpus
Asked == server \in {"corpus", "serving"} /\ corpus = NoCorpus

Loading == UNCHANGED <<downloads, export, scripts, startup>>

(* Loaded or not, the lifespan goes on and the server answers.             *)
Answered ==
  /\ server' = "serving"
  /\ reading' = Idle
  /\ UNCHANGED <<downloads, export, scripts, step, expected, weights, replaced>>

ReadManifest ==
  /\ Asked /\ reading = Idle
  /\ \/ /\ export.vectors # Absent /\ export.manifest \notin {Absent, Torn}
        /\ reading' = [reading EXCEPT !.manifest = export.manifest]
        /\ Loading
     \/ /\ export.vectors = Absent \/ export.manifest \in {Absent, Torn}
        /\ Answered
  /\ UNCHANGED corpus

(* The digest, then the count, the type and the dimensions.                *)
ReadVectors ==
  /\ Asked /\ reading.manifest # Absent /\ reading.vectors = Absent
  /\ \/ /\ export.vectors = reading.manifest
        /\ export.vectors \in sized
        /\ reading' = [reading EXCEPT !.vectors = export.vectors]
        /\ Loading
     \/ /\ export.vectors # reading.manifest \/ export.vectors \notin sized
        /\ Answered
  /\ UNCHANGED corpus

Loaded(text) == [ids |-> reading.manifest, matrix |-> reading.vectors, text |-> text]

ReadAnyText ==   \* mutant: the text is not held against its digest
  /\ Asked /\ reading.vectors # Absent
  /\ \/ export.text # Torn /\ corpus' = Loaded(export.text)
     \/ export.text = Torn /\ UNCHANGED corpus
  /\ Answered

(* _load_texts: a text that is not there is no error here, one that does   *)
(* not match the pin is.                                                   *)
ReadText ==
  /\ Asked /\ reading.vectors # Absent
  /\ \/ /\ export.text \in {Absent, reading.manifest}
        /\ corpus' = Loaded(export.text)
     \/ export.text \notin {Absent, reading.manifest} /\ UNCHANGED corpus
  /\ Answered

(* The shutdown, or a crash at any stage: nothing in memory is left.       *)
Stop ==
  /\ server # "down"
  /\ Stage("down")
  /\ weights' = NoWeights
  /\ reading' = Idle
  /\ corpus' = NoCorpus
  /\ UNCHANGED <<step, expected, replaced>>

LoadCorpus == ReadManifest \/ ReadVectors \/ ReadText
Start == Boot \/ Verify \/ Load \/ Counter \/ Probe
Script(p) ==
  \/ Begin(p) \/ Open(p) \/ Stream(p) \/ Check(p) \/ Rename(p)
  \/ OpenManifest(p) \/ WriteManifest(p) \/ OpenOutput(p) \/ WriteOutput(p)
  \/ Crash(p)

Next == Start \/ LoadCorpus \/ Stop \/ \E p \in Processes : Script(p)

Spec == Init /\ [][Next]_vars

(* Something asks the server: a load balancer polls /health/ready.         *)
FairSpec == Spec /\ WF_vars(LoadCorpus)

-----------------------------------------------------------------------------
(* vector_store.py:225-265 against export_vectors.py:135-151: whatever the *)
(* exports do between its reads, and wherever they crash, the corpus that  *)
(* is searched has the ids, the vectors and, if any, the text of one       *)
(* export, so that no citation quotes the text of another; and that export *)
(* is of the size every committed figure was measured on (180-183).        *)
CorpusIsOneExport ==
  corpus # NoCorpus =>
    /\ corpus.ids \in sized
    /\ corpus.matrix = corpus.ids
    /\ corpus.text \in {Absent, corpus.ids}

(* reranking.py:312-350: the files are opened again, by name, after they   *)
(* have been verified.  A weight that scores the candidates and is not     *)
(* what the manifest pinned is one that a fetch put in place between those *)
(* two; every other is right for the whole life of the process, however    *)
(* often the files on disk change before and after.                        *)
ServedWeightsAreVerified ==
  server \in {"counter", "probe", "corpus", "serving"} =>
    \A i \in DOMAIN LoadOrder :
      LoadOrder[i] \notin replaced => weights[i] = expected[LoadOrder[i]]

(* fetch_reranker_model.py:94-103, fetch_tiktoken_cache.py:132-152: a      *)
(* fetch that is interrupted, or is served something else, never leaves a  *)
(* short file in place, and what takes the place of the encoding is the    *)
(* encoding.                                                               *)
FetchesDoNoHarm ==
  [][/\ \A f \in DOMAIN disk : disk'[f] # "short"
     /\ disk'[Encoding] \in {disk[Encoding], "right"}]_disk

(* The files agree, and are of the size the server expects: an export of   *)
(* another size agrees with itself and is refused for ever.                *)
Loadable ==
  /\ export.manifest \in sized
  /\ export.vectors = export.manifest
  /\ export.text \in {Absent, export.manifest}

(* main.py:146-153, vector_store.py:295-298: a corpus that could not be    *)
(* loaded at start-up, or while it was being exported, or because an       *)
(* export was of another size, is loaded without a restart once its three  *)
(* files are loadable and stay so.                                         *)
CorpusHeals ==
  server = "serving" /\ Loadable ~> corpus # NoCorpus \/ ~Loadable \/ server = "down"
=============================================================================
