-------------------------- MODULE Artifacts_proofs --------------------------
(***************************************************************************)
(* For any number of exporters and of runs: the corpus in memory is of one *)
(* export of the size the server expects, each weight in memory is the     *)
(* pinned one unless a fetch replaced that file in between, and no fetch   *)
(* makes the files on disk worse.                                          *)
(***************************************************************************)
EXTENDS Artifacts, TLAPS

AllFiles == WeightFiles \cup {Encoding}
Content == {"absent", "short", "right", "wrong"}
Version == Nat \cup {Absent, Torn}
Read == Nat \cup {Absent}

TypeOK ==
  /\ disk \in [AllFiles -> Content]
  /\ part \in [AllFiles -> Content]
  /\ pins \in [WeightFiles -> Content]
  /\ export \in [text : Version, vectors : Version, manifest : Version]
  /\ pc \in [Processes -> {"idle", "open", "stream", "check", "rename",
                           "digest", "record", "write"}]
  /\ item \in [Processes -> 1 .. 3]
  /\ job \in [Processes -> Nat]
  /\ jobs \in Nat
  /\ server \in {"down", "verify", "load", "counter", "probe", "corpus", "serving"}
  /\ step \in 1 .. 4
  /\ expected \in [WeightFiles -> Content]
  /\ weights \in [1 .. 4 -> Content]
  /\ reading \in [manifest : Read, vectors : Read]
  /\ corpus \in [ids : Read, matrix : Read, text : Read]

(* What has been read so far is of one export, and of the right size.      *)
ReadingIsOneExport ==
  /\ reading.vectors \in {Absent, reading.manifest}
  /\ reading.vectors # Absent => reading.vectors \in sized

(* Who may be about to do what, and what is in the .part file it is about  *)
(* to put in place.                                                        *)
ScriptsInPlace ==
  \A p \in Processes :
    /\ pc[p] \in {"stream", "rename"} => p \in Fetchers
    /\ pc[p] = "check" => p = "cache"
    /\ pc[p] \in {"digest", "record"} => p = "reranker"
    /\ pc[p] = "write" => p \in Exporters
    /\ pc[p] \in {"check", "rename"} => part[FileOf(p)] \in {"right", "wrong"}
    /\ pc[p] = "rename" /\ p = "cache" => part[Encoding] = "right"

NothingShort == \A f \in AllFiles : disk[f] # "short"

(* How far the verification and the loading have come.                     *)
VerifiedSoFar ==
  /\ server \in {"down", "verify"} => weights = NoWeights
  /\ server = "verify" => step \in 1 .. 3
  /\ server = "verify" =>
       \A i \in 1 .. (step - 1) :
         Weights[i] \notin replaced => disk[Weights[i]] = expected[Weights[i]]
  /\ server = "load" =>
       /\ \A f \in WeightFiles \ replaced : disk[f] = expected[f]
       /\ \A i \in 1 .. (step - 1) :
            LoadOrder[i] \notin replaced => weights[i] = expected[LoadOrder[i]]

ArtifactsInv ==
  /\ TypeOK
  /\ ReadingIsOneExport
  /\ CorpusIsOneExport
  /\ ScriptsInPlace
  /\ NothingShort
  /\ VerifiedSoFar
  /\ ServedWeightsAreVerified

-----------------------------------------------------------------------------
LEMMA ArtifactsStart == Init => ArtifactsInv
  <1> SUFFICES ASSUME Init PROVE ArtifactsInv
    OBVIOUS
  <1>1. TypeOK
    <2>1. /\ disk \in [AllFiles -> Content]
          /\ part \in [AllFiles -> Content]
          /\ pins \in [WeightFiles -> Content]
          /\ expected \in [WeightFiles -> Content]
          /\ weights \in [1 .. 4 -> Content]
      BY DEF Init, AllFiles, Content, NoPins, NoWeights
    <2>2. /\ export \in [text : Version, vectors : Version, manifest : Version]
          /\ reading \in [manifest : Read, vectors : Read]
          /\ corpus \in [ids : Read, matrix : Read, text : Read]
      BY DEF Init, Version, Read, Absent, Torn, Idle, NoCorpus
    <2>3. /\ pc \in [Processes -> {"idle", "open", "stream", "check", "rename",
                                   "digest", "record", "write"}]
          /\ item \in [Processes -> 1 .. 3]
          /\ job \in [Processes -> Nat]
          /\ jobs \in Nat
      BY DEF Init
    <2>4. /\ server \in {"down", "verify", "load", "counter", "probe", "corpus",
                         "serving"}
          /\ step \in 1 .. 4
      BY DEF Init
    <2> QED BY <2>1, <2>2, <2>3, <2>4 DEF TypeOK
  <1>2. ReadingIsOneExport /\ CorpusIsOneExport
    BY DEF Init, ReadingIsOneExport, CorpusIsOneExport, Idle
  <1>3. ScriptsInPlace
    BY DEF Init, ScriptsInPlace
  <1>4. NothingShort
    BY DEF Init, NothingShort, AllFiles
  <1>5. VerifiedSoFar /\ ServedWeightsAreVerified
    BY DEF Init, VerifiedSoFar, ServedWeightsAreVerified
  <1> QED BY <1>1, <1>2, <1>3, <1>4, <1>5 DEF ArtifactsInv

(* Which file a script is at.                                              *)
LEMMA FileTypes ==
  ASSUME TypeOK, NEW p \in Processes
  PROVE  /\ FileOf(p) \in AllFiles
         /\ p = "cache" => FileOf(p) = Encoding
         /\ p # "cache" => FileOf(p) \in WeightFiles
         /\ Encoding \notin WeightFiles
  BY DEF TypeOK, FileOf, AllFiles, WeightFiles, Encoding, Weights

-----------------------------------------------------------------------------
(* Types.                                                                  *)
LEMMA TypesKept == TypeOK /\ [Next]_vars => TypeOK'
  <1> SUFFICES ASSUME TypeOK, [Next]_vars PROVE TypeOK'
    OBVIOUS
  <1> USE DEF AllFiles, Content, Version, Read, Absent, Torn, downloads, scripts,
              startup, store
  <1>1. ASSUME NEW p \in Processes, Begin(p) PROVE TypeOK'
    BY <1>1 DEF Begin, TypeOK
  <1>2. ASSUME NEW p \in Processes, Open(p) PROVE TypeOK'
    BY <1>2, FileTypes DEF Open, Goto, TypeOK
  <1>3. ASSUME NEW p \in Processes, Stream(p) PROVE TypeOK'
    BY <1>3, FileTypes DEF Stream, Goto, Exit, TypeOK
  <1>4. ASSUME NEW p \in Processes, Check(p) PROVE TypeOK'
    BY <1>4 DEF Check, Goto, Exit, TypeOK
  <1>5. ASSUME NEW p \in Processes, Rename(p) PROVE TypeOK'
    BY <1>5, FileTypes DEF Rename, Goto, Exit, TypeOK, Weights
  <1>6. ASSUME NEW p \in Processes, OpenManifest(p) PROVE TypeOK'
    BY <1>6 DEF OpenManifest, Goto, Exit, TypeOK, NoPins
  <1>7. ASSUME NEW p \in Processes, WriteManifest(p) PROVE TypeOK'
    BY <1>7 DEF WriteManifest, Exit, Goto, TypeOK
  <1>8. ASSUME NEW p \in Processes, OpenOutput(p) PROVE TypeOK'
    BY <1>8 DEF OpenOutput, Goto, TypeOK, Outputs
  <1>9. ASSUME NEW p \in Processes, WriteOutput(p) PROVE TypeOK'
    BY <1>9 DEF WriteOutput, Goto, Exit, TypeOK, Outputs
  <1>10. ASSUME NEW p \in Processes, Crash(p) PROVE TypeOK'
    BY <1>10 DEF Crash, Goto, Exit, TypeOK
  <1>11. CASE Boot
    <2>1. expected' \in [WeightFiles -> Content]
      BY <1>11 DEF Boot, TypeOK, NoPins
    <2> QED
      BY <1>11, <2>1 DEF Boot, Stage, TypeOK
  <1>12. CASE Verify
    BY <1>12 DEF Verify, Stage, TypeOK, Weights
  <1>13. CASE Load
    BY <1>13 DEF Load, Stage, TypeOK, LoadOrder, WeightFiles, Encoding, NoWeights
  <1>14. CASE Counter
    BY <1>14 DEF Counter, Stage, TypeOK, NoWeights
  <1>15. CASE Probe
    BY <1>15 DEF Probe, Stage, TypeOK, NoWeights
  <1>16. CASE ReadManifest
    BY <1>16 DEF ReadManifest, Answered, Loading, TypeOK, Idle
  <1>17. CASE ReadVectors
    BY <1>17 DEF ReadVectors, Answered, Loading, TypeOK, Idle
  <1>18. CASE ReadText
    BY <1>18 DEF ReadText, Loaded, Answered, TypeOK, Idle
  <1>19. CASE Stop
    BY <1>19 DEF Stop, Stage, TypeOK, Idle, NoCorpus, NoWeights
  <1>20. CASE UNCHANGED vars
    BY <1>20 DEF vars, TypeOK
  <1> QED
    BY <1>1, <1>2, <1>3, <1>4, <1>5, <1>6, <1>7, <1>8, <1>9, <1>10, <1>11, <1>12,
       <1>13, <1>14, <1>15, <1>16, <1>17, <1>18, <1>19, <1>20
    DEF Next, Start, LoadCorpus, Script

(* Every step is one script's, one of the start-up, one of a load, or the  *)
(* end of the process.                                                     *)
LEMMA Steps ==
  ASSUME [Next]_vars
  PROVE  \/ \E p \in Processes : Script(p)
         \/ Start
         \/ LoadCorpus
         \/ Stop
         \/ UNCHANGED vars
  BY DEF Next

LEMMA ScriptsLeaveTheStore ==
  ASSUME NEW p \in Processes, Script(p)
  PROVE  UNCHANGED store
  BY DEF Script, Begin, Open, Stream, Check, Rename, OpenManifest, WriteManifest,
         OpenOutput, WriteOutput, Crash

LEMMA ScriptsOnlyAddSizes ==
  ASSUME NEW p \in Processes, Script(p)
  PROVE  sized \subseteq sized'
  BY DEF Script, Begin, Open, Stream, Check, Rename, OpenManifest, WriteManifest,
         OpenOutput, WriteOutput, Crash, Exit, Goto

LEMMA ServerLeavesTheFiles ==
  ASSUME Start \/ LoadCorpus \/ Stop
  PROVE  UNCHANGED <<downloads, export, scripts>>
  BY DEF Start, Boot, Verify, Load, Counter, Probe, Stage, Stop, LoadCorpus,
         ReadManifest, ReadVectors, ReadText, Answered, Loading

-----------------------------------------------------------------------------
(* The corpus: a digest holds each file it reads against the first.        *)
LEMMA OneExportKept ==
  ASSUME TypeOK, ReadingIsOneExport, CorpusIsOneExport, [Next]_vars
  PROVE  ReadingIsOneExport' /\ CorpusIsOneExport'
  <1> USE DEF ReadingIsOneExport, CorpusIsOneExport
  <1>0. sized \subseteq sized'
    BY Steps, ServerLeavesTheFiles, ScriptsOnlyAddSizes DEF scripts, vars
  <1>1. CASE UNCHANGED store
    BY <1>0, <1>1 DEF store
  <1>2. CASE ReadManifest
    <2>1. UNCHANGED corpus
      BY <1>2 DEF ReadManifest
    <2>2. reading'.vectors = Absent
      BY <1>2 DEF ReadManifest, Answered, Idle, TypeOK
    <2> QED BY <1>0, <2>1, <2>2
  <1>3. CASE ReadVectors
    <2>1. UNCHANGED corpus
      BY <1>3 DEF ReadVectors
    <2>2. CASE reading' = Idle
      BY <2>1, <2>2, <1>0, <1>3 DEF Idle
    <2>3. CASE /\ export.vectors = reading.manifest
               /\ export.vectors \in sized
               /\ reading' = [reading EXCEPT !.vectors = export.vectors]
      BY <2>1, <2>3, <1>0, <1>3 DEF TypeOK
    <2> QED BY <1>3, <2>2, <2>3 DEF ReadVectors, Answered
  <1>4. CASE ReadText
    <2>1. reading' = Idle
      BY <1>4 DEF ReadText, Answered
    <2>2. reading.vectors = reading.manifest /\ reading.manifest \in sized
      BY <1>4 DEF ReadText
    <2>3. CASE UNCHANGED corpus
      BY <1>0, <2>1, <2>3 DEF Idle
    <2>4. CASE /\ export.text \in {Absent, reading.manifest}
               /\ corpus' = Loaded(export.text)
      BY <2>1, <2>2, <2>4, <1>0, <1>4 DEF Loaded, Idle
    <2> QED BY <1>4, <2>3, <2>4 DEF ReadText
  <1>5. CASE Stop
    BY <1>5 DEF Stop, Idle
  <1>6. CASE Start
    BY <1>1, <1>6 DEF Start, Boot, Verify, Load, Counter, Probe
  <1> QED
    BY Steps, ScriptsLeaveTheStore, <1>1, <1>2, <1>3, <1>4, <1>5, <1>6
    DEF vars, LoadCorpus

-----------------------------------------------------------------------------
(* The downloads: only what has been written to its end is renamed.        *)
LEMMA ScriptsKept ==
  ASSUME TypeOK, ScriptsInPlace, NothingShort, [Next]_vars
  PROVE  ScriptsInPlace' /\ NothingShort'
  <1> USE DEF ScriptsInPlace, NothingShort
  <1>1. ASSUME UNCHANGED <<downloads, export, scripts>>
        PROVE  ScriptsInPlace' /\ NothingShort'
    BY <1>1 DEF downloads, scripts, FileOf
  <1>2. ASSUME NEW p \in Processes, Begin(p)
        PROVE  ScriptsInPlace' /\ NothingShort'
    BY <1>2 DEF Begin, downloads, FileOf, TypeOK
  <1>3. ASSUME NEW p \in Processes, Open(p)
        PROVE  ScriptsInPlace' /\ NothingShort'
    BY <1>3, FileTypes DEF Open, Goto, FileOf, TypeOK, Fetchers
  <1>4. ASSUME NEW p \in Processes, Stream(p)
        PROVE  ScriptsInPlace' /\ NothingShort'
    BY <1>4, FileTypes DEF Stream, Goto, Exit, FileOf, TypeOK, Fetchers
  <1>5. ASSUME NEW p \in Processes, Check(p)
        PROVE  ScriptsInPlace' /\ NothingShort'
    BY <1>5, FileTypes DEF Check, Goto, Exit, FileOf, TypeOK, Fetchers
  <1>6. ASSUME NEW p \in Processes, Rename(p)
        PROVE  ScriptsInPlace' /\ NothingShort'
    <2>1. p \in Fetchers /\ FileOf(p) \in AllFiles
      BY <1>6, FileTypes DEF Rename
    <2>2. NothingShort'
      BY <1>6, <2>1 DEF Rename, TypeOK
    <2>3. /\ \A q \in Processes \ {p} : pc'[q] = pc[q]
          /\ pc'[p] \in {"open", "digest", "idle"}
          /\ pc'[p] = "digest" => p = "reranker"
      BY <1>6, <2>1 DEF Rename, Goto, Exit, TypeOK, Fetchers
    <2>4. \A q \in Processes \ {p} : item'[q] = item[q]
      BY <1>6, <2>1 DEF Rename, Exit, TypeOK
    <2>5. \A q \in Processes \ {p} : FileOf(q)' = FileOf(q)
      BY <2>4 DEF FileOf
    <2>6. \A q \in Processes \ {p} :
             pc[q] \in {"check", "rename"} => part'[FileOf(q)] = part[FileOf(q)]
      BY <1>6, <2>1, FileTypes DEF Rename, TypeOK, Fetchers, AllFiles
    <2>7. \A q \in Processes \ {p} :
             pc[q] = "rename" /\ q = "cache" => part'[Encoding] = part[Encoding]
      BY <2>6, FileTypes
    <2> QED BY <2>2, <2>3, <2>5, <2>6, <2>7
  <1>7. ASSUME NEW p \in Processes, OpenManifest(p)
        PROVE  ScriptsInPlace' /\ NothingShort'
    BY <1>7 DEF OpenManifest, Goto, Exit, FileOf, TypeOK
  <1>8. ASSUME NEW p \in Processes, WriteManifest(p)
        PROVE  ScriptsInPlace' /\ NothingShort'
    BY <1>8 DEF WriteManifest, Goto, Exit, FileOf, TypeOK
  <1>9. ASSUME NEW p \in Processes, OpenOutput(p)
        PROVE  ScriptsInPlace' /\ NothingShort'
    BY <1>9 DEF OpenOutput, Goto, downloads, FileOf, TypeOK
  <1>10. ASSUME NEW p \in Processes, WriteOutput(p)
         PROVE  ScriptsInPlace' /\ NothingShort'
    <2>1. /\ UNCHANGED <<disk, part>>
          /\ \A q \in Processes \ {p} : pc'[q] = pc[q] /\ FileOf(q)' = FileOf(q)
          /\ pc'[p] \in {"open", "idle"}
      BY <1>10 DEF WriteOutput, Goto, Exit, downloads, FileOf, TypeOK
    <2> QED BY <2>1
  <1>11. ASSUME NEW p \in Processes, Crash(p)
         PROVE  ScriptsInPlace' /\ NothingShort'
    BY <1>11 DEF Crash, Goto, Exit, downloads, FileOf, TypeOK
  <1>12. CASE UNCHANGED vars
    BY <1>1, <1>12 DEF vars
  <1>13. CASE Start \/ LoadCorpus \/ Stop
    BY <1>1, <1>13, ServerLeavesTheFiles
  <1> QED
    BY Steps, <1>2, <1>3, <1>4, <1>5, <1>6, <1>7, <1>8, <1>9, <1>10, <1>11,
       <1>12, <1>13
    DEF Script

LEMMA DownloadStep ==
  ASSUME TypeOK, ScriptsInPlace, NothingShort, [Next]_vars
  PROVE  /\ \A f \in DOMAIN disk : disk'[f] # "short"
         /\ disk'[Encoding] \in {disk[Encoding], "right"}
  <1>1. \A f \in DOMAIN disk : disk'[f] # "short"
    <2>1. NothingShort'
      BY ScriptsKept
    <2>2. DOMAIN disk = AllFiles
      BY DEF TypeOK
    <2> QED BY <2>1, <2>2 DEF NothingShort
  <1>2. CASE UNCHANGED disk
    BY <1>1, <1>2
  <1>3. ASSUME NEW p \in Processes, Rename(p)
        PROVE  disk'[Encoding] \in {disk[Encoding], "right"}
    BY <1>3, FileTypes DEF Rename, ScriptsInPlace, TypeOK, Fetchers, AllFiles
  <1>4. ASSUME NEW p \in Processes, Script(p), ~Rename(p)
        PROVE  UNCHANGED disk
    BY <1>4 DEF Script, Begin, Open, Stream, Check, OpenManifest, WriteManifest,
                OpenOutput, WriteOutput, Crash, downloads
  <1>5. CASE Start \/ LoadCorpus \/ Stop \/ UNCHANGED vars
    BY <1>2, <1>5, ServerLeavesTheFiles DEF downloads, vars
  <1> QED
    BY Steps, <1>1, <1>2, <1>3, <1>4, <1>5

-----------------------------------------------------------------------------
(* The weights: verified, then loaded, and nothing put in place between.   *)
LEMMA WeightsKeptByScripts ==
  ASSUME TypeOK, ScriptsInPlace, VerifiedSoFar, ServedWeightsAreVerified,
         NEW p \in Processes, Script(p)
  PROVE  VerifiedSoFar' /\ ServedWeightsAreVerified'
  <1>1. UNCHANGED <<server, step, expected, weights>>
    BY DEF Script, Begin, Open, Stream, Check, Rename, OpenManifest, WriteManifest,
           OpenOutput, WriteOutput, Crash, startup
  <1>2. CASE UNCHANGED <<replaced, disk>>
    BY <1>1, <1>2 DEF VerifiedSoFar, ServedWeightsAreVerified
  <1>3. CASE Rename(p) /\ p = "reranker"
    <2>1. /\ server \in {"verify", "load"} => replaced' = replaced \cup {FileOf(p)}
          /\ server \notin {"verify", "load"} => replaced' = replaced
      BY <1>3 DEF Rename
    <2>2. \A f \in WeightFiles \ {FileOf(p)} : disk'[f] = disk[f]
      BY <1>3, FileTypes DEF Rename, TypeOK, AllFiles
    <2>3. \A i \in 1 .. 3 : Weights[i] \in WeightFiles
      BY DEF Weights, WeightFiles
    <2>4. CASE server = "verify"
      <3>1. ASSUME NEW i \in 1 .. (step - 1), Weights[i] \notin replaced'
            PROVE  disk'[Weights[i]] = expected[Weights[i]]
        <4>1. Weights[i] \in WeightFiles
          BY <2>3, <2>4 DEF VerifiedSoFar, TypeOK
        <4> QED BY <2>1, <2>2, <2>4, <3>1, <4>1 DEF VerifiedSoFar
      <3> QED BY <1>1, <2>4, <3>1 DEF VerifiedSoFar, ServedWeightsAreVerified
    <2>5. CASE server = "load"
      BY <1>1, <2>1, <2>2, <2>5 DEF VerifiedSoFar, ServedWeightsAreVerified
    <2>6. CASE server \notin {"verify", "load"}
      BY <1>1, <2>1, <2>6 DEF VerifiedSoFar, ServedWeightsAreVerified
    <2> QED BY <2>4, <2>5, <2>6
  <1>4. CASE Rename(p) /\ p # "reranker"
    <2>1. replaced' = replaced
      BY <1>4 DEF Rename
    <2>2. p = "cache"
      BY <1>4 DEF Rename, ScriptsInPlace, Fetchers
    <2>3. \A f \in WeightFiles : disk'[f] = disk[f]
      BY <1>4, <2>2, FileTypes DEF Rename, TypeOK, AllFiles
    <2>4. \A i \in 1 .. 3 : Weights[i] \in WeightFiles
      BY DEF Weights, WeightFiles
    <2>5. VerifiedSoFar'
      BY <1>1, <2>1, <2>3, <2>4 DEF VerifiedSoFar
    <2> QED BY <1>1, <2>1, <2>5 DEF ServedWeightsAreVerified
  <1>5. CASE ~Rename(p)
    BY <1>2, <1>5 DEF Script, Begin, Open, Stream, Check, OpenManifest,
         WriteManifest, OpenOutput, WriteOutput, Crash, startup, downloads
  <1> QED BY <1>3, <1>4, <1>5

LEMMA WeightsKeptByServer ==
  ASSUME TypeOK, VerifiedSoFar, ServedWeightsAreVerified,
         Start \/ LoadCorpus \/ Stop
  PROVE  VerifiedSoFar' /\ ServedWeightsAreVerified'
  <1> USE DEF VerifiedSoFar, ServedWeightsAreVerified
  <1>0. UNCHANGED disk
    BY ServerLeavesTheFiles DEF downloads
  <1>1. CASE Boot
    <2>1. CASE server' = "verify"
      BY <1>1, <2>1 DEF Boot
    <2>2. CASE server' = "counter" /\ expected' = NoPins
      <3>1. \A i \in DOMAIN LoadOrder : NoWeights[i] = NoPins[LoadOrder[i]]
        BY DEF LoadOrder, NoWeights, NoPins, WeightFiles
      <3> QED BY <1>1, <2>2, <3>1 DEF Boot
    <2> QED BY <1>1, <2>1, <2>2 DEF Boot, Stage
  <1>2. CASE Verify
    <2> DEFINE f == Weights[step]
    <2>1. UNCHANGED <<expected, weights>>
      BY <1>2 DEF Verify
    <2>2. CASE server' = "down"
      BY <1>2, <2>1, <2>2 DEF Verify
    <2>3. ASSUME disk[f] = expected[f], replaced' = replaced \ {f}
          PROVE  \A i \in 1 .. step :
                   Weights[i] \notin replaced' => disk[Weights[i]] = expected[Weights[i]]
      BY <1>2, <2>3 DEF Verify, TypeOK
    <2>4. CASE /\ disk[f] = expected[f] /\ replaced' = replaced \ {f}
               /\ step < 3 /\ server' = "verify" /\ step' = step + 1
      BY <1>0, <1>2, <2>1, <2>3, <2>4 DEF Verify, TypeOK
    <2>5. CASE /\ disk[f] = expected[f] /\ replaced' = replaced \ {f}
               /\ step = 3 /\ server' = "load" /\ step' = 1
      <3>1. ASSUME NEW g \in WeightFiles \ replaced'
            PROVE  disk[g] = expected[g]
        <4>1. /\ Weights[1] = "model.onnx" /\ Weights[2] = "tokenizer.json"
              /\ Weights[3] = "config.json"
          BY DEF Weights
        <4> QED BY <2>3, <2>5, <3>1, <4>1 DEF WeightFiles
      <3> QED BY <1>0, <2>1, <2>5, <3>1
    <2> QED BY <1>2, <2>2, <2>4, <2>5 DEF Verify, Stage, Weights, TypeOK
  <1>3. CASE Load
    <2> DEFINE f == LoadOrder[step]
    <2>1. UNCHANGED <<expected, replaced>>
      BY <1>3 DEF Load
    <2>2. CASE server' = "down" /\ weights' = NoWeights
      BY <2>2
    <2>3. CASE weights' = [weights EXCEPT ![step] = disk[f]]
      <3>1. f \in WeightFiles
        BY DEF LoadOrder, WeightFiles, TypeOK
      <3>2. \A i \in 1 .. step :
              LoadOrder[i] \notin replaced => weights'[i] = expected[LoadOrder[i]]
        BY <1>3, <2>3, <3>1 DEF Load, TypeOK
      <3>3. CASE step < 4 /\ server' = "load" /\ step' = step + 1
        BY <1>0, <1>3, <2>1, <3>2, <3>3 DEF Load, TypeOK
      <3>4. CASE step = 4 /\ server' = "counter"
        <4>1. DOMAIN LoadOrder = 1 .. 4
          BY DEF LoadOrder
        <4> QED BY <2>1, <3>2, <3>4, <4>1
      <3> QED BY <1>3, <2>2, <3>3, <3>4 DEF Load, Stage, LoadOrder, TypeOK
    <2> QED BY <1>3, <2>2, <2>3 DEF Load, Stage
  <1>4. CASE Counter \/ Probe
    BY <1>0, <1>4 DEF Counter, Probe, Stage
  <1>5. CASE LoadCorpus
    BY <1>0, <1>5 DEF LoadCorpus, ReadManifest, ReadVectors, ReadText, Answered,
                      Loading, Asked, startup
  <1>6. CASE Stop
    BY <1>6 DEF Stop, Stage
  <1> QED BY <1>1, <1>2, <1>3, <1>4, <1>5, <1>6 DEF Start

LEMMA ArtifactsKept == ArtifactsInv /\ [Next]_vars => ArtifactsInv'
  <1> SUFFICES ASSUME ArtifactsInv, [Next]_vars PROVE ArtifactsInv'
    OBVIOUS
  <1> USE DEF ArtifactsInv
  <1>1. TypeOK'
    BY TypesKept
  <1>2. ReadingIsOneExport' /\ CorpusIsOneExport'
    BY OneExportKept
  <1>3. ScriptsInPlace' /\ NothingShort'
    BY ScriptsKept
  <1>4. ASSUME UNCHANGED vars
        PROVE  VerifiedSoFar' /\ ServedWeightsAreVerified'
    BY <1>4 DEF vars, startup, downloads, VerifiedSoFar, ServedWeightsAreVerified
  <1>5. VerifiedSoFar' /\ ServedWeightsAreVerified'
    BY Steps, WeightsKeptByScripts, WeightsKeptByServer, <1>4
  <1> QED BY <1>1, <1>2, <1>3, <1>5

-----------------------------------------------------------------------------
LEMMA ArtifactsAlways == Spec => []ArtifactsInv
  BY ArtifactsStart, ArtifactsKept, PTL DEF Spec

(* However many processes export, and wherever they crash, the corpus in   *)
(* memory has the ids, vectors and text of one export.                     *)
THEOREM ArtifactsLoadOneExport == Spec => []CorpusIsOneExport
  BY ArtifactsAlways, PTL DEF ArtifactsInv

(* Every weight that scores the candidates is what the manifest pinned,    *)
(* but one that a fetch put in place between its verification and loading. *)
THEOREM ArtifactsServeVerifiedWeights == Spec => []ServedWeightsAreVerified
  BY ArtifactsAlways, PTL DEF ArtifactsInv

(* No step of any script leaves a short file in place, or puts anything    *)
(* but the encoding in the place of the encoding.                          *)
THEOREM ArtifactsFetchesDoNoHarm == Spec => FetchesDoNoHarm
  <1>1. ArtifactsInv /\ [Next]_vars =>
          [/\ \A f \in DOMAIN disk : disk'[f] # "short"
           /\ disk'[Encoding] \in {disk[Encoding], "right"}]_disk
    BY DownloadStep DEF ArtifactsInv
  <1> QED BY <1>1, ArtifactsAlways, PTL DEF Spec, FetchesDoNoHarm
=============================================================================
