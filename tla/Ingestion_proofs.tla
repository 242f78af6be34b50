-------------------------- MODULE Ingestion_proofs --------------------------
(***************************************************************************)
(* Proofs about Ingestion.tla, for any number of processes and of runs,    *)
(* any choice of store, with and without crashes, and about the stats      *)
(* command of CliStats.tla beside one process.                             *)
(***************************************************************************)
EXTENDS CliStats, FiniteSetTheorems, TLAPS

StoreType ==
  /\ row \in Row
  /\ chunks \subseteq Batch
  /\ audit \in [DocIds -> Seq(Status)]
  /\ vectors \subseteq Batch

ControlType ==
  /\ frozen \in BOOLEAN
  /\ rowLock \in Workers \cup {NoWorker}
  /\ pc \in [Workers -> PC]
  /\ job \in [Workers -> Job]
  /\ outcome \in [Workers -> Outcome]
  /\ runs \in 0 .. MaxRuns

LEMMA TypeOKParts == TypeOK <=> StoreType /\ ControlType
  BY DEF TypeOK, StoreType, ControlType

LEMMA NoJobType == NoJob \in Job /\ NoRow \in Row
  BY IngestionAssumption DEF NoJob, Job, NoRow, Row, Runs, NoDoc, Batch

LEMMA FinishType ==
  ASSUME ControlType, NEW w \in Workers, NEW how \in Outcome, Finish(w, how)
  PROVE  ControlType'
  BY NoJobType DEF ControlType, Finish, Goto, PC

LEMMA GotoType ==
  ASSUME ControlType, NEW w \in Workers, NEW label \in PC, Goto(w, label),
         UNCHANGED <<rowLock, job, outcome, runs>>
  PROVE  ControlType'
  BY DEF ControlType, Goto

LEMMA PathTypes ==
  ASSUME NEW path \in {<<s>> : s \in Status} \cup {<<"failed", "queued">>}
  PROVE  path \in Seq(Status) /\ path[1] \in Status /\ path[Len(path)] \in Status
  <1>1. CASE path = <<"failed", "queued">>
    BY <1>1 DEF Status
  <1>2. CASE \E s \in Status : path = <<s>>
    BY <1>2
  <1>3. QED
    BY <1>1, <1>2

-----------------------------------------------------------------------------
(* The row is a live one or NoRow, and so is what a worker holds; past the *)
(* SELECT a worker holds a live one.                                       *)
LiveOrNone(r) == r = NoRow \/ (r.id # NoDoc /\ r.status # "absent")

Unheld == {"idle", "lookup", "select", "create", "find"}

Shape ==
  /\ LiveOrNone(row)
  /\ \A w \in Workers : /\ LiveOrNone(job[w].held)
                        /\ pc[w] \notin Unheld => Doc(w) # NoDoc

TypedShape == StoreType /\ ControlType /\ Shape

LEMMA TypedShapeInit == Init => TypedShape
  <1> SUFFICES ASSUME Init PROVE TypedShape
    OBVIOUS
  <1> USE IngestionAssumption
  <1>1. 0 \in DocIds /\ 0 \in Runs
    BY DEF DocIds, Runs
  <1>2. << >> \in Seq(Status) /\ <<"queued", "parsing", "indexing", "ready">> \in Seq(Status)
    BY DEF Status
  <1>3. row \in Row /\ LiveOrNone(row)
    BY <1>1, NoJobType DEF Init, Row, LiveOrNone, NoDoc, Status
  <1>4. audit \in [DocIds -> Seq(Status)]
    BY <1>2 DEF Init
  <1>5. chunks \subseteq Batch /\ vectors \subseteq Batch
    BY <1>1 DEF Init, Batch
  <1>6. ControlType
    BY NoJobType DEF Init, ControlType, PC, Outcome
  <1>7. Shape
    BY <1>3 DEF Init, Shape, Unheld, NoJob, LiveOrNone
  <1>8. QED
    BY <1>3, <1>4, <1>5, <1>6, <1>7 DEF StoreType, TypedShape

(* The ways a step leaves what a worker has in memory and where it is.     *)
Ends(w) == \E how \in Outcome : Finish(w, how)

MovesOn(w) ==
  /\ pc[w] \notin Unheld
  /\ \E label \in PC \ (Unheld \cup {"cascade"}) : Goto(w, label)
  /\ UNCHANGED <<rowLock, job, outcome, runs>>

LEMMA EndsKeepsShape ==
  ASSUME TypedShape, NEW w \in Workers, Ends(w)
  PROVE  ControlType' /\ \A v \in Workers : /\ LiveOrNone(job'[v].held)
                                            /\ pc'[v] \notin Unheld => Doc(v)' # NoDoc
  <1>1. ControlType'
    BY FinishType DEF Ends, TypedShape
  <1>2. pc' = [pc EXCEPT ![w] = "idle"] /\ job' = [job EXCEPT ![w] = NoJob]
    BY DEF Ends, Finish, Goto
  <1>3. QED
    BY <1>1, <1>2 DEF TypedShape, ControlType, Shape, Doc, NoJob, LiveOrNone, Unheld

LEMMA MovesOnKeepsShape ==
  ASSUME TypedShape, NEW w \in Workers, MovesOn(w)
  PROVE  ControlType' /\ \A v \in Workers : /\ LiveOrNone(job'[v].held)
                                            /\ pc'[v] \notin Unheld => Doc(v)' # NoDoc
  <1>1. PICK label \in PC \ (Unheld \cup {"cascade"}) : Goto(w, label)
    BY DEF MovesOn
  <1>2. ControlType'
    BY <1>1, GotoType DEF MovesOn, TypedShape
  <1>3. pc' = [pc EXCEPT ![w] = label] /\ job' = job
    BY <1>1 DEF MovesOn, Goto
  <1>4. QED
    BY <1>1, <1>2, <1>3 DEF MovesOn, TypedShape, ControlType, Shape, Doc

-----------------------------------------------------------------------------
(* The ways a step leaves what Postgres has committed.                     *)
Paths == {<<s>> : s \in Status} \cup {<<"failed", "queued">>}

Keeps == UNCHANGED <<row, chunks, audit>>

Advances(w) ==
  \E path \in Paths, count \in {0, 1} :
    /\ rowLock = NoWorker
    /\ Legal(w, path[1])
    /\ Moved(path, count)
    /\ \/ /\ path[Len(path)] # "ready"
          /\ chunks' \subseteq chunks
          /\ row.status = "ready" => path = <<"parsing">>
       \/ /\ path = <<"ready">>
          /\ count = 1
          /\ chunks' = ChunksWritten(w)

Creates(w) ==
  /\ pc[w] = "create"
  /\ rowLock = NoWorker
  /\ row = NoRow
  /\ row' = [id |-> job[w].run, status |-> "queued", count |-> 0]
  /\ audit' = [audit EXCEPT ![job[w].run] = <<"queued">>]
  /\ UNCHANGED chunks

Erases(w) ==
  /\ pc[w] = "cascade"
  /\ row' = NoRow
  /\ chunks' = chunks \ BatchesOf(Doc(w), chunks)
  /\ UNCHANGED audit

Commits(w) == Keeps \/ Advances(w) \/ Creates(w) \/ Erases(w)

(* A table entry read backwards is the table entry.                        *)
LEMMA PredecessorsInverse ==
  ASSUME NEW to \in Status, NEW from, from \in LegalPredecessors[to]
  PROVE  from \in Status /\ to \in LegalTransitions[from]
  BY DEF LegalPredecessors

LEMMA AdvancesKeepsShape ==
  ASSUME TypedShape, NEW w \in Workers, Advances(w)
  PROVE  /\ row' \in Row /\ LiveOrNone(row') /\ row'.id = row.id
         /\ row.id # NoDoc /\ row.id = Doc(w)
         /\ audit' \in [DocIds -> Seq(Status)]
  <1>1. PICK path \in Paths, count \in {0, 1} : Legal(w, path[1]) /\ Moved(path, count)
    BY DEF Advances
  <1>2. /\ path \in Seq(Status) /\ path[1] \in Status /\ path[Len(path)] \in Status
        /\ path[Len(path)] # "absent"
    BY PathTypes DEF Paths, Status
  <1>3. row.status \in Status /\ row.id = Doc(w)
    BY <1>1, <1>2, PredecessorsInverse DEF Legal
  <1>4. row \in Row /\ row.id # NoDoc /\ row.id \in DocIds
    BY <1>3 DEF TypedShape, StoreType, Shape, LiveOrNone, NoRow, Status, Row
  <1>5. row' \in Row /\ LiveOrNone(row') /\ row'.id = row.id
    BY <1>1, <1>2, <1>4 DEF Moved, Row, LiveOrNone
  <1>6. audit[row.id] \o path \in Seq(Status)
    BY <1>2, <1>4 DEF TypedShape, StoreType
  <1>7. audit' \in [DocIds -> Seq(Status)]
    BY <1>1, <1>4, <1>6 DEF Moved, TypedShape, StoreType
  <1>8. QED
    BY <1>3, <1>4, <1>5, <1>7

LEMMA CommitsKeepsShape ==
  ASSUME TypedShape, NEW w \in Workers, Commits(w), vectors' \subseteq Batch
  PROVE  StoreType' /\ LiveOrNone(row')
  <1>1. CASE Keeps
    BY <1>1 DEF Keeps, TypedShape, StoreType, Shape, LiveOrNone
  <1>2. CASE Advances(w)
    <2>1. [doc |-> Doc(w), run |-> job[w].run] \in Batch
      BY <1>2, AdvancesKeepsShape
      DEF TypedShape, StoreType, ControlType, Batch, Row, Job, Doc
    <2>2. chunks' \subseteq Batch
      BY <1>2, <2>1 DEF Advances, ChunksWritten, TypedShape, StoreType
    <2>3. QED
      BY <1>2, <2>2, AdvancesKeepsShape DEF StoreType
  <1>3. CASE Creates(w)
    <2>1. job[w].run \in DocIds /\ job[w].run # NoDoc
      BY IngestionAssumption
      DEF TypedShape, ControlType, Job, Runs, DocIds, NoDoc
    <2>2. <<"queued">> \in Seq(Status) /\ "queued" \in Status
      BY DEF Status
    <2>3. row' \in Row /\ LiveOrNone(row')
      BY <1>3, <2>1 DEF Creates, Row, LiveOrNone, Status
    <2>4. QED
      BY <1>3, <2>1, <2>2, <2>3 DEF Creates, TypedShape, StoreType
  <1>4. CASE Erases(w)
    BY <1>4, NoJobType DEF Erases, TypedShape, StoreType, LiveOrNone
  <1>5. QED
    BY <1>1, <1>2, <1>3, <1>4 DEF Commits

-----------------------------------------------------------------------------
(* What a step of w leaves to the others, and where it can take w.         *)
BeforeRow == {"lookup", "select", "create"}

Frame(w) ==
  /\ runs' = runs
  /\ \A v \in Workers \ {w} : /\ pc'[v] = pc[v] /\ job'[v] = job[v]
                              /\ rowLock = v => rowLock' = v
  /\ pc'[w] # "idle" => pc[w] # "idle" /\ job'[w].run = job[w].run
  /\ pc'[w] \in BeforeRow => pc[w] \in BeforeRow /\ Keeps
  /\ pc'[w] = "cascade" => /\ rowLock' = w /\ row.id = Doc(w)
                           /\ job'[w] = job[w] /\ Keeps

Effects(w) ==
  /\ Commits(w)
  /\ Frame(w)
  /\ vectors' \subseteq Batch
  /\ ControlType'
  /\ \A v \in Workers : /\ LiveOrNone(job'[v].held)
                        /\ pc'[v] \notin Unheld => Doc(v)' # NoDoc

LEMMA EndsFrame ==
  ASSUME TypedShape, NEW w \in Workers, Ends(w)
  PROVE  Frame(w)
  BY IngestionAssumption
  DEF TypedShape, ControlType, Ends, Finish, Goto, Frame, BeforeRow

LEMMA MovesOnFrame ==
  ASSUME TypedShape, NEW w \in Workers, MovesOn(w)
  PROVE  Frame(w)
  BY DEF TypedShape, ControlType, MovesOn, Goto, Frame, BeforeRow, Unheld

(* A step that only changes where w is, or ends its command.               *)
LEMMA PlainEffects ==
  ASSUME TypedShape, NEW w \in Workers, Ends(w) \/ MovesOn(w),
         Commits(w), vectors' \subseteq Batch
  PROVE  Effects(w)
  BY EndsKeepsShape, MovesOnKeepsShape, EndsFrame, MovesOnFrame DEF Effects

(* ready can only be left for parsing.                                     *)
LEMMA ReadyLeavesToParsing ==
  ASSUME NEW to \in Status, "ready" \in LegalPredecessors[to]
  PROVE  to = "parsing"
  BY DEF LegalPredecessors, LegalTransitions, Status

LEMMA TransitionEffects ==
  ASSUME TypedShape, NEW w \in Workers, NEW path \in Paths,
         path[Len(path)] # "ready", pc[w] \notin Unheld,
         \/ \E label \in PC \ (Unheld \cup {"cascade"}) : TransitionTo(w, path, label)
         \/ TransitionLast(w, path)
  PROVE  Effects(w)
  <1>1. path[1] \in Status /\ (path[1] = "parsing" => path = <<"parsing">>)
    <2>1. CASE path = <<"failed", "queued">>
      BY <2>1 DEF Status
    <2>2. CASE \E s \in Status : path = <<s>>
      BY <2>2
    <2>3. QED
      BY <2>1, <2>2 DEF Paths
  <1>2. row.count \in {0, 1} /\ vectors \subseteq Batch
    BY DEF TypedShape, StoreType, Row
  <1>3. ASSUME rowLock = NoWorker, Legal(w, path[1]), Moved(path, row.count),
               UNCHANGED chunks
        PROVE  Commits(w)
    BY <1>1, <1>2, <1>3, ReadyLeavesToParsing DEF Commits, Advances, Legal
  <1>4. "returned" \in Outcome /\ "illegal" \in Outcome /\ "not_found" \in Outcome
    BY DEF Outcome
  <1>5. CASE TransitionRaises(w, path[1])
    <2>1. Ends(w)
      BY <1>4, <1>5 DEF TransitionRaises, Ends
    <2>2. Keeps /\ vectors' = vectors
      BY <1>5 DEF TransitionRaises, Keeps, stores
    <2>3. QED
      BY <1>2, <2>1, <2>2, PlainEffects DEF Commits
  <1>6. CASE \E label \in PC \ (Unheld \cup {"cascade"}) : TransitionTo(w, path, label)
    <2>1. PICK label \in PC \ (Unheld \cup {"cascade"}) : TransitionTo(w, path, label)
      BY <1>6
    <2>2. ASSUME ~TransitionRaises(w, path[1])
          PROVE  /\ MovesOn(w) /\ Commits(w) /\ vectors' = vectors
      BY <2>1, <2>2, <1>3 DEF TransitionTo, MovesOn
    <2>3. QED
      BY <1>2, <1>5, <2>2, PlainEffects
  <1>7. CASE TransitionLast(w, path)
    <2>1. ASSUME ~TransitionRaises(w, path[1])
          PROVE  /\ Ends(w) /\ Commits(w) /\ vectors' = vectors
      BY <1>4, <1>7, <2>1, <1>3 DEF TransitionLast, Ends
    <2>2. QED
      BY <1>2, <1>5, <2>1, PlainEffects
  <1>8. QED
    BY <1>6, <1>7

-----------------------------------------------------------------------------
(* The actions of a command, one lemma for each shape of step.             *)
LEMMA EndsQuietly ==
  ASSUME TypedShape, NEW w \in Workers, NEW how \in Outcome,
         Finish(w, how), UNCHANGED stores
  PROVE  Effects(w)
  <1>1. Ends(w)
    BY DEF Ends
  <1>2. Commits(w) /\ vectors' \subseteq Batch
    BY DEF stores, Commits, Keeps, TypedShape, StoreType
  <1>3. QED
    BY <1>1, <1>2, PlainEffects

LEMMA MovesOnQuietly ==
  ASSUME TypedShape, NEW w \in Workers, MovesOn(w), Keeps, vectors' \subseteq Batch
  PROVE  Effects(w)
  BY PlainEffects DEF Commits

(* A step that loads the row or the snapshot of a DELETE into memory.      *)
LEMMA RemembersQuietly ==
  ASSUME TypedShape, NEW w \in Workers, pc[w] # "idle",
         NEW held \in Row, NEW mine \in SUBSET Batch,
         LiveOrNone(held),
         job' = [job EXCEPT ![w] = [job[w] EXCEPT !.held = held, !.mine = mine]],
         NEW label \in PC \ {"cascade", "idle"}, Goto(w, label),
         label \in BeforeRow => pc[w] \in BeforeRow,
         label \notin Unheld => held.id # NoDoc,
         UNCHANGED stores, UNCHANGED <<rowLock, outcome, runs>>
  PROVE  Effects(w)
  <1>1. job \in [Workers -> Job] /\ pc \in [Workers -> PC] /\ vectors \subseteq Batch
    BY DEF TypedShape, ControlType, StoreType
  <1>2. /\ job'[w] \in Job /\ job'[w].held = held /\ job'[w].run = job[w].run
        /\ \A v \in Workers \ {w} : job'[v] = job[v]
    BY <1>1 DEF Job
  <1>3. pc'[w] = label /\ \A v \in Workers \ {w} : pc'[v] = pc[v]
    BY <1>1 DEF Goto
  <1>4. ControlType'
    BY <1>1, <1>2 DEF TypedShape, ControlType, Goto
  <1>5. Frame(w)
    BY <1>2, <1>3 DEF Frame, Keeps, stores
  <1>6. Commits(w) /\ vectors' \subseteq Batch
    BY <1>1 DEF Commits, Keeps, stores
  <1>7. \A v \in Workers : /\ LiveOrNone(job'[v].held)
                           /\ pc'[v] \notin Unheld => Doc(v)' # NoDoc
    BY <1>2, <1>3 DEF TypedShape, Shape, Doc
  <1>8. QED
    BY <1>4, <1>5, <1>6, <1>7 DEF Effects

LEMMA VectorDeleteEffects ==
  ASSUME TypedShape, NEW w \in Workers, pc[w] \notin Unheld,
         NEW label \in PC \ (Unheld \cup {"cascade"}), VectorDelete(w, label)
  PROVE  Effects(w)
  <1>1. CASE Finish(w, "unavailable") /\ UNCHANGED stores
    BY <1>1, EndsQuietly DEF Outcome
  <1>2. CASE ~(Finish(w, "unavailable") /\ UNCHANGED stores)
    <2>1. MovesOn(w) /\ Keeps
      BY <1>2 DEF VectorDelete, MovesOn, Keeps
    <2>2. vectors' \subseteq Batch
      BY <1>2 DEF VectorDelete, TypedShape, StoreType
    <2>3. QED
      BY <2>1, <2>2, MovesOnQuietly
  <1>3. QED
    BY <1>1, <1>2

LEMMA LoadEffects ==
  ASSUME TypedShape, NEW w \in Workers, Lookup(w) \/ Select(w) \/ Find(w)
  PROVE  Effects(w)
  <1> DEFINE mine == job[w].mine
  <1>1. /\ row \in Row /\ LiveOrNone(row) /\ job[w] \in Job
        /\ job[w].held \in Row /\ LiveOrNone(job[w].held) /\ mine \in SUBSET Batch
        /\ NoRow \in Row /\ LiveOrNone(NoRow)
    BY NoJobType DEF TypedShape, StoreType, ControlType, Shape, Job, LiveOrNone
  <1>2. \A held : [job EXCEPT ![w].held = held]
                    = [job EXCEPT ![w] = [job[w] EXCEPT !.held = held, !.mine = mine]]
    BY <1>1 DEF Job, TypedShape, ControlType
  <1>3. CASE Lookup(w)
    <2>1. CASE Finish(w, "not_found") /\ UNCHANGED stores
      BY <2>1, EndsQuietly DEF Outcome
    <2>2. CASE ~(Finish(w, "not_found") /\ UNCHANGED stores)
      BY <1>1, <1>2, <1>3, <2>2, RemembersQuietly
      DEF Lookup, PC, BeforeRow, Unheld, LiveOrNone
    <2>3. QED
      BY <2>1, <2>2
  <1>4. CASE Find(w)
    <2>1. CASE Finish(w, "not_found") /\ UNCHANGED stores
      BY <2>1, EndsQuietly DEF Outcome
    <2>2. CASE ~(Finish(w, "not_found") /\ UNCHANGED stores)
      BY <1>1, <1>2, <1>4, <2>2, RemembersQuietly
      DEF Find, PC, BeforeRow, Unheld, LiveOrNone
    <2>3. QED
      BY <2>1, <2>2
  <1>5. CASE Select(w)
    <2>1. Found(w) \in Row /\ LiveOrNone(Found(w))
      BY <1>1 DEF Found
    <2>2. CASE Finish(w, "returned") /\ UNCHANGED stores
      BY <2>2, EndsQuietly DEF Outcome
    <2>3. CASE ~(Finish(w, "returned") /\ UNCHANGED stores)
      <3>1. PICK label \in {"resume", "create"} :
              /\ job' = [job EXCEPT ![w].held = Found(w)]
              /\ Goto(w, label)
              /\ label = "resume" => Found(w).status # "absent"
              /\ pc[w] = "select"
              /\ UNCHANGED stores /\ UNCHANGED <<rowLock, outcome, runs>>
        BY <1>5, <2>3 DEF Select
      <3>2. label = "resume" => Found(w).id # NoDoc
        BY <2>1, <3>1 DEF LiveOrNone, NoRow
      <3>3. /\ label \in PC \ {"cascade", "idle"} /\ pc[w] # "idle"
            /\ pc[w] \in BeforeRow
            /\ label \notin Unheld => Found(w).id # NoDoc
        BY <3>1, <3>2 DEF PC, BeforeRow, Unheld
      <3>4. QED
        BY <1>1, <1>2, <2>1, <3>1, <3>3, RemembersQuietly
    <2>4. QED
      BY <2>2, <2>3
  <1>6. QED
    BY <1>3, <1>4, <1>5

LEMMA CreateRowEffects ==
  ASSUME TypedShape, NEW w \in Workers, CreateRow(w)
  PROVE  Effects(w)
  <1>1. CASE Finish(w, "conflict") /\ UNCHANGED stores
    BY <1>1, EndsQuietly DEF Outcome
  <1>2. CASE ~(Finish(w, "conflict") /\ UNCHANGED stores)
    <2> DEFINE new == [id |-> job[w].run, status |-> "queued", count |-> 0]
    <2>1. /\ job \in [Workers -> Job] /\ pc \in [Workers -> PC] /\ vectors \subseteq Batch
          /\ job[w].run \in DocIds
      BY DEF TypedShape, ControlType, StoreType, Job, Runs, DocIds
    <2>2. new \in Row /\ LiveOrNone(new) /\ new.id # NoDoc
      BY <2>1, IngestionAssumption DEF Row, LiveOrNone, Status, DocIds, NoDoc
    <2>3. /\ pc[w] = "create" /\ job' = [job EXCEPT ![w].held = new] /\ Goto(w, "start")
          /\ UNCHANGED <<rowLock, outcome, runs, vectors>>
          /\ Creates(w)
      BY <1>2 DEF CreateRow, Creates
    <2>4. /\ job'[w] \in Job /\ job'[w].held = new /\ job'[w].run = job[w].run
          /\ \A v \in Workers \ {w} : job'[v] = job[v]
      BY <2>1, <2>2, <2>3 DEF Job
    <2>5. pc'[w] = "start" /\ \A v \in Workers \ {w} : pc'[v] = pc[v]
      BY <2>1, <2>3 DEF Goto
    <2>6. ControlType'
      BY <2>1, <2>3, <2>4, <2>5 DEF TypedShape, ControlType, Goto, PC
    <2>7. Frame(w)
      BY <2>3, <2>4, <2>5 DEF Frame, BeforeRow
    <2>8. \A v \in Workers : /\ LiveOrNone(job'[v].held)
                             /\ pc'[v] \notin Unheld => Doc(v)' # NoDoc
      BY <2>2, <2>4, <2>5 DEF TypedShape, Shape, Doc
    <2>9. QED
      BY <2>1, <2>3, <2>6, <2>7, <2>8 DEF Effects, Commits
  <1>3. QED
    BY <1>1, <1>2

LEMMA MoveEffects ==
  ASSUME TypedShape, NEW w \in Workers,
         Resume(w) \/ Start(w) \/ Parse(w) \/ Unindexable(w)
  PROVE  Effects(w)
  <1>1. /\ <<"queued">> \in Paths /\ <<"parsing">> \in Paths /\ <<"indexing">> \in Paths
        /\ <<"failed">> \in Paths /\ <<"quarantined">> \in Paths
        /\ <<"failed", "queued">> \in Paths
    BY DEF Paths, Status
  <1>2. {"start", "parse", "chunk"} \subseteq PC \ (Unheld \cup {"cascade"})
    BY DEF PC, Unheld
  <1>3. CASE Resume(w)
    <2>1. pc[w] \notin Unheld
      BY <1>3 DEF Resume, Unheld
    <2>2. ResumePath(job[w].held.status)
            \in {<< >>, <<"queued">>, <<"failed", "queued">>}
      BY DEF ResumePath
    <2>3. CASE ResumePath(job[w].held.status) = << >>
      <3>1. MovesOn(w) /\ UNCHANGED stores
        BY <1>2, <1>3, <2>1, <2>3 DEF Resume, MovesOn
      <3>2. Keeps /\ vectors' \subseteq Batch
        BY <3>1 DEF Keeps, stores, TypedShape, StoreType
      <3>3. QED
        BY <3>1, <3>2, MovesOnQuietly
    <2>4. CASE ResumePath(job[w].held.status) = <<"queued">>
      <3>1. TransitionTo(w, <<"queued">>, "start")
        BY <1>3, <2>4 DEF Resume
      <3>2. QED
        BY <1>1, <1>2, <2>1, <3>1, TransitionEffects
    <2>5. CASE ResumePath(job[w].held.status) = <<"failed", "queued">>
      <3>1. TransitionTo(w, <<"failed", "queued">>, "start")
        BY <1>3, <2>5 DEF Resume
      <3>2. QED
        BY <1>1, <1>2, <2>1, <3>1, TransitionEffects
    <2>6. QED
      BY <2>2, <2>3, <2>4, <2>5
  <1>4. CASE Start(w)
    <2>1. pc[w] \notin Unheld /\ TransitionTo(w, <<"parsing">>, "parse")
      BY <1>4 DEF Start, Unheld
    <2>2. QED
      BY <1>1, <1>2, <2>1, TransitionEffects
  <1>5. CASE Parse(w)
    <2>1. /\ pc[w] \notin Unheld
          /\ \/ TransitionTo(w, <<"indexing">>, "chunk")
             \/ TransitionLast(w, <<"failed">>)
             \/ TransitionLast(w, <<"quarantined">>)
      BY <1>5 DEF Parse, Unheld
    <2>2. QED
      BY <1>1, <1>2, <2>1, TransitionEffects
  <1>6. CASE Unindexable(w)
    <2>1. pc[w] \notin Unheld /\ TransitionLast(w, <<"failed">>)
      BY <1>6 DEF Unindexable, Unheld
    <2>2. QED
      BY <1>1, <2>1, TransitionEffects
  <1>7. QED
    BY <1>3, <1>4, <1>5, <1>6

LEMMA EndingEffects ==
  ASSUME TypedShape, NEW w \in Workers,
         RefuseNetwork(w) \/ DeclineErase(w) \/ DeadlockVictim(w) \/ Crash(w)
  PROVE  Effects(w)
  BY EndsQuietly DEF RefuseNetwork, DeclineErase, DeadlockVictim, Crash, Outcome

(* The steps of the final transaction before its commit.                   *)
LEMMA FinalTransactionEffects ==
  ASSUME TypedShape, NEW w \in Workers,
         \/ SendDelete(w) \/ DeleteChunks(w) \/ DeleteVectors(w)
         \/ Embed(w) \/ Upsert(w)
  PROVE  Effects(w)
  <1> DEFINE held == job[w].held
  <1>1. /\ job[w] \in Job /\ held \in Row /\ LiveOrNone(held)
        /\ pc[w] \notin Unheld => held.id # NoDoc
        /\ chunks \subseteq Batch /\ vectors \subseteq Batch
    BY DEF TypedShape, StoreType, ControlType, Shape, Job, Doc
  <1>2. \A mine : [job EXCEPT ![w].mine = mine]
                    = [job EXCEPT ![w] = [job[w] EXCEPT !.held = held, !.mine = mine]]
    BY <1>1 DEF Job, TypedShape, ControlType
  <1>3. CASE SendDelete(w)
    <2>1. BatchesOf(Doc(w), chunks) \in SUBSET Batch
      BY <1>1 DEF BatchesOf
    <2>2. /\ pc[w] # "idle" /\ held.id # NoDoc
          /\ "delete_chunks" \in PC \ {"cascade", "idle"} /\ "delete_chunks" \notin BeforeRow
      BY <1>1, <1>3 DEF SendDelete, Unheld, PC, BeforeRow
    <2>3. /\ job' = [job EXCEPT ![w].mine = BatchesOf(Doc(w), chunks)]
          /\ Goto(w, "delete_chunks")
          /\ UNCHANGED stores /\ UNCHANGED <<rowLock, outcome, runs>>
      BY <1>3 DEF SendDelete
    <2>4. QED
      BY <1>1, <1>2, <2>1, <2>2, <2>3, RemembersQuietly
  <1>4. CASE DeleteChunks(w)
    <2>1. job[w].mine \cap chunks \in SUBSET Batch
      BY <1>1
    <2>2. /\ pc[w] # "idle" /\ held.id # NoDoc
          /\ "delete_vectors" \in PC \ {"cascade", "idle"}
          /\ "delete_vectors" \notin BeforeRow
      BY <1>1, <1>4 DEF DeleteChunks, Unheld, PC, BeforeRow, InFinalTransaction
    <2>3. /\ job' = [job EXCEPT ![w].mine = job[w].mine \cap chunks]
          /\ Goto(w, "delete_vectors")
          /\ UNCHANGED stores /\ UNCHANGED <<rowLock, outcome, runs>>
      BY <1>4 DEF DeleteChunks
    <2>4. QED
      BY <1>1, <1>2, <2>1, <2>2, <2>3, RemembersQuietly
  <1>5. CASE DeleteVectors(w)
    BY <1>5, VectorDeleteEffects DEF DeleteVectors, Unheld, PC, InFinalTransaction
  <1>6. CASE Embed(w)
    <2>1. MovesOn(w) /\ Keeps /\ vectors' = vectors
      BY <1>6 DEF Embed, MovesOn, Keeps, stores, Unheld, PC, InFinalTransaction
    <2>2. QED
      BY <1>1, <2>1, MovesOnQuietly
  <1>7. CASE Upsert(w)
    <2>1. [doc |-> Doc(w), run |-> job[w].run] \in Batch
      BY <1>1, <1>7 DEF Upsert, Unheld, Batch, Doc, Job, Row
    <2>2. MovesOn(w) /\ Keeps /\ vectors' \subseteq Batch
      BY <1>1, <1>7, <2>1
      DEF Upsert, MovesOn, Keeps, Unheld, PC, InFinalTransaction
    <2>3. QED
      BY <2>2, MovesOnQuietly
  <1>8. QED
    BY <1>3, <1>4, <1>5, <1>6, <1>7

LEMMA CommitEffects ==
  ASSUME TypedShape, NEW w \in Workers, Commit(w) \/ Abandon(w)
  PROVE  Effects(w)
  <1>1. /\ row \in Row /\ vectors \subseteq Batch
        /\ "returned" \in Outcome /\ "illegal" \in Outcome /\ "not_found" \in Outcome
        /\ <<"ready">> \in Paths /\ <<"failed">> \in Paths
        /\ "failed" \in Status
    BY DEF TypedShape, StoreType, Outcome, Paths, Status
  <1>2. ASSUME NEW to, TransitionRaises(w, to)
        PROVE  Effects(w)
    BY <1>1, <1>2, EndsQuietly DEF TransitionRaises
  <1>3. CASE Commit(w) /\ ~TransitionRaises(w, "ready")
    <2>1. Ends(w) /\ vectors' \subseteq Batch
      BY <1>1, <1>3 DEF Commit, Ends
    <2>2. Advances(w)
      BY <1>1, <1>3 DEF Commit, Advances, CountWritten
    <2>3. QED
      BY <2>1, <2>2, PlainEffects DEF Commits
  <1>4. CASE Abandon(w) /\ ~TransitionRaises(w, "failed")
    <2>1. Ends(w) /\ vectors' \subseteq Batch
      BY <1>1, <1>4 DEF Abandon, Ends
    <2>2. AbandonedCount(w) \in {0, 1}
      BY <1>1 DEF AbandonedCount, Row
    <2>3. Legal(w, "failed") /\ row.status # "ready"
      BY <1>1, <1>4, ReadyLeavesToParsing DEF Abandon, Legal
    <2>4. Advances(w)
      BY <1>1, <1>4, <2>2, <2>3 DEF Abandon, Advances
    <2>5. QED
      BY <2>1, <2>4, PlainEffects DEF Commits
  <1>5. QED
    BY <1>2, <1>3, <1>4

LEMMA EraseEffects ==
  ASSUME TypedShape, NEW w \in Workers, EraseVectors(w) \/ EraseRow(w) \/ Cascade(w)
  PROVE  Effects(w)
  <1>1. vectors \subseteq Batch /\ "returned" \in Outcome
    BY DEF TypedShape, StoreType, Outcome
  <1>2. CASE EraseVectors(w)
    BY <1>2, VectorDeleteEffects DEF EraseVectors, Unheld, PC
  <1>3. CASE EraseRow(w)
    <2>1. CASE Finish(w, "returned")
      BY <1>1, <1>3, <2>1, EndsQuietly DEF EraseRow
    <2>2. CASE ~Finish(w, "returned")
      <3>1. /\ row.id = Doc(w) /\ rowLock = NoWorker /\ rowLock' = w
            /\ pc' = [pc EXCEPT ![w] = "cascade"] /\ job' = job
            /\ pc[w] = "erase_row" /\ frozen' = frozen
            /\ UNCHANGED stores /\ UNCHANGED <<outcome, runs>>
        BY <1>3, <2>2 DEF EraseRow, Goto
      <3>2. Keeps /\ Commits(w) /\ vectors' \subseteq Batch
        BY <1>1, <3>1 DEF Keeps, Commits, stores
      <3>3. ControlType'
        BY <3>1 DEF TypedShape, ControlType, PC
      <3>4. Frame(w)
        BY <3>1, <3>2, IngestionAssumption DEF Frame, TypedShape, ControlType, BeforeRow
      <3>5. \A v \in Workers : /\ LiveOrNone(job'[v].held)
                               /\ pc'[v] \notin Unheld => Doc(v)' # NoDoc
        BY <3>1 DEF TypedShape, ControlType, Shape, Doc, Unheld
      <3>6. QED
        BY <3>2, <3>3, <3>4, <3>5 DEF Effects
    <2>3. QED
      BY <2>1, <2>2
  <1>4. CASE Cascade(w)
    <2>1. Ends(w) /\ vectors' \subseteq Batch /\ Erases(w)
      BY <1>1, <1>4 DEF Cascade, Ends, Erases
    <2>2. QED
      BY <2>1, PlainEffects DEF Commits
  <1>5. QED
    BY <1>2, <1>3, <1>4

LEMMA StepEffects ==
  ASSUME TypedShape, NEW w \in Workers, CommandStep(w) \/ Crash(w)
  PROVE  Effects(w)
  BY LoadEffects, CreateRowEffects, MoveEffects, EndingEffects,
     FinalTransactionEffects, CommitEffects, EraseEffects
  DEF CommandStep, IngestStep

-----------------------------------------------------------------------------
(* A command that begins: a run number of its own, nothing held.           *)
Issue(w) ==
  \E op \in {"ingest", "reindex", "delete"}, net \in BOOLEAN : Begin(w, op, net)

LEMMA IssueFacts ==
  ASSUME TypedShape, NEW w \in Workers, Issue(w)
  PROVE  /\ pc[w] = "idle" /\ runs' = runs + 1 /\ runs < MaxRuns
         /\ UNCHANGED <<row, chunks, audit, vectors, rowLock>>
         /\ pc'[w] \in {"select", "lookup", "find"}
         /\ job'[w].run = runs + 1
         /\ \A v \in Workers \ {w} : pc'[v] = pc[v] /\ job'[v] = job[v]
         /\ TypedShape'
  <1>1. PICK op \in {"ingest", "reindex", "delete"}, net \in BOOLEAN : Begin(w, op, net)
    BY DEF Issue
  <1> DEFINE new == [NoJob EXCEPT !.op = op, !.net = net, !.run = runs + 1]
  <1>2. runs \in Nat /\ runs + 1 \in Runs /\ runs' = runs + 1 /\ runs + 1 \in 0 .. MaxRuns
    BY <1>1, IngestionAssumption DEF Begin, TypedShape, ControlType, Runs
  <1>3. new \in Job /\ new.held = NoRow /\ new.run = runs + 1
    BY <1>2, NoJobType DEF Job, NoJob
  <1>4. job' = [job EXCEPT ![w] = new]
    BY <1>1 DEF Begin
  <1>5. PICK label \in {"select", "lookup", "find"} : Goto(w, label)
    BY <1>1 DEF Begin
  <1>6. ControlType'
    BY <1>1, <1>2, <1>3, <1>4, <1>5
    DEF Begin, Goto, TypedShape, ControlType, PC, Outcome
  <1>7. Shape'
    BY <1>1, <1>3, <1>4, <1>5
    DEF Begin, Goto, TypedShape, ControlType, Shape, Doc, Unheld, LiveOrNone
  <1>8. StoreType'
    BY <1>1 DEF Begin, TypedShape, StoreType
  <1>9. QED
    BY <1>1, <1>2, <1>3, <1>4, <1>5, <1>6, <1>7, <1>8
    DEF Begin, Goto, TypedShape, ControlType

LEMMA TypedShapeStep == TypedShape /\ [Next]_vars => TypedShape'
  <1> SUFFICES ASSUME TypedShape, [Next]_vars PROVE TypedShape'
    OBVIOUS
  <1>1. ASSUME NEW w \in Workers, Issue(w)
        PROVE  TypedShape'
    BY <1>1, IssueFacts
  <1>2. ASSUME NEW w \in Workers, CommandStep(w) \/ Crash(w)
        PROVE  TypedShape'
    BY <1>2, StepEffects, CommitsKeepsShape DEF Effects, TypedShape, Shape
  <1>3. CASE UNCHANGED vars
    BY <1>3 DEF vars, TypedShape, StoreType, ControlType, Shape, Doc, LiveOrNone
  <1>4. QED
    BY <1>1, <1>2, <1>3 DEF Next, Issue

(* Every variable stays in its type, and what a worker acts on is a row    *)
(* that existed (the ORM object of ingestion.py:117-167).                  *)
THEOREM IngestionTypeOK == Spec => []TypeOK
  <1>1. TypedShape => TypeOK
    BY DEF TypedShape, TypeOK, StoreType, ControlType
  <1>2. QED
    BY <1>1, TypedShapeInit, TypedShapeStep, PTL DEF Spec

-----------------------------------------------------------------------------
(* A worker in the middle of DELETE FROM documents holds the row's lock,   *)
(* so the row it cascades from is still the document it was told to delete *)
CascadeHolds ==
  \A w \in Workers : pc[w] = "cascade" => rowLock = w /\ row.id = Doc(w)

(* ReadyIsSearchable is not inductive: the cascade deletes the chunk rows  *)
(* of Doc(w) and the row together, which agree only because of the lock.   *)
SearchInv == TypedShape /\ CascadeHolds /\ ReadyIsSearchable

LEMMA CascadeHoldsStep ==
  ASSUME TypedShape, CascadeHolds, NEW w \in Workers, Commits(w), Frame(w)
  PROVE  CascadeHolds'
  <1> SUFFICES ASSUME NEW v \in Workers, pc'[v] = "cascade"
               PROVE  rowLock' = v /\ row'.id = job'[v].held.id
    BY DEF CascadeHolds, Doc
  <1>1. CASE v = w
    BY <1>1 DEF Frame, Keeps, Doc
  <1>2. CASE v # w
    <2>1. pc[v] = "cascade" /\ job'[v] = job[v] /\ rowLock = v /\ rowLock' = v
          /\ row.id = Doc(v)
      BY <1>2 DEF Frame, CascadeHolds
    <2>2. Keeps
      BY <1>2, <2>1, IngestionAssumption DEF Commits, Advances, Creates, Erases, CascadeHolds
    <2>3. QED
      BY <2>1, <2>2 DEF Keeps, Doc
  <1>3. QED
    BY <1>1, <1>2

LEMMA SearchableStep ==
  ASSUME TypedShape, CascadeHolds, ReadyIsSearchable, NEW w \in Workers, Commits(w)
  PROVE  ReadyIsSearchable'
  <1> USE DEF ReadyIsSearchable, ReadyHasChunks, ChunksHaveRow
  <1>1. CASE Keeps
    BY <1>1 DEF Keeps
  <1>2. CASE Advances(w)
    <2>1. PICK path \in Paths, count \in {0, 1} :
            /\ Moved(path, count)
            /\ \/ path[Len(path)] # "ready" /\ chunks' \subseteq chunks
               \/ path = <<"ready">> /\ count = 1 /\ chunks' = ChunksWritten(w)
      BY <1>2 DEF Advances
    <2>2. row \in Row /\ row'.id = row.id /\ row.id = Doc(w)
      BY <1>2, AdvancesKeepsShape DEF TypedShape, StoreType
    <2>3. row'.status = path[Len(path)] /\ row'.count = count
      BY <2>1, <2>2 DEF Moved, Row
    <2>4. CASE path[Len(path)] # "ready" /\ chunks' \subseteq chunks
      BY <2>2, <2>3, <2>4
    <2>5. CASE path = <<"ready">> /\ count = 1 /\ chunks' = ChunksWritten(w)
      <3> DEFINE new == [doc |-> Doc(w), run |-> job[w].run]
      <3>1. new.doc = row'.id
        BY <2>2
      <3>2. new \in chunks' /\ chunks' \subseteq chunks \cup {new}
        BY <2>5 DEF ChunksWritten
      <3>3. \A b \in chunks' : b.doc = row'.id
        BY <2>2, <3>1, <3>2
      <3>4. QED
        BY <2>3, <2>5, <3>2, <3>3
    <2>6. QED
      BY <2>1, <2>4, <2>5
  <1>3. CASE Creates(w)
    <2>1. \A b \in chunks : b.doc \in DocIds
      BY DEF TypedShape, StoreType, Batch
    <2>2. chunks = {}
      BY <1>3, <2>1, IngestionAssumption DEF Creates, NoRow, DocIds, NoDoc
    <2>3. QED
      BY <1>3, <2>2 DEF Creates
  <1>4. CASE Erases(w)
    <2>1. \A b \in chunks : b.doc = Doc(w)
      BY <1>4 DEF Erases, CascadeHolds
    <2>2. chunks' = {} /\ row'.status = "absent"
      BY <1>4, <2>1 DEF Erases, BatchesOf, NoRow
    <2>3. QED
      BY <2>2
  <1>5. QED
    BY <1>1, <1>2, <1>3, <1>4 DEF Commits

LEMMA SearchInvInit == Init => SearchInv
  <1> SUFFICES ASSUME Init PROVE SearchInv
    OBVIOUS
  <1>1. TypedShape /\ CascadeHolds
    BY TypedShapeInit DEF Init, CascadeHolds
  <1>2. ReadyIsSearchable
    <2>1. CASE row = NoRow /\ chunks = {}
      BY <2>1 DEF ReadyIsSearchable, ReadyHasChunks, ChunksHaveRow, NoRow
    <2>2. CASE /\ row = [id |-> 0, status |-> "ready", count |-> 1]
               /\ chunks = {[doc |-> 0, run |-> 0]}
      BY <2>2 DEF ReadyIsSearchable, ReadyHasChunks, ChunksHaveRow
    <2>3. QED
      BY <2>1, <2>2 DEF Init
  <1>3. QED
    BY <1>1, <1>2 DEF SearchInv

LEMMA SearchInvStep == SearchInv /\ [Next]_vars => SearchInv'
  <1> SUFFICES ASSUME SearchInv, [Next]_vars PROVE SearchInv'
    OBVIOUS
  <1>1. TypedShape'
    BY TypedShapeStep DEF SearchInv
  <1>2. ASSUME NEW w \in Workers, Issue(w)
        PROVE  CascadeHolds' /\ ReadyIsSearchable'
    BY <1>2, IssueFacts
    DEF SearchInv, CascadeHolds, ReadyIsSearchable, ReadyHasChunks, ChunksHaveRow, Doc
  <1>3. ASSUME NEW w \in Workers, CommandStep(w) \/ Crash(w)
        PROVE  CascadeHolds' /\ ReadyIsSearchable'
    BY <1>3, StepEffects, CascadeHoldsStep, SearchableStep DEF SearchInv, Effects
  <1>4. CASE UNCHANGED vars
    BY <1>1, <1>4
    DEF vars, SearchInv, CascadeHolds, ReadyIsSearchable, ReadyHasChunks, ChunksHaveRow, Doc
  <1>5. QED
    BY <1>1, <1>2, <1>3, <1>4 DEF SearchInv, Next, Issue

(* However many processes interleave and crash: a document that says ready *)
(* has chunk rows and a count that claims them, and no chunk row outlives  *)
(* its document (ingestion.py:218-276, 280-290).                           *)
THEOREM IngestionReadyIsSearchable == Spec => []ReadyIsSearchable
  <1>1. SearchInv => ReadyIsSearchable
    BY DEF SearchInv
  <1>2. QED
    BY <1>1, SearchInvInit, SearchInvStep, PTL DEF Spec

(* A step never takes a quarantined document anywhere but out of the table *)
(* and never touches its chunk rows otherwise (ingestion.py:130-132).      *)
LEMMA QuarantineStep ==
  ASSUME SearchInv, [Next]_vars, row.status = "quarantined"
  PROVE  row' = NoRow \/ (row' = row /\ chunks' = chunks)
  <1>1. ASSUME NEW w \in Workers, CommandStep(w) \/ Crash(w)
        PROVE  row' = NoRow \/ (row' = row /\ chunks' = chunks)
    <2>1. Commits(w)
      BY <1>1, StepEffects DEF SearchInv, Effects
    <2>2. ~Advances(w)
      <3>1. \A to \in Status : "quarantined" \notin LegalPredecessors[to]
        BY DEF LegalPredecessors, LegalTransitions, Status
      <3>2. \A path \in Paths : path[1] \in Status
        BY PathTypes DEF Paths
      <3>3. QED
        BY <3>1, <3>2 DEF Advances, Legal
    <2>3. ~Creates(w)
      BY DEF Creates, NoRow
    <2>4. QED
      BY <2>1, <2>2, <2>3 DEF Commits, Keeps, Erases
  <1>2. ASSUME NEW w \in Workers, Issue(w)
        PROVE  row' = row /\ chunks' = chunks
    BY <1>2, IssueFacts DEF SearchInv
  <1>3. QED
    BY <1>1, <1>2 DEF Next, Issue, vars

(* Whatever stale command still runs on a quarantined document, its row    *)
(* and its chunk rows stay until it is deleted (ingestion.py:130-132).     *)
THEOREM IngestionQuarantineIsFinal == Spec => QuarantineIsFinal
  <1>1. SearchInv /\ [Next]_vars =>
          [row.status = "quarantined" => \/ row' = NoRow
                                         \/ row' = row /\ chunks' = chunks]_<<row, chunks>>
    BY QuarantineStep
  <1>2. QED
    BY <1>1, SearchInvInit, SearchInvStep, PTL DEF Spec, QuarantineIsFinal

-----------------------------------------------------------------------------
(* No two commands insert a row under the same identity, and a command     *)
(* that has yet to insert finds no audit trail under its own.              *)
FreshRuns ==
  /\ row.id <= runs
  /\ \A d \in DocIds : d > runs => audit[d] = << >>
  /\ \A w \in Workers :
       /\ pc[w] # "idle" => job[w].run <= runs
       /\ pc[w] \in BeforeRow => audit[job[w].run] = << >> /\ row.id # job[w].run
       /\ \A v \in Workers :
            v # w /\ pc[w] # "idle" /\ pc[v] # "idle" => job[v].run # job[w].run

RefineInv == SearchInv /\ FreshRuns

LEMMA FreshRunsInit == Init => FreshRuns
  <1> SUFFICES ASSUME Init PROVE FreshRuns
    OBVIOUS
  <1>1. runs = 0 /\ row.id <= 0
    BY DEF Init, NoRow, NoDoc
  <1>2. \A d \in DocIds : d > 0 => audit[d] = << >>
    BY DEF Init
  <1>3. QED
    BY <1>1, <1>2 DEF Init, FreshRuns, BeforeRow

LEMMA FreshRunsIssue ==
  ASSUME RefineInv, NEW w \in Workers, Issue(w)
  PROVE  FreshRuns'
  <1>1. /\ runs' = runs + 1 /\ runs + 1 \in DocIds /\ runs \in Nat
        /\ UNCHANGED <<row, audit>> /\ job'[w].run = runs + 1
        /\ \A v \in Workers \ {w} : pc'[v] = pc[v] /\ job'[v] = job[v]
    BY IssueFacts, IngestionAssumption
    DEF RefineInv, SearchInv, TypedShape, ControlType, DocIds
  <1>2. row.id \in Int /\ \A v \in Workers : job[v].run \in Int
    BY DEF RefineInv, SearchInv, TypedShape, StoreType, ControlType, Row, Job,
           DocIds, Runs, NoDoc
  <1>3. audit[runs + 1] = << >> /\ row.id # runs + 1
    BY <1>1, <1>2 DEF RefineInv, FreshRuns
  <1>4. \A v \in Workers \ {w} : pc[v] # "idle" => job[v].run <= runs /\ job[v].run # runs + 1
    BY <1>1, <1>2 DEF RefineInv, FreshRuns
  <1>5. row'.id <= runs' /\ \A d \in DocIds : d > runs' => audit'[d] = << >>
    BY <1>1, <1>2 DEF RefineInv, FreshRuns, DocIds
  <1>6. ASSUME NEW u \in Workers
        PROVE  /\ pc'[u] # "idle" => job'[u].run <= runs'
               /\ pc'[u] \in BeforeRow =>
                    audit'[job'[u].run] = << >> /\ row'.id # job'[u].run
               /\ \A v \in Workers :
                    v # u /\ pc'[u] # "idle" /\ pc'[v] # "idle" => job'[v].run # job'[u].run
    <2>1. CASE u = w
      BY <1>1, <1>2, <1>3, <1>4, <2>1
    <2>2. CASE u # w
      BY <1>1, <1>2, <1>4, <2>2 DEF RefineInv, FreshRuns
    <2>3. QED
      BY <2>1, <2>2
  <1>7. QED
    BY <1>5, <1>6 DEF FreshRuns

LEMMA FreshRunsCommand ==
  ASSUME RefineInv, NEW w \in Workers, Commits(w), Frame(w)
  PROVE  FreshRuns'
  <1>1. /\ runs' = runs /\ runs \in Nat
        /\ \A u \in Workers : pc'[u] # "idle" => pc[u] # "idle" /\ job'[u].run = job[u].run
        /\ \A u \in Workers : pc'[u] \in BeforeRow => pc[u] \in BeforeRow
        /\ \A u \in Workers : pc'[u] \in BeforeRow => pc'[u] # "idle"
    BY IngestionAssumption
    DEF Frame, RefineInv, SearchInv, TypedShape, ControlType, BeforeRow
  <1>2. \A u \in Workers :
          /\ pc'[u] # "idle" => job'[u].run <= runs'
          /\ \A v \in Workers :
               v # u /\ pc'[u] # "idle" /\ pc'[v] # "idle" => job'[v].run # job'[u].run
    BY <1>1 DEF RefineInv, FreshRuns
  <1>3. CASE Keeps
    BY <1>1, <1>2, <1>3 DEF Keeps, RefineInv, FreshRuns
  <1>4. CASE Advances(w)
    <2>1. TypedShape /\ row.id \in DocIds /\ row'.id = row.id
      BY <1>4, AdvancesKeepsShape
      DEF RefineInv, SearchInv, TypedShape, StoreType, Row
    <2>2. \A d \in DocIds : d # row.id => audit'[d] = audit[d]
      BY <1>4, <2>1 DEF Advances, Moved, TypedShape, StoreType
    <2>3. \A u \in Workers : job[u].run \in DocIds
      BY <2>1 DEF TypedShape, ControlType, Job, Runs, DocIds
    <2>4. \A u \in Workers : pc'[u] \in BeforeRow =>
            audit'[job'[u].run] = << >> /\ row'.id # job'[u].run
      BY <1>1, <2>1, <2>2, <2>3 DEF RefineInv, FreshRuns
    <2>5. row'.id <= runs' /\ \A d \in DocIds : d > runs' => audit'[d] = << >>
      BY <1>1, <2>1, <2>2 DEF RefineInv, FreshRuns, DocIds
    <2>6. QED
      BY <1>2, <2>4, <2>5 DEF FreshRuns
  <1>5. CASE Creates(w)
    <2>1. TypedShape /\ row'.id = job[w].run /\ pc[w] \in BeforeRow /\ pc[w] # "idle"
      BY <1>5 DEF Creates, BeforeRow, RefineInv, SearchInv
    <2>2. \A d \in DocIds : d # job[w].run => audit'[d] = audit[d]
      BY <1>5, <2>1 DEF Creates, TypedShape, StoreType
    <2>3. \A u \in Workers : job[u].run \in DocIds
      BY <2>1 DEF TypedShape, ControlType, Job, Runs, DocIds
    <2>4. pc'[w] \notin BeforeRow
      <3>1. ~Keeps
        BY <1>5, <2>3, IngestionAssumption DEF Creates, Keeps, NoRow, NoDoc, DocIds
      <3>2. QED
        BY <3>1 DEF Frame
    <2>5. \A u \in Workers : pc'[u] \in BeforeRow => job[u].run # job[w].run
      BY <1>1, <2>1, <2>4 DEF RefineInv, FreshRuns
    <2>6. \A u \in Workers : pc'[u] \in BeforeRow =>
            audit'[job'[u].run] = << >> /\ row'.id # job'[u].run
      BY <1>1, <2>1, <2>2, <2>3, <2>5 DEF RefineInv, FreshRuns
    <2>7. row'.id <= runs' /\ \A d \in DocIds : d > runs' => audit'[d] = << >>
      BY <1>1, <2>1, <2>2, <2>3 DEF RefineInv, FreshRuns, DocIds
    <2>8. QED
      BY <1>2, <2>6, <2>7 DEF FreshRuns
  <1>6. CASE Erases(w)
    <2>1. \A u \in Workers : job[u].run \in DocIds
      BY DEF RefineInv, SearchInv, TypedShape, ControlType, Job, Runs, DocIds
    <2>2. audit' = audit /\ row'.id = -1 /\ \A d \in DocIds : d # -1
      BY <1>6, IngestionAssumption DEF Erases, NoRow, NoDoc, DocIds
    <2>3. \A u \in Workers : pc'[u] \in BeforeRow =>
            audit'[job'[u].run] = << >> /\ row'.id # job'[u].run
      BY <1>1, <2>1, <2>2 DEF RefineInv, FreshRuns
    <2>4. row'.id <= runs' /\ \A d \in DocIds : d > runs' => audit'[d] = << >>
      BY <1>1, <2>2 DEF RefineInv, FreshRuns
    <2>5. QED
      BY <1>2, <2>3, <2>4 DEF FreshRuns
  <1>7. QED
    BY <1>3, <1>4, <1>5, <1>6 DEF Commits

LEMMA RefineInvStep == RefineInv /\ [Next]_vars => RefineInv'
  <1> SUFFICES ASSUME RefineInv, [Next]_vars PROVE RefineInv'
    OBVIOUS
  <1>1. SearchInv'
    BY SearchInvStep DEF RefineInv
  <1>2. ASSUME NEW w \in Workers, CommandStep(w) \/ Crash(w)
        PROVE  FreshRuns'
    BY <1>2, StepEffects, FreshRunsCommand DEF RefineInv, SearchInv, Effects
  <1>3. CASE UNCHANGED vars
    BY <1>1, <1>3 DEF vars, RefineInv, FreshRuns
  <1>4. QED
    BY <1>1, <1>2, <1>3, FreshRunsIssue DEF RefineInv, Next, Issue

-----------------------------------------------------------------------------
(* The refinement: the committed row and the audit trail live the abstract *)
(* life of a document.                                                     *)
LifeStatus == [d \in DocIds |-> IF row.id = d THEN row.status ELSE "absent"]

LEMMA PathsLegal ==
  ASSUME NEW path \in Paths
  PROVE  path # << >> /\ LegalPath(path)
  <1>1. CASE path = <<"failed", "queued">>
    BY <1>1 DEF LegalPath, LegalTransitions, Status
  <1>2. CASE \E s \in Status : path = <<s>>
    BY <1>2 DEF LegalPath
  <1>3. QED
    BY <1>1, <1>2 DEF Paths

LEMMA RefinesInit == Init => Lifecycle!LifecycleInit
  <1> SUFFICES ASSUME Init PROVE Lifecycle!LifecycleInit
    OBVIOUS
  <1> USE DEF Lifecycle!LifecycleInit, Lifecycle!Live, Lifecycle!ReadyTrail
  <1>1. CASE row = NoRow /\ audit = [d \in DocIds |-> << >>]
    <2>1. row.id = -1 /\ \A d \in DocIds : d # -1
      BY <1>1, IngestionAssumption DEF NoRow, NoDoc, DocIds
    <2>2. QED
      BY <1>1, <2>1
  <1>2. CASE /\ row = [id |-> 0, status |-> "ready", count |-> 1]
             /\ audit = [d \in DocIds |->
                           IF d = 0 THEN <<"queued", "parsing", "indexing", "ready">>
                                    ELSE << >>]
    <2>1. row.id = 0 /\ row.status = "ready"
      BY <1>2
    <2>2. QED
      BY <1>2, <2>1
  <1>3. QED
    BY <1>1, <1>2 DEF Init

LEMMA RefinesAdvance ==
  ASSUME RefineInv, NEW w \in Workers, Advances(w)
  PROVE  Lifecycle!LifecycleNext
  <1>1. PICK path \in Paths, count \in {0, 1} : Legal(w, path[1]) /\ Moved(path, count)
    BY DEF Advances
  <1>2. /\ TypedShape /\ row.id \in DocIds /\ row'.id = row.id /\ row \in Row
        /\ audit \in [DocIds -> Seq(Status)]
    BY AdvancesKeepsShape DEF RefineInv, SearchInv, TypedShape, StoreType, Row
  <1> PICK d \in DocIds : d = row.id
    BY <1>2
  <1>3. row.status \in Status /\ path[1] \in LegalTransitions[row.status]
    BY <1>1, PathTypes, PredecessorsInverse DEF Legal, Paths
  <1>4. Lifecycle!Live(d)
    BY <1>2, <1>3 DEF Lifecycle!Live, Status
  <1>5. LegalFrom(LifeStatus[d], path)
    BY <1>2, <1>3, PathsLegal DEF LegalFrom, LifeStatus
  <1>6. LifeStatus' = [LifeStatus EXCEPT ![d] = path[Len(path)]]
    BY <1>1, <1>2 DEF LifeStatus, Moved, Row
  <1>7. audit' = [audit EXCEPT ![d] = audit[d] \o path]
    BY <1>1 DEF Moved
  <1>8. Lifecycle!Move(d)
    BY <1>4, <1>5, <1>6, <1>7
    DEF Lifecycle!Move, Lifecycle!CommittedPaths, Lifecycle!LegalFrom, Lifecycle!LegalPath,
        LegalFrom, LegalPath, LifeStatus, Paths, Lifecycle!Status,
        Lifecycle!LegalTransitions, LegalTransitions, Status
  <1>9. QED
    BY <1>8 DEF Lifecycle!LifecycleNext

LEMMA RefinesCreate ==
  ASSUME RefineInv, NEW w \in Workers, Creates(w)
  PROVE  Lifecycle!LifecycleNext
  <1>0. job[w].run \in DocIds
    BY DEF RefineInv, SearchInv, TypedShape, ControlType, Job, Runs, DocIds
  <1> PICK d \in DocIds : d = job[w].run
    BY <1>0
  <1>1. /\ audit[d] = << >> /\ row'.id = d /\ row'.status = "queued"
        /\ audit' = [audit EXCEPT ![d] = <<"queued">>]
    BY DEF Creates, RefineInv, SearchInv, TypedShape, ControlType, Job, Runs, DocIds,
           FreshRuns, BeforeRow
  <1>2. \A e \in DocIds : LifeStatus[e] = "absent"
    BY IngestionAssumption DEF Creates, LifeStatus, NoRow, NoDoc, DocIds
  <1>3. LifeStatus' = [LifeStatus EXCEPT ![d] = "queued"]
    BY <1>1, <1>2 DEF LifeStatus
  <1>4. Lifecycle!Create(d)
    BY <1>1, <1>2, <1>3 DEF Lifecycle!Create, Lifecycle!Live, LifeStatus
  <1>5. QED
    BY <1>4 DEF Lifecycle!LifecycleNext

LEMMA RefinesErase ==
  ASSUME RefineInv, NEW w \in Workers, Erases(w)
  PROVE  Lifecycle!LifecycleNext
  <1>1. /\ row.id = Doc(w) /\ row.id # NoDoc /\ row.id \in DocIds
        /\ row.status # "absent"
    BY DEF Erases, RefineInv, SearchInv, CascadeHolds, TypedShape, StoreType, Shape,
           LiveOrNone, NoRow, Unheld, Row
  <1> PICK d \in DocIds : d = row.id
    BY <1>1
  <1>2. \A e \in DocIds : e # -1
    BY IngestionAssumption DEF DocIds
  <1>3. LifeStatus' = [LifeStatus EXCEPT ![d] = "absent"] /\ audit' = audit
    BY <1>1, <1>2 DEF Erases, LifeStatus, NoRow, NoDoc
  <1>4. Lifecycle!Live(d)
    BY <1>1 DEF Lifecycle!Live
  <1>5. Lifecycle!Erase(d)
    BY <1>3, <1>4 DEF Lifecycle!Erase, LifeStatus
  <1>6. QED
    BY <1>5 DEF Lifecycle!LifecycleNext

LEMMA RefinesStep ==
  ASSUME RefineInv, [Next]_vars
  PROVE  [Lifecycle!LifecycleNext]_(Lifecycle!lifecycleVars)
  <1>1. ASSUME NEW w \in Workers, CommandStep(w) \/ Crash(w)
        PROVE  Lifecycle!LifecycleNext \/ UNCHANGED <<row, audit>>
    BY <1>1, StepEffects, RefinesAdvance, RefinesCreate, RefinesErase
    DEF RefineInv, SearchInv, Effects, Commits, Keeps
  <1>2. ASSUME NEW w \in Workers, Issue(w)
        PROVE  UNCHANGED <<row, audit>>
    BY <1>2, IssueFacts DEF RefineInv, SearchInv
  <1>3. UNCHANGED <<row, audit>> => UNCHANGED Lifecycle!lifecycleVars
    BY DEF Lifecycle!lifecycleVars
  <1>4. QED
    BY <1>1, <1>2, <1>3 DEF Next, Issue, vars

(* Whatever processes interleave, race and crash: the committed history of *)
(* the file is a history DocumentLifecycle.tla allows; legal moves, each   *)
(* recorded in the audit trail, one live row (status.py:86-148).           *)
THEOREM IngestionImplementsLifecycle == Spec => ImplementsLifecycle
  <1>1. Init => RefineInv
    BY SearchInvInit, FreshRunsInit DEF RefineInv
  <1>2. QED
    BY <1>1, RefinesInit, RefinesStep, RefineInvStep, PTL
    DEF Spec, ImplementsLifecycle, Lifecycle!LifecycleSpec

(* So what is proved of every such history holds of the program's: the     *)
(* audit trail of a document, erased ones too, is a legal path from its    *)
(* birth to the status its row has, whatever stale command wrote last      *)
(* (status.py:105-148).                                                    *)
History == INSTANCE DocumentLifecycle_proofs WITH
  status <- [d \in DocIds |-> IF row.id = d THEN row.status ELSE "absent"],
  trail <- audit

THEOREM IngestionTrailTellsTheStory == Spec => []Lifecycle!TrailTellsTheStory
  <1>0. /\ History!Status = Lifecycle!Status
        /\ \A path : History!LegalPath(path) <=> Lifecycle!LegalPath(path)
        /\ \A from, path : History!LegalFrom(from, path) <=> Lifecycle!LegalFrom(from, path)
    BY DEF History!Status, Lifecycle!Status, History!LegalTransitions,
           Lifecycle!LegalTransitions, History!LegalPath, Lifecycle!LegalPath,
           History!LegalFrom, Lifecycle!LegalFrom
  <1>1. Lifecycle!LifecycleInit => History!LifecycleInv
    BY History!LifecycleInitInv
    DEF Lifecycle!LifecycleInit, History!LifecycleInit, Lifecycle!Live, History!Live,
        Lifecycle!ReadyTrail, History!ReadyTrail
  <1>2. History!LifecycleInv /\ [Lifecycle!LifecycleNext]_(Lifecycle!lifecycleVars)
          => History!LifecycleInv'
    BY <1>0, History!LifecycleStepInv
    DEF Lifecycle!LifecycleNext, History!LifecycleNext, Lifecycle!lifecycleVars,
        History!lifecycleVars, Lifecycle!Create, History!Create, Lifecycle!Move, History!Move,
        Lifecycle!Erase, History!Erase, Lifecycle!Live, History!Live,
        Lifecycle!CommittedPaths, History!CommittedPaths
  <1>3. History!LifecycleInv => Lifecycle!TrailTellsTheStory
    BY <1>0
       DEF History!LifecycleInv, History!TrailTellsTheStory, Lifecycle!TrailTellsTheStory,
           Lifecycle!Live, History!Live
  <1> QED
    BY <1>1, <1>2, <1>3, IngestionImplementsLifecycle, PTL
    DEF ImplementsLifecycle, Lifecycle!LifecycleSpec

-----------------------------------------------------------------------------
(* With the read-only store no command gets past its first vector delete.  *)
PastVectorDelete == {"embed", "upsert", "commit", "abandon", "erase_row", "cascade"}

FrozenStops == frozen => \A w \in Workers : pc[w] \notin PastVectorDelete

FrozenInv == TypedShape /\ FrozenStops

LEMMA FrozenCommand ==
  ASSUME FrozenInv, frozen, NEW w \in Workers, CommandStep(w) \/ Crash(w)
  PROVE  /\ UNCHANGED <<chunks, vectors, frozen>>
         /\ \E label \in PC \ PastVectorDelete : pc' = [pc EXCEPT ![w] = label]
  <1>1. pc[w] \notin PastVectorDelete
    BY DEF FrozenInv, FrozenStops
  <1> DEFINE Stops == /\ UNCHANGED <<chunks, vectors, frozen>>
                      /\ \E label \in PC \ PastVectorDelete : pc' = [pc EXCEPT ![w] = label]
  <1>2. ASSUME NEW how, Finish(w, how), UNCHANGED <<chunks, vectors>>
        PROVE  Stops
    BY <1>2 DEF Finish, Goto, PC, PastVectorDelete
  <1>3. ASSUME NEW label \in PC \ PastVectorDelete, Goto(w, label), UNCHANGED <<chunks, vectors>>
        PROVE  Stops
    BY <1>3 DEF Goto
  <1>4. ASSUME NEW path, NEW label \in PC \ PastVectorDelete,
               TransitionTo(w, path, label) \/ TransitionLast(w, path)
        PROVE  Stops
    BY <1>2, <1>3, <1>4 DEF TransitionTo, TransitionLast, TransitionRaises, stores
  <1>5. {"select", "resume", "create", "start", "parse", "chunk", "delete_chunks",
         "delete_vectors", "erase_vectors"} \subseteq PC \ PastVectorDelete
    BY DEF PC, InFinalTransaction, PastVectorDelete
  <1>6. CASE Lookup(w) \/ Select(w) \/ Find(w)
    BY <1>2, <1>3, <1>5, <1>6 DEF Lookup, Select, Find, stores
  <1>7. CASE Resume(w) \/ Start(w) \/ Parse(w) \/ Unindexable(w)
    <2>1. \A path : TransitionLast(w, path) => Stops
      BY <1>4, <1>5
    <2>2. CASE Resume(w)
      BY <1>3, <1>4, <1>5, <2>2 DEF Resume, stores
    <2>3. CASE Start(w)
      BY <1>4, <1>5, <2>3 DEF Start
    <2>4. CASE Parse(w)
      BY <1>4, <1>5, <2>1, <2>4 DEF Parse
    <2>5. CASE Unindexable(w)
      BY <2>1, <2>5 DEF Unindexable
    <2>6. QED
      BY <1>7, <2>2, <2>3, <2>4, <2>5
  <1>8. CASE CreateRow(w) \/ SendDelete(w) \/ DeleteChunks(w)
    BY <1>2, <1>3, <1>5, <1>8 DEF CreateRow, SendDelete, DeleteChunks, stores
  <1>9. CASE RefuseNetwork(w) \/ DeclineErase(w) \/ DeadlockVictim(w) \/ Crash(w)
    BY <1>2, <1>9 DEF RefuseNetwork, DeclineErase, DeadlockVictim, Crash, stores
  <1>10. CASE DeleteVectors(w) \/ EraseVectors(w)
    BY <1>2, <1>10 DEF DeleteVectors, EraseVectors, VectorDelete, stores
  <1>11. CASE Embed(w) \/ Upsert(w) \/ Commit(w) \/ Abandon(w) \/ EraseRow(w) \/ Cascade(w)
    BY <1>1, <1>11
    DEF Embed, Upsert, Commit, Abandon, EraseRow, Cascade, PastVectorDelete
  <1>12. QED
    BY <1>6, <1>7, <1>8, <1>9, <1>10, <1>11 DEF CommandStep, IngestStep

LEMMA FrozenInvInit == Init => FrozenInv
  BY TypedShapeInit DEF Init, FrozenInv, FrozenStops, PastVectorDelete

LEMMA FrozenStep ==
  ASSUME FrozenInv, [Next]_vars
  PROVE  FrozenInv' /\ (frozen => UNCHANGED <<chunks, vectors>>)
  <1>1. TypedShape' /\ pc \in [Workers -> PC]
    BY TypedShapeStep DEF FrozenInv, TypedShape, ControlType
  <1>2. ASSUME NEW w \in Workers, Issue(w)
        PROVE  FrozenStops' /\ UNCHANGED <<chunks, vectors>>
    <2>1. frozen' = frozen
      BY <1>2 DEF Issue, Begin, Goto
    <2>2. QED
      BY <1>2, <2>1, IssueFacts DEF FrozenInv, FrozenStops, PastVectorDelete
  <1>3. ASSUME NEW w \in Workers, CommandStep(w) \/ Crash(w), frozen
        PROVE  FrozenStops' /\ UNCHANGED <<chunks, vectors>>
    BY <1>1, <1>3, FrozenCommand DEF FrozenInv, FrozenStops
  <1>4. ASSUME NEW w \in Workers, CommandStep(w) \/ Crash(w), ~frozen
        PROVE  FrozenStops'
    <2>1. frozen' = frozen
      BY <1>4
      DEF CommandStep, IngestStep, Crash, Lookup, Find, DeclineErase, EraseVectors, EraseRow,
          Cascade, DeadlockVictim, Select, Resume, CreateRow, Start, Parse, Unindexable,
          RefuseNetwork, SendDelete, DeleteChunks, DeleteVectors, Embed, Abandon, Upsert,
          Commit, TransitionTo, TransitionLast, TransitionRaises, VectorDelete, Finish, Goto
    <2>2. QED
      BY <1>4, <2>1 DEF FrozenStops
  <1>5. CASE UNCHANGED vars
    BY <1>1, <1>5 DEF vars, FrozenInv, FrozenStops
  <1>6. QED
    BY <1>1, <1>2, <1>3, <1>4, <1>5 DEF FrozenInv, Next, Issue

(* With the read-only store no command removes a chunk row or a vector,    *)
(* whatever it had already deleted in its open transaction                 *)
(* (vector_store.py:310-327 raise before any commit).                      *)
THEOREM IngestionFrozenKeepsCorpus == Spec => FrozenKeepsCorpus
  <1>1. FrozenInv /\ [Next]_vars =>
          FrozenInv' /\ [frozen => UNCHANGED <<chunks, vectors>>]_<<chunks, vectors>>
    BY FrozenStep
  <1>2. QED
    BY <1>1, FrozenInvInit, PTL DEF Spec, FrozenKeepsCorpus

-----------------------------------------------------------------------------
(* Whoever is past the gate may use the network, and only a delete erases. *)
AfterGate == {"delete_chunks"} \cup InFinalTransaction
Erasing == {"find", "erase_vectors", "erase_row", "cascade"}

GateStops ==
  \A w \in Workers : /\ pc[w] \in AfterGate => job[w].net
                     /\ pc[w] \in Erasing => job[w].op = "delete"

GateInv == TypedShape /\ GateStops

LEMMA GateCommand ==
  ASSUME GateInv, NEW w \in Workers, CommandStep(w) \/ Crash(w)
  PROVE  /\ GateStops'
         /\ ~job[w].net /\ job[w].op # "delete" => UNCHANGED <<chunks, vectors>>
  <1> DEFINE Harmless == ~job[w].net /\ job[w].op # "delete" => UNCHANGED <<chunks, vectors>>
             May(label) == /\ label \in AfterGate => job[w].net
                           /\ label \in Erasing => job[w].op = "delete"
  <1>1. pc \in [Workers -> PC] /\ job \in [Workers -> Job] /\ job[w] \in Job
    BY DEF GateInv, TypedShape, ControlType
  <1>2. /\ pc[w] \in AfterGate => job[w].net
        /\ pc[w] \in Erasing => job[w].op = "delete"
    BY DEF GateInv, GateStops
  <1>3. ASSUME NEW how, Finish(w, how)
        PROVE  GateStops'
    BY <1>1, <1>3 DEF Finish, Goto, GateInv, GateStops, AfterGate, Erasing, InFinalTransaction
  <1>4. ASSUME NEW label, Goto(w, label), May(label),
               \/ job' = job
               \/ \E held : job' = [job EXCEPT ![w].held = held]
               \/ \E mine : job' = [job EXCEPT ![w].mine = mine]
        PROVE  GateStops'
    <2>1. /\ job'[w].net = job[w].net /\ job'[w].op = job[w].op
          /\ \A v \in Workers \ {w} : job'[v] = job[v]
      <3>1. CASE job' = job
        BY <3>1
      <3>2. CASE \E held : job' = [job EXCEPT ![w].held = held]
        BY <3>2, <1>1 DEF Job
      <3>3. CASE \E mine : job' = [job EXCEPT ![w].mine = mine]
        BY <3>3, <1>1 DEF Job
      <3> QED
        BY <1>4, <3>1, <3>2, <3>3
    <2>2. pc'[w] = label /\ \A v \in Workers \ {w} : pc'[v] = pc[v]
      BY <1>1, <1>4 DEF Goto
    <2> QED
      BY <1>4, <2>1, <2>2 DEF GateInv, GateStops
  <1>5. ASSUME NEW path, NEW label, May(label),
               TransitionTo(w, path, label) \/ TransitionLast(w, path)
        PROVE  GateStops' /\ UNCHANGED <<chunks, vectors>>
    BY <1>3, <1>4, <1>5 DEF TransitionTo, TransitionLast, TransitionRaises, stores
  <1>6. \A label \in {"select", "resume", "create", "start", "parse", "chunk"} : May(label)
    BY DEF AfterGate, Erasing, InFinalTransaction
  <1>7. CASE Lookup(w) \/ Select(w) \/ Find(w)
    <2>1. UNCHANGED stores /\ GateStops'
      <3>1. CASE Lookup(w) \/ Select(w)
        BY <1>3, <1>4, <1>6, <3>1 DEF Lookup, Select
      <3>2. CASE Find(w)
        <4>1. May("erase_vectors")
          BY <3>2, <1>2 DEF Find, AfterGate, Erasing, InFinalTransaction
        <4> QED
          BY <1>3, <1>4, <4>1, <3>2 DEF Find
      <3> QED
        BY <1>7, <3>1, <3>2
    <2> QED
      BY <2>1 DEF stores
  <1>8. CASE Resume(w) \/ Start(w) \/ Parse(w) \/ Unindexable(w) \/ CreateRow(w)
    <2>1. \A path : TransitionLast(w, path) => GateStops' /\ UNCHANGED <<chunks, vectors>>
      BY <1>5, <1>6
    <2>2. CASE Resume(w)
      BY <1>4, <1>5, <1>6, <2>2 DEF Resume, stores
    <2>3. CASE Start(w)
      BY <1>5, <1>6, <2>3 DEF Start
    <2>4. CASE Parse(w)
      BY <1>5, <1>6, <2>1, <2>4 DEF Parse
    <2>5. CASE Unindexable(w)
      BY <2>1, <2>5 DEF Unindexable
    <2>6. CASE CreateRow(w)
      BY <1>3, <1>4, <1>6, <2>6 DEF CreateRow, stores
    <2> QED
      BY <1>8, <2>2, <2>3, <2>4, <2>5, <2>6
  <1>9. CASE RefuseNetwork(w) \/ DeclineErase(w) \/ DeadlockVictim(w) \/ Crash(w)
    BY <1>3, <1>9 DEF RefuseNetwork, DeclineErase, DeadlockVictim, Crash, stores
  <1>10. CASE SendDelete(w) \/ DeleteChunks(w) \/ Embed(w)
    <2>1. job[w].net
      BY <1>2, <1>10 DEF SendDelete, DeleteChunks, Embed, AfterGate, InFinalTransaction
    <2>2. \A label \in AfterGate : May(label)
      BY <2>1 DEF AfterGate, Erasing, InFinalTransaction
    <2>3. GateStops'
      BY <1>4, <1>10, <2>2 DEF SendDelete, DeleteChunks, Embed, AfterGate, InFinalTransaction
    <2> QED
      BY <2>1, <2>3
  <1>11. CASE DeleteVectors(w) \/ Upsert(w) \/ Abandon(w) \/ Commit(w)
    <2>1. job[w].net
      BY <1>2, <1>11 DEF DeleteVectors, Upsert, Abandon, Commit, AfterGate, InFinalTransaction
    <2>2. \A label \in AfterGate : May(label)
      BY <2>1 DEF AfterGate, Erasing, InFinalTransaction
    <2>3. GateStops'
      BY <1>3, <1>4, <1>11, <2>2
      DEF DeleteVectors, VectorDelete, Upsert, Abandon, Commit, TransitionRaises,
          AfterGate, InFinalTransaction
    <2> QED
      BY <2>1, <2>3
  <1>12. CASE EraseVectors(w) \/ EraseRow(w) \/ Cascade(w)
    <2>1. job[w].op = "delete"
      BY <1>2, <1>12 DEF EraseVectors, EraseRow, Cascade, Erasing
    <2>2. May("erase_row") /\ May("cascade")
      BY <2>1 DEF AfterGate, InFinalTransaction
    <2>3. GateStops'
      BY <1>3, <1>4, <1>12, <2>2 DEF EraseVectors, VectorDelete, EraseRow, Cascade
    <2> QED
      BY <2>1, <2>3
  <1> QED
    BY <1>7, <1>8, <1>9, <1>10, <1>11, <1>12 DEF CommandStep, IngestStep

LEMMA GateStep ==
  ASSUME GateInv, [Next]_vars
  PROVE  /\ GateInv'
         /\ (\A w \in Workers : ~job[w].net /\ job[w].op # "delete")
              => UNCHANGED <<chunks, vectors>>
  <1>1. TypedShape'
    BY TypedShapeStep DEF GateInv
  <1>2. ASSUME NEW w \in Workers, Issue(w)
        PROVE  GateStops' /\ UNCHANGED <<chunks, vectors>>
    <2>1. PICK op \in {"ingest", "reindex", "delete"}, net \in BOOLEAN : Begin(w, op, net)
      BY <1>2 DEF Issue
    <2>2. /\ job'[w].op = op /\ pc'[w] \in {"select", "lookup", "find"}
          /\ pc'[w] = "find" => op = "delete"
          /\ \A v \in Workers \ {w} : pc'[v] = pc[v] /\ job'[v] = job[v]
      BY <2>1 DEF Begin, Goto, NoJob, GateInv, TypedShape, ControlType
    <2>3. UNCHANGED <<chunks, vectors>>
      BY <2>1 DEF Begin
    <2> QED
      BY <2>2, <2>3 DEF GateInv, GateStops, AfterGate, Erasing, InFinalTransaction
  <1>3. CASE UNCHANGED vars
    BY <1>1, <1>3 DEF vars, GateInv, GateStops
  <1> QED
    BY <1>1, <1>2, <1>3, GateCommand DEF GateInv, Next, Issue

(* ingestion.py:207-216: however many commands run, as long as none was    *)
(* given --allow-network or asked to delete, chunk rows and vectors stay.  *)
THEOREM IngestionGateBeforeDestruction == Spec => GateBeforeDestruction
  <1>1. Init => GateInv
    BY TypedShapeInit DEF Init, GateInv, GateStops, AfterGate, Erasing, InFinalTransaction
  <1>2. GateInv /\ [Next]_vars =>
          /\ GateInv'
          /\ [(\A w \in Workers : ~job[w].net /\ job[w].op # "delete")
                => UNCHANGED <<chunks, vectors>>]_vars
    BY GateStep
  <1> QED
    BY <1>1, <1>2, PTL DEF Spec, GateBeforeDestruction

-----------------------------------------------------------------------------
(* One command at a time: what a worker holds is the row, what its DELETE  *)
(* matched is every chunk row, and what a delete is about to erase has no  *)
(* vector left.                                                            *)
Alone == \A v, w \in Workers : v = w

HoldingRow == {"resume", "start", "parse", "chunk", "delete_chunks", "erase_vectors",
               "erase_row", "cascade"} \cup InFinalTransaction
Deleting == {"delete_chunks"} \cup InFinalTransaction

Holds(w) == /\ row.id # NoDoc
            /\ job[w].held.id = row.id
            /\ job[w].held.count = row.count

SoloAt(w) ==
  /\ pc[w] = "select" => job[w].held = NoRow \/ Holds(w)
  /\ pc[w] = "create" => row = NoRow
  /\ pc[w] \in HoldingRow => Holds(w)
  /\ pc[w] \in Deleting => job[w].mine = chunks
  /\ pc[w] \in {"erase_row", "cascade"} => vectors = {}

(* No chunk row and chunk_count 0, or one batch and 1.                     *)
OneBatch == \/ chunks = {} /\ row.count = 0
            \/ row.count = 1 /\ \E b \in Batch : chunks = {b}

SoloStores == OneBatch /\ ChunksHaveRow /\ NoOrphanVectors

SoloInv == TypedShape /\ SoloStores /\ \A w \in Workers : SoloAt(w)

LEMMA SoloStart == Init => SoloInv
  <1> SUFFICES ASSUME Init PROVE SoloInv
    OBVIOUS
  <1>1. TypedShape
    BY TypedShapeInit
  <1>2. SoloStores
    <2>1. CASE row = NoRow /\ chunks = {}
      BY <2>1 DEF Init, SoloStores, OneBatch, ChunksHaveRow, NoOrphanVectors, NoRow
    <2>2. CASE row = [id |-> 0, status |-> "ready", count |-> 1] /\ chunks = {[doc |-> 0, run |-> 0]}
      <3>1. [doc |-> 0, run |-> 0] \in Batch
        BY IngestionAssumption DEF Batch, DocIds, Runs
      <3> QED
        BY <2>2, <3>1 DEF Init, SoloStores, OneBatch, ChunksHaveRow, NoOrphanVectors
    <2> QED
      BY <2>1, <2>2 DEF Init
  <1>3. \A w \in Workers : SoloAt(w)
    BY DEF Init, SoloAt, HoldingRow, Deleting, InFinalTransaction
  <1> QED
    BY <1>1, <1>2, <1>3 DEF SoloInv

LEMMA NoRowHoldsNothing ==
  ASSUME SoloInv, row.id = NoDoc
  PROVE  row = NoRow /\ chunks = {} /\ vectors = {} /\ row.count = 0
  <1>1. row = NoRow
    BY DEF SoloInv, TypedShape, Shape, LiveOrNone
  <1>2. \A b \in Batch : b.doc # NoDoc
    BY IngestionAssumption DEF Batch, DocIds, NoDoc
  <1>3. chunks \subseteq Batch /\ vectors \subseteq Batch
    BY DEF SoloInv, TypedShape, StoreType
  <1>4. chunks = {} /\ vectors = {}
    BY <1>1, <1>2, <1>3 DEF SoloInv, SoloStores, ChunksHaveRow, NoOrphanVectors, NoRow
  <1> QED
    BY <1>1, <1>4 DEF NoRow

LEMMA SoloCommand ==
  ASSUME Alone, SoloInv, NEW w \in Workers, CommandStep(w) \/ Crash(w)
  PROVE  SoloStores' /\ SoloAt(w)'
  <1>1. /\ pc \in [Workers -> PC] /\ job \in [Workers -> Job] /\ job[w] \in Job
        /\ row \in Row /\ chunks \subseteq Batch /\ vectors \subseteq Batch
        /\ LiveOrNone(row) /\ LiveOrNone(job[w].held)
    BY DEF SoloInv, TypedShape, StoreType, ControlType, Shape
  <1>2. SoloStores /\ SoloAt(w)
    BY DEF SoloInv
  <1>3. ASSUME UNCHANGED stores PROVE SoloStores'
    BY <1>2, <1>3 DEF stores, SoloStores, OneBatch, ChunksHaveRow, NoOrphanVectors
  <1>4. ASSUME NEW how, Finish(w, how) PROVE SoloAt(w)'
    BY <1>1, <1>4 DEF Finish, Goto, SoloAt, HoldingRow, Deleting, InFinalTransaction
  <1>5. ASSUME NEW how, Finish(w, how), UNCHANGED stores PROVE SoloStores' /\ SoloAt(w)'
    BY <1>3, <1>4, <1>5
  <1>6. ASSUME NEW path, Legal(w, path[1]), Moved(path, row.count), UNCHANGED <<chunks, vectors>>
        PROVE  SoloStores' /\ row'.id = row.id /\ row'.count = row.count
    BY <1>1, <1>2, <1>6 DEF Moved, Row, SoloStores, OneBatch, ChunksHaveRow, NoOrphanVectors
  <1>7. ASSUME NEW path, NEW label \in {"start", "parse", "chunk"}, Holds(w),
               TransitionTo(w, path, label) \/ TransitionLast(w, path)
        PROVE  SoloStores' /\ SoloAt(w)'
    <2>1. CASE TransitionRaises(w, path[1])
      BY <1>5, <2>1 DEF TransitionRaises
    <2>2. CASE TransitionTo(w, path, label) /\ ~TransitionRaises(w, path[1])
      <3>1. /\ SoloStores' /\ row'.id = row.id /\ row'.count = row.count
            /\ pc'[w] = label /\ job' = job
        BY <2>2, <1>1, <1>6 DEF TransitionTo, Goto
      <3> QED
        BY <3>1, <1>7 DEF SoloAt, Holds, HoldingRow, Deleting, InFinalTransaction
    <2>3. CASE TransitionLast(w, path) /\ ~TransitionRaises(w, path[1])
      BY <2>3, <1>4, <1>6 DEF TransitionLast
    <2> QED
      BY <1>7, <2>1, <2>2, <2>3
  <1>8. CASE Lookup(w) \/ Find(w)
    <2>1. CASE \E how : Finish(w, how) /\ UNCHANGED stores
      BY <1>5, <2>1
    <2>2. CASE ~ (\E how : Finish(w, how) /\ UNCHANGED stores)
      <3>1. /\ UNCHANGED stores /\ row # NoRow
            /\ job'[w].held = row /\ pc'[w] \in {"select", "erase_vectors"}
        BY <1>1, <1>8, <2>2 DEF Lookup, Find, Goto, Job
      <3>2. row.id # NoDoc
        BY <1>1, <3>1 DEF LiveOrNone
      <3> QED
        BY <3>1, <3>2, <1>3 DEF stores, SoloAt, Holds, HoldingRow, Deleting, InFinalTransaction
    <2> QED
      BY <2>1, <2>2
  <1>9. CASE Select(w)
    <2>1. CASE \E how : Finish(w, how) /\ UNCHANGED stores
      BY <1>5, <2>1
    <2>2. CASE ~ (\E how : Finish(w, how) /\ UNCHANGED stores)
      <3>1. job[w].held = NoRow \/ Holds(w)
        BY <1>2, <1>9 DEF Select, SoloAt
      <3>2. CASE row = NoRow
        <4>1. Found(w) = NoRow
          BY <3>2 DEF Found
        <4>2. pc'[w] = "create" /\ UNCHANGED stores
          BY <1>1, <1>9, <2>2, <4>1 DEF Select, Goto, NoRow
        <4> QED
          BY <3>2, <4>2, <1>3 DEF stores, SoloAt, HoldingRow, Deleting, InFinalTransaction
      <3>3. CASE row # NoRow
        <4>1. row.id # NoDoc /\ row.status # "absent"
          BY <1>1, <3>3 DEF LiveOrNone
        <4>2. /\ Found(w).id = row.id /\ Found(w).count = row.count
              /\ Found(w) # NoRow
          <5>1. CASE Holds(w)
            BY <5>1, <4>1, <3>3 DEF Found, Holds, Doc, NoRow
          <5>2. CASE job[w].held = NoRow
            BY <5>2, <4>1, <3>3 DEF Found, Doc, NoRow
          <5> QED
            BY <3>1, <5>1, <5>2
        <4>3. pc'[w] = "resume" /\ job'[w].held = Found(w) /\ UNCHANGED stores
          BY <1>1, <1>9, <2>2, <4>2 DEF Select, Goto, Job
        <4> QED
          BY <4>1, <4>2, <4>3, <1>3
          DEF stores, SoloAt, Holds, HoldingRow, Deleting, InFinalTransaction
      <3> QED
        BY <3>2, <3>3
    <2> QED
      BY <2>1, <2>2
  <1>10. CASE Resume(w) \/ Start(w) \/ Parse(w) \/ Unindexable(w)
    <2>1. Holds(w)
      BY <1>2, <1>10 DEF Resume, Start, Parse, Unindexable, SoloAt, HoldingRow
    <2>2. \A path : TransitionLast(w, path) => SoloStores' /\ SoloAt(w)'
      BY <1>7, <2>1
    <2>3. CASE Resume(w)
      <3>1. CASE \E path : TransitionTo(w, path, "start")
        BY <3>1, <1>7, <2>1
      <3>2. CASE ~ \E path : TransitionTo(w, path, "start")
        <4>1. UNCHANGED stores /\ job' = job /\ pc'[w] = "start"
          BY <2>3, <3>2, <1>1 DEF Resume, Goto
        <4> QED
          BY <4>1, <2>1, <1>3 DEF stores, SoloAt, Holds, HoldingRow, Deleting, InFinalTransaction
      <3> QED
        BY <3>1, <3>2
    <2>4. CASE Start(w)
      BY <1>7, <2>1, <2>4 DEF Start
    <2>5. CASE Parse(w)
      BY <1>7, <2>1, <2>2, <2>5 DEF Parse
    <2>6. CASE Unindexable(w)
      BY <2>2, <2>6 DEF Unindexable
    <2> QED
      BY <1>10, <2>3, <2>4, <2>5, <2>6
  <1>11. CASE CreateRow(w)
    <2>1. row = NoRow
      BY <1>2, <1>11 DEF CreateRow, SoloAt
    <2>2. chunks = {} /\ vectors = {}
      BY <2>1, NoRowHoldsNothing DEF NoRow
    <2>3. /\ row' = [id |-> job[w].run, status |-> "queued", count |-> 0]
          /\ job'[w].held = row' /\ pc'[w] = "start" /\ UNCHANGED <<chunks, vectors>>
      BY <1>1, <1>11, <2>1 DEF CreateRow, Goto, Job
    <2>4. job[w].run # NoDoc
      BY <1>1, IngestionAssumption DEF Job, Runs, NoDoc
    <2> QED
      BY <2>2, <2>3, <2>4
      DEF SoloStores, OneBatch, ChunksHaveRow, NoOrphanVectors, SoloAt, Holds, HoldingRow,
          Deleting, InFinalTransaction
  <1>12. CASE RefuseNetwork(w) \/ DeclineErase(w) \/ DeadlockVictim(w) \/ Crash(w)
    BY <1>5, <1>12 DEF RefuseNetwork, DeclineErase, DeadlockVictim, Crash
  <1>13. CASE SendDelete(w)
    <2>1. Holds(w)
      BY <1>2, <1>13 DEF SendDelete, SoloAt, HoldingRow
    <2>2. BatchesOf(Doc(w), chunks) = chunks
      BY <1>2, <2>1 DEF BatchesOf, Doc, Holds, SoloStores, ChunksHaveRow
    <2>3. /\ job'[w].mine = chunks /\ job'[w].held = job[w].held
          /\ UNCHANGED stores /\ pc'[w] = "delete_chunks"
      BY <1>1, <1>13, <2>2 DEF SendDelete, Goto, Job
    <2> QED
      BY <2>1, <2>3, <1>3 DEF stores, SoloAt, Holds
  <1>14. CASE DeleteChunks(w)
    <2>1. Holds(w) /\ job[w].mine = chunks
      BY <1>2, <1>14 DEF DeleteChunks, SoloAt, HoldingRow, Deleting
    <2>2. /\ job'[w].mine = chunks /\ job'[w].held = job[w].held
          /\ UNCHANGED stores /\ pc'[w] = "delete_vectors"
      BY <1>1, <1>14, <2>1 DEF DeleteChunks, Goto, Job
    <2> QED
      BY <2>1, <2>2, <1>3 DEF stores, SoloAt, Holds
  <1>15. ASSUME NEW label \in {"embed", "erase_row"}, Holds(w), VectorDelete(w, label),
                label = "embed" => job[w].mine = chunks
         PROVE  SoloStores' /\ SoloAt(w)'
    <2>1. CASE Finish(w, "unavailable") /\ UNCHANGED stores
      BY <1>5, <2>1
    <2>2. CASE ~ (Finish(w, "unavailable") /\ UNCHANGED stores)
      <3>1. /\ vectors' = vectors \ BatchesOf(Doc(w), vectors)
            /\ pc'[w] = label /\ UNCHANGED <<row, chunks, job>>
        BY <1>1, <1>15, <2>2 DEF VectorDelete, Goto
      <3>2. vectors' = {}
        BY <3>1, <1>2, <1>15 DEF BatchesOf, Doc, Holds, SoloStores, NoOrphanVectors
      <3> QED
        BY <3>1, <3>2, <1>2, <1>15
        DEF SoloStores, OneBatch, ChunksHaveRow, NoOrphanVectors, SoloAt, Holds, Deleting,
            InFinalTransaction
    <2> QED
      BY <2>1, <2>2
  <1>16. CASE DeleteVectors(w)
    <2>1. Holds(w) /\ job[w].mine = chunks
      BY <1>2, <1>16 DEF DeleteVectors, SoloAt, HoldingRow, Deleting, InFinalTransaction
    <2> QED
      BY <2>1, <1>15, <1>16 DEF DeleteVectors
  <1>17. CASE EraseVectors(w)
    <2>1. Holds(w)
      BY <1>2, <1>17 DEF EraseVectors, SoloAt, HoldingRow
    <2> QED
      BY <2>1, <1>15, <1>17 DEF EraseVectors
  <1>18. CASE Embed(w)
    <2>1. Holds(w) /\ job[w].mine = chunks
      BY <1>2, <1>18 DEF Embed, SoloAt, HoldingRow, Deleting, InFinalTransaction
    <2>2. UNCHANGED stores /\ job' = job /\ pc'[w] \in {"upsert", "abandon"}
      BY <1>1, <1>18 DEF Embed, Goto
    <2> QED
      BY <2>1, <2>2, <1>3 DEF stores, SoloAt, Holds
  <1>19. CASE Upsert(w)
    <2>1. Holds(w) /\ job[w].mine = chunks
      BY <1>2, <1>19 DEF Upsert, SoloAt, HoldingRow, Deleting, InFinalTransaction
    <2>2. /\ vectors' = vectors \cup {[doc |-> Doc(w), run |-> job[w].run]}
          /\ UNCHANGED <<row, chunks, job>> /\ pc'[w] = "commit"
      BY <1>1, <1>19 DEF Upsert, Goto
    <2> QED
      BY <2>1, <2>2, <1>2
      DEF SoloStores, OneBatch, ChunksHaveRow, NoOrphanVectors, SoloAt, Holds, Doc
  <1>20. CASE Abandon(w)
    <2>1. Holds(w) /\ job[w].mine = chunks
      BY <1>2, <1>20 DEF Abandon, SoloAt, HoldingRow, Deleting, InFinalTransaction
    <2>2. CASE TransitionRaises(w, "failed")
      BY <1>5, <2>2 DEF TransitionRaises
    <2>3. CASE ~TransitionRaises(w, "failed")
      <3>1. /\ Moved(<<"failed">>, AbandonedCount(w)) /\ chunks' = chunks \ job[w].mine
            /\ Finish(w, "returned") /\ vectors' = vectors
        BY <1>20, <2>3 DEF Abandon
      <3>2. row'.id = row.id /\ row'.count = AbandonedCount(w)
        BY <1>1, <3>1 DEF Moved, Row
      <3>3. AbandonedCount(w) = 0 /\ chunks' = {}
        BY <2>1, <3>1 DEF AbandonedCount, Holds
      <3>4. SoloStores'
        BY <1>2, <3>1, <3>2, <3>3 DEF SoloStores, OneBatch, ChunksHaveRow, NoOrphanVectors
      <3> QED
        BY <3>1, <3>4, <1>4
    <2> QED
      BY <2>2, <2>3
  <1>21. CASE Commit(w)
    <2>1. Holds(w) /\ job[w].mine = chunks
      BY <1>2, <1>21 DEF Commit, SoloAt, HoldingRow, Deleting, InFinalTransaction
    <2>2. CASE TransitionRaises(w, "ready")
      BY <1>5, <2>2 DEF TransitionRaises
    <2>3. CASE ~TransitionRaises(w, "ready")
      <3> DEFINE new == [doc |-> Doc(w), run |-> job[w].run]
      <3>1. /\ Moved(<<"ready">>, 1) /\ chunks' = ChunksWritten(w)
            /\ Finish(w, "returned") /\ vectors' = vectors
        BY <1>21, <2>3 DEF Commit, CountWritten
      <3>2. row'.id = row.id /\ row'.count = 1
        BY <1>1, <3>1 DEF Moved, Row
      <3>3. chunks' = {new}
        BY <2>1, <3>1 DEF ChunksWritten
      <3>4. new \in Batch /\ new.doc = row.id
        BY <1>1, <2>1 DEF Batch, Holds, Doc, Row, Job
      <3> HIDE DEF new
      <3>5. SoloStores'
        BY <1>2, <3>1, <3>2, <3>3, <3>4
        DEF SoloStores, OneBatch, ChunksHaveRow, NoOrphanVectors
      <3> QED
        BY <3>1, <3>5, <1>4
    <2> QED
      BY <2>2, <2>3
  <1>22. CASE EraseRow(w) \/ Cascade(w)
    <2>1. Holds(w) /\ vectors = {}
      BY <1>2, <1>22 DEF EraseRow, Cascade, SoloAt, HoldingRow
    <2>2. CASE \E how : Finish(w, how) /\ UNCHANGED stores
      BY <1>5, <2>2
    <2>3. CASE EraseRow(w) /\ ~ (\E how : Finish(w, how) /\ UNCHANGED stores)
      <3>1. UNCHANGED stores /\ job' = job /\ pc'[w] = "cascade"
        BY <1>1, <2>3 DEF EraseRow, Goto
      <3> QED
        BY <3>1, <2>1, <1>3 DEF stores, SoloAt, Holds, Deleting, InFinalTransaction
    <2>4. CASE Cascade(w)
      <3>1. row' = NoRow /\ chunks' = chunks \ BatchesOf(Doc(w), chunks)
            /\ Finish(w, "returned") /\ vectors' = vectors
        BY <2>4 DEF Cascade
      <3>2. chunks' = {}
        BY <1>2, <2>1, <3>1 DEF BatchesOf, Doc, Holds, SoloStores, ChunksHaveRow
      <3>3. SoloStores'
        BY <2>1, <3>1, <3>2 DEF SoloStores, OneBatch, ChunksHaveRow, NoOrphanVectors, NoRow
      <3> QED
        BY <3>1, <3>3, <1>4
    <2> QED
      BY <1>22, <2>2, <2>3, <2>4
  <1> QED
    BY <1>8, <1>9, <1>10, <1>11, <1>12, <1>13, <1>14, <1>16, <1>17, <1>18, <1>19, <1>20,
       <1>21, <1>22 DEF CommandStep, IngestStep

LEMMA SoloStep ==
  ASSUME Alone, SoloInv, [Next]_vars
  PROVE  SoloInv'
  <1>1. TypedShape'
    BY TypedShapeStep DEF SoloInv
  <1>2. ASSUME NEW w \in Workers, Issue(w)
        PROVE  SoloStores' /\ SoloAt(w)'
    <2>1. PICK op \in {"ingest", "reindex", "delete"}, net \in BOOLEAN : Begin(w, op, net)
      BY <1>2 DEF Issue
    <2>2. /\ job'[w].held = NoRow /\ pc'[w] \in {"select", "lookup", "find"}
          /\ UNCHANGED <<row, chunks, vectors>>
      BY <2>1 DEF Begin, Goto, NoJob, SoloInv, TypedShape, ControlType
    <2>3. SoloStores'
      BY <2>2 DEF SoloInv, SoloStores, OneBatch, ChunksHaveRow, NoOrphanVectors
    <2> QED
      BY <2>2, <2>3 DEF SoloAt, HoldingRow, Deleting, InFinalTransaction
  <1>3. CASE \E w \in Workers : Issue(w) \/ CommandStep(w) \/ Crash(w)
    <2>1. PICK w \in Workers : Issue(w) \/ CommandStep(w) \/ Crash(w)
      BY <1>3
    <2>2. SoloStores' /\ SoloAt(w)'
      BY <2>1, <1>2, SoloCommand
    <2>3. \A v \in Workers : v = w
      BY DEF Alone
    <2> QED
      BY <1>1, <2>2, <2>3 DEF SoloInv
  <1>4. CASE UNCHANGED vars
    <2>1. UNCHANGED <<row, chunks, vectors, pc, job>>
      BY <1>4 DEF vars
    <2>2. SoloStores' /\ \A w \in Workers : SoloAt(w)'
      BY <2>1
      DEF SoloInv, SoloStores, OneBatch, ChunksHaveRow, NoOrphanVectors, SoloAt, Holds
    <2> QED
      BY <1>1, <2>2 DEF SoloInv
  <1> QED
    BY <1>3, <1>4 DEF Next, Issue

LEMMA OneBatchCounts == OneBatch => CountMatchesRows
  BY FS_EmptySet, FS_Singleton DEF OneBatch, CountMatchesRows

(* ingestion.py:224-271: with one command at a time, crashes included,     *)
(* chunk_count is the number of chunk rows at every commit.                *)
THEOREM IngestionCountMatchesRows == Alone => (Spec => []CountMatchesRows)
  <1> SUFFICES ASSUME Alone PROVE Spec => []CountMatchesRows
    OBVIOUS
  <1>1. SoloInv => CountMatchesRows
    BY OneBatchCounts DEF SoloInv, SoloStores
  <1>2. SoloInv /\ [Next]_vars => SoloInv'
    BY SoloStep
  <1> QED
    BY <1>1, <1>2, SoloStart, PTL DEF Spec

(* ingestion.py:223, 287: with one command at a time, crashes included, no *)
(* vector outlives its document.                                           *)
THEOREM IngestionNoOrphanVectors == Alone => (Spec => []NoOrphanVectors)
  <1> SUFFICES ASSUME Alone PROVE Spec => []NoOrphanVectors
    OBVIOUS
  <1>1. SoloInv => NoOrphanVectors
    BY DEF SoloInv, SoloStores
  <1>2. SoloInv /\ [Next]_vars => SoloInv'
    BY SoloStep
  <1> QED
    BY <1>1, <1>2, SoloStart, PTL DEF Spec
-----------------------------------------------------------------------------
(* What the vector store holds while one command at a time runs: of a      *)
(* ready document, its vectors or none; past the gate the document is      *)
(* indexing, and the store is emptied, then filled by this run alone.      *)
ReadyVectors == row.status = "ready" => vectors = chunks \/ vectors = {}

VectorsAt(w) ==
  /\ pc[w] \in {"chunk"} \cup Deleting => row.status = "indexing"
  /\ pc[w] \in {"embed", "upsert", "abandon"} => vectors = {}
  /\ pc[w] = "commit" => vectors = {[doc |-> Doc(w), run |-> job[w].run]}

WholeInv ==
  /\ SoloInv
  /\ SearchInv
  /\ ReadyVectors
  /\ \A w \in Workers : VectorsAt(w)

LEMMA WholeStart == Init => WholeInv
  <1> SUFFICES ASSUME Init PROVE WholeInv
    OBVIOUS
  <1>1. ReadyVectors
    BY DEF Init, ReadyVectors
  <1>2. \A w \in Workers : VectorsAt(w)
    BY DEF Init, VectorsAt, Deleting, InFinalTransaction
  <1> QED
    BY <1>1, <1>2, SoloStart, SearchInvInit DEF WholeInv

LEMMA WholeCommand ==
  ASSUME Alone, WholeInv, NEW w \in Workers, CommandStep(w) \/ Crash(w)
  PROVE  ReadyVectors' /\ VectorsAt(w)'
  <1>1. /\ pc \in [Workers -> PC] /\ job \in [Workers -> Job] /\ job[w] \in Job
        /\ row \in Row
    BY DEF WholeInv, SoloInv, TypedShape, StoreType, ControlType
  <1>2. ReadyVectors /\ VectorsAt(w) /\ SoloAt(w) /\ NoOrphanVectors
    BY DEF WholeInv, SoloInv, SoloStores
  <1>3. ASSUME UNCHANGED stores PROVE ReadyVectors'
    BY <1>2, <1>3 DEF stores, ReadyVectors
  <1>4. ASSUME NEW how, Finish(w, how) PROVE VectorsAt(w)'
    BY <1>1, <1>4 DEF Finish, Goto, VectorsAt, Deleting, InFinalTransaction
  <1>5. ASSUME NEW how, Finish(w, how), UNCHANGED stores
        PROVE  ReadyVectors' /\ VectorsAt(w)'
    BY <1>3, <1>4, <1>5
  <1>6. ASSUME NEW path, NEW label \in {"start", "parse", "chunk"},
               TransitionTo(w, path, label) \/ TransitionLast(w, path),
               path[Len(path)] # "ready",
               label = "chunk" => path = <<"indexing">>
        PROVE  ReadyVectors' /\ VectorsAt(w)'
    <2>1. CASE TransitionRaises(w, path[1])
      BY <1>5, <2>1 DEF TransitionRaises
    <2>2. CASE ~TransitionRaises(w, path[1])
      <3>1. Moved(path, row.count)
        BY <1>6, <2>2 DEF TransitionTo, TransitionLast
      <3>2. row'.status = path[Len(path)]
        BY <3>1, <1>1 DEF Moved, Row
      <3>3. ReadyVectors'
        BY <3>2, <1>6 DEF ReadyVectors
      <3>4. CASE TransitionLast(w, path)
        BY <2>2, <3>3, <3>4, <1>4 DEF TransitionLast
      <3>5. CASE TransitionTo(w, path, label)
        <4>1. pc'[w] = label
          BY <2>2, <3>5, <1>1 DEF TransitionTo, Goto
        <4>2. label = "chunk" => row'.status = "indexing"
          <5>1. <<"indexing">>[Len(<<"indexing">>)] = "indexing"
            OBVIOUS
          <5> QED
            BY <3>2, <1>6, <5>1
        <4> QED
          BY <3>3, <4>1, <4>2, <1>6 DEF VectorsAt, Deleting, InFinalTransaction
      <3> QED
        BY <1>6, <3>4, <3>5
    <2> QED
      BY <2>1, <2>2
  <1>7. ASSUME UNCHANGED stores, NEW label, Goto(w, label),
               label \notin {"chunk"} \cup Deleting
        PROVE  ReadyVectors' /\ VectorsAt(w)'
    <2>1. pc'[w] = label
      BY <1>1, <1>7 DEF Goto
    <2> QED
      BY <1>3, <1>7, <2>1 DEF VectorsAt, Deleting, InFinalTransaction
  <1>8. CASE Lookup(w) \/ Find(w) \/ Select(w) \/ EraseRow(w)
    <2>1. CASE \E how : Finish(w, how) /\ UNCHANGED stores
      BY <1>5, <2>1
    <2>2. CASE ~ (\E how : Finish(w, how) /\ UNCHANGED stores)
      <3>1. /\ UNCHANGED stores
            /\ \E label \in {"select", "erase_vectors", "resume", "create", "cascade"} :
                 Goto(w, label)
        BY <1>8, <2>2 DEF Lookup, Find, Select, EraseRow
      <3> QED
        BY <3>1, <1>7 DEF Deleting, InFinalTransaction
    <2> QED
      BY <2>1, <2>2
  <1>9. CASE Resume(w) \/ Start(w) \/ Parse(w) \/ Unindexable(w)
    <2>1. CASE Resume(w)
      <3>1. CASE UNCHANGED stores /\ Goto(w, "start")
        BY <3>1, <1>7 DEF Deleting, InFinalTransaction
      <3>2. CASE ~(UNCHANGED stores /\ Goto(w, "start"))
        <4>1. \/ TransitionTo(w, <<"queued">>, "start")
              \/ TransitionTo(w, <<"failed", "queued">>, "start")
          BY <2>1, <3>2 DEF Resume, ResumePath
        <4>2. /\ <<"queued">>[Len(<<"queued">>)] # "ready"
              /\ <<"failed", "queued">>[Len(<<"failed", "queued">>)] # "ready"
          OBVIOUS
        <4> QED
          BY <4>1, <4>2, <1>6
      <3> QED
        BY <3>1, <3>2
    <2>2. CASE Start(w)
      <3>1. TransitionTo(w, <<"parsing">>, "parse")
        BY <2>2 DEF Start
      <3>2. <<"parsing">>[Len(<<"parsing">>)] # "ready"
        OBVIOUS
      <3> QED
        BY <3>1, <3>2, <1>6
    <2>3. CASE Parse(w) \/ Unindexable(w)
      <3>1. \/ TransitionTo(w, <<"indexing">>, "chunk")
            \/ \E s \in {"failed", "quarantined"} : TransitionLast(w, <<s>>)
        BY <2>3 DEF Parse, Unindexable
      <3>2. ASSUME NEW s \in {"failed", "quarantined"}, TransitionLast(w, <<s>>)
            PROVE  ReadyVectors' /\ VectorsAt(w)'
        <4>1. <<s>>[Len(<<s>>)] # "ready"
          BY <3>2
        <4> QED
          BY <3>2, <4>1, <1>6
      <3>3. <<"indexing">>[Len(<<"indexing">>)] # "ready"
        OBVIOUS
      <3>4. TransitionTo(w, <<"indexing">>, "chunk") => ReadyVectors' /\ VectorsAt(w)'
        BY <3>3, <1>6
      <3> QED
        BY <3>1, <3>2, <3>4
    <2> QED
      BY <1>9, <2>1, <2>2, <2>3
  <1>10. CASE CreateRow(w)
    <2>1. CASE \E how : Finish(w, how) /\ UNCHANGED stores
      BY <1>5, <2>1
    <2>2. CASE ~ (\E how : Finish(w, how) /\ UNCHANGED stores)
      <3>1. row'.status = "queued" /\ pc'[w] = "start"
        BY <1>1, <1>10, <2>2 DEF CreateRow, Goto
      <3> QED
        BY <3>1 DEF ReadyVectors, VectorsAt, Deleting, InFinalTransaction
    <2> QED
      BY <2>1, <2>2
  <1>11. CASE RefuseNetwork(w) \/ DeclineErase(w) \/ DeadlockVictim(w) \/ Crash(w)
    BY <1>5, <1>11 DEF RefuseNetwork, DeclineErase, DeadlockVictim, Crash
  <1>12. CASE SendDelete(w) \/ DeleteChunks(w)
    <2>1. row.status = "indexing"
      BY <1>2, <1>12 DEF SendDelete, DeleteChunks, VectorsAt, Deleting
    <2>2. UNCHANGED stores /\ pc'[w] \in {"delete_chunks", "delete_vectors"}
      BY <1>1, <1>12 DEF SendDelete, DeleteChunks, Goto
    <2> QED
      BY <2>1, <2>2, <1>3 DEF stores, VectorsAt
  <1>13. ASSUME NEW label \in {"embed", "erase_row"}, Holds(w), VectorDelete(w, label),
                label = "embed" => row.status = "indexing"
         PROVE  ReadyVectors' /\ VectorsAt(w)'
    <2>1. CASE Finish(w, "unavailable") /\ UNCHANGED stores
      BY <1>5, <2>1
    <2>2. CASE ~ (Finish(w, "unavailable") /\ UNCHANGED stores)
      <3>1. /\ vectors' = vectors \ BatchesOf(Doc(w), vectors)
            /\ pc'[w] = label /\ row' = row
        BY <1>1, <1>13, <2>2 DEF VectorDelete, Goto
      <3>2. vectors' = {}
        BY <3>1, <1>2, <1>13 DEF BatchesOf, Doc, Holds, NoOrphanVectors
      <3> QED
        BY <3>1, <3>2, <1>13 DEF ReadyVectors, VectorsAt, Deleting, InFinalTransaction
    <2> QED
      BY <2>1, <2>2
  <1>14. CASE DeleteVectors(w)
    <2>1. Holds(w) /\ row.status = "indexing"
      BY <1>2, <1>14
      DEF DeleteVectors, SoloAt, VectorsAt, HoldingRow, Deleting, InFinalTransaction
    <2> QED
      BY <2>1, <1>13, <1>14 DEF DeleteVectors
  <1>15. CASE EraseVectors(w)
    <2>1. Holds(w)
      BY <1>2, <1>15 DEF EraseVectors, SoloAt, HoldingRow
    <2> QED
      BY <2>1, <1>13, <1>15 DEF EraseVectors
  <1>16. CASE Embed(w)
    <2>1. row.status = "indexing" /\ vectors = {}
      BY <1>2, <1>16 DEF Embed, VectorsAt, Deleting, InFinalTransaction
    <2>2. UNCHANGED stores /\ pc'[w] \in {"upsert", "abandon"}
      BY <1>1, <1>16 DEF Embed, Goto
    <2> QED
      BY <2>1, <2>2, <1>3 DEF stores, VectorsAt
  <1>17. CASE Upsert(w)
    <2>1. row.status = "indexing" /\ vectors = {}
      BY <1>2, <1>17 DEF Upsert, VectorsAt, Deleting, InFinalTransaction
    <2>2. /\ vectors' = {[doc |-> Doc(w), run |-> job[w].run]}
          /\ row' = row /\ job' = job /\ pc'[w] = "commit"
      BY <1>1, <1>17, <2>1 DEF Upsert, Goto
    <2> QED
      BY <2>1, <2>2 DEF ReadyVectors, VectorsAt, Doc
  <1>18. CASE Abandon(w)
    <2>1. CASE TransitionRaises(w, "failed")
      BY <1>5, <2>1 DEF TransitionRaises
    <2>2. CASE ~TransitionRaises(w, "failed")
      <3>1. Moved(<<"failed">>, AbandonedCount(w)) /\ Finish(w, "returned")
        BY <1>18, <2>2 DEF Abandon
      <3>2. row'.status = "failed"
        BY <3>1, <1>1 DEF Moved, Row
      <3> QED
        BY <3>1, <3>2, <1>4 DEF ReadyVectors
    <2> QED
      BY <2>1, <2>2
  <1>19. CASE Commit(w)
    <2>1. /\ Holds(w) /\ job[w].mine = chunks
          /\ vectors = {[doc |-> Doc(w), run |-> job[w].run]}
      BY <1>2, <1>19 DEF Commit, SoloAt, VectorsAt, HoldingRow, Deleting, InFinalTransaction
    <2>2. CASE TransitionRaises(w, "ready")
      BY <1>5, <2>2 DEF TransitionRaises
    <2>3. CASE ~TransitionRaises(w, "ready")
      <3>1. chunks' = ChunksWritten(w) /\ Finish(w, "returned") /\ vectors' = vectors
        BY <1>19, <2>3 DEF Commit
      <3>2. vectors' = chunks'
        BY <2>1, <3>1 DEF ChunksWritten
      <3> QED
        BY <3>1, <3>2, <1>4 DEF ReadyVectors
    <2> QED
      BY <2>2, <2>3
  <1>20. CASE Cascade(w)
    <2>1. row' = NoRow /\ Finish(w, "returned")
      BY <1>20 DEF Cascade
    <2> QED
      BY <2>1, <1>4 DEF ReadyVectors, NoRow
  <1> QED
    BY <1>8, <1>9, <1>10, <1>11, <1>12, <1>14, <1>15, <1>16, <1>17, <1>18, <1>19, <1>20
    DEF CommandStep, IngestStep

LEMMA WholeStep ==
  ASSUME Alone, WholeInv, [Next]_vars
  PROVE  WholeInv'
  <1>1. SoloInv' /\ SearchInv'
    BY SoloStep, SearchInvStep DEF WholeInv
  <1>2. ASSUME NEW w \in Workers, Issue(w)
        PROVE  ReadyVectors' /\ VectorsAt(w)'
    <2>1. PICK op \in {"ingest", "reindex", "delete"}, net \in BOOLEAN : Begin(w, op, net)
      BY <1>2 DEF Issue
    <2>2. /\ pc'[w] \in {"select", "lookup", "find"}
          /\ UNCHANGED <<row, chunks, vectors>>
      BY <2>1 DEF Begin, Goto, WholeInv, SoloInv, TypedShape, ControlType
    <2> QED
      BY <2>2 DEF WholeInv, ReadyVectors, VectorsAt, Deleting, InFinalTransaction
  <1>3. CASE \E w \in Workers : Issue(w) \/ CommandStep(w) \/ Crash(w)
    <2>1. PICK w \in Workers : Issue(w) \/ CommandStep(w) \/ Crash(w)
      BY <1>3
    <2>2. ReadyVectors' /\ VectorsAt(w)'
      BY <2>1, <1>2, WholeCommand
    <2>3. \A v \in Workers : v = w
      BY DEF Alone
    <2> QED
      BY <1>1, <2>2, <2>3 DEF WholeInv
  <1>4. CASE UNCHANGED vars
    <2>1. UNCHANGED <<row, chunks, vectors, pc, job>>
      BY <1>4 DEF vars
    <2>2. ReadyVectors' /\ \A w \in Workers : VectorsAt(w)'
      BY <2>1 DEF WholeInv, ReadyVectors, VectorsAt, Doc
    <2> QED
      BY <1>1, <2>2 DEF WholeInv
  <1> QED
    BY <1>3, <1>4 DEF Next, Issue

(* As long as no command has taken a step, the row stats read is the row,  *)
(* and its verdict is the comparison it would make now.                    *)
Counted == Cardinality(BatchesOf(row.id, vectors))

VerdictInv ==
  /\ stats \in [at : {"rows", "vectors"}, read : Row,
                verdict : {"none", "in_progress", "mismatch", "clean"}]
  /\ calm => stats.read = row
  /\ calm /\ stats.at = "rows" =>
       /\ stats.verdict = "clean" => ~Mismatch(row, Counted)
       /\ stats.verdict = "mismatch" => Mismatch(row, Counted)

StatsInv == WholeInv /\ VerdictInv

LEMMA StatsStart == StatsInit => StatsInv
  BY WholeStart, NoJobType DEF StatsInit, StatsInv, VerdictInv

LEMMA StatsStep ==
  ASSUME Alone, StatsInv, [StatsNext]_statsVars
  PROVE  StatsInv'
  <1>1. [Next]_vars
    BY DEF StatsNext, ReadRows, CountVectors, statsVars
  <1>2. WholeInv'
    BY <1>1, WholeStep DEF StatsInv
  <1>3. row \in Row
    BY DEF StatsInv, WholeInv, SoloInv, TypedShape, StoreType
  <1>4. CASE ReadRows
    <2>1. /\ stats' = [at |-> "vectors", read |-> row, verdict |-> "none"]
          /\ row' = row
      BY <1>4 DEF ReadRows, vars
    <2>2. VerdictInv'
      BY <1>3, <2>1 DEF VerdictInv
    <2> QED
      BY <1>2, <2>2 DEF StatsInv
  <1>5. CASE CountVectors
    <2>1. UNCHANGED <<row, vectors, calm>> /\ stats'.at = "rows" /\ stats'.read = stats.read
      BY <1>5 DEF CountVectors, StatsInv, VerdictInv, vars
    <2>2. /\ stats' \in [at : {"rows", "vectors"}, read : Row,
                         verdict : {"none", "in_progress", "mismatch", "clean"}]
          /\ calm /\ stats'.verdict = "clean" => ~Mismatch(row, Counted)
          /\ calm /\ stats'.verdict = "mismatch" => Mismatch(row, Counted)
      BY <1>5 DEF CountVectors, StatsInv, VerdictInv, Counted
    <2>3. Counted' = Counted /\ (\A n : Mismatch(row, n)' <=> Mismatch(row, n))
      BY <2>1 DEF Counted, Mismatch, BatchesOf
    <2>4. VerdictInv'
      BY <2>1, <2>2, <2>3 DEF StatsInv, VerdictInv, Mismatch
    <2> QED
      BY <1>2, <2>4 DEF StatsInv
  <1>6. CASE Next /\ calm' = FALSE /\ UNCHANGED stats
    BY <1>2, <1>6 DEF StatsInv, VerdictInv
  <1>7. CASE UNCHANGED statsVars
    <2>1. UNCHANGED <<row, vectors, stats, calm>>
      BY <1>7 DEF statsVars, vars
    <2> QED
      BY <1>2, <2>1 DEF StatsInv, VerdictInv, Counted, Mismatch, BatchesOf
  <1> QED
    BY <1>2, <1>4, <1>5, <1>6, <1>7 DEF StatsNext, StatsInv

(* cli.py:377-441: beside one process, crashes included, the two numbers   *)
(* stats compares tell whether the two stores hold the same.               *)
THEOREM StatsVerdictIsTrue == Alone => (StatsSpec => []QuietVerdictIsTrue)
  <1> SUFFICES ASSUME Alone PROVE StatsSpec => []QuietVerdictIsTrue
    OBVIOUS
  <1>1. StatsInv => QuietVerdictIsTrue
    <2> SUFFICES ASSUME StatsInv, calm, stats.at = "rows"
                 PROVE  /\ stats.verdict = "clean" /\ stats.read.status = "ready"
                             => vectors = chunks
                        /\ stats.verdict = "mismatch" => vectors # chunks
      BY DEF QuietVerdictIsTrue
    <2>1. /\ stats.read = row
          /\ stats.verdict = "clean" => row.count = Counted
          /\ stats.verdict = "mismatch" => row.count # Counted
      BY DEF StatsInv, VerdictInv, Mismatch
    <2>2. Counted = Cardinality(vectors)
      <3>1. BatchesOf(row.id, vectors) = vectors
        BY DEF StatsInv, WholeInv, SoloInv, SoloStores, NoOrphanVectors, BatchesOf
      <3> QED
        BY <3>1 DEF Counted
    <2>3. Cardinality(chunks) = row.count
      BY OneBatchCounts DEF StatsInv, WholeInv, SoloInv, SoloStores, CountMatchesRows
    <2>4. row.status = "ready" => row.count = 1 /\ ReadyVectors
      BY DEF StatsInv, WholeInv, SearchInv, ReadyIsSearchable, ReadyHasChunks
    <2>5. stats.verdict = "clean" /\ row.status = "ready" => vectors = chunks
      BY <2>1, <2>2, <2>4, FS_EmptySet DEF ReadyVectors
    <2> QED
      BY <2>1, <2>2, <2>3, <2>5
  <1>2. StatsInv /\ [StatsNext]_statsVars => StatsInv'
    BY StatsStep
  <1> QED
    BY <1>1, <1>2, StatsStart, PTL DEF StatsSpec
=============================================================================
