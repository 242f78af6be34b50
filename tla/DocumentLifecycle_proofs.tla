---------------------- MODULE DocumentLifecycle_proofs ----------------------
(***************************************************************************)
(* Proofs about the abstract life of a document, for every set DocIds:     *)
(* the audit trail tells the whole story, and one live row per file.       *)
(***************************************************************************)
EXTENDS DocumentLifecycle, TLAPS

(* The table maps each status to statuses.                                 *)
LEMMA TableType == LegalTransitions \in [Status -> SUBSET Status]
  BY DEF LegalTransitions, Status

(* The sweep-and-retry pair of ingest_document is itself a legal path.     *)
LEMMA SweepPathLegal == LegalPath(<<"failed", "queued">>)
  BY DEF LegalPath, LegalTransitions, Status

LEMMA ReadyTrailLegal ==
  /\ ReadyTrail \in Seq(Status)
  /\ Len(ReadyTrail) = 4
  /\ ReadyTrail[1] = "queued"
  /\ ReadyTrail[4] = "ready"
  /\ LegalPath(ReadyTrail)
  BY DEF ReadyTrail, LegalPath, LegalTransitions, Status

(* A legal path continued by a legal path is a legal path.                 *)
LEMMA LegalPathConcat ==
  ASSUME NEW p \in Seq(Status), p # << >>, LegalPath(p),
         NEW q \in Seq(Status), LegalFrom(p[Len(p)], q)
  PROVE  /\ p \o q \in Seq(Status)
         /\ p \o q # << >>
         /\ (p \o q)[1] = p[1]
         /\ (p \o q)[Len(p \o q)] = q[Len(q)]
         /\ LegalPath(p \o q)
  <1>1. /\ Len(p) \in Nat /\ Len(p) >= 1
        /\ Len(q) \in Nat /\ Len(q) >= 1
        /\ Len(p \o q) = Len(p) + Len(q)
        /\ \A i \in 1 .. Len(p) + Len(q) :
             (p \o q)[i] = IF i <= Len(p) THEN p[i] ELSE q[i - Len(p)]
    BY DEF LegalFrom
  <1>2. LegalPath(p \o q)
    <2> SUFFICES ASSUME NEW i \in 1 .. Len(p) + Len(q) - 1
                 PROVE  (p \o q)[i + 1] \in LegalTransitions[(p \o q)[i]]
      BY <1>1 DEF LegalPath
    <2>1. CASE i < Len(p)
      BY <1>1, <2>1 DEF LegalPath
    <2>2. CASE i = Len(p)
      BY <1>1, <2>2 DEF LegalFrom
    <2>3. CASE i > Len(p)
      <3>1. i - Len(p) \in 1 .. Len(q) - 1
        BY <1>1, <2>3
      <3>2. q[(i - Len(p)) + 1] \in LegalTransitions[q[i - Len(p)]]
        BY <3>1 DEF LegalFrom, LegalPath
      <3>3. (i + 1) - Len(p) = (i - Len(p)) + 1
        BY <1>1
      <3>4. (p \o q)[i + 1] = q[(i - Len(p)) + 1] /\ (p \o q)[i] = q[i - Len(p)]
        BY <1>1, <2>3, <3>3
      <3>5. QED
        BY <3>2, <3>4
    <2>4. QED
      BY <1>1, <2>1, <2>2, <2>3
  <1>3. (p \o q)[1] = p[1] /\ (p \o q)[Len(p \o q)] = q[Len(q)]
    BY <1>1
  <1>4. p \o q # << >>
    BY <1>1
  <1>5. QED
    BY <1>2, <1>3, <1>4

-----------------------------------------------------------------------------
LifecycleInv == LifecycleTypeOK /\ TrailTellsTheStory /\ OneLiveRow

LEMMA LifecycleInitInv == LifecycleInit => LifecycleInv
  <1> SUFFICES ASSUME LifecycleInit PROVE LifecycleInv
    OBVIOUS
  <1>1. \A d \in DocIds : trail[d] = << >> \/ trail[d] = ReadyTrail
    BY DEF LifecycleInit
  <1>2. LifecycleTypeOK
    <2>1. << >> \in Seq(Status)
      OBVIOUS
    <2>2. trail \in [DocIds -> Seq(Status)]
      BY <2>1, ReadyTrailLegal DEF LifecycleInit
    <2>3. status \in [DocIds -> Status \cup {"absent"}]
      BY DEF LifecycleInit, Status
    <2>4. QED
      BY <2>2, <2>3 DEF LifecycleTypeOK
  <1>3. TrailTellsTheStory
    <2> SUFFICES ASSUME NEW d \in DocIds
                 PROVE  /\ trail[d] # << >> => trail[d][1] = "queued"
                        /\ LegalPath(trail[d])
                        /\ Live(d) => /\ trail[d] # << >>
                                      /\ trail[d][Len(trail[d])] = status[d]
      BY DEF TrailTellsTheStory
    <2>1. CASE trail[d] = << >>
      BY <2>1 DEF LegalPath, Live, LifecycleInit
    <2>2. CASE trail[d] = ReadyTrail
      BY <2>2, ReadyTrailLegal DEF Live, LifecycleInit
    <2>3. QED
      BY <1>1, <2>1, <2>2
  <1>4. OneLiveRow
    BY DEF LifecycleInit, OneLiveRow
  <1>5. QED
    BY <1>2, <1>3, <1>4 DEF LifecycleInv

LEMMA LifecycleStepInv == LifecycleInv /\ [LifecycleNext]_lifecycleVars => LifecycleInv'
  <1> SUFFICES ASSUME LifecycleInv, [LifecycleNext]_lifecycleVars
               PROVE  LifecycleInv'
    OBVIOUS
  <1> USE DEF LifecycleInv, LifecycleTypeOK, OneLiveRow, Live
  <1>1. ASSUME NEW d \in DocIds, Create(d)
        PROVE  LifecycleInv'
    <2>1. LifecycleTypeOK' /\ OneLiveRow'
      BY <1>1 DEF Create, Status
    <2>2. trail'[d] = <<"queued">> /\ status'[d] = "queued" /\ LegalPath(<<"queued">>)
      BY <1>1 DEF Create, LegalPath
    <2>3. TrailTellsTheStory'
      BY <1>1, <2>2 DEF Create, TrailTellsTheStory
    <2>4. QED
      BY <2>1, <2>3
  <1>2. ASSUME NEW d \in DocIds, Move(d)
        PROVE  LifecycleInv'
    <2>1. PICK path \in CommittedPaths :
            /\ LegalFrom(status[d], path)
            /\ status' = [status EXCEPT ![d] = path[Len(path)]]
            /\ trail' = [trail EXCEPT ![d] = trail[d] \o path]
      BY <1>2 DEF Move
    <2>2. path \in Seq(Status) /\ path[Len(path)] \in Status
      <3>1. CASE path = <<"failed", "queued">>
        BY <3>1 DEF Status
      <3>2. CASE \E s \in Status : path = <<s>>
        BY <3>2
      <3>3. QED
        BY <2>1, <3>1, <3>2 DEF CommittedPaths
    <2>3. /\ trail[d] \in Seq(Status) /\ trail[d] # << >> /\ LegalPath(trail[d])
          /\ trail[d][Len(trail[d])] = status[d] /\ trail[d][1] = "queued"
      BY <1>2 DEF Move, TrailTellsTheStory
    <2>4. /\ trail[d] \o path \in Seq(Status)
          /\ trail[d] \o path # << >>
          /\ (trail[d] \o path)[1] = "queued"
          /\ (trail[d] \o path)[Len(trail[d] \o path)] = path[Len(path)]
          /\ LegalPath(trail[d] \o path)
      BY <2>1, <2>2, <2>3, LegalPathConcat
    <2>5. LifecycleTypeOK' /\ OneLiveRow'
      BY <1>2, <2>1, <2>2, <2>4 DEF Move, Status
    <2>6. TrailTellsTheStory'
      BY <2>1, <2>4 DEF TrailTellsTheStory
    <2>7. QED
      BY <2>5, <2>6
  <1>3. ASSUME NEW d \in DocIds, Erase(d)
        PROVE  LifecycleInv'
    BY <1>3 DEF Erase, TrailTellsTheStory
  <1>4. CASE UNCHANGED lifecycleVars
    BY <1>4 DEF lifecycleVars, TrailTellsTheStory
  <1>5. QED
    BY <1>1, <1>2, <1>3, <1>4 DEF LifecycleNext

(* Whatever set of row identities there is: the audit trail of a document  *)
(* is a legal path from its birth to the status it has, and a file has at  *)
(* most one live row.                                                      *)
THEOREM LifecycleIsSafe == LifecycleSpec => []LifecycleInv
  BY LifecycleInitInv, LifecycleStepInv, PTL DEF LifecycleSpec
=============================================================================
