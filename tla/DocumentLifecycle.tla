------------------------- MODULE DocumentLifecycle --------------------------
(***************************************************************************)
(* What the ingestion service promises about one uploaded file, whatever   *)
(* its workers do, in whatever order, and wherever they crash:             *)
(*                                                                         *)
(*   - at most one live `documents` row exists for a (user, content hash); *)
(*   - a committed transaction moves that row along the status table, one  *)
(*     move, or the sweep-and-retry pair, at a time;                       *)
(*   - the audit trail grows by exactly the moves that were committed and  *)
(*     outlives the row.                                                   *)
(*                                                                         *)
(* Ingestion.tla is the detailed specification that implements this one.   *)
(***************************************************************************)
EXTENDS DocumentStatus

CONSTANT DocIds         \* identities a documents row can be given

VARIABLES
  status,               \* status[d]: the row's status, or "absent"
  trail                 \* trail[d]: the statuses its audit events record

lifecycleVars == <<status, trail>>

Live(d) == status[d] # "absent"

(* The trail a document has gone through when it is found ready.           *)
ReadyTrail == <<"queued", "parsing", "indexing", "ready">>

LifecycleInit ==
  /\ trail \in [DocIds -> {<< >>, ReadyTrail}]
  /\ status = [d \in DocIds |-> IF trail[d] = << >> THEN "absent" ELSE "ready"]
  /\ \A d, e \in DocIds : Live(d) /\ Live(e) => d = e

Create(d) ==
  /\ \A e \in DocIds : ~Live(e)
  /\ trail[d] = << >>
  /\ status' = [status EXCEPT ![d] = "queued"]
  /\ trail' = [trail EXCEPT ![d] = <<"queued">>]

(* One committed transaction: one legal move, or failed and then queued.   *)
CommittedPaths == {<<s>> : s \in Status} \cup {<<"failed", "queued">>}

Move(d) ==
  /\ Live(d)
  /\ \E path \in CommittedPaths :
       /\ LegalFrom(status[d], path)
       /\ status' = [status EXCEPT ![d] = path[Len(path)]]
       /\ trail' = [trail EXCEPT ![d] = trail[d] \o path]

Erase(d) ==
  /\ Live(d)
  /\ status' = [status EXCEPT ![d] = "absent"]
  /\ UNCHANGED trail

LifecycleNext == \E d \in DocIds : Create(d) \/ Move(d) \/ Erase(d)

LifecycleSpec == LifecycleInit /\ [][LifecycleNext]_lifecycleVars

-----------------------------------------------------------------------------
LifecycleTypeOK ==
  /\ status \in [DocIds -> Status \cup {"absent"}]
  /\ trail \in [DocIds -> Seq(Status)]

(* The audit trail of every document that ever existed starts at its birth *)
(* and only records moves the table allows, and the last one is the status *)
(* a live row has: the predecessor of any move is the event before it.     *)
TrailTellsTheStory ==
  \A d \in DocIds :
    /\ trail[d] # << >> => trail[d][1] = "queued"
    /\ LegalPath(trail[d])
    /\ Live(d) => /\ trail[d] # << >>
                  /\ trail[d][Len(trail[d])] = status[d]

(* Two uploads of the same bytes by one user never give two live rows.     *)
OneLiveRow == \A d, e \in DocIds : Live(d) /\ Live(e) => d = e
=============================================================================
