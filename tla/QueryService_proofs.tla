------------------------- MODULE QueryService_proofs ------------------------
(***************************************************************************)
(* What QueryService.tla promises for every number of requests and         *)
(* readiness checks, pool size, retry limit, clock and retrieval: the      *)
(* limits, the connections, the money and the citations.                   *)
(***************************************************************************)
EXTENDS QueryService, Retrieval_proofs

-----------------------------------------------------------------------------
(* The limits of RateLimiter.tla hold for every limit, cap, clock and set  *)
(* of requests.  The minute and the day obey one argument: a window is a   *)
(* monotone function W of the clock, and WindowOK relates its counter to   *)
(* the requests admitted in it.                                            *)
Admissions == [Requests -> Nat \cup {NotYet}]
Clocks == {W \in [Nat -> Nat] : \A s, t \in Nat : s <= t => W[s] <= W[t]}

Members(W, adm, m) == {r \in Requests : adm[r] # NotYet /\ W[adm[r]] = m}

(* The counter of window cur is the number of requests admitted in it, no  *)
(* request was admitted in a later one, and no window exceeds the cap.     *)
WindowOK(W, adm, t, cur, count, cap) ==
  /\ cur \in Int /\ count \in Nat
  /\ cur <= W[t]
  /\ \A r \in Requests : adm[r] # NotYet => W[adm[r]] <= cur
  /\ count = Cardinality(Members(W, adm, cur))
  /\ \A r \in Requests :
       adm[r] # NotYet => Cardinality(Members(W, adm, W[adm[r]])) <= cap

(* The members of a window are a finite set with a natural cardinality.    *)
LEMMA MembersFinite ==
  ASSUME NEW W, NEW adm, NEW m
  PROVE  IsFiniteSet(Members(W, adm, m)) /\ Cardinality(Members(W, adm, m)) \in Nat
  BY LimiterAssumption, FS_Subset, FS_CardinalityType DEF Members

(* Time passes.                                                            *)
LEMMA WindowTick ==
  ASSUME NEW W \in Clocks, NEW adm \in Admissions, NEW t \in Nat, NEW cur, NEW count,
         NEW cap \in Nat, WindowOK(W, adm, t, cur, count, cap)
  PROVE  WindowOK(W, adm, t + 1, cur, count, cap)
  <1>1. W[t] \in Nat /\ W[t + 1] \in Nat /\ W[t] <= W[t + 1]
    BY DEF Clocks
  <1> QED BY <1>1 DEF WindowOK

(* acquire() rolls the window: a new one has no members yet.               *)
LEMMA WindowRoll ==
  ASSUME NEW W \in Clocks, NEW adm \in Admissions, NEW t \in Nat, NEW cur, NEW count,
         NEW cap \in Nat, WindowOK(W, adm, t, cur, count, cap)
  PROVE  WindowOK(W, adm, t, W[t], IF cur = W[t] THEN count ELSE 0, cap)
  <1>1. W[t] \in Nat /\ cur \in Int /\ cur <= W[t]
    BY DEF Clocks, WindowOK
  <1>2. \A r \in Requests : adm[r] # NotYet => W[adm[r]] \in Nat
    BY DEF Clocks, Admissions
  <1>3. \A r \in Requests : adm[r] # NotYet => W[adm[r]] <= W[t]
    BY <1>1, <1>2 DEF WindowOK
  <1>4. CASE cur = W[t]
    BY <1>4 DEF WindowOK
  <1>5. CASE cur # W[t]
    <2>1. Members(W, adm, W[t]) = {}
      BY <1>1, <1>2, <1>5 DEF WindowOK, Members
    <2>2. Cardinality(Members(W, adm, W[t])) = 0
      BY <2>1, FS_EmptySet
    <2> QED BY <1>1, <1>3, <1>5, <2>2 DEF WindowOK
  <1> QED BY <1>4, <1>5

(* acquire() charges a request that was not charged before.                *)
LEMMA WindowCharge ==
  ASSUME NEW W \in Clocks, NEW adm \in Admissions, NEW t \in Nat, NEW count,
         NEW cap \in Nat, NEW r \in Requests, adm[r] = NotYet,
         WindowOK(W, adm, t, W[t], count, cap), count < cap
  PROVE  WindowOK(W, [adm EXCEPT ![r] = t], t, W[t], count + 1, cap)
  <1> DEFINE new == [adm EXCEPT ![r] = t]
  <1>1. new[r] = t /\ t # NotYet /\ \A q \in Requests \ {r} : new[q] = adm[q]
    BY DEF Admissions, NotYet
  <1>2. W[t] \in Nat /\ \A q \in Requests : adm[q] # NotYet => W[adm[q]] \in Nat
    BY DEF Clocks, Admissions
  <1>3. Members(W, new, W[t]) = Members(W, adm, W[t]) \cup {r}
    BY <1>1 DEF Members
  <1>4. \A m : m # W[t] => Members(W, new, m) = Members(W, adm, m)
    BY <1>1 DEF Members
  <1>5. r \notin Members(W, adm, W[t])
    BY DEF Members
  <1>6. Cardinality(Members(W, new, W[t])) = count + 1
    BY <1>3, <1>5, MembersFinite, FS_AddElement DEF WindowOK
  <1>7. count \in Nat /\ count + 1 \in Nat /\ count + 1 <= cap
    BY DEF WindowOK
  <1>8. ASSUME NEW q \in Requests, new[q] # NotYet
        PROVE  W[new[q]] <= W[t] /\ Cardinality(Members(W, new, W[new[q]])) <= cap
    <2>1. CASE W[new[q]] = W[t]
      BY <2>1, <1>2, <1>6, <1>7
    <2>2. CASE W[new[q]] # W[t]
      <3>1. q # r /\ new[q] = adm[q]
        BY <2>2, <1>1
      <3> QED BY <3>1, <2>2, <1>4, <1>8 DEF WindowOK
    <2> QED BY <2>1, <2>2
  <1> HIDE DEF new
  <1>9. WindowOK(W, new, t, W[t], count + 1, cap)
    BY <1>2, <1>6, <1>7, <1>8 DEF WindowOK
  <1> QED BY <1>9 DEF new

-----------------------------------------------------------------------------
MinuteClock == [t \in Nat |-> MinuteOf(t)]
DayClock == [t \in Nat |-> DayOf(t)]

(* The inductive invariant: types, and both windows in order.              *)
LimiterInv ==
  /\ LimiterTypeOK
  /\ WindowOK(MinuteClock, admitted, now, limiter.minute, limiter.minuteCount, PerMinute)
  /\ WindowOK(DayClock, admitted, now, limiter.day, limiter.dayCount, DailyCap)

(* Integer division by a positive number is monotone.                      *)
LEMMA DivMonotone ==
  ASSUME NEW n \in Nat \ {0}, NEW a \in Nat, NEW b \in Nat, a <= b
  PROVE  a \div n \in Nat /\ a \div n <= b \div n
  <1> DEFINE p == a \div n
             q == b \div n
  <1>1. p \in Int /\ n * p <= a /\ a < n * p + n
    BY SMT
  <1>2. q \in Int /\ n * q <= b /\ b < n * q + n
    BY SMT
  <1>3. n * p < n * (q + 1)
    BY <1>1, <1>2, SMT
  <1>4. p < q + 1
    BY <1>1, <1>2, <1>3, SMT
  <1>5. p >= 0
    BY <1>1, SMT
  <1> QED BY <1>1, <1>2, <1>4, <1>5

(* Minutes and days do not run backwards.                                  *)
LEMMA ClocksMonotone == MinuteClock \in Clocks /\ DayClock \in Clocks
  <1>1. /\ TicksPerSecond * SecondsPerMinute \in Nat \ {0}
        /\ TicksPerSecond * SecondsPerDay \in Nat \ {0}
    BY LimiterAssumption
  <1>2. \A t \in Nat : MinuteOf(t) \in Nat /\ DayOf(t) \in Nat
    BY <1>1, DivMonotone DEF MinuteOf, DayOf
  <1>3. \A s, t \in Nat : s <= t => MinuteOf(s) <= MinuteOf(t) /\ DayOf(s) <= DayOf(t)
    BY <1>1, DivMonotone DEF MinuteOf, DayOf
  <1> QED BY <1>2, <1>3 DEF Clocks, MinuteClock, DayClock

(* Nobody is admitted at the start.                                        *)
LEMMA LimiterStarts == LimiterInit => LimiterInv
  <1> SUFFICES ASSUME LimiterInit PROVE LimiterInv
    OBVIOUS
  <1>1. LimiterTypeOK /\ now = 0 /\ \A r \in Requests : admitted[r] = NotYet
    BY LimiterAssumption DEF LimiterInit, LimiterTypeOK, NotYet
  <1>2. ASSUME NEW W \in Clocks, NEW cap PROVE WindowOK(W, admitted, now, -1, 0, cap)
    <2>1. Members(W, admitted, -1) = {}
      BY <1>1 DEF Members
    <2>2. W[now] \in Nat
      BY <1>1 DEF Clocks
    <2> QED BY <1>1, <2>1, <2>2, FS_EmptySet DEF WindowOK
  <1> QED BY <1>1, <1>2, ClocksMonotone DEF LimiterInv, LimiterInit

(* acquire() begins by rolling both windows.                               *)
LEMMA RollsBoth ==
  ASSUME LimiterInv
  PROVE  /\ WindowOK(MinuteClock, admitted, now, MinuteClock[now], Rolled.minuteCount, PerMinute)
         /\ WindowOK(DayClock, admitted, now, DayClock[now], Rolled.dayCount, DailyCap)
         /\ Rolled.minute = MinuteClock[now] /\ Rolled.day = DayClock[now]
         /\ Rolled \in [minute : Int, minuteCount : Nat, day : Int, dayCount : Nat]
  <1>1. now \in Nat /\ admitted \in Admissions /\ {PerMinute, DailyCap} \subseteq Nat
    BY LimiterAssumption DEF LimiterInv, LimiterTypeOK, Admissions
  <1>2. Rolled.minute = MinuteClock[now] /\ Rolled.day = DayClock[now]
    BY <1>1 DEF Rolled, MinuteClock, DayClock
  <1>3. /\ Rolled.minuteCount =
              IF limiter.minute = MinuteClock[now] THEN limiter.minuteCount ELSE 0
        /\ Rolled.dayCount =
              IF limiter.day = DayClock[now] THEN limiter.dayCount ELSE 0
    BY <1>1 DEF Rolled, MinuteClock, DayClock
  <1>4. /\ WindowOK(MinuteClock, admitted, now, MinuteClock[now], Rolled.minuteCount, PerMinute)
        /\ WindowOK(DayClock, admitted, now, DayClock[now], Rolled.dayCount, DailyCap)
    BY <1>1, <1>3, WindowRoll, ClocksMonotone DEF LimiterInv
  <1>5. MinuteClock[now] \in Nat /\ DayClock[now] \in Nat
    BY <1>1, ClocksMonotone DEF Clocks
  <1>6. Rolled.minuteCount \in Nat /\ Rolled.dayCount \in Nat
    BY <1>4 DEF WindowOK
  <1> QED BY <1>2, <1>4, <1>5, <1>6 DEF Rolled

(* A refusal stores the rolled windows.                                    *)
LEMMA RefuseKeeps == LimiterInv /\ Refuse => LimiterInv'
  BY RollsBoth DEF LimiterInv, LimiterTypeOK, Refuse

(* An admission moves both counters by one.                                *)
LEMMA AdmitKeeps ==
  ASSUME NEW r \in Requests, LimiterInv, admitted[r] = NotYet, Admit(r)
  PROVE  LimiterInv'
  <1>1. now \in Nat /\ admitted \in Admissions /\ {PerMinute, DailyCap} \subseteq Nat
    BY LimiterAssumption DEF LimiterInv, LimiterTypeOK, Admissions
  <1>2. Rolled.minuteCount < PerMinute /\ Rolled.dayCount < DailyCap
    BY <1>1, RollsBoth DEF Admit, MinuteSpent, DaySpent
  <1>3. /\ limiter'.minute = MinuteClock[now]
        /\ limiter'.minuteCount = Rolled.minuteCount + 1
        /\ limiter'.day = DayClock[now]
        /\ limiter'.dayCount = Rolled.dayCount + 1
        /\ limiter' \in [minute : Int, minuteCount : Nat, day : Int, dayCount : Nat]
    BY RollsBoth DEF Admit
  <1>4. admitted' = [admitted EXCEPT ![r] = now] /\ now' = now
    BY DEF Admit
  <1> DEFINE new == [admitted EXCEPT ![r] = now]
  <1>5. /\ WindowOK(MinuteClock, new, now, MinuteClock[now], Rolled.minuteCount + 1, PerMinute)
        /\ WindowOK(DayClock, new, now, DayClock[now], Rolled.dayCount + 1, DailyCap)
    BY <1>1, <1>2, RollsBoth, WindowCharge, ClocksMonotone
  <1>6. /\ WindowOK(MinuteClock, admitted', now', limiter'.minute, limiter'.minuteCount, PerMinute)
        /\ WindowOK(DayClock, admitted', now', limiter'.day, limiter'.dayCount, DailyCap)
    BY <1>3, <1>4, <1>5
  <1>7. LimiterTypeOK'
    BY <1>1, <1>3, <1>4 DEF LimiterTypeOK, Admissions
  <1> QED BY <1>6, <1>7 DEF LimiterInv

(* The clock moves.                                                        *)
LEMMA TickKeeps == LimiterInv /\ Tick => LimiterInv'
  <1> SUFFICES ASSUME LimiterInv, Tick PROVE LimiterInv'
    OBVIOUS
  <1>1. now \in Nat /\ admitted \in Admissions /\ {PerMinute, DailyCap} \subseteq Nat
    BY LimiterAssumption DEF LimiterInv, LimiterTypeOK, Admissions
  <1>2. /\ WindowOK(MinuteClock, admitted, now + 1, limiter.minute, limiter.minuteCount, PerMinute)
        /\ WindowOK(DayClock, admitted, now + 1, limiter.day, limiter.dayCount, DailyCap)
    BY <1>1, WindowTick, ClocksMonotone DEF LimiterInv
  <1> QED BY <1>1, <1>2 DEF LimiterInv, LimiterTypeOK, Tick

LEMMA LimiterSteps == LimiterInv /\ [LimiterNext]_limiterVars => LimiterInv'
  <1> SUFFICES ASSUME LimiterInv, [LimiterNext]_limiterVars PROVE LimiterInv'
    OBVIOUS
  <1>1. CASE Tick
    BY <1>1, TickKeeps
  <1>2. CASE Refuse
    BY <1>2, RefuseKeeps
  <1>3. ASSUME NEW r \in Requests, admitted[r] = NotYet, Admit(r) PROVE LimiterInv'
    BY <1>3, AdmitKeeps
  <1>4. CASE UNCHANGED limiterVars
    BY <1>4 DEF limiterVars, LimiterInv, LimiterTypeOK, WindowOK, Members
  <1> QED BY <1>1, <1>2, <1>3, <1>4 DEF LimiterNext

(* What the invariant is for.                                              *)
LEMMA LimiterImplies == LimiterInv => BudgetHolds /\ ChargesAreAdmissions
  <1> SUFFICES ASSUME LimiterInv PROVE BudgetHolds /\ ChargesAreAdmissions
    OBVIOUS
  <1>1. \A r \in Requests : admitted[r] # NotYet =>
          /\ MinuteClock[admitted[r]] = MinuteOf(admitted[r])
          /\ DayClock[admitted[r]] = DayOf(admitted[r])
    BY DEF LimiterInv, LimiterTypeOK, MinuteClock, DayClock
  <1>2. \A m : Members(MinuteClock, admitted, m) = InMinute(m)
    BY <1>1 DEF Members, InMinute
  <1>3. \A d : Members(DayClock, admitted, d) = InDay(d)
    BY <1>1 DEF Members, InDay
  <1>4. BudgetHolds
    BY <1>1, <1>2, <1>3 DEF LimiterInv, WindowOK, BudgetHolds
  <1>5. ChargesAreAdmissions
    BY <1>2, <1>3 DEF LimiterInv, WindowOK, ChargesAreAdmissions
  <1> QED BY <1>4, <1>5

(* security.py:81-171: no calendar minute and no UTC day admits more than  *)
(* its limit, and the counters are exactly what was admitted, for every    *)
(* limit, cap, clock resolution and set of requests.                       *)
THEOREM LimiterHoldsTheBudget == LimiterSpec => [](BudgetHolds /\ ChargesAreAdmissions)
  BY LimiterStarts, LimiterSteps, LimiterImplies, PTL DEF LimiterSpec

-----------------------------------------------------------------------------
(* The service around the limiter.                                         *)
Charged == {"connect", "embed", "names", "scoring", "judge", "generate"}

ServiceTypes ==
  /\ pc \in [Requests -> PC]
  /\ pool \subseteq Requests
  /\ pinging \subseteq Probes
  /\ queue \in Seq(Requests)
  /\ embeds \in [Requests -> Nat]
  /\ asks \in [Requests -> Nat]
  /\ hits = [r \in Requests |-> hits[r]]

(* What is spent on a request, by the place it has got to.                 *)
InOrder(r) ==
  /\ pc[r] = "new" => admitted[r] = NotYet
  /\ pc[r] \in Charged => admitted[r] # NotYet
  /\ pc[r] \in {"new", "connect"} => embeds[r] = 0
  /\ pc[r] = "embed" => embeds[r] < MaxRetries
  /\ embeds[r] <= MaxRetries
  /\ pc[r] # "done" => asks[r] = 0
  /\ pc[r] = "generate" => FarFieldGate(hits[r]) = "unverified"
  /\ embeds[r] + asks[r] > 0 => admitted[r] # NotYet
  /\ asks[r] <= 1
  /\ asks[r] = 1 => FarFieldGate(hits[r]) = "unverified"

(* The executor holds exactly one entry of a request that waits for it.    *)
QueueInOrder ==
  /\ \A i \in 1 .. Len(queue) : pc[queue[i]] = "scoring"
  /\ \A i, j \in 1 .. Len(queue) : queue[i] = queue[j] => i = j

ServiceInv ==
  /\ LimiterInv
  /\ ServiceTypes
  /\ \A r \in Requests : InOrder(r)
  /\ QueueInOrder
  /\ NoConnectionIsLeaked

(* A step of q says nothing of the other requests.                         *)
OnlyOf(q) ==
  \A r \in Requests \ {q} :
    /\ pc'[r] = pc[r] /\ embeds'[r] = embeds[r] /\ asks'[r] = asks[r]
    /\ hits'[r] = hits[r] /\ admitted'[r] = admitted[r]

LEMMA ServiceStarts == Init => ServiceInv
  <1> SUFFICES ASSUME Init PROVE ServiceInv
    OBVIOUS
  <1>1. LimiterInv
    BY LimiterStarts DEF Init
  <1>2. ServiceTypes
    BY DEF Init, ServiceTypes, PC
  <1>3. ASSUME NEW r \in Requests PROVE InOrder(r)
    BY ServiceAssumption DEF Init, InOrder, Charged, LimiterInit, NotYet
  <1>4. QueueInOrder
    BY DEF Init, QueueInOrder
  <1>5. /\ pool = {r \in Requests : pc[r] \in InRetrieve}
        /\ Cardinality(pool) + Cardinality(pinging) <= PoolLimit
    BY ServiceAssumption, FS_EmptySet DEF Init, InRetrieve
  <1> QED BY <1>1, <1>2, <1>3, <1>4, <1>5 DEF ServiceInv, NoConnectionIsLeaked

(* The others stay in order.                                               *)
LEMMA OthersInOrder ==
  ASSUME ServiceInv, NEW q \in Requests, OnlyOf(q), InOrder(q)'
  PROVE  \A r \in Requests : InOrder(r)'
  BY DEF ServiceInv, InOrder, OnlyOf

(* A request that is not in the queue moves, and not into it.              *)
LEMMA QueueKept ==
  ASSUME ServiceInv, NEW q \in Requests, OnlyOf(q), pc[q] # "scoring", UNCHANGED queue
  PROVE  QueueInOrder'
  <1>1. \A i \in 1 .. Len(queue) : queue[i] \in Requests
    BY DEF ServiceInv, ServiceTypes
  <1> QED BY <1>1 DEF ServiceInv, QueueInOrder, OnlyOf

(* How many connections are in use.                                        *)
LEMMA UseIsCounted ==
  ASSUME ServiceTypes
  PROVE  /\ IsFiniteSet(pool) /\ Cardinality(pool) \in Nat
         /\ IsFiniteSet(pinging) /\ Cardinality(pinging) \in Nat
  BY LimiterAssumption, ServiceAssumption, FS_Subset, FS_CardinalityType DEF ServiceTypes

(* A connection is taken, kept or given back as the request enters, stays  *)
(* in or leaves retrieve().                                                *)
LEMMA PoolTaken ==
  ASSUME ServiceInv, NEW q \in Requests, OnlyOf(q), pc[q] \notin InRetrieve,
         pc'[q] \in InRetrieve, pool' = pool \cup {q}, UNCHANGED pinging, Free
  PROVE  NoConnectionIsLeaked'
  <1>1. /\ IsFiniteSet(pool) /\ Cardinality(pool) \in Nat /\ Cardinality(pinging) \in Nat
    BY UseIsCounted DEF ServiceInv
  <1>2. Cardinality(pool \cup {q}) \in {Cardinality(pool), Cardinality(pool) + 1}
    BY <1>1, FS_AddElement
  <1>3. Cardinality(pool') + Cardinality(pinging') <= PoolLimit
    BY <1>1, <1>2, ServiceAssumption DEF Free
  <1>4. pool' = {r \in Requests : pc'[r] \in InRetrieve}
    BY DEF OnlyOf, ServiceInv, NoConnectionIsLeaked
  <1> QED BY <1>3, <1>4 DEF NoConnectionIsLeaked

LEMMA PoolKept ==
  ASSUME ServiceInv, NEW q \in Requests, OnlyOf(q), UNCHANGED <<pool, pinging>>,
         pc[q] \in InRetrieve <=> pc'[q] \in InRetrieve
  PROVE  NoConnectionIsLeaked'
  BY DEF OnlyOf, ServiceInv, NoConnectionIsLeaked

LEMMA PoolGivenBack ==
  ASSUME ServiceInv, NEW q \in Requests, OnlyOf(q), pc'[q] \notin InRetrieve,
         pool' = pool \ {q}, UNCHANGED pinging
  PROVE  NoConnectionIsLeaked'
  <1>1. /\ IsFiniteSet(pool) /\ Cardinality(pool) \in Nat /\ Cardinality(pinging) \in Nat
    BY UseIsCounted DEF ServiceInv
  <1>2. /\ Cardinality(pool') <= Cardinality(pool)
        /\ Cardinality(pool') \in Nat
    BY <1>1, FS_Subset, FS_CardinalityType
  <1>3. Cardinality(pool') + Cardinality(pinging') <= PoolLimit
    BY <1>1, <1>2, ServiceAssumption DEF ServiceInv, NoConnectionIsLeaked
  <1>4. pool' = {r \in Requests : pc'[r] \in InRetrieve}
    BY DEF OnlyOf, ServiceInv, NoConnectionIsLeaked
  <1> QED BY <1>3, <1>4 DEF NoConnectionIsLeaked

LEMMA LimiterKept == ServiceInv /\ UNCHANGED limiterVars => LimiterInv'
  BY LimiterSteps DEF ServiceInv

-----------------------------------------------------------------------------
LEMMA GuardKeeps ==
  ASSUME ServiceInv, NEW q \in Requests, Guard(q)
  PROVE  ServiceInv'
  <1> USE DEF ServiceInv
  <1>1. /\ pc[q] = "new" /\ admitted[q] = NotYet /\ embeds[q] = 0 /\ asks[q] = 0
        /\ UNCHANGED <<pool, pinging, queue, embeds, asks, hits>>
    BY DEF Guard, InOrder
  <1>2. pc' = [pc EXCEPT ![q] = "done"] \/ pc' = [pc EXCEPT ![q] = "connect"]
    BY DEF Guard, Unauthenticated, RateLimited, Invalid, Valid, Answer, Goto
  <1>3. UNCHANGED limiterVars \/ Refuse \/ Admit(q)
    BY DEF Guard, Unauthenticated, RateLimited, Invalid, Valid
  <1>4. LimiterInv'
    BY <1>1, <1>3, LimiterKept, RefuseKeeps, AdmitKeeps
  <1>5. admitted \in [Requests -> Nat \cup {NotYet}] /\ now \in Nat
    BY DEF LimiterInv, LimiterTypeOK
  <1>6. OnlyOf(q)
    BY <1>1, <1>2, <1>3, <1>5 DEF OnlyOf, ServiceTypes, limiterVars, Refuse, Admit
  <1>7. ServiceTypes'
    BY <1>1, <1>2 DEF ServiceTypes, PC
  <1>8. pc'[q] = "connect" => admitted'[q] # NotYet
    BY <1>2, <1>5 DEF ServiceTypes, Guard, Unauthenticated, RateLimited, Invalid,
         Valid, Answer, Goto, Admit, NotYet
  <1>9. InOrder(q)'
    BY <1>1, <1>2, <1>8, ServiceAssumption DEF InOrder, Charged, ServiceTypes
  <1>10. NoConnectionIsLeaked'
    BY <1>1, <1>2, <1>6, PoolKept DEF InRetrieve, ServiceTypes
  <1> QED BY <1>1, <1>4, <1>6, <1>7, <1>9, <1>10, QueueKept, OthersInOrder

LEMMA ConnectKeeps ==
  ASSUME ServiceInv, NEW q \in Requests, Connect(q)
  PROVE  ServiceInv'
  <1> USE DEF ServiceInv
  <1>1. /\ pc[q] = "connect" /\ embeds[q] = 0 /\ asks[q] = 0
        /\ UNCHANGED limiterVars /\ UNCHANGED <<pinging, queue, embeds, asks, hits>>
    BY DEF Connect, Raise, InOrder
  <1>2. \/ pc' = [pc EXCEPT ![q] = "embed"] /\ pool' = pool \cup {q}
             /\ Free
        \/ pc' = [pc EXCEPT ![q] = "done"] /\ pool' = pool \ {q}
    BY DEF Connect, Raise, Answer, Goto
  <1>3. LimiterInv'
    BY <1>1, LimiterKept
  <1>4. OnlyOf(q)
    BY <1>1, <1>2 DEF OnlyOf, ServiceTypes, limiterVars
  <1>5. ServiceTypes'
    BY <1>1, <1>2 DEF ServiceTypes, PC, InRetrieve
  <1>6. InOrder(q)'
    BY <1>1, <1>2, ServiceAssumption DEF InOrder, Charged, ServiceTypes, limiterVars
  <1>7. NoConnectionIsLeaked'
    BY <1>1, <1>2, <1>4, PoolTaken, PoolGivenBack DEF InRetrieve, ServiceTypes
  <1> QED BY <1>1, <1>3, <1>4, <1>5, <1>6, <1>7, QueueKept, OthersInOrder

LEMMA EmbedKeeps ==
  ASSUME ServiceInv, NEW q \in Requests, Embed(q)
  PROVE  ServiceInv'
  <1> USE DEF ServiceInv
  <1>1. /\ pc[q] = "embed" /\ embeds[q] < MaxRetries /\ asks[q] = 0
        /\ admitted[q] # NotYet
        /\ embeds' = [embeds EXCEPT ![q] = embeds[q] + 1]
        /\ UNCHANGED limiterVars /\ UNCHANGED <<pinging, queue, asks, hits>>
    BY DEF Embed, VectorQuery, Proceed, Raise, InOrder, Charged
  <1>2. \/ pc' = [pc EXCEPT ![q] = "names"] /\ pool' = pool
        \/ pc' = [pc EXCEPT ![q] = "embed"] /\ pool' = pool
             /\ embeds'[q] < MaxRetries
        \/ pc' = [pc EXCEPT ![q] = "done"] /\ pool' = pool \ {q}
    BY DEF Embed, VectorQuery, Proceed, Raise, Answer, Goto, MayRetry
  <1>3. LimiterInv'
    BY <1>1, LimiterKept
  <1>4. OnlyOf(q)
    BY <1>1, <1>2 DEF OnlyOf, ServiceTypes, limiterVars
  <1>5. ServiceTypes'
    <2>1. pc' \in [Requests -> PC] /\ pool' \subseteq Requests
      BY <1>2 DEF ServiceTypes, PC, InRetrieve
    <2>2. embeds' \in [Requests -> Nat]
      BY <1>1 DEF ServiceTypes
    <2> QED BY <1>1, <2>1, <2>2 DEF ServiceTypes
  <1>6. InOrder(q)'
    BY <1>1, <1>2, ServiceAssumption DEF InOrder, Charged, ServiceTypes, limiterVars
  <1>7. NoConnectionIsLeaked'
    BY <1>1, <1>2, <1>4, PoolKept, PoolGivenBack DEF InRetrieve, ServiceTypes
  <1> QED BY <1>1, <1>3, <1>4, <1>5, <1>6, <1>7, QueueKept, OthersInOrder

(* retrieve() returned or raised: the request is judged or done.           *)
LEMMA LeavesRetrieve ==
  ASSUME ServiceInv, NEW q \in Requests, pc[q] \in InRetrieve \ {"embed"},
         Retrieved(q) \/ Raise(q, 500), UNCHANGED embeds
  PROVE  /\ LimiterInv' /\ OnlyOf(q) /\ InOrder(q)' /\ NoConnectionIsLeaked'
         /\ pc' \in [Requests -> PC] /\ pool' \subseteq Requests
         /\ asks' \in [Requests -> Nat] /\ hits' = [r \in Requests |-> hits'[r]]
         /\ pinging' \subseteq Probes
         /\ pc'[q] \in {"judge", "done"}
  <1> USE DEF ServiceInv
  <1>1. /\ asks[q] = 0 /\ admitted[q] # NotYet
        /\ UNCHANGED limiterVars /\ UNCHANGED <<asks, pinging>> /\ pool' = pool \ {q}
    BY DEF Retrieved, Raise, InOrder, Charged, InRetrieve
  <1>2. \/ pc' = [pc EXCEPT ![q] = "judge"]
        \/ pc' = [pc EXCEPT ![q] = "done"]
    BY DEF Retrieved, Raise, Answer, Goto
  <1>3. UNCHANGED hits \/ \E found : hits' = [hits EXCEPT ![q] = found]
    BY DEF Retrieved, Raise
  <1>4. LimiterInv'
    BY <1>1, LimiterKept
  <1>5. OnlyOf(q)
    BY <1>1, <1>2, <1>3 DEF OnlyOf, ServiceTypes, limiterVars
  <1>6. InOrder(q)'
    BY <1>1, <1>2, ServiceAssumption DEF InOrder, Charged, ServiceTypes, limiterVars
  <1>7. NoConnectionIsLeaked'
    BY <1>1, <1>2, <1>5, PoolGivenBack DEF InRetrieve, ServiceTypes
  <1>8. hits' = [r \in Requests |-> hits'[r]]
    BY <1>3 DEF ServiceTypes
  <1>9. /\ pc' \in [Requests -> PC] /\ pool' \subseteq Requests /\ pinging' \subseteq Probes
        /\ asks' \in [Requests -> Nat] /\ pc'[q] \in {"judge", "done"}
    BY <1>1, <1>2 DEF ServiceTypes, PC
  <1> QED BY <1>4, <1>5, <1>6, <1>7, <1>8, <1>9

LEMMA RerankKeeps ==
  ASSUME ServiceInv, NEW q \in Requests, Rerank(q)
  PROVE  ServiceInv'
  <1> USE DEF ServiceInv
  <1>1. pc[q] = "names" /\ UNCHANGED embeds
    BY DEF Rerank
  <1>2. CASE (Retrieved(q) \/ Raise(q, 500)) /\ UNCHANGED queue
    <2>1. /\ LimiterInv' /\ OnlyOf(q) /\ InOrder(q)' /\ NoConnectionIsLeaked'
          /\ ServiceTypes'
      BY <1>1, <1>2, LeavesRetrieve DEF InRetrieve, ServiceTypes
    <2> QED BY <1>1, <1>2, <2>1, QueueKept, OthersInOrder
  <1>3. CASE Proceed(q, "scoring") /\ queue' = Append(queue, q)
    <2>1. /\ pc' = [pc EXCEPT ![q] = "scoring"] /\ UNCHANGED limiterVars
          /\ UNCHANGED <<pool, pinging, asks, hits, embeds>>
      BY <1>1, <1>3 DEF Proceed, Goto
    <2>2. LimiterInv'
      BY <2>1, LimiterKept
    <2>3. OnlyOf(q)
      BY <2>1 DEF OnlyOf, ServiceTypes, limiterVars
    <2>4. ServiceTypes'
      BY <1>3, <2>1 DEF ServiceTypes, PC, InRetrieve
    <2>5. InOrder(q)'
      BY <1>1, <2>1 DEF InOrder, Charged, ServiceTypes, limiterVars
    <2>6. NoConnectionIsLeaked'
      BY <1>1, <2>1, <2>3, PoolKept DEF InRetrieve, ServiceTypes
    <2>7. QueueInOrder'
      <3>1. /\ queue \in Seq(Requests) /\ Len(queue') = Len(queue) + 1
            /\ queue'[Len(queue) + 1] = q
            /\ \A i \in 1 .. Len(queue) : queue'[i] = queue[i] /\ queue[i] \in Requests
        BY <1>3 DEF ServiceTypes
      <3>2. \A i \in 1 .. Len(queue) : queue[i] # q
        BY <1>1 DEF QueueInOrder
      <3>3. pc'[q] = "scoring" /\ \A i \in 1 .. Len(queue) : pc'[queue[i]] = "scoring"
        BY <2>1, <3>1 DEF ServiceTypes, QueueInOrder
      <3>4. \A i \in 1 .. Len(queue') : i = Len(queue) + 1 \/ i \in 1 .. Len(queue)
        BY <3>1
      <3>5. \A i \in 1 .. Len(queue') : pc'[queue'[i]] = "scoring"
        BY <3>1, <3>3, <3>4
      <3>6. \A i, j \in 1 .. Len(queue') : queue'[i] = queue'[j] => i = j
        BY <3>1, <3>2, <3>4 DEF QueueInOrder
      <3> QED BY <3>5, <3>6 DEF QueueInOrder
    <2> QED BY <2>2, <2>3, <2>4, <2>5, <2>6, <2>7, OthersInOrder
  <1> QED BY <1>2, <1>3 DEF Rerank

LEMMA ScoreKeeps ==
  ASSUME ServiceInv, ScoreOldest
  PROVE  ServiceInv'
  <1> USE DEF ServiceInv
  <1>0. queue \in Seq(Requests) /\ queue # << >>
    BY DEF ScoreOldest, ServiceTypes
  <1> PICK q \in Requests : q = Head(queue)
    BY <1>0
  <1>1. /\ queue \in Seq(Requests) /\ queue # << >> /\ queue' = Tail(queue)
        /\ UNCHANGED embeds /\ (Retrieved(q) \/ Raise(q, 500))
    BY DEF ScoreOldest, ServiceTypes
  <1>2. /\ Len(queue) >= 1 /\ q = queue[1]
        /\ queue' \in Seq(Requests) /\ Len(queue') = Len(queue) - 1
        /\ \A i \in 1 .. Len(queue') : queue'[i] = queue[i + 1] /\ queue[i + 1] \in Requests
    BY <1>1
  <1>3. pc[q] = "scoring"
    BY <1>2 DEF QueueInOrder
  <1>4. /\ LimiterInv' /\ OnlyOf(q) /\ InOrder(q)' /\ NoConnectionIsLeaked'
        /\ ServiceTypes'
    BY <1>1, <1>2, <1>3, LeavesRetrieve DEF InRetrieve, ServiceTypes
  <1>5. \A i \in 1 .. Len(queue') : queue'[i] # q
    BY <1>1, <1>2 DEF QueueInOrder
  <1>6. QueueInOrder'
    <2>1. ASSUME NEW i \in 1 .. Len(queue') PROVE pc'[queue'[i]] = "scoring"
      BY <1>1, <1>2, <1>4, <1>5 DEF QueueInOrder, OnlyOf
    <2>2. ASSUME NEW i \in 1 .. Len(queue'), NEW j \in 1 .. Len(queue'),
                 queue'[i] = queue'[j]
          PROVE  i = j
      BY <1>1, <1>2, <2>2 DEF QueueInOrder
    <2> QED BY <2>1, <2>2 DEF QueueInOrder
  <1> QED BY <1>2, <1>4, <1>6, OthersInOrder

LEMMA JudgeKeeps ==
  ASSUME ServiceInv, NEW q \in Requests, Judge(q)
  PROVE  ServiceInv'
  <1> USE DEF ServiceInv
  <1>1. /\ pc[q] = "judge" /\ asks[q] = 0 /\ admitted[q] # NotYet
        /\ UNCHANGED limiterVars /\ UNCHANGED <<pool, pinging, queue, embeds, asks, hits>>
    BY DEF Judge, InOrder, Charged
  <1>2. \/ pc' = [pc EXCEPT ![q] = "done"]
        \/ pc' = [pc EXCEPT ![q] = "generate"] /\ FarFieldGate(hits[q]) = "unverified"
    BY DEF Judge, Answer, Goto
  <1>3. LimiterInv'
    BY <1>1, LimiterKept
  <1>4. OnlyOf(q)
    BY <1>1, <1>2 DEF OnlyOf, ServiceTypes, limiterVars
  <1>5. ServiceTypes'
    BY <1>1, <1>2 DEF ServiceTypes, PC
  <1>6. InOrder(q)'
    BY <1>1, <1>2 DEF InOrder, Charged, ServiceTypes, limiterVars
  <1>7. NoConnectionIsLeaked'
    BY <1>1, <1>2, <1>4, PoolKept DEF InRetrieve, ServiceTypes
  <1> QED BY <1>1, <1>3, <1>4, <1>5, <1>6, <1>7, QueueKept, OthersInOrder

LEMMA GenerateKeeps ==
  ASSUME ServiceInv, NEW q \in Requests, Generate(q)
  PROVE  ServiceInv'
  <1> USE DEF ServiceInv
  <1>1. /\ pc[q] = "generate" /\ asks[q] = 0 /\ admitted[q] # NotYet
        /\ FarFieldGate(hits[q]) = "unverified"
        /\ asks' = [asks EXCEPT ![q] = asks[q] + 1]
        /\ UNCHANGED limiterVars /\ UNCHANGED <<pool, pinging, queue, embeds, hits>>
    BY DEF Generate, InOrder, Charged
  <1>2. pc' = [pc EXCEPT ![q] = "done"]
    BY DEF Generate, Answer, Goto
  <1>3. LimiterInv'
    BY <1>1, LimiterKept
  <1>4. OnlyOf(q)
    BY <1>1, <1>2 DEF OnlyOf, ServiceTypes, limiterVars
  <1>5. ServiceTypes'
    BY <1>1, <1>2 DEF ServiceTypes, PC
  <1>6. InOrder(q)'
    BY <1>1, <1>2 DEF InOrder, Charged, ServiceTypes, limiterVars
  <1>7. NoConnectionIsLeaked'
    BY <1>1, <1>2, <1>4, PoolKept DEF InRetrieve, ServiceTypes
  <1> QED BY <1>1, <1>3, <1>4, <1>5, <1>6, <1>7, QueueKept, OthersInOrder

(* A readiness check takes a connection or gives it back.                  *)
LEMMA PingKeeps ==
  ASSUME ServiceInv, NEW p \in Probes, Ping(p)
  PROVE  ServiceInv'
  <1> USE DEF ServiceInv
  <1>1. /\ pinging' = pinging \cup {p} /\ Free
        /\ UNCHANGED limiterVars /\ UNCHANGED <<pc, pool, queue, embeds, asks, hits>>
    BY DEF Ping
  <1>2. Cardinality(pinging') \in {Cardinality(pinging), Cardinality(pinging) + 1}
    BY <1>1, UseIsCounted, FS_AddElement
  <1>3. NoConnectionIsLeaked'
    BY <1>1, <1>2, UseIsCounted, ServiceAssumption DEF NoConnectionIsLeaked, Free
  <1>4. LimiterInv' /\ ServiceTypes' /\ QueueInOrder' /\ \A r \in Requests : InOrder(r)'
    BY <1>1, LimiterKept DEF ServiceTypes, QueueInOrder, InOrder, limiterVars
  <1> QED BY <1>3, <1>4

LEMMA PongKeeps ==
  ASSUME ServiceInv, NEW p \in Probes, Pong(p)
  PROVE  ServiceInv'
  <1> USE DEF ServiceInv
  <1>1. /\ pinging' = pinging \ {p}
        /\ UNCHANGED limiterVars /\ UNCHANGED <<pc, pool, queue, embeds, asks, hits>>
    BY DEF Pong
  <1>2. /\ Cardinality(pinging') <= Cardinality(pinging)
        /\ Cardinality(pinging') \in Nat /\ Cardinality(pinging) \in Nat
    BY <1>1, UseIsCounted, FS_Subset, FS_CardinalityType
  <1>3. NoConnectionIsLeaked'
    BY <1>1, <1>2, UseIsCounted, ServiceAssumption DEF NoConnectionIsLeaked
  <1>4. LimiterInv' /\ ServiceTypes' /\ QueueInOrder' /\ \A r \in Requests : InOrder(r)'
    BY <1>1, LimiterKept DEF ServiceTypes, QueueInOrder, InOrder, limiterVars
  <1> QED BY <1>3, <1>4

(* The clock, or nothing, moves.                                           *)
LEMMA NobodyMoves ==
  ASSUME ServiceInv, LimiterInv', UNCHANGED serviceVars, UNCHANGED admitted
  PROVE  ServiceInv'
  BY DEF ServiceInv, serviceVars, ServiceTypes, InOrder, QueueInOrder, NoConnectionIsLeaked

LEMMA ServiceSteps == ServiceInv /\ [Next]_vars => ServiceInv'
  <1> SUFFICES ASSUME ServiceInv, [Next]_vars PROVE ServiceInv'
    OBVIOUS
  <1>1. CASE Tick /\ UNCHANGED serviceVars
    BY <1>1, TickKeeps, NobodyMoves DEF ServiceInv, Tick
  <1>2. CASE ScoreOldest
    BY <1>2, ScoreKeeps
  <1>3. ASSUME NEW q \in Requests, Step(q) PROVE ServiceInv'
    BY <1>3, GuardKeeps, ConnectKeeps, EmbedKeeps, RerankKeeps, JudgeKeeps, GenerateKeeps
       DEF Step
  <1>4. CASE UNCHANGED vars
    BY <1>4, LimiterKept, NobodyMoves DEF vars, limiterVars
  <1>5. ASSUME NEW p \in Probes, Ping(p) \/ Pong(p) PROVE ServiceInv'
    BY <1>5, PingKeeps, PongKeeps
  <1> QED BY <1>1, <1>2, <1>3, <1>4, <1>5 DEF Next

-----------------------------------------------------------------------------
(* What a request is answered with, by the place it has got to.            *)
Counted(found) == IsHitList(found) /\ CostsAreNumbers(found, Tokens)

Cites(r) ==
  /\ Counted(hits[r])
  /\ pc[r] # "done" => response[r] = Pending
  /\ pc[r] = "generate" => /\ prompt[r] = Cited(r)
                           /\ PlanContext(hits[r], Tokens).error = "none"
  /\ CitedIsRead(r)
  /\ AbstainsUnasked(r)
  /\ response[r].answer => response[r].cited # << >>

CiteInv ==
  /\ prompt = [r \in Requests |-> prompt[r]]
  /\ response = [r \in Requests |-> response[r]]
  /\ \A r \in Requests : Cites(r)

LEMMA CitesStart == Init => CiteInv
  <1>1. Counted(<< >>)
    BY NoHits DEF Counted, CostsAreNumbers
  <1> QED
    BY <1>1 DEF Init, CiteInv, Cites, CitedIsRead, AbstainsUnasked, Pending, Response

LEMMA BackendStays == [Next]_vars => UNCHANGED backend
  BY DEF Next, Step, ScoreOldest, Guard, Connect, Embed, VectorQuery, Rerank, Judge, Generate,
         Ping, Pong, Proceed, Retrieved, Raise, vars, serviceVars

(* q moves and cites what it should; the others do not move.               *)
LEMMA OthersCite ==
  ASSUME CiteInv, NEW q \in Requests, OnlyOf(q), Cites(q)',
         UNCHANGED prompt \/ \E plan : prompt' = [prompt EXCEPT ![q] = plan],
         UNCHANGED response \/ \E resp : response' = [response EXCEPT ![q] = resp]
  PROVE  CiteInv'
  <1>1. ASSUME NEW r \in Requests, r # q PROVE Cites(r)'
    <2>1. UNCHANGED <<pc[r], hits[r], asks[r], prompt[r], response[r]>>
      BY <1>1 DEF OnlyOf, CiteInv
    <2> QED BY <2>1 DEF CiteInv, Cites, CitedIsRead, AbstainsUnasked, Cited
  <1>2. /\ prompt' = [r \in Requests |-> prompt'[r]]
        /\ response' = [r \in Requests |-> response'[r]]
    BY DEF CiteInv
  <1> QED BY <1>1, <1>2 DEF CiteInv

(* A response without an answer that is no 200 promises nothing.           *)
Fails(q) == \E resp : resp.status # 200 /\ resp.answer = FALSE /\ Answer(q, resp)

LEMMA ErrorsFail ==
  ASSUME NEW q, NEW status \in {401, 422, 500, 503}, Answer(q, Response(status))
  PROVE  Fails(q)
  <1>1. Response(status).status # 200 /\ Response(status).answer = FALSE
    BY DEF Response
  <1> QED BY <1>1 DEF Fails

LEMMA ErrorCites ==
  ASSUME CiteInv, ServiceTypes, NEW q \in Requests, OnlyOf(q), UNCHANGED <<prompt, hits>>,
         Fails(q)
  PROVE  CiteInv'
  <1> PICK resp : resp.status # 200 /\ resp.answer = FALSE /\ Answer(q, resp)
    BY DEF Fails
  <1>1. pc'[q] = "done" /\ response'[q] = resp /\ response' = [response EXCEPT ![q] = resp]
    BY DEF Answer, Goto, CiteInv, ServiceTypes
  <1>2. Cites(q)'
    BY <1>1 DEF CiteInv, Cites, Counted, CitedIsRead, AbstainsUnasked
  <1> QED BY <1>1, <1>2, OthersCite

LEMMA RaiseCites ==
  ASSUME CiteInv, ServiceInv, NEW q \in Requests, NEW status \in {500, 503},
         Raise(q, status), UNCHANGED embeds \/ \E n : embeds' = [embeds EXCEPT ![q] = n]
  PROVE  CiteInv'
  <1>1. ServiceTypes /\ UNCHANGED <<prompt, hits>> /\ Answer(q, Response(status))
    BY DEF Raise, ServiceInv
  <1>2. OnlyOf(q)
    BY <1>1 DEF Raise, Answer, Goto, OnlyOf, ServiceTypes, limiterVars
  <1>3. Fails(q)
    BY <1>1, ErrorsFail
  <1> QED BY <1>1, <1>2, <1>3, ErrorCites

(* The request goes on and is not asking the model yet.                    *)
LEMMA UnansweredCites ==
  ASSUME CiteInv, ServiceTypes, NEW q \in Requests, OnlyOf(q), pc[q] # "done",
         NEW label, label # "generate", Goto(q, label), UNCHANGED <<prompt, response>>,
         Counted(hits'[q])
  PROVE  CiteInv'
  <1>1. pc'[q] = label /\ response[q] = Pending /\ response'[q] = Pending
    BY DEF Goto, ServiceTypes, CiteInv, Cites
  <1>2. Cites(q)'
    BY <1>1 DEF Cites, Counted, CitedIsRead, AbstainsUnasked, Pending, Response
  <1> QED BY <1>2, OthersCite

LEMMA GuardCites ==
  ASSUME CiteInv, ServiceInv, NEW q \in Requests, Guard(q)
  PROVE  CiteInv'
  <1>1. /\ pc[q] = "new" /\ ServiceTypes
        /\ UNCHANGED <<pool, pinging, queue, embeds, asks, hits, prompt>>
    BY DEF Guard, ServiceInv
  <1>2. \/ Fails(q) /\ (\E resp : Answer(q, resp))
        \/ Goto(q, "connect") /\ UNCHANGED response
    <2>1. CASE Unauthenticated(q) \/ Invalid(q)
      BY <2>1, ErrorsFail DEF Unauthenticated, Invalid
    <2>2. CASE RateLimited(q)
      <3> DEFINE resp == [Response(429) EXCEPT !.retry = RetryAfter]
      <3>1. resp.status = 429 /\ resp.answer = FALSE
        BY DEF Response
      <3>2. Answer(q, resp)
        BY <2>2 DEF RateLimited
      <3> HIDE DEF resp
      <3>3. resp.status # 200
        BY <3>1
      <3> QED BY <3>1, <3>2, <3>3 DEF Fails
    <2>3. CASE Valid(q)
      BY <2>3 DEF Valid
    <2> QED BY <2>1, <2>2, <2>3 DEF Guard
  <1>3. UNCHANGED admitted \/ admitted' = [admitted EXCEPT ![q] = now]
    BY DEF Guard, Unauthenticated, RateLimited, Invalid, Valid, Refuse, Admit, limiterVars
  <1>4. OnlyOf(q)
    BY <1>1, <1>2, <1>3 DEF OnlyOf, ServiceInv, ServiceTypes, LimiterInv, LimiterTypeOK,
         Answer, Goto
  <1>5. Counted(hits'[q])
    BY <1>1 DEF CiteInv, Cites
  <1> QED BY <1>1, <1>2, <1>4, <1>5, ErrorCites, UnansweredCites

(* What goes on inside retrieve(), or out of it with the hits.             *)
LEMMA RetrievalCites ==
  ASSUME CiteInv, ServiceInv, backend \in Backends, NEW q \in Requests, pc[q] # "done",
         NEW label \in {"embed", "names", "scoring"},
         Proceed(q, label) \/ Retrieved(q),
         UNCHANGED embeds \/ \E n : embeds' = [embeds EXCEPT ![q] = n]
  PROVE  CiteInv'
  <1>1. /\ Goto(q, label) \/ Goto(q, "judge")
        /\ UNCHANGED <<prompt, response, asks>> /\ UNCHANGED limiterVars
        /\ UNCHANGED hits \/ \E found : hits' = [hits EXCEPT ![q] = found]
        /\ ServiceTypes
    BY DEF Proceed, Retrieved, ServiceInv
  <1>2. OnlyOf(q)
    BY <1>1 DEF Goto, OnlyOf, ServiceTypes, limiterVars
  <1>3. Counted(hits'[q])
    <2>1. CASE Proceed(q, label)
      BY <2>1 DEF Proceed, CiteInv, Cites
    <2>2. CASE Retrieved(q)
      <3>1. PICK found \in HitLists[backend] : hits' = [hits EXCEPT ![q] = found]
        BY <2>2 DEF Retrieved
      <3>2. hits'[q] = found
        BY <1>1, <3>1 DEF ServiceTypes
      <3>3. Counted(found)
        BY ServiceAssumption DEF Counted, CostsAreNumbers
      <3> QED BY <3>2, <3>3
    <2> QED BY <2>1, <2>2
  <1> QED BY <1>1, <1>2, <1>3, UnansweredCites

LEMMA ConnectCites ==
  ASSUME CiteInv, ServiceInv, NEW q \in Requests, Connect(q)
  PROVE  CiteInv'
  <1>1. pc[q] = "connect" /\ UNCHANGED embeds /\ ServiceTypes
    BY DEF Connect, ServiceInv
  <1>2. CASE Goto(q, "embed") /\ UNCHANGED <<limiterVars, prompt, asks, hits, response>>
    <2>1. OnlyOf(q)
      BY <1>1, <1>2 DEF Goto, OnlyOf, ServiceTypes, limiterVars
    <2>2. Counted(hits'[q])
      BY <1>2 DEF CiteInv, Cites
    <2> QED BY <1>1, <1>2, <2>1, <2>2, UnansweredCites
  <1>3. CASE Raise(q, 500)
    BY <1>1, <1>3, RaiseCites
  <1> QED BY <1>2, <1>3 DEF Connect

LEMMA EmbedCites ==
  ASSUME CiteInv, ServiceInv, backend \in Backends, NEW q \in Requests, Embed(q)
  PROVE  CiteInv'
  <1>1. pc[q] = "embed" /\ \E n : embeds' = [embeds EXCEPT ![q] = n]
    BY DEF Embed
  <1>2. CASE Proceed(q, "names") \/ Proceed(q, "embed")
    BY <1>1, <1>2, RetrievalCites
  <1>3. CASE Raise(q, 500) \/ Raise(q, 503)
    BY <1>1, <1>3, RaiseCites
  <1> QED BY <1>2, <1>3 DEF Embed, VectorQuery

LEMMA RerankCites ==
  ASSUME CiteInv, ServiceInv, backend \in Backends, NEW q \in Requests, Rerank(q)
  PROVE  CiteInv'
  <1>1. pc[q] = "names" /\ UNCHANGED embeds
    BY DEF Rerank
  <1>2. CASE Proceed(q, "scoring") \/ Retrieved(q)
    BY <1>1, <1>2, RetrievalCites
  <1>3. CASE Raise(q, 500)
    BY <1>1, <1>3, RaiseCites
  <1> QED BY <1>2, <1>3 DEF Rerank

LEMMA ScoreCites ==
  ASSUME CiteInv, ServiceInv, backend \in Backends, ScoreOldest
  PROVE  CiteInv'
  <1>1. /\ queue \in Seq(Requests) /\ queue # << >> /\ UNCHANGED embeds
    BY DEF ScoreOldest, ServiceInv, ServiceTypes
  <1> PICK q \in Requests : q = queue[1]
    BY <1>1
  <1>2. Head(queue) = q /\ pc[q] = "scoring"
    BY <1>1 DEF ServiceInv, QueueInOrder
  <1>3. CASE Retrieved(q)
    BY <1>1, <1>2, <1>3, RetrievalCites
  <1>4. CASE Raise(q, 500)
    BY <1>1, <1>2, <1>4, RaiseCites
  <1> QED BY <1>2, <1>3, <1>4 DEF ScoreOldest

LEMMA JudgeCites ==
  ASSUME CiteInv, ServiceInv, NEW q \in Requests, Judge(q)
  PROVE  CiteInv'
  <1>1. /\ pc[q] = "judge" /\ asks[q] = 0 /\ ServiceTypes /\ response[q] = Pending
        /\ UNCHANGED limiterVars /\ UNCHANGED <<embeds, asks, hits>>
    BY DEF Judge, ServiceInv, InOrder, CiteInv, Cites
  <1>2. ASSUME NEW label, Goto(q, label) PROVE OnlyOf(q) /\ pc'[q] = label
    BY <1>1, <1>2 DEF Goto, OnlyOf, ServiceTypes, limiterVars
  <1>3. CASE UNCHANGED prompt /\ (Answer(q, Response(503)) \/ Answer(q, Response(500)))
    <2>1. OnlyOf(q)
      BY <1>2, <1>3 DEF Answer
    <2>2. Fails(q)
      BY <1>3, ErrorsFail
    <2> QED BY <1>1, <1>3, <2>1, <2>2, ErrorCites
  <1>4. CASE /\ UNCHANGED prompt /\ FarFieldGate(hits[q]) = "abstain"
             /\ Answer(q, Result("abstain", FALSE, hits[q]))
    <2>1. OnlyOf(q) /\ pc'[q] = "done"
      BY <1>2, <1>4 DEF Answer
    <2>2. /\ response' = [response EXCEPT ![q] = Result("abstain", FALSE, hits[q])]
          /\ response'[q].answer = FALSE /\ response'[q].cited = hits[q]
      BY <1>4 DEF Answer, CiteInv, Result, Response
    <2>3. hits[q][1].distance >= FarCut
      BY <1>4 DEF FarFieldGate
    <2>4. Cites(q)'
      BY <1>1, <2>1, <2>2, <2>3
         DEF CiteInv, Cites, Counted, CitedIsRead, AbstainsUnasked, ServiceTypes
    <2> QED BY <1>4, <2>1, <2>2, <2>4, OthersCite
  <1>5. CASE /\ Goto(q, "generate") /\ UNCHANGED response
             /\ PlanContext(hits[q], Tokens).error = "none"
             /\ prompt' = [prompt EXCEPT ![q] = PlanContext(hits[q], Tokens).included]
    <2>1. OnlyOf(q) /\ pc'[q] = "generate"
      BY <1>2, <1>5
    <2>2. prompt'[q] = Cited(q)'
      BY <1>1, <1>5 DEF CiteInv, Cited
    <2>3. Counted(hits'[q]) /\ PlanContext(hits'[q], Tokens).error = "none"
      BY <1>1, <1>5 DEF CiteInv, Cites
    <2>4. Cites(q)'
      BY <1>1, <1>5, <2>1, <2>2, <2>3
         DEF Cites, Counted, CitedIsRead, AbstainsUnasked, Pending, Response
    <2> QED BY <1>5, <2>1, <2>4, OthersCite
  <1> QED BY <1>3, <1>4, <1>5 DEF Judge

LEMMA GenerateCites ==
  ASSUME CiteInv, ServiceInv, NEW q \in Requests, Generate(q)
  PROVE  CiteInv'
  <1>1. /\ pc[q] = "generate" /\ asks[q] = 0 /\ prompt[q] = Cited(q) /\ ServiceTypes
        /\ asks' = [asks EXCEPT ![q] = asks[q] + 1]
        /\ UNCHANGED limiterVars /\ UNCHANGED <<embeds, hits, prompt>>
    BY DEF Generate, ServiceInv, InOrder, CiteInv, Cites
  <1>2. ASSUME NEW label, Goto(q, label) PROVE OnlyOf(q) /\ pc'[q] = label
    BY <1>1, <1>2 DEF Goto, OnlyOf, ServiceTypes, limiterVars
  <1>3. CASE Answer(q, Response(503)) \/ Answer(q, Response(500))
    <2>1. OnlyOf(q)
      BY <1>2, <1>3 DEF Answer
    <2>2. Fails(q)
      BY <1>3, ErrorsFail
    <2> QED BY <1>1, <1>3, <2>1, <2>2, ErrorCites
  <1>4. CASE Answer(q, Result("unverified", TRUE, Cited(q)))
    <2>1. OnlyOf(q) /\ pc'[q] = "done"
      BY <1>2, <1>4 DEF Answer
    <2>2. /\ response' = [response EXCEPT ![q] = Result("unverified", TRUE, Cited(q))]
          /\ response'[q].answer = TRUE /\ response'[q].status = 200
          /\ response'[q].cited = Cited(q)
      BY <1>4 DEF Answer, CiteInv, Result, Response
    <2>3. asks'[q] = 1
      BY <1>1 DEF ServiceTypes
    <2>4. Cited(q) # << >>
      <3>1. /\ Counted(hits[q]) /\ PlanContext(hits[q], Tokens).error = "none"
            /\ FarFieldGate(hits[q]) = "unverified"
        BY <1>1 DEF CiteInv, Cites, ServiceInv, InOrder
      <3>2. hits[q] # << >>
        BY <3>1, GateIs DEF Counted
      <3>3. 1 \in DOMAIN PlanContext(hits[q], Tokens).included
        BY <3>1, <3>2, PlanIs DEF Counted
      <3>4. DOMAIN << >> = {}
        OBVIOUS
      <3> QED BY <3>3, <3>4 DEF Cited
    <2>5. Cites(q)'
      BY <1>1, <2>1, <2>2, <2>3, <2>4
         DEF CiteInv, Cites, Counted, CitedIsRead, AbstainsUnasked
    <2> QED BY <1>1, <2>1, <2>2, <2>5, OthersCite
  <1> QED BY <1>3, <1>4 DEF Generate

LEMMA CitesSteps == ServiceInv /\ CiteInv /\ backend \in Backends /\ [Next]_vars => CiteInv'
  <1> SUFFICES ASSUME ServiceInv, CiteInv, backend \in Backends, [Next]_vars PROVE CiteInv'
    OBVIOUS
  <1>1. CASE UNCHANGED <<pc, asks, hits, prompt, response>>
    BY <1>1 DEF CiteInv, Cites, Counted, CitedIsRead, AbstainsUnasked, Cited
  <1>2. CASE ScoreOldest
    BY <1>2, ScoreCites
  <1>3. ASSUME NEW q \in Requests, Step(q) PROVE CiteInv'
    BY <1>3, GuardCites, ConnectCites, EmbedCites, RerankCites, JudgeCites, GenerateCites
       DEF Step
  <1>4. ASSUME NEW p \in Probes, Ping(p) \/ Pong(p) PROVE CiteInv'
    BY <1>1, <1>4 DEF Ping, Pong
  <1> QED BY <1>1, <1>2, <1>3, <1>4 DEF Next, vars, serviceVars

-----------------------------------------------------------------------------
LEMMA ServiceImplies ==
  ServiceInv => BudgetHolds /\ ChargesAreAdmissions /\ NoConnectionIsLeaked /\ SpendIsBounded
  BY LimiterImplies DEF ServiceInv, SpendIsBounded, InOrder

(* security.py:81-171 in the server: whatever the interleaving of requests *)
(* and of the clock, no minute and no day admits more than its limit.      *)
THEOREM ServiceHoldsTheBudget == Spec => []BudgetHolds
  BY ServiceStarts, ServiceSteps, ServiceImplies, PTL DEF Spec

(* Only guard_query moves the limiter, and only for who has not been       *)
(* charged yet.                                                            *)
LEMMA ServiceMovesTheLimiter ==
  ASSUME ServiceInv, [Next]_vars
  PROVE  [LimiterNext]_limiterVars
  <1>1. CASE Tick /\ UNCHANGED serviceVars
    BY <1>1 DEF LimiterNext
  <1>2. ASSUME NEW r \in Requests, Guard(r) PROVE [LimiterNext]_limiterVars
    <2>1. admitted[r] = NotYet
      BY <1>2 DEF Guard, ServiceInv, InOrder
    <2>2. UNCHANGED limiterVars \/ Refuse \/ Admit(r)
      BY <1>2 DEF Guard, Unauthenticated, RateLimited, Invalid, Valid
    <2> QED
      BY <2>1, <2>2 DEF LimiterNext
  <1>3. ASSUME NEW r \in Requests, Step(r), ~Guard(r) PROVE UNCHANGED limiterVars
    BY <1>3 DEF Step, Connect, Embed, VectorQuery, Rerank, Judge, Generate, Raise, Proceed,
                Retrieved
  <1>4. CASE ScoreOldest
    BY <1>4 DEF ScoreOldest, Retrieved, Raise
  <1>5. ASSUME NEW p \in Probes, Ping(p) \/ Pong(p) PROVE UNCHANGED limiterVars
    BY <1>5 DEF Ping, Pong
  <1>6. CASE UNCHANGED vars
    BY <1>6 DEF vars
  <1> QED
    BY <1>1, <1>2, <1>3, <1>4, <1>5, <1>6 DEF Next

(* security.py:117-191: to the limiter the server is any client of         *)
(* acquire(): whatever requests interleave and fail, no request is charged *)
(* twice and nothing else moves the counters.  What is proved of the       *)
(* limiter alone therefore holds in the server.                            *)
THEOREM ServiceImplementsLimiter == Spec => LimiterSpec
  <1>1. Init => LimiterInit
    BY DEF Init
  <1>2. ServiceInv /\ [Next]_vars => [LimiterNext]_limiterVars
    BY ServiceMovesTheLimiter
  <1> QED
    BY <1>1, <1>2, ServiceStarts, ServiceSteps, PTL DEF Spec, LimiterSpec

(* session.py:26-35, query.py:97-108: every path out of retrieve() gives   *)
(* the connection back, for every pool size and every number of requests.  *)
THEOREM ServiceLeaksNoConnection == Spec => []NoConnectionIsLeaked
  BY ServiceStarts, ServiceSteps, ServiceImplies, PTL DEF Spec

(* embeddings.py:134-194, query.py:77-156: what a request costs is bounded *)
(* and only a request the limiter charged costs anything.                  *)
THEOREM ServiceBoundsTheSpend == Spec => []SpendIsBounded
  BY ServiceStarts, ServiceSteps, ServiceImplies, PTL DEF Spec

(* security.py:117-123 in the server: a request that is refused, whatever  *)
(* window refuses it, leaves both counters what was admitted.              *)
THEOREM ServiceChargesAdmissions == Spec => []ChargesAreAdmissions
  BY ServiceStarts, ServiceSteps, ServiceImplies, PTL DEF Spec

(* query.py:79-95: an answer cites exactly what the model was sent, by the *)
(* one call made for it, and a 200 without an answer is an abstention on a *)
(* far top hit for which no call was made.                                 *)
THEOREM ServiceCitesWhatWasRead == Spec => []AnswersCiteWhatWasRead
  <1>1. CiteInv => AnswersCiteWhatWasRead
    BY DEF CiteInv, Cites, AnswersCiteWhatWasRead
  <1>2. Init => backend \in Backends
    BY DEF Init
  <1>3. backend \in Backends /\ [Next]_vars => (backend \in Backends)'
    BY BackendStays
  <1> QED BY <1>1, <1>2, <1>3, ServiceStarts, ServiceSteps, CitesStart, CitesSteps, PTL
          DEF Spec

-----------------------------------------------------------------------------
(* The clock t lies in window m of S seconds of T ticks; R is the second   *)
(* at which the next window starts, e the second the clock shows.          *)
LEMMA WindowEnds ==
  ASSUME NEW T \in Nat \ {0}, NEW S \in Nat \ {0}, NEW t \in Nat, NEW s \in Nat
  PROVE  t \div (T * S) < s <=> t < (s * S) * T
  <1> DEFINE n == T * S
             m == t \div n
  <1>1. n \in Nat \ {0}
    OBVIOUS
  <1>2. m \in Int /\ n * m <= t /\ t < n * m + n
    BY <1>1, SMT
  <1>3. (s * S) * T = n * s
    OBVIOUS
  <1> HIDE DEF n, m
  <1>4. m < s => n * m + n <= n * s
    BY <1>1, <1>2
  <1>5. m >= s => n * s <= n * m
    BY <1>1, <1>2
  <1>6. n * s \in Int /\ n * m \in Int
    BY <1>1, <1>2
  <1>7. m < s <=> t < n * s
    BY <1>1, <1>2, <1>4, <1>5, <1>6
  <1> QED BY <1>3, <1>7 DEF n, m

(* The seconds left of a window are enough of them, and one less is not.   *)
LEMMA WaitIsExact ==
  ASSUME NEW T \in Nat \ {0}, NEW S \in Nat \ {0}, NEW t \in Nat
  PROVE  LET m == t \div (T * S)
             left == (m + 1) * S - t \div T
         IN /\ left \in Nat \ {0}
            /\ (t + left * T) \div (T * S) > m
            /\ ~((t + (left - 1) * T) \div (T * S) > m)
  <1> DEFINE n == T * S
             m == t \div n
             e == t \div T
             R == (m + 1) * S
             left == R - e
  <1>1. n \in Nat \ {0}
    OBVIOUS
  <1>2. m \in Nat
    BY <1>1, DivMonotone
  <1>3. e \in Nat
    BY DivMonotone
  <1>4. T * e <= t /\ t < T * e + T
    BY <1>3, SMT
  <1>5. R \in Nat
    BY <1>2
  <1>6. t < R * T
    BY <1>2, WindowEnds
  <1> HIDE DEF m, e, R
  <1>7. T * e < T * R
    BY <1>3, <1>4, <1>5, <1>6
  <1>8. e < R
    BY <1>3, <1>5, <1>7, SMT
  <1>9. left \in Nat \ {0}
    BY <1>3, <1>5, <1>8
  <1>10. left * T = R * T - T * e /\ (left - 1) * T = R * T - T * e - T
    BY <1>3, <1>5
  <1>11. R * T \in Int /\ T * e \in Int
    BY <1>3, <1>5
  <1>12. t + left * T >= R * T /\ t + (left - 1) * T < R * T
    BY <1>4, <1>10, <1>11
  <1>13. t + left * T \in Nat /\ t + (left - 1) * T \in Nat
    BY <1>9
  <1> HIDE DEF left
  <1>14. \A x, k \in Nat : x \div n < k <=> x < (k * S) * T
    BY WindowEnds
  <1> HIDE DEF n
  <1>15. /\ ~((t + left * T) \div n < m + 1)
         /\ (t + (left - 1) * T) \div n < m + 1
    <2> DEFINE late == t + left * T
               early == t + (left - 1) * T
    <2>1. late \in Nat /\ early \in Nat /\ ~(late < R * T) /\ early < R * T
      BY <1>11, <1>12, <1>13
    <2> HIDE DEF late, early
    <2>2. m + 1 \in Nat
      BY <1>2
    <2>3. ~(late \div n < m + 1) /\ early \div n < m + 1
      BY <2>1, <2>2, <1>14 DEF R
    <2> QED BY <2>3 DEF late, early
  <1>16. (t + left * T) \div n \in Nat /\ (t + (left - 1) * T) \div n \in Nat
    BY <1>1, <1>13, DivMonotone
  <1>17. (t + left * T) \div n > m /\ ~((t + (left - 1) * T) \div n > m)
    BY <1>2, <1>15, <1>16
  <1> QED BY <1>9, <1>17 DEF left, R, m, e, n

(* Whoever is turned away is told when the window that refuses ends.       *)
LEMMA RetryAfterInTime ==
  ASSUME now \in Nat
  PROVE  LET wait(s) == now + s * TicksPerSecond
             Over(t) == IF MinuteSpent THEN MinuteOf(t) > MinuteOf(now)
                                       ELSE DayOf(t) > DayOf(now)
         IN /\ Over(wait(RetryAfter))
            /\ RetryAfter > 1 => ~Over(wait(RetryAfter - 1))
  <1>1. /\ TicksPerSecond \in Nat \ {0} /\ SecondsPerMinute \in Nat \ {0}
        /\ SecondsPerDay \in Nat \ {0}
    BY LimiterAssumption
  <1>2. CASE MinuteSpent
    <2> DEFINE left == (MinuteOf(now) + 1) * SecondsPerMinute - now \div TicksPerSecond
    <2>1. /\ left \in Nat \ {0}
          /\ MinuteOf(now + left * TicksPerSecond) > MinuteOf(now)
          /\ ~(MinuteOf(now + (left - 1) * TicksPerSecond) > MinuteOf(now))
      BY <1>1, WaitIsExact DEF MinuteOf
    <2>2. RetryAfter = IF left > 1 THEN left ELSE 1
      BY <1>2 DEF RetryAfter, ResetAt
    <2> HIDE DEF left
    <2>3. RetryAfter = left
      BY <2>1, <2>2
    <2> QED BY <1>2, <2>1, <2>3
  <1>3. CASE ~MinuteSpent
    <2> DEFINE left == (DayOf(now) + 1) * SecondsPerDay - now \div TicksPerSecond
    <2>1. /\ left \in Nat \ {0}
          /\ DayOf(now + left * TicksPerSecond) > DayOf(now)
          /\ ~(DayOf(now + (left - 1) * TicksPerSecond) > DayOf(now))
      BY <1>1, WaitIsExact DEF DayOf
    <2>2. RetryAfter = IF left > 1 THEN left ELSE 1
      BY <1>3 DEF RetryAfter, ResetAt
    <2> HIDE DEF left
    <2>3. RetryAfter = left
      BY <2>1, <2>2
    <2> QED BY <1>3, <2>1, <2>3
  <1> QED BY <1>2, <1>3

(* Nobody else's answer is disturbed, and this one is no 429.              *)
Otherwise(q) == \E resp : resp.status # 429 /\ Answer(q, resp)

LEMMA AnsweredOtherwise ==
  ASSUME CiteInv, NEW q \in Requests, Otherwise(q), NEW r \in Requests, response[r] = Pending
  PROVE  response'[r].status # 429
  <1> PICK resp : resp.status # 429 /\ Answer(q, resp)
    BY DEF Otherwise
  <1>1. response' = [response EXCEPT ![q] = resp]
    BY DEF Answer
  <1> QED BY <1>1 DEF CiteInv, Pending, Response

LEMMA ErrorsAreOthers ==
  ASSUME NEW q, NEW status \in {401, 422, 500, 503}, Answer(q, Response(status))
  PROVE  Otherwise(q)
  <1>1. Response(status).status # 429
    BY DEF Response
  <1> QED BY <1>1 DEF Otherwise

LEMMA JudgedOtherwise ==
  ASSUME NEW q, Judge(q)
  PROVE  UNCHANGED response \/ Otherwise(q)
  <1>1. CASE Answer(q, Response(503)) \/ Answer(q, Response(500))
    BY <1>1, ErrorsAreOthers
  <1>2. CASE Answer(q, Result("abstain", FALSE, hits[q]))
    <2>1. Result("abstain", FALSE, hits[q]).status # 429
      BY DEF Result, Response
    <2> QED BY <1>2, <2>1 DEF Otherwise
  <1> QED BY <1>1, <1>2 DEF Judge

LEMMA GeneratedOtherwise ==
  ASSUME NEW q, Generate(q)
  PROVE  Otherwise(q)
  <1>1. CASE Answer(q, Response(503)) \/ Answer(q, Response(500))
    BY <1>1, ErrorsAreOthers
  <1>2. CASE Answer(q, Result("unverified", TRUE, Cited(q)))
    <2>1. Result("unverified", TRUE, Cited(q)).status # 429
      BY DEF Result, Response
    <2> QED BY <1>2, <2>1 DEF Otherwise
  <1> QED BY <1>1, <1>2 DEF Generate

(* Every 429 is a refusal of the limiter.                                  *)
LEMMA OnlyTheLimiterRefuses ==
  ASSUME ServiceInv, CiteInv, [Next]_vars, NEW r \in Requests, response[r] = Pending,
         response'[r].status = 429
  PROVE  RateLimited(r)
  <1>1. CASE UNCHANGED response
    BY <1>1 DEF Pending, Response
  <1>2. ASSUME NEW q \in Requests, Otherwise(q) PROVE RateLimited(r)
    BY <1>2, AnsweredOtherwise
  <1>3. CASE ScoreOldest
    <2>1. queue \in Seq(Requests) /\ queue # << >>
      BY <1>3 DEF ScoreOldest, ServiceInv, ServiceTypes
    <2> PICK q \in Requests : q = Head(queue)
      BY <2>1
    <2> QED BY <1>1, <1>2, <1>3, ErrorsAreOthers DEF ScoreOldest, Retrieved, Raise
  <1>4. ASSUME NEW q \in Requests, Guard(q) PROVE RateLimited(r)
    <2>1. CASE Unauthenticated(q) \/ Invalid(q)
      BY <2>1, <1>2, ErrorsAreOthers DEF Unauthenticated, Invalid
    <2>2. CASE RateLimited(q)
      <3>1. q # r => response'[r] = Pending
        BY <2>2 DEF RateLimited, Answer, CiteInv
      <3> QED BY <2>2, <3>1 DEF Pending, Response
    <2> QED BY <1>1, <1>4, <2>1, <2>2 DEF Guard, Valid
  <1>5. ASSUME NEW q \in Requests, Connect(q) \/ Embed(q) \/ Rerank(q) PROVE RateLimited(r)
    BY <1>1, <1>2, <1>5, ErrorsAreOthers
       DEF Connect, Embed, VectorQuery, Rerank, Proceed, Retrieved, Raise
  <1>6. ASSUME NEW q \in Requests, Judge(q) \/ Generate(q) PROVE RateLimited(r)
    BY <1>1, <1>2, <1>6, JudgedOtherwise, GeneratedOtherwise
  <1>7. ASSUME NEW p \in Probes, Ping(p) \/ Pong(p) PROVE RateLimited(r)
    BY <1>1, <1>7 DEF Ping, Pong
  <1> QED BY <1>1, <1>3, <1>4, <1>5, <1>6, <1>7 DEF Next, Step, vars, serviceVars

LEMMA RefusalsAreExact ==
  ASSUME ServiceInv, CiteInv, [Next]_vars, NEW r \in Requests, response[r] = Pending,
         response'[r].status = 429
  PROVE  response'[r].retry = RetryAfter
  <1>1. response'[r] = [Response(429) EXCEPT !.retry = RetryAfter]
    BY OnlyTheLimiterRefuses DEF RateLimited, Answer, CiteInv
  <1> QED BY <1>1 DEF Response

(* security.py:140-142, 174-177: the Retry-After of every 429 is the first *)
(* whole second at which the window that refused is over, for every limit, *)
(* window and clock resolution.                                            *)
THEOREM ServiceTellsWhenToRetry == Spec => RetryAfterIsExact
  <1>1. ServiceInv /\ CiteInv /\ [Next]_vars =>
          [\A r \in Requests :
             response'[r].status = 429 /\ response[r] = Pending =>
               LET wait(s) == now + s * TicksPerSecond
                   Over(t) == IF MinuteSpent THEN MinuteOf(t) > MinuteOf(now)
                                             ELSE DayOf(t) > DayOf(now)
               IN /\ Over(wait(response'[r].retry))
                  /\ response'[r].retry > 1 => ~Over(wait(response'[r].retry - 1))]_vars
    BY RefusalsAreExact, RetryAfterInTime DEF ServiceInv, LimiterInv, LimiterTypeOK
  <1>2. Init => backend \in Backends
    BY DEF Init
  <1>3. backend \in Backends /\ [Next]_vars => (backend \in Backends)'
    BY BackendStays
  <1> QED BY <1>1, <1>2, <1>3, ServiceStarts, ServiceSteps, CitesStart, CitesSteps, PTL
          DEF Spec, RetryAfterIsExact
=============================================================================
