----------------------------- MODULE RateLimiter ----------------------------
(***************************************************************************)
(* RateLimiter of app/core/security.py: a fixed minute window and a daily  *)
(* cap, global to the process.  acquire() has no await, so it is one step. *)
(* The clock is read in ticks, TicksPerSecond of them a second, and does   *)
(* not step back.                                                          *)
(***************************************************************************)
EXTENDS Integers, FiniteSets

CONSTANTS
  Requests,           \* the requests that will be made
  PerMinute,          \* rate_limit_per_minute
  DailyCap,           \* daily_request_cap
  TicksPerSecond,     \* resolution of time.time()
  SecondsPerMinute,   \* _SECONDS_PER_MINUTE
  SecondsPerDay,      \* _SECONDS_PER_DAY
  MaxClock            \* bound: the last tick

ASSUME LimiterAssumption ==
  /\ IsFiniteSet(Requests)
  /\ {PerMinute, DailyCap, MaxClock} \subseteq Nat
  /\ {TicksPerSecond, SecondsPerMinute, SecondsPerDay} \subseteq Nat \ {0}

VARIABLES
  now,          \* the clock
  limiter,      \* the four private counters
  admitted      \* admitted[r]: the tick acquire() charged request r at

limiterVars == <<now, limiter, admitted>>

NotYet == -1
MinuteOf(t) == t \div (TicksPerSecond * SecondsPerMinute)
DayOf(t) == t \div (TicksPerSecond * SecondsPerDay)

(* The windows acquire() is in, each counter reset if its window is new.   *)
Rolled ==
  [minute      |-> MinuteOf(now),
   minuteCount |-> IF limiter.minute = MinuteOf(now) THEN limiter.minuteCount ELSE 0,
   day         |-> DayOf(now),
   dayCount    |-> IF limiter.day = DayOf(now) THEN limiter.dayCount ELSE 0]

MinuteSpentLate == Rolled.minuteCount > PerMinute   \* mutant
MinuteSpent == Rolled.minuteCount >= PerMinute
DaySpent == Rolled.dayCount >= DailyCap

(* Epoch second the window that refuses ends at; the minute is asked first *)
ResetAt == IF MinuteSpent THEN (MinuteOf(now) + 1) * SecondsPerMinute
                          ELSE (DayOf(now) + 1) * SecondsPerDay

(* _retry_after(); mutant: the clock is rounded up, not truncated          *)
RetryAfterRounded ==
  LET left == ResetAt - ((now + TicksPerSecond - 1) \div TicksPerSecond)
  IN IF left > 1 THEN left ELSE 1
RetryAfter ==
  LET left == ResetAt - (now \div TicksPerSecond) IN IF left > 1 THEN left ELSE 1

Admit(r) ==
  /\ ~MinuteSpent
  /\ ~DaySpent
  /\ limiter' = [minute |-> Rolled.minute, minuteCount |-> Rolled.minuteCount + 1,
                 day |-> Rolled.day, dayCount |-> Rolled.dayCount + 1]
  /\ admitted' = [admitted EXCEPT ![r] = now]
  /\ UNCHANGED now

(* mutant: the minute is charged before the day is asked                   *)
RefuseCharging ==
  /\ MinuteSpent \/ DaySpent
  /\ limiter' = IF MinuteSpent THEN Rolled ELSE [Rolled EXCEPT !.minuteCount = @ + 1]
  /\ UNCHANGED <<now, admitted>>

(* A refusal keeps the rolled windows and charges neither.                 *)
Refuse ==
  /\ MinuteSpent \/ DaySpent
  /\ limiter' = Rolled
  /\ UNCHANGED <<now, admitted>>

Tick ==
  /\ now < MaxClock
  /\ now' = now + 1
  /\ UNCHANGED <<limiter, admitted>>

LimiterInit ==
  /\ now = 0
  /\ limiter = [minute |-> -1, minuteCount |-> 0, day |-> -1, dayCount |-> 0]
  /\ admitted = [r \in Requests |-> NotYet]

LimiterNext ==
  \/ Tick
  \/ Refuse
  \/ \E r \in Requests : admitted[r] = NotYet /\ Admit(r)

LimiterSpec == LimiterInit /\ [][LimiterNext]_limiterVars

-----------------------------------------------------------------------------
(* Types of the limiter.                                                   *)
LimiterTypeOK ==
  /\ now \in Nat
  /\ limiter \in [minute : Int, minuteCount : Nat, day : Int, dayCount : Nat]
  /\ admitted \in [Requests -> Nat \cup {NotYet}]

InMinute(m) == {r \in Requests : admitted[r] # NotYet /\ MinuteOf(admitted[r]) = m}
InDay(d) == {r \in Requests : admitted[r] # NotYet /\ DayOf(admitted[r]) = d}

(* security.py:81-103, README.md:265: whatever the order in which requests *)
(* and window changes fall, no calendar minute admits more than the limit  *)
(* and no UTC day more than the cap.                                       *)
BudgetHolds ==
  \A r \in Requests :
    admitted[r] # NotYet =>
      /\ Cardinality(InMinute(MinuteOf(admitted[r]))) <= PerMinute
      /\ Cardinality(InDay(DayOf(admitted[r]))) <= DailyCap

(* security.py:117-123: the counters are what was admitted, no more: a     *)
(* request refused for one budget consumes neither.                        *)
ChargesAreAdmissions ==
  /\ limiter.minuteCount = Cardinality(InMinute(limiter.minute))
  /\ limiter.dayCount = Cardinality(InDay(limiter.day))
=============================================================================
