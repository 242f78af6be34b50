\* Three requests and a readiness check on two connections, two reranker
\* backends; the minutes of a day and the next day, at two ticks a second,
\* one second a minute and four minutes a day.
SPECIFICATION Spec
SYMMETRY Symmetry
CONSTANTS
  r1 = r1
  r2 = r2
  r3 = r3
  p1 = p1
  Probes = {p1}
  Requests = {r1, r2, r3}
  PerMinute = 1
  DailyCap = 2
  TicksPerSecond = 2
  SecondsPerMinute = 1
  SecondsPerDay = 4
  MaxClock = 8
  RrfK = 5
  CandidateK = 3
  RerankN = 4
  TopK = 3
  FarCut = 2
  UsableBudget = 6
  Overhead = 1
  MaxRetries = 2
  PoolLimit = 2
  Backends = {"local", "none"}
  HitLists <- SmallHitLists
  Tokens <- SmallTokens
INVARIANTS
  BudgetHolds
  ChargesAreAdmissions
  NoConnectionIsLeaked
  SpendIsBounded
  AnswersCiteWhatWasRead
PROPERTIES
  RetryAfterIsExact
\* When every request is answered nothing is left to do.
CHECK_DEADLOCK FALSE
