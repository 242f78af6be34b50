\* Three requests within one minute, all admitted, and a readiness check;
\* two connections, one scoring thread.
SPECIFICATION Spec
CONSTANTS
  r1 = r1
  r2 = r2
  r3 = r3
  p1 = p1
  Probes = {p1}
  Requests = {r1, r2, r3}
  PerMinute = 3
  DailyCap = 3
  TicksPerSecond = 2
  SecondsPerMinute = 1
  SecondsPerDay = 2
  MaxClock = 0
  RrfK = 5
  CandidateK = 3
  RerankN = 4
  TopK = 3
  FarCut = 2
  UsableBudget = 6
  Overhead = 1
  MaxRetries = 2
  PoolLimit = 2
  Backends = {"local", "none"}
  HitLists <- ShortHitLists
  Tokens <- SmallTokens
PROPERTIES
  EveryRequestIsAnswered
\* When every request is answered nothing is left to do.
CHECK_DEADLOCK FALSE
