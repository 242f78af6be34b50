\* One command at a time, four commands, stats beside them, crashes, either vector store.
SPECIFICATION StatsSpec
CONSTANTS
  w1 = w1
  NoWorker = NoWorker
  Workers = {w1}
  MaxRuns = 4
  StoreKinds = {TRUE, FALSE}
  Crashes = TRUE
INVARIANTS
  CountMatchesRows
  NoOrphanVectors
  QuietVerdictIsTrue
PROPERTIES
  GateBeforeDestruction
  FrozenKeepsCorpus
\* The operator may stop issuing commands.
CHECK_DEADLOCK FALSE
