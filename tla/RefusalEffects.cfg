\* A reindex without --allow-network, alone and never interrupted.
SPECIFICATION Spec
CONSTANTS
  w1 = w1
  NoWorker = NoWorker
  Workers = {w1}
  MaxRuns = 2
  StoreKinds = {FALSE}
  Crashes = FALSE
PROPERTIES
  RefusalHasNoSideEffects
\* The operator may stop issuing commands.
CHECK_DEADLOCK FALSE
