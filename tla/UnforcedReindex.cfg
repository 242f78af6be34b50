\* Two ingests of one file, no crash.
SPECIFICATION Spec
CONSTANTS
  w1 = w1
  w2 = w2
  NoWorker = NoWorker
  Workers = {w1, w2}
  MaxRuns = 2
  StoreKinds = {FALSE}
  Crashes = FALSE
PROPERTIES
  OnlyForceReopensReady
\* The operator may stop issuing commands.
CHECK_DEADLOCK FALSE
