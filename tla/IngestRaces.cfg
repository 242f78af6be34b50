\* Two processes, three commands, crashes, a writable vector store.
SPECIFICATION FairSpec
CONSTANTS
  w1 = w1
  w2 = w2
  NoWorker = NoWorker
  Workers = {w1, w2}
  MaxRuns = 3
  StoreKinds = {FALSE}
  Crashes = TRUE
INVARIANTS
  TypeOK
  ReadyIsSearchable
PROPERTIES
  ImplementsLifecycle
  QuarantineIsFinal
  CommandsEnd
\* The operator may stop issuing commands.
CHECK_DEADLOCK FALSE
