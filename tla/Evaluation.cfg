\* Arms two deep over four chunks, three reranked, the first two decide.
SPECIFICATION Spec
CONSTANTS
  RrfK = 5
  CandidateK = 2
  RerankN = 3
  TopK = 3
  FarCut = 3
  Chunks = {1, 2, 3, 4}
  VectorLists <- LowHighMixed
  Logits = {0, 1, 2}
  GoldSets <- OwnedSpans
  NumAnswerable = 2
  NumNearMisses = 1
  DecisionDepth = 2
  Decisions = {"unwired", "abstained", "answered"}
INVARIANTS
  LossesAreLocated
  HarnessesAgree
  SeparableMeansQuiet
\* A run that is refused, or has written its file, is over.
CHECK_DEADLOCK FALSE
