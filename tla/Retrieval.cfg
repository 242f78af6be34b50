\* Arms three deep over five chunks, the last two of one span; four reach the
\* reranker, three are hits.
SPECIFICATION Spec
CONSTANTS
  RrfK = 5
  CandidateK = 3
  RerankN = 4
  TopK = 3
  FarCut = 3
  UsableBudget = 6
  Overhead = 1
  Chunks = {1, 2, 3, 4, 5}
  Distances = {1, 2, 3}
  Logits = {0, 1}
  Locator <- SmallLocators
  TokenCounts = {1, 3, 6}
INVARIANTS
  FusionRespectsBothArms
  BestOfEachArmIsReranked
  JudgedIsFirstCited
  PromptFits
  OnlyTheUnfittingIsDropped
  VerdictSpeaksOfTheCorpus
  CitationsFollowTheText
\* A question that is not answered, or planned for, has nothing left to do.
CHECK_DEADLOCK FALSE
