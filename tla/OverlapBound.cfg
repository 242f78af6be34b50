SPECIFICATION Spec
CONSTANTS
  Texts <- LongSecond
  MaxChars = 8
  PageBreaks = {0, 1, 3, 5}
  PageChars = 8
  ChunkChars = 6
  OverlapChars = 2
  CharsPerToken = 2
  MaxTexts = 2
  MaxTokens = 2
  MaxRetries = 4
INVARIANT OverlapIsBounded
