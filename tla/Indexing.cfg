SPECIFICATION Spec
CONSTANTS
  Texts <- ShortTexts
  MaxChars = 7
  PageBreaks = {0, 3}
  PageChars = 4
  ChunkChars = 5
  OverlapChars = 4
  CharsPerToken = 2
  MaxTexts = 2
  MaxTokens = 3
  MaxRetries = 2
INVARIANTS
  WordsSurvivePagination
  InkIsIndexed
  SentencesStayWhole
  ChunksFit
  OffsetsIncrease
  ChunksStayOnTheirPage
  VectorsAreTheirOwn
  RequestsFit
  GoldSpansResolve
