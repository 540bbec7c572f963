SPECIFICATION Spec
CONSTANTS
  BodyLimit = 5
  MaxBody = 8
  Target = 4
  Overlap = 2
  Absorbing = {4, 6}
  MaxSentence = 7
  MaxTokens = 8
  RequestLimit = 2
  Window = 3
  MaxRequests = 5
  MaxTime = 7
CHECK_DEADLOCK FALSE
INVARIANTS
  OnlyBlanksAreLost
  OnlyLongWordsAreCut
  ChunksCoverText
  ChunksAreBounded
  RefusedExactlyAtLimit
