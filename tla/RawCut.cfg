SPECIFICATION Spec
CONSTANTS
  BodyLimit = 5
  MaxBody = 7
  Target = 4
  Overlap = 2
  Absorbing = {}
  MaxSentence = 1
  MaxTokens = 1
  RequestLimit = 1
  Window = 1
  MaxRequests = 1
  MaxTime = 1
CHECK_DEADLOCK FALSE
INVARIANTS
  NaturalLimitFirst
