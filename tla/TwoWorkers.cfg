SPECIFICATION Spec
CONSTANTS
  thread = thread
  NoRow = NoRow
  Requests = {t1, t2}
  Media = {}
  Threads <- MCThreads
  ThreadOf <- MCThreadOf
  Workers = {w1, w2}
  BufferTicks = 1
  LeaseTicks = 1
  BackoffTicks = 1
  MaxAttempts = 2
  TxnTicks = 1
INVARIANTS
  OneReplyPerAttempt
  DoneMeansReplied
  FailedHasSpentAll
PROPERTIES
  ImplementsContract
