SPECIFICATION FairSpec
CONSTANTS
  thread = thread
  NoRow = NoRow
  Requests = {t1, t2}
  Media = {}
  Threads <- MCThreads
  ThreadOf <- MCThreadOf
  Workers = {w1}
  BufferTicks = 1
  LeaseTicks = 2
  BackoffTicks = 1
  MaxAttempts = 3
  TxnTicks = 1
INVARIANTS
  QueuedHasAttempts
PROPERTIES
  FailedIsFinal
  EventuallySettled
