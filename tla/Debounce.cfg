SPECIFICATION Spec
CONSTANTS
  thread = thread
  NoRow = NoRow
  Requests = {t1, t2, t3, m1}
  Media = {m1}
  Threads <- MCThreads
  ThreadOf <- MCThreadOf
  Workers = {w1}
  BufferTicks = 1
  LeaseTicks = 1
  BackoffTicks = 1
  MaxAttempts = 1
  TxnTicks = 1
SYMMETRY TextSymmetry
INVARIANTS
  TypeOK
  TextKept
