SPECIFICATION Spec
CONSTANTS
  long = long
  source = source
  NoDoc = NoDoc
  Calls = {long, short, talk}
  Uploads = {long, short}
  RefOf <- MCRefOf
  Size <- MCSize
  MaxTries = 2
INVARIANTS
  TypeOK
  OneDocPerRef
  ChunksOfOneRun
  ReadyIsIndexed
CHECK_DEADLOCK FALSE
