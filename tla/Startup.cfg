SPECIFICATION FairSpec
CONSTANTS
  api = api
  replica = replica
  worker = worker
  Processes = {api, replica, worker}
  Apis = {api, replica}
  LastFile = 4
  SelfCommitting = {3}
  Rerunnable = {2, 3, 4}
  MaxCrashes = 2
CHECK_DEADLOCK FALSE
INVARIANTS
  TypeOK
  RecordedInOrder
  Resumable
  WorkerHasSchema
PROPERTIES
  SchemaCompletes
