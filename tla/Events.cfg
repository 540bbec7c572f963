SPECIFICATION FairSpec
CONSTANTS
  ana = ana
  NoEvent = NoEvent
  NoName = NoName
  NoPhoto = NoPhoto
  NoFile = NoFile
  Events = {e1, e2}
  Inputs = {"badSignature", "testPing", "transcript", "card", "otherPhase", "malformed"}
  Workers = {w1}
  Names <- MCNames
  NameOf <- MCNameOf
  Photos = {jpg, png}
  LeaseTicks = 1
  BackoffTicks = 1
  MaxAttempts = 2
INVARIANTS
  TypeOK
  GivenUpForCause
  DoneMeansFiled
  OneFolderPerName
  OneOfEachFile
PROPERTIES
  ImplementsContract
  FailedIsFinal
  EventSettles
