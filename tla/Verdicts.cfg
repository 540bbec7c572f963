SPECIFICATION Spec
CONSTANTS
  ask = ask
  yes = yes
  no = no
  alien = alien
  user = user
  other = other
  NoId = NoId
  NoUser = NoUser
  NoMessage = NoMessage
  Messages = {yes, no, alien}
  Users <- MCUsers
  UserOf <- MCUserOf
  Verdict <- MCVerdict
  Named <- MCNamed
  MaxProposals = 2
  Unregistered = {2}
  Workers = {w1, w2}
  MaxAttempts = 2
SYMMETRY WorkerSymmetry
INVARIANTS
  TypeOK
  RunsAtMostOnce
  RunsByConsent
  AnswersAreTrueIfRecorded
PROPERTIES
  DecisionIsFinal
