SPECIFICATION Spec
CONSTANTS
  ask = ask
  yes = yes
  no = no
  alien = alien
  user = user
  other = other
  NoId = NoId
  NoUser = NoUser
  NoMessage = NoMessage
  Messages = {ask, yes}
  Users <- MCUsers
  UserOf <- MCUserOf
  Verdict <- MCVerdict
  Named <- MCNamed
  MaxProposals = 2
  Unregistered = {}
  Workers = {w1}
  MaxAttempts = 2
INVARIANTS
  OneDecisionPerMessage
