SPECIFICATION Spec
CONSTANTS
  ana = ana
  bia = bia
  first = first
  second = second
  alien = alien
  again = again
  NoToken = NoToken
  Users = {ana, bia}
  Flows = {first, second, alien}
  UserOf <- MCUserOf
  Callbacks = {first, again, second, alien}
  FlowOf <- MCFlowOf
  Clients = {c1, c2}
  ClientUser <- MCClientUser
  StateTicks = 1
  LifeTicks = 1
  MarginTicks = 0
SYMMETRY ClientSymmetry
INVARIANTS
  TypeOK
  OwnGrants
  RedeemedOnce
PROPERTIES
  RefreshTokenKept
