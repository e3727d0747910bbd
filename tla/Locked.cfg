SPECIFICATION Spec
CONSTANTS
  alice = alice
  bob = bob
  policy = policy
  NoUser = NoUser
  Users <- MCUsers
  Admins = {alice}
  PasswordAge <- MCPasswordAge
  Expressions = {}
  Requests = {r1, r2}
  Methods = {"GET", "POST"}
  MaxInFlight = 2
  MaxPosting = 1
  Flows <- BasicFlows
  IterationLimit = 2
  Unreliable = FALSE
CHECK_DEADLOCK FALSE
INVARIANTS
  ContextNeverLocked
