SPECIFICATION Spec
CONSTANTS
  alice = alice
  bob = bob
  policy = policy
  NoUser = NoUser
  Users <- MCUsers
  Admins = {alice}
  PasswordAge <- MCPasswordAge
  Expressions = {policy}
  Requests = {r1, r2, r3}
  Methods = {"GET", "POST"}
  MaxInFlight = 2
  MaxPosting = 1
  Flows <- PageFlows
  IterationLimit = 0
  Unreliable = TRUE
CHECK_DEADLOCK FALSE
SYMMETRY Symmetry
INVARIANTS
  TypeOK
  LoginVerified
  NoEntrySkipped
  LoginCompletes
  CookieMatchesRow
  AccessStillHolds
  PageChecked
PROPERTIES
  WalksTheFlow
