SPECIFICATION FairSpec
CONSTANTS
  r1 = r1
  r2 = r2
  alice = alice
  bob = bob
  Requests = {r1, r2}
  Users = {alice, bob}
  Admins = {alice}
  NoUser = NoUser
  None = None
  MaxSessions = 4
  MaxFaults = 1
INVARIANTS
  TypeOK
  AdminNeedsAdminLogin
  AdminIsAdministrator
PROPERTIES
  SessionObtained
