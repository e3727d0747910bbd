SPECIFICATION LoadedFairSpec
CONSTANTS
  browser = browser
  own = own
  other = other
  login = login
  join = join
  restore = restore
  Requests = {0, 1, browser}
  Wanted <- MCWanted
  Hosts = {own, other, Invalid}
  Designations = {"authentication", "enrollment", "recovery"}
  Flows = {login, join, restore}
  NoFlow = NoFlow
  Invalid = Invalid
  NoHost = NoHost
  TenantTables <- MCTenantTables
  HandlerFailures = {"hash"}
  Word = 4
  Total = 2
  MaxConcurrent = 0
CHECK_DEADLOCK FALSE
INVARIANTS
  LoadedTypeOK
  LayersFit
  ServerErrorsAreTold
  RedirectsWithinTenant
  Bounded
PROPERTIES
  RequestsAnswered
  ShutdownEnds
  ToolEnds
