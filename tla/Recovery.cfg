SPECIFICATION LoadedSpec
CONSTANTS
  browser = browser
  own = own
  other = other
  login = login
  join = join
  restore = restore
  Requests = {browser}
  Wanted <- RecoveryWanted
  Hosts = {own, other, Invalid}
  Designations = {"authentication", "enrollment", "recovery"}
  Flows = {login, join, restore}
  NoFlow = NoFlow
  Invalid = Invalid
  NoHost = NoHost
  TenantTables <- RecoveryTables
  HandlerFailures = {}
  Word = 4
  Total = 0
  MaxConcurrent = 0
CHECK_DEADLOCK FALSE
INVARIANTS
  RedirectsAsDesignated
