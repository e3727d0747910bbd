SPECIFICATION Spec
CONSTANTS
  r1 = r1
  r2 = r2
  own = own
  other = other
  Requests = {r1, r2}
  AlphanumericRange = 3
  SecretLength = 1
  Word = 4
  NoToken = NoToken
  Wildcard = TRUE
  AllowedHosts = {}
  Origins = {NoOrigin, other}
  NoOrigin = NoOrigin
  Self = own
INVARIANTS
  TypeOK
  EchoAccepted
  HeldTokenAccepted
