SPECIFICATION FairSpec
CONSTANTS
  r1 = r1
  r2 = r2
  r3 = r3
  slug1 = slug1
  slug2 = slug2
  Requests = {r1, r2}
  Slugs = {slug1, slug2}
  NoSlug = NoSlug
  Connections = 2
  MaxExpressionLen = 0
  Chunks = {1}
  MaxUid = 2
PROPERTIES
  CreationsEnd
  CreatedAtOnce
