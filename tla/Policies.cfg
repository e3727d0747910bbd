SPECIFICATION Spec
CONSTANTS
  r1 = r1
  r2 = r2
  r3 = r3
  slug1 = slug1
  slug2 = slug2
  Requests = {r1, r2, r3}
  Slugs = {slug1}
  NoSlug = NoSlug
  Connections = 2
  MaxExpressionLen = 2
  Chunks = {1, 2}
  MaxUid = 2
SYMMETRY Symmetry
INVARIANTS
  TypeOK
  NoHalfPolicy
  AnswersHold
  ListFaithful
