SPECIFICATION Spec
CONSTANTS
  r1 = r1
  r2 = r2
  Requests = {r1, r2}
  Entries = 2
  NextGiven = {TRUE, FALSE}
  MaxSessions = 2
  MaxExecutions = 2
  MaxSetbacks = 2
SYMMETRY Symmetry
CHECK_DEADLOCK FALSE
INVARIANTS
  TypeOK
  OwnExecution
PROPERTIES
  NeverRevived
