SPECIFICATION FairSpec
CONSTANTS
  r1 = r1
  r2 = r2
  Requests = {r1}
  Entries = 2
  NextGiven = {TRUE}
  MaxSessions = 4
  MaxExecutions = 6
  MaxSetbacks = 3
CHECK_DEADLOCK FALSE
INVARIANTS
  SubmittedToItsExecution
PROPERTIES
  SessionSticks
  Finishes
