\* What two browsers may do at once, each call at any time.
SPECIFICATION FairSpec
CONSTANTS
  r1 = r1
  r2 = r2
  r3 = r3
  r4 = r4
  Request = {r1, r2, r3, r4}
  Scripts <- MCScripts
  Workers = 2
  MaxInFlight = 2
  None = none
INVARIANTS
  SessionRunByOne
  CompletedIsReceived
  PendingIsKept
PROPERTIES
  RequestsAnswered
CHECK_DEADLOCK FALSE
