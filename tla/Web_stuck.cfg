\* A single receive, accepted.
SPECIFICATION FairSpec
CONSTANTS
  r1 = r1
  r2 = r2
  r3 = r3
  r4 = r4
  Request = {r1, r2, r3, r4}
  Scripts <- MCReceive
  Workers = 2
  MaxInFlight = 1
  None = none
PROPERTY TransferIsMarked
CHECK_DEADLOCK FALSE
