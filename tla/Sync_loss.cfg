\* Two versions of a file; the connection breaks and sessions are stopped.
SPECIFICATION FairSpec
CONSTANTS
  Host = host
  Joiner = joiner
  c1 = c1
  c2 = c2
  d = d
  f = f
  Chunk = {c1, c2}
  Contents <- MCContents
  Seconds = {0, 2, 3}
  Fractions = {0, 1}
  Path = {f}
  Above <- MCAlone
  Start <- MCVersions
  Cwd = {host}
  Deletions = {host, joiner}
  MaxEdits <- MCHost1
  MaxPings <- MCNever
  MaxOps = 1
  OpCap = 1
  Faults = {"loss", "stop"}
INVARIANT PlansAgree
PROPERTY LossEndsRun
CHECK_DEADLOCK FALSE
