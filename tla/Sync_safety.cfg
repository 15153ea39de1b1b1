\* Both users change something, while the host pings once.
SPECIFICATION Spec
CONSTANTS
  Host = host
  Joiner = joiner
  c1 = c1
  c2 = c2
  d = d
  f = f
  Chunk = {c1, c2}
  Contents <- MCShort
  Seconds = {0}
  Fractions = {0}
  Path = {d, f}
  Above <- MCAbove
  Start <- MCStart
  Cwd = {host, joiner}
  Deletions = {host, joiner}
  MaxEdits <- MCEach1
  MaxPings <- MCHost1
  MaxOps = 1
  OpCap = 1
  Faults = {"disk", "corrupt"}
INVARIANTS
  AckIsForOperation
  AckedMeansWritten
  ChunksNotInterrupted
CHECK_DEADLOCK FALSE
