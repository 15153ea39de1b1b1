\* One change at the host; nothing fails.
SPECIFICATION FairSpec
CONSTANTS
  Host = host
  Joiner = joiner
  c1 = c1
  c2 = c2
  d = d
  f = f
  Chunk = {c1, c2}
  Contents <- MCShort
  Seconds = {0}
  Fractions = {0}
  Path = {f}
  Above <- MCAlone
  Start <- MCEmpty
  Cwd = {host, joiner}
  Deletions = {host, joiner}
  MaxEdits <- MCHost1
  MaxPings <- MCEach1
  MaxOps = 1
  OpCap = 1
  Faults = {}
PROPERTY ChangesAreSent
CHECK_DEADLOCK FALSE
