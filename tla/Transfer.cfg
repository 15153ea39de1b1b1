\* Every way to connect, every operation and every fault; nobody waits for ever.
SPECIFICATION FairSpec
CONSTANTS
  c1 = c1
  c2 = c2
  N = 3
  Dirs <- MCDirs
  Size <- MCSize
  Chunk = {c1, c2}
  Codes = {good, bad}
  ShareCode = good
  Faults = {"loss", "corrupt", "read", "edit", "disk", "cancel", "drop"}
  Contents <- MCContents
  CompressionMode = "Auto"
  Vias = {"code", "resume", "trusted"}
  Ops = {"accept", "accept_files", "accept_with_resume", "decline", "stop"}
  Existing <- MCExisting
INVARIANTS
  CompletedDelivers
  SentMeansTaken
  ListNeedsCode
  NeverUnexpected
  AckIsForOutstanding
  StreamCleanAtCall
PROPERTIES
  ImplementsDelivery
  AcceptEnds
  SenderNotOrphaned
CHECK_DEADLOCK FALSE
