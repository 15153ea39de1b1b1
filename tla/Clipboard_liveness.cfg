\* One user copies texts; the connection may be lost, a side may be stopped.
SPECIFICATION FairSpec
CONSTANTS
  Host = host
  Joiner = joiner
  t1 = t1
  t2 = t2
  i1 = i1
  Texts = {t1, t2}
  Images = {}
  Start <- MCEmpty
  MaxCopies <- MCOneWay
  ChangeCap = 1
  EventCap = 6
  Faults = {"loss", "stop"}
PROPERTIES
  RequestEnds
  LastCopyArrives
  LossEndsRun
CHECK_DEADLOCK FALSE
