\* Both users copy one text; nothing goes wrong.
SPECIFICATION FairSpec
CONSTANTS
  Host = host
  Joiner = joiner
  t1 = t1
  t2 = t2
  i1 = i1
  Texts = {t1, t2}
  Images = {}
  Start <- MCEmpty
  MaxCopies <- MCEach1
  ChangeCap = 1
  EventCap = 6
  Faults = {}
PROPERTIES
  ClipboardsConverge
CHECK_DEADLOCK FALSE
