\* Two users, clipboards that fail, polls that overlap updates.
SPECIFICATION Spec
CONSTANTS
  Host = host
  Joiner = joiner
  t1 = t1
  t2 = t2
  i1 = i1
  Texts = {t1}
  Images = {i1}
  Start <- MCEmpty
  MaxCopies <- MCTwoAndOne
  ChangeCap = 1
  EventCap = 2
  Faults = {"write", "overlap"}
INVARIANTS
  OneRequestOutstanding
  RequestFindsCache
  OnlyCopiedContent
CHECK_DEADLOCK FALSE
