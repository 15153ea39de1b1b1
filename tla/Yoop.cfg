SPECIFICATION YoopSpec
CONSTANTS
  Procs = {1, 2}
  Plans <- MCPlans
  MaxBackups = 2
  MaxMade = 4
  Cmds = {s1}
  Clips = {k}
  EventRoom = 2
  Ticks = 1
  Saves = 3
  MaxPings = 1
  Hidden <- MCHidden
  Trees <- MCTrees
INVARIANTS
  UnreadableIsNotReplaced
  SettingsSurvive
  ListedWhileRunning
  ResumeFileIsWhole
  AdmittedMeansShown
  MatchedNeverStall
  AgreeOnCopy
  SentMeansWritten
PROPERTIES
  DisplayConverges
  EndsWithPeer
CHECK_DEADLOCK FALSE
