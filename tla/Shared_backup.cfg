\* Two starts that migrate, one killed: their backups may share a second.
SPECIFICATION YoopSpec
CONSTANTS
  Procs = {1, 2}
  Plans <- MCMigrations
  MaxBackups = 2
  MaxMade = 4
  Cmds = {s1}
  Clips = {k}
  EventRoom = 2
  Ticks = 1
  Saves = 3
  MaxPings = 1
  Hidden <- MCHidden
  Trees <- MCTrees
INVARIANT
  BackupsKeepSettings
CHECK_DEADLOCK FALSE
