SPECIFICATION AppSpec
CONSTANTS
  Views = {"Share", "Receive", "Clipboard", "Sync"}
  MaxTasks = 3
  MaxQueue = 3
  CodeLen = 1
  Octets = 2
  OctetLen = 2
  PortLen = 1
  MaxFiles = 2
  MaxPatterns = 2
  MaxText = 1
  MaxDepth = 2
  MaxChosen = 1
  Away = "Devices"
  Devices = 2
  Entries = 2
  Settings <- MCSettings
  Tree <- MCTree
  Root = "/"
  Hidden = {".h"}
INVARIANTS
  CancelReachesShown
  SelectionOnList
  
  EditKeepsItsSetting
PROPERTIES
  NoHiddenTask
  TransferEndIsShown
CHECK_DEADLOCK FALSE
