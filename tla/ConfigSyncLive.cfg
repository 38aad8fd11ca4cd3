SPECIFICATION FairSpec
CONSTANTS
  a = a
  b = b
  Cfg <- TwoConfigs
  None = None
  First = a
  NoHash = NoHash
  Transport = "http"
  Edits <- AllEdits
  Paths <- AllPaths
  Reports <- AllReports
  Configured = TRUE
  MaxEdit = 1
  MaxCmd = 3
  MaxFault = 1
  Faults = {"failed", "lost", "expired", "restart"}
PROPERTIES
  Converges
  Clears
