SPECIFICATION Spec
CONSTANTS
  a = a
  b = b
  Cfg <- TwoConfigs
  None = None
  First = a
  NoHash = NoHash
  Transport = "http"
  Edits <- AllEdits
  Paths <- Superadmin
  Reports <- SameName
  Configured = TRUE
  MaxEdit = 2
  MaxCmd = 3
  MaxFault = 0
  Faults = {}
INVARIANTS
  PendingIsInFlight
