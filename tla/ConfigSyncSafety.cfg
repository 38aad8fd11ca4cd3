SPECIFICATION Spec
CONSTANTS
  a = a
  b = b
  Cfg <- TwoConfigs
  None = None
  First = a
  NoHash = NoHash
  Transport = "ws"
  Edits <- Enabling
  Paths <- Superadmin
  Reports <- SameName
  Configured = TRUE
  MaxEdit = 2
  MaxCmd = 3
  MaxFault = 1
  Faults = {"failed", "lost", "expired"}
INVARIANTS
  TypeOK
  PendingIsInFlight
  AppliedNotAhead
  InSyncIsApplied
