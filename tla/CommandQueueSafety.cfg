SPECIFICATION Spec
CONSTANTS
  MaxCmd = 2
  MaxConn = 2
  MaxFail = 1
  Push = {p1, p2}
SYMMETRY PushSymmetry
INVARIANTS
  TypeOK
  SettledWasSent
  ExecutedWasReceived
  SentInOrder
  InboxTakesOnce
  RegisteredIsNewest
PROPERTIES
  StatusForward
  ImplementsLifecycle
