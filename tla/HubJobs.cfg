SPECIFICATION JobsSpec
CONSTANTS
  s1 = s1
  s2 = s2
  MaxCmd = 1
  MaxConn = 2
  MaxFail = 1
  Push = {p1, p2}
  Spoke = {s1, s2}
  limit <- Limits
  MaxLost = 1
  Watched = {s1, s2}
  MaxFault = 1
  Socket = {n1, n2}
  Asker = {r1}
  Lock = {l1, l2}
  NoSocket = NoSocket
  NoLock = NoLock
  Unheld = Unheld
INVARIANTS
  JobsTypeOK
  JobStatusAgrees
  AttemptsOnce
  NoneForgotten
  LinkSound
PROPERTIES
  QueuedIsServed
  Settles
  SilenceTried
  SendsEnd
CHECK_DEADLOCK FALSE
