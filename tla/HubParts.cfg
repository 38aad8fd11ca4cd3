SPECIFICATION PartsSpec
CONSTANTS
  c1 = c1
  c2 = c2
  t1 = t1
  t2 = t2
  t3 = t3
  w1 = w1
  s1 = s1
  s2 = s2
  a1 = a1
  k1 = k1
  k2 = k2
  k3 = k3
  Cmd = {c1, c2}
  Worker = {w1}
  Thread = {t1, t2, t3}
  worker <- SameWorker
  Nobody = Nobody
  Updatable = {s1}
  Updater = {u1, u2}
  Remains = {"blank", "torn"}
  MaxVersion = 2
  MaxFault = 1
  Spoke = {s1}
  Minute = 2
  Day = 4
  Scheduled = 2
  Recovery = 4
  Purge = 2
  Silent = 2
  Life = 9
  Alert = {a1}
  Item = {i1}
  Site = {x1}
  MaxAdd = 1
  MaxSave = 1
  Administrator = {adm}
  MaxRun = 2
  MaxHost = 1
  MaxDnsFault = 1
  Flag = {dns, ping}
  Text = {text}
  Unset = Unset
  Editor = {e1, e2}
  Fleet = {s1}
  MaxCommit = 2
  MaxChange = 2
  Feed = {a1}
  KeepFor <- KeptFor
  KeepEmpty <- KeptEmpty
  Poller = p
  Viewer = {v1}
  Interval = 2
  MaxMinute = 3
  MaxHalt = 1
  Host = {s1, s2}
  UpdateId = {j1}
  AgentPolls = 1
  JobPolls = 2
  MaxLoss = 1
  Device = {d1}
  Omitted = Omitted
  UsbThread = {x1}
  MaxUsbEdit = 2
  MaxPushAll = 1
  MaxDrift = 1
  Session = {k1, k2, k3}
  kind <- Kinds
  MaxDrop = 1
INVARIANTS
  PartsTypeOK
  NoLostCommand
  ToldOnce
  SnapshotSurvives
  RecoveryBounded
  ScheduledOnce
  EventsKept
  NoStrayChallenge
  BrowseDated
  NobodySkipped
  NoOrphan
  EndIsHeard
PROPERTIES
  FileKeepsLifecycle
  CommitSwitchesOne
CHECK_DEADLOCK FALSE
