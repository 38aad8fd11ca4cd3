SPECIFICATION Spec
CONSTANTS
  Cmd = {c1, c2}
  t1 = t1
  t2 = t2
  w1 = w1
  w2 = w2
  Worker = {w1, w2}
  Thread = {t1, t2}
  worker <- OneEach
  Nobody = Nobody
INVARIANTS
  NoLostCommand
