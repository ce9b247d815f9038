SPECIFICATION Spec
CONSTANTS
  Worker = {w1, w2}
  Client = {c1, c2, c3}
  SyncJob = {s1, s2}
  PlainJob = {p1, p2}
  NoJob = NoJob
  MAX_QUEUE_SIZE = 2
SYMMETRY Symmetry
CHECK_DEADLOCK FALSE
INVARIANTS
  TypeOK
  Accounting
  PushesSucceed
  Conservation
  NoLostAddWakeup
  NoLostPopWakeup
  NoLostFinishWakeup
PROPERTIES
  WaitForAllMeansAllRan
  PoolIsJobPool
