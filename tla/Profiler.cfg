SPECIFICATION FairSpec
CONSTANTS
  Client = {c1, c2, c3}
  Job = {j1, j2, j3, j4}
  NoJob = NoJob
  QUEUE_SIZE = 2
CHECK_DEADLOCK FALSE
INVARIANTS
  LoggedInOrder
  NoLostLogWakeup
PROPERTIES
  LoggingGoesOn
  ProfilerIsDestroyed
