SPECIFICATION FairSpec
CONSTANTS
  Worker = {w1, w2}
  Client = {c1, c2}
  SyncJob = {s1}
  PlainJob = {p1}
  NoJob = NoJob
  MAX_QUEUE_SIZE = 1
CHECK_DEADLOCK FALSE
PROPERTIES
  DestructorReturns
  QueuedJobsStart
  SchedulersReturn
  GettersReturn
  WaitForAllReturns
  ShutdownIsHeard
