SPECIFICATION ProfiledSpec
CONSTANTS
  Runner = runner
  Worker = {w1, w2}
  Client = {runner}
  SyncJob <- MCSyncJob
  PlainJob = {}
  NoJob = NoJob
  MAX_QUEUE_SIZE = 2
  NUM_OF_NODES = 2
  NumWaves = 2
  QUEUE_SIZE = 1
CHECK_DEADLOCK FALSE
INVARIANTS
  CollectedAreLogged
  NodesExclusive
PROPERTIES
  ProfiledRunReturns
