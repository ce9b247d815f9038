SPECIFICATION RunnerFairSpec
CONSTANTS
  Runner = runner
  Worker = {w1, w2}
  Client = {runner}
  SyncJob <- MCSyncJob
  PlainJob = {}
  NoJob = NoJob
  MAX_QUEUE_SIZE = 1
  NUM_OF_NODES = 2
  NumWaves = 1
CHECK_DEADLOCK FALSE
PROPERTIES
  RunAlwaysReturns
