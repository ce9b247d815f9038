SPECIFICATION RunnerFairSpec
CONSTANTS
  Runner = runner
  Worker = {w1, w2}
  Client = {runner}
  SyncJob <- MCSyncJob
  PlainJob = {}
  NoJob = NoJob
  MAX_QUEUE_SIZE = 2
  NUM_OF_NODES = 3
  NumWaves = 2
CHECK_DEADLOCK FALSE
INVARIANTS
  FirstWaveInOrder
  NeverWaitsForPlace
PROPERTIES
  UsesPool
  FirstWaveEnds
