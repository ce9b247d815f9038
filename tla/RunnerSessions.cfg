SPECIFICATION SessionFairSpec
CONSTANTS
  Runner = runner
  Worker = {w1}
  Client = {runner, other}
  SyncJob <- MCSyncJob
  PlainJob = {}
  NoJob = NoJob
  MAX_QUEUE_SIZE = 3
  NUM_OF_NODES = 2
  NumWaves = 2
CHECK_DEADLOCK FALSE
PROPERTIES
  WavesEndAllRan
  StopFlagEndsRun
