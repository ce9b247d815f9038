SPECIFICATION LogSpec
CONSTANTS
  Client = {c1}
  Logger = logger
  NoThread = NoThread
  QUEUE_SIZE = 2
  MaxLines = 2
CHECK_DEADLOCK FALSE
INVARIANTS
  LinesAreWhole
