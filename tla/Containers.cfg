SPECIFICATION ContainersSpec
CONSTANTS
  NoJob = NoJob
  MAX_TASKS = 3
  Job = {j1, j2, j3}
  Optional = {o1, o2, o3}
  MaxObjects = 4
INVARIANTS
  OwnedOnce
PROPERTIES
  RingIsFifo
