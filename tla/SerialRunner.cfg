SPECIFICATION SerialFairSpec
CONSTANTS
  Node = {a, b, c}
  NUM_OF_NODES = 3
  MaxDeps = 2
  MaxEdges = 2
  Priority = {1}
  MaxRewires = 1
  MaxWaves = 2
CHECK_DEADLOCK FALSE
INVARIANTS
  SortedListRunsInOrder
  StopsAfterOneNode
PROPERTIES
  RunsEnd
