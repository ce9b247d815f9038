SPECIFICATION ListSpec
CONSTANTS
  Node = {a, b, c, d}
  NUM_OF_NODES = 3
  MaxDeps = 2
  MaxEdges = 3
  Priority = {1, 2}
  MaxRewires = 1
SYMMETRY Symmetry
CHECK_DEADLOCK FALSE
INVARIANTS
  ListTypeOK
  CyclesAreFound
  DepthIsLongestChain
  ClosedListsSort
PROPERTIES
  SortsTopologically
  SortKeepsNodes
  SortedListIsKept
