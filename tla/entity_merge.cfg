SPECIFICATION Spec
CONSTANTS
  Workers = {w1, w2, w3}
  Candidates = {"a", "b", "c", "d", "e", "f", "g"}
  Oldest = 6
  Reviewed = {"g"}
  Aliases <- MCAliases
  Pair <- MCPair
  Levels = {0, 1}
  FirstRank <- MCFirstRank
  MaxImports = 1
  Shelf = {3}
  MaxSplits = 1
SYMMETRY Symmetry
CONSTRAINT Bound
INVARIANTS  CommittedInOrder AcceptedIsMerged
CHECK_DEADLOCK FALSE
