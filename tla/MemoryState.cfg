CONSTANTS
  HighestAddress = 5
  MinRange = 1
SPECIFICATION Spec
INVARIANTS
  NoAssertionFires
  CachesExact
  NodesAccounted
  FindsFirstFit
PROPERTY ImplementsPageState
