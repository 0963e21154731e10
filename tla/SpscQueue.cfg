SPECIFICATION FairSpec
CONSTANTS
  Capacity = 4
  Wrap = 8
  Values = {1, 2}
  NoValue = NoValue
CHECK_DEADLOCK FALSE
INVARIANTS CachedIndicesConservative ElementsIntact
PROPERTIES ImplementsFifo EveryElementTaken
