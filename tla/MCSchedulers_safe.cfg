SPECIFICATION SchedulersSpec
CONSTANTS
  Tasks = {t1, t2, t3}
  Capacity = 2
  MaxDepth = 2
  MaxRounds = 2
  DueCapacity = 4
  DueDepth = 3
  MaxTick = 2
  MaxDispatches = 2
  PastDeadlines = TRUE
SYMMETRY Symmetry
INVARIANTS SnapshotExact NumberAvailable RearmFits
