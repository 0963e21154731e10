SPECIFICATION Spec
CONSTANTS
  Raw = Raw
  Moved = Moved
  Gone = Gone
  Null = Null
  None = None
  a = a
  b = b
  c = c
  q = q
  x = x
  y = y
  z = z
  CopyConstructorThrows = FALSE
SYMMETRY Symmetry
INVARIANTS LifetimesExact CallsAsPromised FlatSorted HiddenWhileDestroyed
  StringsExact WordsExact
PROPERTIES ImplementsPriorityQueue TextExact
