SPECIFICATION ContextsSpec
CONSTANTS
  Isrs <- MCIsrs
  MaxNesting = 3
  MaxDepth = 2
  Period = 4
  MaxTime = 13
  NoAnswer = NoAnswer
  Null = Null
  Nobody = Nobody
  t1 = t1
  t2 = t2
  u1 = u1
  u2 = u2
  u3 = u3
  x = x
  y = y
SYMMETRY Symmetry
INVARIANTS UpdatesAtomic OnceFlagExact TickExact ReferencesExact FreeListSound ExchangeExact
