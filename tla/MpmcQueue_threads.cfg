SPECIFICATION TeamSpec
CONSTANTS
  Capacity = 4
  Wrap = 8
  MaxStall = 7
  Producers = {p1, p2}
  Consumers = {c1, c2}
  Teams = {{p1, p2, c1, c2}}
  Values = {a}
  NoValue = NoValue
SYMMETRY Symmetry
CHECK_DEADLOCK FALSE
INVARIANTS CellHasOneOwner CellsExact
