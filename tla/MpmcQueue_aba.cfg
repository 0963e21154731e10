SPECIFICATION TeamSpec
CONSTANTS
  Capacity = 2
  Wrap = 8
  MaxStall = 8
  Producers = {p1, p2}
  Consumers = {c1}
  Teams = {{p1, p2, c1}}
  Values = {a}
  NoValue = NoValue
SYMMETRY Symmetry
INVARIANT CellHasOneOwner
CHECK_DEADLOCK FALSE
