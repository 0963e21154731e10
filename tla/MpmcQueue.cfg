SPECIFICATION TeamFairSpec
CONSTANTS
  Capacity = 2
  Wrap = 8
  MaxStall = 2
  Producers = {p1, p2}
  Consumers = {c1, c2}
  Teams = {{p1, p2, c1}, {p1, c1, c2}}
  Values = {a, b}
  NoValue = NoValue
CHECK_DEADLOCK FALSE
PROPERTIES ImplementsTicketFifo PublishedHeadTaken
