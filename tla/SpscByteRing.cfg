SPECIFICATION Spec
CONSTANTS
  Capacity = 4
  Wrap = 8
  NoByte = NoByte
INVARIANTS BytesIntact
