CONSTANTS
  MaxBytes = 12
  ReadBuffer = 5
  NumReqs = 2
  MaxBody = 3
  BufioSize = 3
  Lengths = {1, 3}
SPECIFICATION SSpec
INVARIANTS
  ReadStreamIntact
  BodyIsOwn
  HeaderIsOwn
  ServedInOrder
  WholeUnlessCut
CHECK_DEADLOCK FALSE
