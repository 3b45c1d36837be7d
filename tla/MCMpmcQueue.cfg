SPECIFICATION Spec
CONSTANTS
  NoItem = NoItem
  Producers = {p1, p2}
  Consumers = {c1, c2}
  Size = 2
  MaxItems = 2
CHECK_DEADLOCK TRUE
INVARIANTS
  TypeOK
  OneOwner
  ReturnsItsItem
  IndicesInOrder
  NothingOverwritten
PROPERTIES
  EmptyIsTruthful
  ImplementsFifo
