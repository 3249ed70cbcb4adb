\* Two connections, two items.
SPECIFICATION Spec
CONSTANTS
  STOCK = STOCK
  SHELF = SHELF
  NoLocation = NoLocation
  Item = {i1, i2}
  i1 = i1
  i2 = i2
  Location = {STOCK, SHELF}
  Client = {c1, c2}
  MaxLog = 4
  InitialLedger <- MCInitialLedger
  Batch <- MCBatch
INVARIANTS
  LogExplainsLedger
  UndoneOnce
PROPERTIES
  EveryRequestEnds
CHECK_DEADLOCK FALSE
