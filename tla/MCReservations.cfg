\* One project; lines 1 and 2 are ordered, line 3 is free for the rest of a
\* partial arrival.
SPECIFICATION Spec
CONSTANTS
  STOCK = STOCK
  RESERVED = RESERVED
  NoProject = NoProject
  Location = {STOCK, RESERVED, Bench}
  Project = {P1}
  MaxReservation = 2
  MaxOrder = 3
  MaxQuantity = 3
  MaxEta = 2
  InitialOnHand <- MCInitialOnHand
  InitialOrders <- MCInitialOrders
INVARIANTS
  TypeOK
  BackingMatchesQuantity
  StockCoversAllocations
  OpenLineCoversIncoming
  DedicatedSupplyStaysInProject
PROPERTIES
  ConsumedSupplyWasPromised
  SplitsKeepPackSize
CHECK_DEADLOCK FALSE
