\* With order edits, which take no lock.
SPECIFICATION RequestSpec
CONSTANTS
  STOCK = STOCK
  RESERVED = RESERVED
  NoProject = NoProject
  NoCall = NoCall
  Location = {STOCK, RESERVED}
  Project = {}
  Shelf = {STOCK}
  MaxStock = 1
  Client = {c1, c2}
  MaxReservation = 2
  MaxOrder = 2
  MaxQuantity = 1
  MaxEta = 1
  InitialOnHand <- MCInitialOnHand
  InitialOrders <- MCInitialOrders
INVARIANTS
  BackingMatchesQuantity
  StockCoversAllocations
PROPERTY EveryRequestEnds
CHECK_DEADLOCK FALSE
