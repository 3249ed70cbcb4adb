\* Two connections, two reservations.
SPECIFICATION LockedSpec
CONSTANTS
  STOCK = STOCK
  RESERVED = RESERVED
  NoProject = NoProject
  NoCall = NoCall
  Location = {STOCK, RESERVED}
  Project = {}
  Shelf = {STOCK}
  MaxStock = 2
  Client = {c1, c2}
  MaxReservation = 2
  MaxOrder = 2
  MaxQuantity = 2
  MaxEta = 1
  InitialOnHand <- MCInitialOnHand
  InitialOrders <- MCInitialOrders
INVARIANTS
  RequestTypeOK
  NoCircularWait
PROPERTIES
  RequestsAreSerial
CHECK_DEADLOCK FALSE
