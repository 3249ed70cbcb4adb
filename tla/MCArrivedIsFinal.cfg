\* Does an arrived line stay as it is?
SPECIFICATION RequestSpec
CONSTANTS
  STOCK = STOCK
  RESERVED = RESERVED
  NoProject = NoProject
  NoCall = NoCall
  Location = {STOCK, RESERVED}
  Project = {}
  Shelf = {STOCK}
  MaxStock = 2
  Client = {c1, c2}
  MaxReservation = 1
  MaxOrder = 2
  MaxQuantity = 2
  MaxEta = 1
  InitialOnHand <- MCInitialOnHand
  InitialOrders <- MCInitialOrders
PROPERTY ArrivedIsFinal
CHECK_DEADLOCK FALSE
