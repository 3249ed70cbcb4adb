SPECIFICATION AllocSpec
CONSTANTS
  shelf = shelf
  reserved = reserved
  Location = {shelf, reserved}
  STOCK = shelf
  RESERVED = reserved
  Project = {1, 2}
  NoProject = 0
  MaxReservation = 1
  MaxOrder = 2
  MaxQuantity = 1
  MaxEta = 2
  MaxQuote = 0
  Today = 1
  Managed = {}
  RequestedFor = {0}
  MaxConfirming = 1
  InitialOnHand <- MCInitialOnHand
  InitialOrders <- MCInitialOrders
  InitialProjects <- MCInitialProjects
  RequestedProjects <- MCRequestedProjects
PROPERTIES
  ConfirmedStaysCovered
CHECK_DEADLOCK FALSE
