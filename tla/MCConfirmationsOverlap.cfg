SPECIFICATION AllocSpec
CONSTANTS
  shelf = shelf
  reserved = reserved
  Location = {shelf, reserved}
  STOCK = shelf
  RESERVED = reserved
  Project = {1, 2}
  NoProject = 0
  MaxReservation = 1
  MaxOrder = 3
  MaxQuantity = 1
  MaxEta = 2
  MaxQuote = 0
  Today = 1
  Managed = {3}
  RequestedFor = {0}
  MaxConfirming = 2
  InitialOnHand <- MCNoStock
  InitialOrders <- MCLongLine
  InitialProjects <- MCInitialProjects
  RequestedProjects <- MCRequestedProjects
PROPERTIES
  ConfirmationAddsNothing
CHECK_DEADLOCK FALSE
