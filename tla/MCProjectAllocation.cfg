SPECIFICATION AllocSpec
CONSTANTS
  shelf = shelf
  reserved = reserved
  Location = {shelf, reserved}
  STOCK = shelf
  RESERVED = reserved
  Project = {1, 2}
  NoProject = 0
  MaxReservation = 1
  MaxOrder = 3
  MaxQuantity = 1
  MaxEta = 2
  MaxQuote = 1
  Today = 1
  Managed = {3}
  RequestedFor = {0}
  MaxConfirming = 2
  InitialOnHand <- MCInitialOnHand
  InitialOrders <- MCInitialOrders
  InitialProjects <- MCInitialProjects
  RequestedProjects <- MCRequestedProjects
INVARIANTS
  AllocTypeOK
  PlanUsesSupplyOnce
  FirstComeFirstServed
  QuotesHelpEveryone
PROPERTIES
  ConfirmationKeepsDates
CHECK_DEADLOCK FALSE
