\* Reservations, arrivals and edits of their order lines.
SPECIFICATION LineSpec
CONSTANTS
  STOCK = STOCK
  RESERVED = RESERVED
  NoProject = NoProject
  Keep = Keep
  P1 = P1
  P2 = P2
  R1 = R1
  R2 = R2
  N1 = N1
  N2 = N2
  Location = {STOCK, RESERVED}
  Project = {}
  RfqLine = {}
  ProcurementLine = {}
  MaxReservation = 2
  MaxOrder = 3
  MaxQuantity = 2
  MaxEta = 1
  InitialOnHand <- MCInitialOnHand
  InitialOrders <- MCInitialOrders
  RfqProject <- MCRfqProject
  SourceProject <- MCSourceProject
INVARIANTS
  LineTypeOK
  BackingMatchesQuantity
  StockCoversAllocations
PROPERTY EditsConserveSupply
CHECK_DEADLOCK FALSE
