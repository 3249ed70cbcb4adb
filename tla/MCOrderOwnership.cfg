\* RFQ lines of two projects, procurement lines with and without one, and an
\* order line they are linked to, with the part split from it.
SPECIFICATION LineSpec
CONSTANTS
  STOCK = STOCK
  RESERVED = RESERVED
  NoProject = NoProject
  Keep = Keep
  P1 = P1
  P2 = P2
  R1 = R1
  R2 = R2
  N1 = N1
  N2 = N2
  Location = {STOCK, RESERVED}
  Project = {P1, P2}
  RfqLine = {R1, R2}
  ProcurementLine = {N1, N2}
  MaxReservation = 0
  MaxOrder = 2
  MaxQuantity = 2
  MaxEta = 1
  InitialOnHand <- MCInitialOnHand
  InitialOrders <- MCOneLine
  RfqProject <- MCRfqProject
  SourceProject <- MCSourceProject
INVARIANT OwnersKeepLine
CHECK_DEADLOCK FALSE
