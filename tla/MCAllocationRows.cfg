\* One project, a log of four entries; lines 1 and 2 are ordered, line 3 is
\* free for the rest of a partial arrival.
SPECIFICATION Spec
CONSTANTS
  STOCK = STOCK
  RESERVED = RESERVED
  NoProject = NoProject
  NoLocation = NoLocation
  Location = {STOCK, RESERVED, Bench}
  Project = {P1}
  MaxReservation = 2
  MaxOrder = 3
  MaxQuantity = 3
  MaxEta = 2
  MaxLog = 4
  NoteGiven = {FALSE}
  StartOnHand <- MCStartOnHand
  StartOrders <- MCStartOrders
  ShelfOrder <- MCShelfOrder

CHECK_DEADLOCK FALSE
PROPERTY ImplementsReservations
