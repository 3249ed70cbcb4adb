\* Does the quantity of a reservation stay what its rows add up to?
SPECIFICATION UndoSpec
CONSTANTS
  STOCK = STOCK
  RESERVED = RESERVED
  NoProject = NoProject
  NoLocation = NoLocation
  Location = {STOCK, RESERVED}
  Project = {}
  MaxReservation = 1
  MaxOrder = 2
  MaxQuantity = 2
  MaxEta = 1
  NoteGiven = {FALSE}
  MaxLog = 4
  MaxDirect = 1
  StartOnHand <- MCStartOnHand
  StartOrders <- MCStartOrders
  ShelfOrder <- MCShelfOrder
INVARIANT RemainingEqualsActiveRows
CHECK_DEADLOCK FALSE
