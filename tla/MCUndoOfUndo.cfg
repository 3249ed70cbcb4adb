\* Is the undo of an undo a reversal too?
SPECIFICATION UndoSpec
CONSTANTS
  STOCK = STOCK
  RESERVED = RESERVED
  NoProject = NoProject
  NoLocation = NoLocation
  Location = {STOCK, RESERVED}
  Project = {}
  MaxReservation = 1
  MaxOrder = 2
  MaxQuantity = 2
  MaxEta = 1
  NoteGiven = {FALSE}
  MaxLog = 4
  MaxDirect = 1
  StartOnHand <- MCStartOnHand
  StartOrders <- MCStartOrders
  ShelfOrder <- MCShelfOrder
PROPERTY EveryUndoReverses
CHECK_DEADLOCK FALSE
