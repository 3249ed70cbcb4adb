\* Histories of five calls and undos, one of them a direct inventory call.
SPECIFICATION UndoSpec
CONSTANTS
  STOCK = STOCK
  RESERVED = RESERVED
  NoProject = NoProject
  NoLocation = NoLocation
  Location = {STOCK, RESERVED}
  Project = {}
  MaxReservation = 1
  MaxOrder = 2
  MaxQuantity = 2
  MaxEta = 1
  NoteGiven = {TRUE, FALSE}
  MaxLog = 5
  MaxDirect = 1
  StartOnHand <- MCStartOnHand
  StartOrders <- MCStartOrders
  ShelfOrder <- MCShelfOrder
INVARIANTS
  TypeOK
  EndedHoldsNothing
  NeverOverbacked
  MarkersMatchLog
  OneActiveRowPerLine
  PastSnapshotIsLedger
PROPERTIES
  UndoReverses
  UndoneArrivalIsOnOrder
CHECK_DEADLOCK FALSE
