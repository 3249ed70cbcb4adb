\* Can two imports in progress at once import one purchase order twice?
SPECIFICATION ImportSpec
CONSTANTS
  A = A
  B = B
  C = C
  N1 = N1
  N2 = N2
  Q1 = Q1
  Name = {A, B, C}
  Number = {N1, N2}
  QuotationNumber = {Q1}
  r1 = r1
  r2 = r2
  NoImport = NoImport
  Importer = {r1, r2}
  MaxNote = 0
  MaxUrl = 1
  MaxUnits = 1
  MaxJob = 3
  MaxCalls = 0
  ItemFile <- MCItemFile
  OrderFile <- MCOrderFile
  InitialItems <- MCInitialItems
INVARIANT
  NeverImportedTwice
CHECK_DEADLOCK FALSE
