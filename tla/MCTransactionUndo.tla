------------------------- MODULE MCTransactionUndo -------------------------
(***************************************************************************)
(* One item for TLC: a line of three pieces, one piece in stock.           *)
(***************************************************************************)
EXTENDS InventorySnapshot

UnusedLine ==
  [status |-> "Unused", amount |-> 0, ordered |-> 0, project |-> NoProject, eta |-> 0]

MCStartOnHand == { [l \in Location |-> IF l = STOCK THEN 1 ELSE 0] }

MCStartOrders ==
  { [o \in Order |-> IF o = 1
                     THEN [status |-> "Ordered", amount |-> 3, ordered |-> 3,
                           project |-> NoProject, eta |-> 1]
                     ELSE UnusedLine] }

MCShelfOrder == { <<STOCK, RESERVED>> }
=============================================================================
