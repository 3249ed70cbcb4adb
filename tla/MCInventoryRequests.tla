------------------------ MODULE MCInventoryRequests ------------------------
(***************************************************************************)
(* Two items for TLC, one piece of each on the shelf, and batches that     *)
(* name the items in both orders.                                          *)
(***************************************************************************)
EXTENDS InventoryRequests

CONSTANTS i1, i2, SHELF

MCInitialLedger == { [i \in Item |-> [l \in Location |-> IF l = SHELF THEN 1 ELSE 0]] }

MCBatch ==
  { MoveInventory(i1, 1, SHELF, STOCK) \o ConsumeInventory(i2, 1, SHELF),
    AdjustInventory(i2, -1, SHELF) \o AdjustInventory(i1, 1, SHELF),
    BatchArrival(i1, 1, STOCK) \o MoveInventory(i1, 1, STOCK, SHELF) }
=============================================================================
