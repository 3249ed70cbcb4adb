-------------------------- MODULE MCAllocationRows --------------------------
(***************************************************************************)
(* A small item for TLC, with rows: one piece on the bench, a dedicated    *)
(* line of packs of two and a generic line of one piece.                   *)
(***************************************************************************)
EXTENDS AllocationRows

UnusedLine ==
  [status |-> "Unused", amount |-> 0, ordered |-> 0, project |-> NoProject, eta |-> 0]

Line(amount, ordered, project, eta) ==
  [status |-> "Ordered", amount |-> amount, ordered |-> ordered,
   project |-> project, eta |-> eta]

MCStartOnHand == { [l \in Location |-> IF l = STOCK THEN 0 ELSE 1] }

MCStartOrders ==
  { [o \in Order |-> CASE o = 1 -> Line(4, 2, p, 2)
                       [] o = 2 -> Line(1, 1, NoProject, 1)
                       [] OTHER -> UnusedLine] : p \in Project }

MCShelfOrder == { <<STOCK, l>> : l \in Location \ {STOCK} }
                  \cup { <<l, RESERVED>> : l \in Location \ {RESERVED} }
=============================================================================
