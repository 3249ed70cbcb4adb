--------------------------- MODULE MCReservations ---------------------------
(***************************************************************************)
(* A small item for TLC: one piece on the bench and one in RESERVED, a     *)
(* line of packs of two dedicated to a project and a generic line of       *)
(* single units that arrives later or has no date yet.                     *)
(***************************************************************************)
EXTENDS Reservations

UnusedLine ==
  [status |-> "Unused", amount |-> 0, ordered |-> 0, project |-> NoProject, eta |-> NoEta]

Line(amount, ordered, project, eta) ==
  [status |-> "Ordered", amount |-> amount, ordered |-> ordered,
   project |-> project, eta |-> eta]

MCInitialOnHand ==
  { [l \in Location |-> IF l = STOCK THEN 0 ELSE 1] }

MCInitialOrders ==
  { [o \in Order |-> CASE o = 1 -> Line(4, 2, p, 2)
                       [] o = 2 -> Line(1, 1, NoProject, e)
                       [] OTHER -> UnusedLine]
      : p \in Project, e \in {NoEta, 1} }
=============================================================================
