--------------------------- MODULE MCRequestLocks ---------------------------
(***************************************************************************)
(* One item for TLC: one piece in stock and a line of two pieces.          *)
(***************************************************************************)
EXTENDS RequestLocks

MCInitialOnHand == { [l \in Location |-> IF l = STOCK THEN 1 ELSE 0] }

MCInitialOrders ==
  { [o \in Order |->
       [status |-> IF o = 1 THEN "Ordered" ELSE "Unused",
        amount |-> IF o = 1 THEN 2 ELSE 0, ordered |-> IF o = 1 THEN 2 ELSE 0,
        project |-> NoProject, eta |-> IF o = 1 THEN 1 ELSE 0]] }
=============================================================================
