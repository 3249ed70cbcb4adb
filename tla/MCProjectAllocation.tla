------------------------- MODULE MCProjectAllocation -------------------------
EXTENDS ProjectAllocation

CONSTANTS shelf, reserved

\* One unit of stock; one generic line two projects may take from, one bought in
\* a pack of two, or two lines of which one is managed.
MCInitialOnHand == { [l \in Location |-> IF l = shelf THEN 1 ELSE 0] }

Row(amount, ordered, p, eta) ==
  [status |-> "Ordered", amount |-> amount, ordered |-> ordered, project |-> p, eta |-> eta]

MCInitialOrders ==
  { [o \in Order |-> IF o \in DOMAIN lines THEN lines[o] ELSE Unread] :
      lines \in { <<Row(2, 2, NoProject, 2)>>, <<Row(2, 1, NoProject, 2)>>,
                  <<Row(1, 1, NoProject, 2), Unread, Row(1, 1, NoProject, 2)>> } }

\* Nothing in stock and one generic line a project takes a part of: its confirmation
\* reserves no stock and so holds no item lock.
MCNoStock == { [l \in Location |-> 0] }

MCLongLine == { [o \in Order |-> IF o = 1 THEN Row(3, 3, NoProject, 2) ELSE Unread] }

MCRow(status, start, required) == [status |-> status, start |-> start, required |-> required]

MCInitialProjects ==
  { [p \in Project |-> IF p = 1 THEN MCRow("CONFIRMED", 2, 2) ELSE MCRow("PLANNING", NoDate, 1)] }

MCRequestedProjects == { MCRow("CANCELLED", 1, 1) }
=============================================================================
