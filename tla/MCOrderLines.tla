---------------------------- MODULE MCOrderLines ----------------------------
(***************************************************************************)
(* One item for TLC: one piece in stock and two lines of packs of two, one *)
(* of them perhaps dedicated to a project, or the first alone; two RFQ     *)
(* lines of different projects and two procurement lines, one without a    *)
(* project.                                                                *)
(***************************************************************************)
EXTENDS OrderLines

CONSTANTS P1, P2, R1, R2, N1, N2

MCInitialOnHand == { [l \in Location |-> IF l = STOCK THEN 1 ELSE 0] }

Line(amount, project) ==
  [status |-> IF amount = 0 THEN "Unused" ELSE "Ordered", amount |-> amount,
   ordered |-> amount \div 2, project |-> project, eta |-> IF amount = 0 THEN NoEta ELSE 1]

MCInitialOrders ==
  { [o \in Order |-> CASE o = 1 -> Line(4, p) [] o = 2 -> Line(2, NoProject)
                       [] OTHER -> Line(0, NoProject)] : p \in (Project \cap {P1}) \cup {NoProject} }

MCRfqProject == [n \in RfqLine |-> IF n = R1 THEN P1 ELSE P2]

MCSourceProject == [n \in ProcurementLine |-> IF n = N1 THEN P1 ELSE NoProject]

\* One line of two packs and no project.
MCOneLine ==
  { [o \in Order |-> IF o = 1 THEN Line(4, NoProject) ELSE Line(0, NoProject)] }
=============================================================================
