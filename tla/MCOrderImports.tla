--------------------------- MODULE MCOrderImports ---------------------------
(***************************************************************************)
(* Imports for TLC: item A, a file that adds item B with an alias C of it, *)
(* and order files of one and two rows on two purchase-order numbers and   *)
(* one quotation.                                                          *)
(***************************************************************************)
EXTENDS OrderImports

CONSTANTS A, B, C, N1, N2, Q1, r1, r2

Importers == Permutations({r1, r2})

MCInitialItems == { [id |-> 1, name |-> A, note |-> 0] }

Item(name) == [type |-> "item", name |-> name]

AliasOf(name, canonical, units) ==
  [type |-> "alias", name |-> name, canonical |-> canonical, units |-> units]

\* The alias twice: created by the first row, updated by the second.
MCItemFile ==
  { [rows |-> <<AliasOf(C, B, 1), Item(B), AliasOf(C, A, 2)>>, continue |-> TRUE],
    [rows |-> <<Item(A), AliasOf(C, A, 1)>>, continue |-> FALSE] }

OrderRow(name, number, url, qurl) ==
  [name |-> name, quotation |-> Q1, qurl |-> qurl, number |-> number, url |-> url,
   override |-> 0, units |-> 0, save |-> 0]

Resolved(row, item, units, save) ==
  [row EXCEPT !.override = item, !.units = units, !.save = save]

MCOrderFile ==
  { [rows |-> <<OrderRow(A, N1, 1, 0), OrderRow(C, N2, 0, 1)>>, unlock |-> {}],
    [rows |-> <<Resolved(OrderRow(C, N1, 0, 1), 1, 0, 2)>>, unlock |-> {}],
    [rows |-> <<OrderRow(A, N1, 1, 1)>>, unlock |-> {N1}] }
=============================================================================
