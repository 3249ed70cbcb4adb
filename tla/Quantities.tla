----------------------------- MODULE Quantities -----------------------------
(***************************************************************************)
(* Sums of integer quantities, as the SQL aggregates of the program take   *)
(* them (SELECT COALESCE(SUM(quantity), 0)), and the first-fit draws its   *)
(* loops make over rows.                                                   *)
(*                                                                         *)
(* The total of a function is the number of units it stands for.  Counting *)
(* units, rather than folding, gives a definition without recursion, about *)
(* which module QuantityLemmas proves what the theorems need.              *)
(***************************************************************************)
EXTENDS Naturals, FiniteSets

Units(f) == UNION { {x} \X (1 .. f[x]) : x \in DOMAIN f }

\* SUM(quantity), 0 when there is no row
Total(f) == Cardinality(Units(f))

Smaller(a, b) == IF a < b THEN a ELSE b

\* max(0, a - b)
Monus(a, b) == IF a > b THEN a - b ELSE 0

Plus(f, g) == [x \in DOMAIN f |-> f[x] + g[x]]

Minus(f, g) == [x \in DOMAIN f |-> f[x] - g[x]]

\* The ways to take n units out of what bound offers.
Draws(bound, n) ==
  { d \in [DOMAIN bound -> 0 .. n] : /\ \A x \in DOMAIN bound : d[x] <= bound[x]
                                     /\ Total(d) = n }

\* The one draw of n units, or of all there are, a loop in that order makes.
InOrder(f, n, before) ==
  [x \in DOMAIN f |->
     Smaller(f[x], Monus(n, Total([y \in { z \in DOMAIN f : <<z, x>> \in before } |-> f[y]])))]

\* Of two different elements of S exactly one is before the other.
StrictlyOrders(before, S) ==
  /\ \A x \in S : <<x, x>> \notin before
  /\ \A x, y \in S : x # y => <<x, y>> \in before \/ <<y, x>> \in before
  /\ \A x, y, z \in S : <<x, y>> \in before /\ <<y, z>> \in before => <<x, z>> \in before

\* d takes from y only when it has taken everything of each x before y.
FirstFit(d, bound, before) ==
  \A p \in before : d[p[2]] > 0 => d[p[1]] = bound[p[1]]
=============================================================================
