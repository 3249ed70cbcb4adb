--------------------------- MODULE QuantityLemmas ---------------------------
(***************************************************************************)
(* What totals do under the updates the program makes: one entry changes,  *)
(* two functions are added or subtracted entry by entry, one is below the  *)
(* other, entries are grouped, renamed or taken apart, sequences are put   *)
(* after each other; what a loop in an order draws; and induction over     *)
(* numbers, with a set in place of a predicate.                            *)
(***************************************************************************)
EXTENDS Quantities, Sequences, FiniteSetTheorems, FunctionTheorems, WellFoundedInduction, TLAPS

\* The units of a single entry are as many as its quantity.
LEMMA EntryUnits ==
  ASSUME NEW x, NEW n \in Nat
  PROVE  /\ IsFiniteSet({x} \X (1 .. n))
         /\ Cardinality({x} \X (1 .. n)) = n
<1>1. IsFiniteSet({x}) /\ Cardinality({x}) = 1
  BY FS_Singleton
<1>2. IsFiniteSet(1 .. n) /\ Cardinality(1 .. n) = n
  <2>1. IsFiniteSet(1 .. n) /\ Cardinality(1 .. n) = IF 1 > n THEN 0 ELSE n - 1 + 1
    BY FS_Interval
  <2>2. QED
    BY <2>1
<1>3. /\ IsFiniteSet({x} \X (1 .. n))
      /\ Cardinality({x} \X (1 .. n)) = Cardinality({x}) * Cardinality(1 .. n)
  BY <1>1, <1>2, FS_Product, Zenon
<1>4. Cardinality({x} \X (1 .. n)) = 1 * n
  BY <1>1, <1>2, <1>3
<1>5. QED
  BY <1>3, <1>4

\* A function from a finite set to Nat has finitely many units.
LEMMA TotalType ==
  ASSUME NEW S, IsFiniteSet(S), NEW f \in [S -> Nat]
  PROVE  IsFiniteSet(Units(f)) /\ Total(f) \in Nat
<1> DEFINE E == [x \in S |-> {x} \X (1 .. f[x])]
           T == {E[x] : x \in S}
<1>1. E \in Surjection(S, T)
  BY DEF Surjection
<1>2. IsFiniteSet(T)
  <2> HIDE DEF E, T
  <2> QED BY <1>1, FS_Surjection
<1>3. \A t \in T : IsFiniteSet(t)
  <2>1. SUFFICES ASSUME NEW x \in S PROVE IsFiniteSet(E[x])
    OBVIOUS
  <2>2. IsFiniteSet({x} \X (1 .. f[x]))
    BY EntryUnits
  <2>3. QED
    BY <2>2
<1>4. IsFiniteSet(UNION T)
  <2> HIDE DEF T
  <2> QED BY <1>2, <1>3, FS_UNION
<1>5. Units(f) = UNION T
  BY DEF Units
<1>6. QED
  BY <1>4, <1>5, FS_CardinalityType DEF Total

\* Units of distinct entries are distinct, so a total splits at any entry.
LEMMA TotalSplit ==
  ASSUME NEW S, IsFiniteSet(S), NEW f \in [S -> Nat], NEW x \in S
  PROVE  Total(f) = Total([f EXCEPT ![x] = 0]) + f[x]
<1> DEFINE g == [f EXCEPT ![x] = 0]
           P == {x} \X (1 .. f[x])
<1>1. g \in [S -> Nat]
  OBVIOUS
<1>2. IsFiniteSet(Units(g)) /\ Total(g) \in Nat
  BY <1>1, TotalType
<1>3. IsFiniteSet(P) /\ Cardinality(P) = f[x]
  BY EntryUnits
<1>4. Units(f) = Units(g) \cup P
  <2>1. ASSUME NEW u \in Units(f) PROVE u \in Units(g) \cup P
    <3>1. PICK y \in S : u \in {y} \X (1 .. f[y])
      BY <2>1 DEF Units
    <3>2. CASE y = x
      BY <3>1, <3>2
    <3>3. CASE y # x
      BY <3>1, <3>3 DEF Units
    <3>4. QED BY <3>2, <3>3
  <2>2. ASSUME NEW u \in Units(g) PROVE u \in Units(f)
    <3>1. PICK y \in S : u \in {y} \X (1 .. g[y])
      BY <2>2 DEF Units
    <3>2. y # x
      BY <3>1
    <3>3. g[y] = f[y]
      BY <3>2
    <3>4. QED
      BY <3>1, <3>3 DEF Units
  <2>3. P \subseteq Units(f)
    BY DEF Units
  <2>4. QED
    BY <2>1, <2>2, <2>3
<1>5. Units(g) \cap P = {}
  <2>1. SUFFICES ASSUME NEW u \in Units(g), u \in P PROVE FALSE
    OBVIOUS
  <2>2. PICK y \in S : u \in {y} \X (1 .. g[y])
    BY <2>1 DEF Units
  <2>3. y = x
    BY <2>1, <2>2
  <2>4. g[y] = 0
    BY <2>3
  <2>5. QED
    BY <2>2, <2>4
<1>6. Cardinality(Units(g) \cup P) = Cardinality(Units(g)) + Cardinality(P)
  <2>1. Cardinality(Units(g) \cup P)
          = Cardinality(Units(g)) + Cardinality(P) - Cardinality(Units(g) \cap P)
    BY <1>2, <1>3, FS_Union
  <2>2. Cardinality(Units(g) \cap P) = 0
    BY <1>5, FS_EmptySet
  <2>3. Cardinality(Units(g)) \in Nat /\ Cardinality(P) \in Nat
    BY <1>2, <1>3, FS_CardinalityType
  <2>4. QED
    BY <2>1, <2>2, <2>3
<1>7. QED
  BY <1>3, <1>4, <1>6 DEF Total

\* Changing one entry changes the total by as much.
LEMMA TotalChange ==
  ASSUME NEW S, IsFiniteSet(S), NEW f \in [S -> Nat], NEW g \in [S -> Nat],
         NEW x \in S, \A y \in S : y # x => g[y] = f[y]
  PROVE  Total(g) + f[x] = Total(f) + g[x]
<1> DEFINE z == [f EXCEPT ![x] = 0]
           w == [g EXCEPT ![x] = 0]
<1>1. z \in [S -> Nat] /\ w = z
  OBVIOUS
<1>2. Total(f) = Total(z) + f[x]
  BY TotalSplit
<1>3. Total(g) = Total(w) + g[x]
  BY TotalSplit
<1>4. Total(z) \in Nat /\ f[x] \in Nat /\ g[x] \in Nat
  BY <1>1, TotalType
<1>5. QED
  <2> HIDE DEF z, w
  <2> QED BY <1>1, <1>2, <1>3, <1>4

\* What moves from one entry to another leaves the total.
LEMMA TotalMoved ==
  ASSUME NEW S, IsFiniteSet(S), NEW f \in [S -> Nat], NEW g \in [S -> Nat],
         NEW x \in S, NEW y \in S, x # y,
         \A z \in S : z # x /\ z # y => g[z] = f[z],
         g[x] + g[y] = f[x] + f[y]
  PROVE  Total(g) = Total(f)
<1> DEFINE h == [f EXCEPT ![x] = g[x]]
<1>1. /\ h \in [S -> Nat] /\ h[x] = g[x] /\ h[y] = f[y]
      /\ \A z \in S : z # x => h[z] = f[z]
      /\ \A z \in S : z # y => g[z] = h[z]
  OBVIOUS
<1> HIDE DEF h
<1>2. Total(h) + f[x] = Total(f) + h[x]
  BY <1>1, TotalChange
<1>3. Total(g) + h[y] = Total(h) + g[y]
  BY <1>1, TotalChange
<1>4. Total(f) \in Nat /\ Total(g) \in Nat /\ Total(h) \in Nat
  BY <1>1, TotalType
<1>5. f[x] \in Nat /\ f[y] \in Nat /\ g[x] \in Nat /\ g[y] \in Nat
  OBVIOUS
<1>6. QED
  BY <1>1, <1>2, <1>3, <1>4, <1>5

\* Entries that are 0 may be left out of a total.
LEMMA TotalRestricted ==
  ASSUME NEW S, NEW f \in [S -> Nat], NEW T \in SUBSET S, \A x \in S \ T : f[x] = 0
  PROVE  Total([x \in T |-> f[x]]) = Total(f)
<1> DEFINE g == [x \in T |-> f[x]]
<1>1. ASSUME NEW u \in Units(f) PROVE u \in Units(g)
  <2>1. PICK x \in S : u \in {x} \X (1 .. f[x])
    BY <1>1 DEF Units
  <2>2. x \in T
    BY <2>1
  <2>3. QED
    BY <2>1, <2>2 DEF Units
<1>2. ASSUME NEW u \in Units(g) PROVE u \in Units(f)
  BY <1>2 DEF Units
<1>3. Units(g) = Units(f)
  BY <1>1, <1>2, Zenon
<1>4. QED
  BY <1>3 DEF Total

\* No entry exceeds the total.
LEMMA EntryBelowTotal ==
  ASSUME NEW S, IsFiniteSet(S), NEW f \in [S -> Nat], NEW x \in S
  PROVE  f[x] <= Total(f)
<1> DEFINE z == [f EXCEPT ![x] = 0]
<1>1. z \in [S -> Nat] /\ f[x] \in Nat
  OBVIOUS
<1>2. Total(z) \in Nat
  BY <1>1, TotalType
<1>3. Total(f) = Total(z) + f[x]
  BY TotalSplit
<1>4. QED
  BY <1>1, <1>2, <1>3

\* A total is 0 exactly when every entry is.
LEMMA TotalZero ==
  ASSUME NEW S, IsFiniteSet(S), NEW f \in [S -> Nat]
  PROVE  Total(f) = 0 <=> \A x \in S : f[x] = 0
<1>1. ASSUME \A x \in S : f[x] = 0 PROVE Total(f) = 0
  <2>1. Units(f) = {}
    BY <1>1 DEF Units
  <2>2. QED
    BY <2>1, FS_EmptySet DEF Total
<1>2. ASSUME Total(f) = 0, NEW x \in S PROVE f[x] = 0
  <2>1. f[x] <= Total(f)
    BY EntryBelowTotal
  <2>2. QED
    BY <1>2, <2>1
<1>3. QED
  BY <1>1, <1>2

\* The total of an entrywise sum is the sum of the totals: the units of g,
\* shifted past those of f, complete them to the units of Plus(f, g).
LEMMA TotalPlus ==
  ASSUME NEW S, IsFiniteSet(S), NEW f \in [S -> Nat], NEW g \in [S -> Nat]
  PROVE  /\ Plus(f, g) \in [S -> Nat]
         /\ Total(Plus(f, g)) = Total(f) + Total(g)
<1> DEFINE h == Plus(f, g)
           Q == { <<u[1], f[u[1]] + u[2]>> : u \in Units(g) }
           b == [u \in Units(g) |-> <<u[1], f[u[1]] + u[2]>>]
<1>1. h \in [S -> Nat] /\ \A x \in S : h[x] = f[x] + g[x]
  BY DEF Plus
<1>2. \A u \in Units(g) : /\ u = <<u[1], u[2]>> /\ u[1] \in S
                          /\ u[2] \in 1 .. g[u[1]] /\ f[u[1]] \in Nat
  BY DEF Units
<1>3. IsFiniteSet(Q) /\ Cardinality(Q) = Total(g)
  <2>1. b \in Surjection(Units(g), Q)
    BY DEF Surjection
  <2>2. b \in Injection(Units(g), Q)
    <3>1. ASSUME NEW u \in Units(g), NEW v \in Units(g), b[u] = b[v] PROVE u = v
      <4>1. u[1] = v[1] /\ f[u[1]] + u[2] = f[v[1]] + v[2]
        BY <3>1
      <4>2. u[2] \in Int /\ v[2] \in Int /\ f[u[1]] \in Int
        BY <1>2
      <4>3. u[2] = v[2]
        BY <4>1, <4>2
      <4>4. QED
        BY <1>2, <4>1, <4>3
    <3>2. b \in [Units(g) -> Q]
      OBVIOUS
    <3>3. QED
      BY <3>1, <3>2 DEF Injection, IsInjective
  <2>3. IsFiniteSet(Units(g))
    BY TotalType
  <2>4. QED
    <3> HIDE DEF b, Q
    <3> QED BY <2>1, <2>2, <2>3, FS_Surjection DEF Total
<1>4. Units(h) = Units(f) \cup Q
  <2>1. ASSUME NEW w \in Units(h) PROVE w \in Units(f) \cup Q
    <3>1. PICK x \in S, i \in Nat : i \in 1 .. h[x] /\ w = <<x, i>>
      BY <1>1, <2>1 DEF Units
    <3>2. CASE i <= f[x]
      BY <3>1, <3>2, <1>1 DEF Units
    <3>3. CASE i > f[x]
      <4>1. i - f[x] \in 1 .. g[x]
        BY <3>1, <3>3, <1>1
      <4>2. <<x, i - f[x]>> \in Units(g)
        BY <4>1 DEF Units
      <4>3. w = <<x, f[x] + (i - f[x])>>
        BY <3>1, <1>1
      <4>4. QED
        BY <4>2, <4>3
    <3>4. QED
      BY <3>1, <3>2, <3>3, <1>1
  <2>2. ASSUME NEW w \in Units(f) PROVE w \in Units(h)
    <3>1. PICK x \in S, i \in Nat : i \in 1 .. f[x] /\ w = <<x, i>>
      BY <2>2 DEF Units
    <3>2. i \in 1 .. h[x]
      BY <3>1, <1>1
    <3>3. QED
      BY <3>1, <3>2, <1>1 DEF Units
  <2>3. ASSUME NEW w \in Q PROVE w \in Units(h)
    <3>1. PICK u \in Units(g) : w = <<u[1], f[u[1]] + u[2]>>
      BY <2>3
    <3>2. f[u[1]] + u[2] \in 1 .. h[u[1]]
      BY <1>1, <1>2
    <3>3. QED
      BY <3>1, <3>2, <1>1, <1>2 DEF Units
  <2>4. QED
    BY <2>1, <2>2, <2>3
<1>5. Units(f) \cap Q = {}
  <2>1. SUFFICES ASSUME NEW w \in Units(f), w \in Q PROVE FALSE
    OBVIOUS
  <2>2. PICK x \in S, i \in Nat : i \in 1 .. f[x] /\ w = <<x, i>>
    BY <2>1 DEF Units
  <2>3. PICK u \in Units(g) : w = <<u[1], f[u[1]] + u[2]>>
    BY <2>1
  <2>4. x = u[1] /\ i = f[x] + u[2]
    BY <2>2, <2>3
  <2>5. u[2] \in 1 .. g[x] /\ f[x] \in Nat /\ g[x] \in Nat
    BY <1>2, <2>4
  <2>6. QED
    BY <2>2, <2>4, <2>5
<1>6. IsFiniteSet(Units(f)) /\ Cardinality(Units(f)) \in Nat /\ Cardinality(Q) \in Nat
  BY <1>3, TotalType DEF Total
<1>7. Cardinality(Units(f) \cup Q) = Cardinality(Units(f)) + Cardinality(Q)
  <2>1. Cardinality(Units(f) \cup Q)
          = Cardinality(Units(f)) + Cardinality(Q) - Cardinality(Units(f) \cap Q)
    <3> HIDE DEF Q
    <3> QED BY <1>3, <1>6, FS_Union
  <2>2. Cardinality(Units(f) \cap Q) = 0
    BY <1>5, FS_EmptySet
  <2>3. QED
    BY <1>6, <2>1, <2>2
<1>8. QED
  BY <1>1, <1>3, <1>4, <1>7 DEF Total

\* Taking d away from f leaves the difference of the totals.
LEMMA TotalMinus ==
  ASSUME NEW S, IsFiniteSet(S), NEW f \in [S -> Nat], NEW d \in [S -> Nat],
         \A x \in S : d[x] <= f[x]
  PROVE  /\ Minus(f, d) \in [S -> Nat]
         /\ Total(Minus(f, d)) + Total(d) = Total(f)
<1> DEFINE m == Minus(f, d)
<1>1. m \in [S -> Nat]
  BY DEF Minus
<1>2. Plus(m, d) = f
  BY DEF Minus, Plus
<1>3. Total(Plus(m, d)) = Total(m) + Total(d)
  <2> HIDE DEF m
  <2> QED BY <1>1, TotalPlus
<1>4. QED
  BY <1>1, <1>2, <1>3

\* A function below another has a smaller total.
LEMMA TotalMonotone ==
  ASSUME NEW S, IsFiniteSet(S), NEW f \in [S -> Nat], NEW d \in [S -> Nat],
         \A x \in S : d[x] <= f[x]
  PROVE  Total(d) <= Total(f)
<1>1. Minus(f, d) \in [S -> Nat] /\ Total(Minus(f, d)) + Total(d) = Total(f)
  BY TotalMinus
<1>2. Total(Minus(f, d)) \in Nat /\ Total(d) \in Nat /\ Total(f) \in Nat
  BY <1>1, TotalType
<1>3. QED
  BY <1>1, <1>2

\* A draw is a function below its bound with the total asked for.
LEMMA DrawType ==
  ASSUME NEW S, NEW f \in [S -> Nat], NEW n \in Nat, NEW d \in Draws(f, n)
  PROVE  d \in [S -> Nat] /\ (\A x \in S : d[x] <= f[x]) /\ Total(d) = n
BY DEF Draws

\* Among subsets of a finite set there is one that no other is part of: what
\* an induction over the set starts from.
LEMMA SmallestSubset ==
  ASSUME NEW S, IsFiniteSet(S), NEW C, C \subseteq SUBSET S, C # {}
  PROVE  \E T \in C : \A U \in C : U \subseteq T => U = T
<1>1. C \subseteq FiniteSubsetsOf(S)
  BY FS_FiniteSubsetsOfFinite
<1>2. PICK T \in C : \A U \in C : <<U, T>> \notin StrictSubsetOrdering(S)
  BY <1>1, FS_StrictSubsetOrderingWellFounded, WFMin, Zenon
<1>3. QED
  BY <1>2 DEF StrictSubsetOrdering

\* A strict order of a finite set has a first element.
LEMMA FirstInOrder ==
  ASSUME NEW S, IsFiniteSet(S), NEW before, StrictlyOrders(before, S), S # {}
  PROVE  \E x \in S : \A y \in S : y # x => <<x, y>> \in before
<1> DEFINE P(x) == { y \in S : <<y, x>> \in before }
           C == { P(x) : x \in S }
<1>1. C \subseteq SUBSET S /\ C # {}
  OBVIOUS
<1>2. PICK p \in C : \A q \in C : q \subseteq p => q = p
  <2> HIDE DEF C
  <2> QED BY <1>1, SmallestSubset
<1>3. PICK x \in S : p = P(x)
  OBVIOUS
<1>4. ASSUME NEW y \in S, <<y, x>> \in before PROVE FALSE
  <2>1. P(y) \subseteq P(x) /\ y \in P(x) /\ y \notin P(y)
    BY <1>4 DEF StrictlyOrders
  <2>2. QED
    BY <2>1, <1>2, <1>3
<1>5. QED
  BY <1>4 DEF StrictlyOrders

\* And a last one.
LEMMA LastInOrder ==
  ASSUME NEW S, IsFiniteSet(S), NEW before, StrictlyOrders(before, S), S # {}
  PROVE  \E x \in S : \A y \in S : y # x => <<y, x>> \in before
<1> DEFINE after == { p \in S \X S : <<p[2], p[1]>> \in before }
<1>1. \A x, y \in S : <<x, y>> \in after <=> <<y, x>> \in before
  OBVIOUS
<1> HIDE DEF after
<1>2. StrictlyOrders(after, S)
  BY <1>1 DEF StrictlyOrders
<1>3. QED
  BY <1>1, <1>2, FirstInOrder

\* f where T has it, 0 elsewhere.
Part(f, T) == [x \in DOMAIN f |-> IF x \in T THEN f[x] ELSE 0]

\* The entries of a part.
LEMMA PartType ==
  ASSUME NEW S, NEW f \in [S -> Nat], NEW T
  PROVE  /\ Part(f, T) \in [S -> Nat]
         /\ \A x \in S : Part(f, T)[x] = IF x \in T THEN f[x] ELSE 0
BY DEF Part

\* The total over a set is that of the part.
LEMMA TotalOfPart ==
  ASSUME NEW S, NEW f \in [S -> Nat], NEW T \in SUBSET S
  PROVE  Total([x \in T |-> f[x]]) = Total(Part(f, T))
<1> DEFINE g == Part(f, T)
<1>1. g \in [S -> Nat] /\ \A x \in S : g[x] = IF x \in T THEN f[x] ELSE 0
  BY PartType
<1>2. [x \in T |-> f[x]] = [x \in T |-> g[x]]
  BY <1>1
<1>3. Total([x \in T |-> g[x]]) = Total(g)
  <2> HIDE DEF g
  <2> QED BY <1>1, TotalRestricted
<1>4. QED
  BY <1>2, <1>3

\* An element more adds its entry.
LEMMA PartGrows ==
  ASSUME NEW S, IsFiniteSet(S), NEW f \in [S -> Nat], NEW T \in SUBSET S, NEW x \in S, x \notin T
  PROVE  Total(Part(f, T \cup {x})) = Total(Part(f, T)) + f[x]
<1> DEFINE g == Part(f, T)
           h == Part(f, T \cup {x})
<1>1. /\ g \in [S -> Nat] /\ h \in [S -> Nat] /\ g[x] = 0 /\ h[x] = f[x]
      /\ \A y \in S : y # x => h[y] = g[y]
  BY PartType
<1> HIDE DEF g, h
<1>2. Total(h) + g[x] = Total(g) + h[x]
  BY <1>1, TotalChange
<1>3. Total(h) \in Nat /\ Total(g) \in Nat /\ f[x] \in Nat
  BY <1>1, TotalType
<1>4. QED
  BY <1>1, <1>2, <1>3 DEF g, h

\* A larger part has no smaller total.
LEMMA PartMonotone ==
  ASSUME NEW S, IsFiniteSet(S), NEW f \in [S -> Nat], NEW T, NEW U, T \subseteq U
  PROVE  /\ Total(Part(f, T)) \in Nat /\ Total(Part(f, U)) \in Nat
         /\ Total(Part(f, T)) <= Total(Part(f, U))
<1> DEFINE g == Part(f, T)
           h == Part(f, U)
<1>1. g \in [S -> Nat] /\ h \in [S -> Nat] /\ \A x \in S : g[x] <= h[x]
  BY PartType
<1> HIDE DEF g, h
<1>2. Total(g) <= Total(h) /\ Total(g) \in Nat /\ Total(h) \in Nat
  BY <1>1, TotalMonotone, TotalType
<1>3. QED
  BY <1>2 DEF g, h

\* The totals of f over what g sends to each l.
Where(g, l) == { x \in DOMAIN g : g[x] = l }

Grouped(f, g, L) == [l \in L |-> Total(Part(f, Where(g, l)))]

\* Grouped by g, f has the same total.
LEMMA TotalGrouped ==
  ASSUME NEW S, IsFiniteSet(S), NEW L, IsFiniteSet(L),
         NEW f \in [S -> Nat], NEW g \in [S -> L]
  PROVE  Grouped(f, g, L) \in [L -> Nat] /\ Total(Grouped(f, g, L)) = Total(f)
<1> DEFINE At(l, T) == { x \in T : g[x] = l }
           G(T) == [l \in L |-> Total(Part(f, At(l, T)))]
           Bad == { T \in SUBSET S : Total(G(T)) # Total(Part(f, T)) }
<1>1. ASSUME NEW T \in SUBSET S PROVE G(T) \in [L -> Nat]
  BY PartMonotone
<1>2. G({}) \in [L -> Nat] /\ \A l \in L : G({})[l] = 0
  <2>1. ASSUME NEW l \in L PROVE G({})[l] = 0
    <3>1. Part(f, {}) \in [S -> Nat] /\ \A x \in S : Part(f, {})[x] = 0
      BY PartType
    <3>2. Total(Part(f, {})) = 0
      BY <3>1, TotalZero
    <3>3. At(l, {}) = {}
      OBVIOUS
    <3>4. QED
      BY <3>2, <3>3
  <2>2. QED
    BY <1>1, <2>1
<1>3. {} \notin Bad
  <2>1. Total(G({})) = 0
    <3> HIDE DEF G
    <3> QED BY <1>2, TotalZero
  <2>2. Part(f, {}) \in [S -> Nat] /\ \A x \in S : Part(f, {})[x] = 0
    BY PartType
  <2>3. Total(Part(f, {})) = 0
    BY <2>2, TotalZero
  <2>4. QED
    BY <2>1, <2>3
<1>4. ASSUME NEW T \in SUBSET S, NEW x \in T, T \ {x} \notin Bad PROVE T \notin Bad
  <2> DEFINE U == T \ {x}
  <2>1. U \in SUBSET S /\ x \notin U /\ T = U \cup {x} /\ x \in S /\ g[x] \in L
    OBVIOUS
  <2>2. Total(G(U)) = Total(Part(f, U))
    BY <1>4, <2>1
  <2>3. Total(Part(f, T)) = Total(Part(f, U)) + f[x]
    <3> HIDE DEF U
    <3> QED BY <2>1, PartGrows
  <2>4. \A l \in L : l # g[x] => At(l, T) = At(l, U)
    BY <2>1
  <2>5. /\ At(g[x], T) = At(g[x], U) \cup {x} /\ x \notin At(g[x], U)
        /\ At(g[x], U) \in SUBSET S
    BY <2>1
  <2>6. Total(Part(f, At(g[x], T))) = Total(Part(f, At(g[x], U))) + f[x]
    <3> HIDE DEF U, At
    <3> QED BY <2>1, <2>5, PartGrows
  <2>7. /\ G(T) \in [L -> Nat] /\ G(U) \in [L -> Nat]
        /\ G(T)[g[x]] = G(U)[g[x]] + f[x]
        /\ \A l \in L : l # g[x] => G(T)[l] = G(U)[l]
    <3> HIDE DEF U, At
    <3> QED BY <1>1, <2>1, <2>4, <2>6
  <2>8. Total(G(T)) + G(U)[g[x]] = Total(G(U)) + G(T)[g[x]]
    <3> DEFINE a == G(U)
               b == G(T)
               k == g[x]
    <3>1. /\ a \in [L -> Nat] /\ b \in [L -> Nat] /\ k \in L
          /\ \A l \in L : l # k => b[l] = a[l]
      <4> HIDE DEF U, G
      <4> QED BY <2>1, <2>7
    <3> HIDE DEF a, b, k
    <3>2. Total(b) + a[k] = Total(a) + b[k]
      BY <3>1, TotalChange
    <3>3. QED
      BY <3>2 DEF a, b, k
  <2>9. /\ Total(G(T)) \in Nat /\ Total(G(U)) \in Nat /\ f[x] \in Nat
        /\ G(U)[g[x]] \in Nat
    <3> HIDE DEF U, G
    <3> QED BY <2>1, <2>7, TotalType
  <2>10. Total(G(T)) = Total(Part(f, T))
    <3> HIDE DEF U, G
    <3> QED BY <2>2, <2>3, <2>7, <2>8, <2>9
  <2>11. QED
    <3> HIDE DEF G
    <3> QED BY <2>10
<1>5. Bad = {}
  <2> SUFFICES ASSUME Bad # {} PROVE FALSE
    OBVIOUS
  <2>1. PICK T \in Bad : \A U \in Bad : U \subseteq T => U = T
    <3> Bad \subseteq SUBSET S
      OBVIOUS
    <3> HIDE DEF Bad
    <3> QED BY SmallestSubset
  <2>2. T \in SUBSET S
    OBVIOUS
  <2> HIDE DEF Bad
  <2>3. T # {}
    BY <1>3, <2>1
  <2>4. PICK x \in T : TRUE
    BY <2>3
  <2>5. T \ {x} \notin Bad
    BY <2>1, <2>4
  <2>6. QED
    BY <1>4, <2>1, <2>2, <2>4, <2>5
<1>6. Total(G(S)) = Total(Part(f, S))
  BY <1>5
<1>7. Part(f, S) = f
  BY DEF Part
<1>8. G(S) = Grouped(f, g, L)
  <2>1. ASSUME NEW l \in L PROVE At(l, S) = Where(g, l)
    BY DEF Where
  <2>2. QED
    <3> HIDE DEF At
    <3> QED BY <2>1 DEF Grouped
<1>9. QED
  <2> HIDE DEF G
  <2> QED BY <1>1, <1>6, <1>7, <1>8

\* The entries of f under other names have the same total.
LEMMA TotalRenamed ==
  ASSUME NEW A, NEW B, IsFiniteSet(B), NEW b \in Bijection(A, B), NEW f \in [B -> Nat]
  PROVE  Total([x \in A |-> f[b[x]]]) = Total(f)
<1> DEFINE g == [x \in A |-> f[b[x]]]
           U == Units(g)
           V == Units(f)
           m == [u \in U |-> <<b[u[1]], u[2]>>]
<1>1. /\ \A x \in A : b[x] \in B
      /\ \A x, y \in A : b[x] = b[y] => x = y
      /\ \A z \in B : \E x \in A : b[x] = z
  BY Fun_BijectionProperties
<1>2. \A u : u \in U <=> \E x \in A : \E k \in 1 .. f[b[x]] : u = <<x, k>>
  BY DEF Units
<1>3. \A v : v \in V <=> \E z \in B : \E k \in 1 .. f[z] : v = <<z, k>>
  BY DEF Units
<1> HIDE DEF U, V, g
<1>4. m \in [U -> V]
  BY <1>1, <1>2, <1>3
<1>5. \A u, w \in U : m[u] = m[w] => u = w
  BY <1>1, <1>2
<1>6. ASSUME NEW v \in V PROVE \E u \in U : m[u] = v
  <2>1. PICK z \in B : \E k \in 1 .. f[z] : v = <<z, k>>
    BY <1>3
  <2>0. PICK k \in 1 .. f[z] : v = <<z, k>>
    BY <2>1
  <2>2. PICK x \in A : b[x] = z
    BY <1>1
  <2>3. <<x, k>> \in U
    BY <1>2, <2>0, <2>2
  <2>4. m[<<x, k>>] = v
    BY <2>0, <2>2, <2>3
  <2>5. QED
    BY <2>3, <2>4
<1>7. m \in Bijection(U, V)
  <2> HIDE DEF m
  <2> QED BY <1>4, <1>5, <1>6, Fun_IsBij
<1>8. IsFiniteSet(V)
  BY TotalType DEF V
<1>9. m \in Injection(U, V) /\ m \in Surjection(U, V)
  BY <1>7, Fun_BijectionProperties
<1>10. Cardinality(U) = Cardinality(V)
  BY <1>8, <1>9, FS_Injection
<1>11. QED
  BY <1>10 DEF U, V, g, Total

\* A single entry that is not 0 is the total.
LEMMA TotalSingle ==
  ASSUME NEW S, IsFiniteSet(S), NEW f \in [S -> Nat], NEW x \in S,
         \A y \in S : y # x => f[y] = 0
  PROVE  Total(f) = f[x]
<1> DEFINE z == [y \in S |-> 0]
<1>1. z \in [S -> Nat] /\ z[x] = 0 /\ \A y \in S : y # x => z[y] = f[y]
  OBVIOUS
<1>2. Total(z) = 0
  BY <1>1, TotalZero
<1> HIDE DEF z
<1>3. Total(z) + f[x] = Total(f) + z[x]
  BY <1>1, TotalChange
<1>4. Total(f) \in Nat /\ f[x] \in Nat
  BY TotalType
<1>5. QED
  BY <1>1, <1>2, <1>3, <1>4

\* A total taken apart.
LEMMA TotalSplitSet ==
  ASSUME NEW S, IsFiniteSet(S), NEW h \in [S -> Nat], NEW A \in SUBSET S
  PROVE  Total(h) = Total([x \in A |-> h[x]]) + Total([x \in S \ A |-> h[x]])
<1> DEFINE f == Part(h, A)
           g == Part(h, S \ A)
<1>1. /\ f \in [S -> Nat] /\ g \in [S -> Nat]
      /\ \A x \in S : h[x] = f[x] + g[x]
  BY PartType
<1>2. S \ A \in SUBSET S
  OBVIOUS
<1>3. Total([x \in A |-> h[x]]) = Total(f)
  BY TotalOfPart
<1>4. Total([x \in S \ A |-> h[x]]) = Total(g)
  BY <1>2, TotalOfPart
<1> HIDE DEF f, g
<1>5. h = Plus(f, g)
  BY <1>1 DEF Plus
<1>6. Total(Plus(f, g)) = Total(f) + Total(g)
  BY <1>1, TotalPlus
<1>7. QED
  BY <1>3, <1>4, <1>5, <1>6

\* The quantities of a sequence put after another.
LEMMA TotalConcat ==
  ASSUME NEW s \in Seq(Nat), NEW t \in Seq(Nat)
  PROVE  Total(s \o t) = Total(s) + Total(t)
<1> DEFINE m == Len(s)
           n == Len(t)
           A == 1 .. m
           B == (m + 1) .. (m + n)
           h == s \o t
           b == [i \in B |-> i - m]
           f == [x \in B |-> h[x]]
<1>1. m \in Nat /\ n \in Nat /\ s \in [A -> Nat] /\ t \in [1 .. n -> Nat]
  OBVIOUS
<1>2. /\ h \in [1 .. (m + n) -> Nat] /\ \A i \in A : h[i] = s[i]
      /\ \A i \in B : h[i] = t[i - m]
  <2>1. h \in Seq(Nat) /\ Len(h) = m + n
    OBVIOUS
  <2>2. \A i \in 1 .. (m + n) : h[i] = IF i <= m THEN s[i] ELSE t[i - m]
    OBVIOUS
  <2>3. h \in [1 .. (m + n) -> Nat]
    <3> HIDE DEF h, m, n
    <3> QED BY <2>1
  <2>4. \A i \in A : i \in 1 .. (m + n) /\ i <= m
    <3> HIDE DEF m, n
    <3> QED BY <1>1
  <2>5. \A i \in B : i \in 1 .. (m + n) /\ ~(i <= m)
    <3> HIDE DEF m, n
    <3> QED BY <1>1
  <2>6. QED
    <3> HIDE DEF h, A, B, m, n
    <3> QED BY <2>2, <2>3, <2>4, <2>5
<1>3. A \in SUBSET (1 .. (m + n)) /\ B = (1 .. (m + n)) \ A
  BY <1>1
<1>4. IsFiniteSet(1 .. (m + n)) /\ IsFiniteSet(1 .. n)
  BY <1>1, FS_Interval
<1>5. b \in Bijection(B, 1 .. n)
  <2>1. b \in [B -> 1 .. n]
    BY <1>1
  <2>2. \A i, j \in B : b[i] = b[j] => i = j
    BY <1>1
  <2>3. ASSUME NEW k \in 1 .. n PROVE \E i \in B : b[i] = k
    <3>1. k + m \in B /\ b[k + m] = k
      BY <1>1
    <3>2. QED
      BY <3>1
  <2>4. QED
    <3> HIDE DEF b, B
    <3> QED BY <2>1, <2>2, <2>3, Fun_IsBij
<1>6. [x \in A |-> h[x]] = s
  BY <1>1, <1>2
<1>7. f = [x \in B |-> t[b[x]]]
  BY <1>2
<1> HIDE DEF b, h, A, B, m, n, f
<1>8. Total([x \in B |-> t[b[x]]]) = Total(t)
  BY <1>1, <1>4, <1>5, TotalRenamed, SMTT(30)
<1>9. Total(h) = Total([x \in A |-> h[x]]) + Total([x \in B |-> h[x]])
  <2> DEFINE C == 1 .. (m + n)
  <2>1. h \in [C -> Nat] /\ IsFiniteSet(C) /\ A \in SUBSET C /\ B = C \ A
    BY <1>2, <1>3, <1>4
  <2> HIDE DEF C
  <2>2. Total(h) = Total([x \in A |-> h[x]]) + Total([x \in C \ A |-> h[x]])
    BY <2>1, TotalSplitSet
  <2> QED BY <2>1, <2>2
<1>10. QED
  BY <1>6, <1>7, <1>8, <1>9 DEF h, f

\* A loop in an order takes what it asks for, or all there is, and nothing from
\* an entry before it has taken everything before that entry.
LEMMA InOrderDraw ==
  ASSUME NEW S, IsFiniteSet(S), NEW f \in [S -> Nat], NEW n \in Nat, NEW before,
         StrictlyOrders(before, { x \in S : f[x] > 0 })
  PROVE  LET d == InOrder(f, n, before)
         IN  /\ d \in [S -> Nat]
             /\ \A x \in S : d[x] <= f[x] /\ d[x] <= n
             /\ Total(d) = Smaller(n, Total(f))
             /\ \A x, y \in S : <<x, y>> \in before /\ d[y] > 0 => d[x] = f[x]
<1> DEFINE d == InOrder(f, n, before)
           P == { x \in S : f[x] > 0 }
           B(x) == { z \in P : <<z, x>> \in before }
           V(T) == Total(Part(f, T))
<1>1. P \in SUBSET S /\ IsFiniteSet(P) /\ DOMAIN f = S
  BY FS_Subset
<1>2. \A T : V(T) \in Nat
  BY PartMonotone
<1>3. \A T, U : T \subseteq U => V(T) <= V(U)
  BY PartMonotone
<1>4. \A T \in SUBSET S : \A x \in S : x \notin T => V(T \cup {x}) = V(T) + f[x]
  BY PartGrows
<1>5. ASSUME NEW x \in S
      PROVE  Total([y \in { z \in S : <<z, x>> \in before } |-> f[y]]) = V(B(x))
  <2> DEFINE Z == { z \in S : <<z, x>> \in before }
  <2>1. Total([y \in Z |-> f[y]]) = Total(Part(f, Z))
    <3> Z \in SUBSET S
      OBVIOUS
    <3> HIDE DEF Z
    <3> QED BY TotalOfPart
  <2>2. Part(f, Z) = Part(f, B(x))
    BY DEF Part
  <2>3. QED
    BY <2>1, <2>2
<1>6. \A x \in S : d[x] = Smaller(f[x], Monus(n, V(B(x))))
  <2> HIDE DEF B, V
  <2> QED BY <1>1, <1>5 DEF InOrder
<1>7. DOMAIN d = S /\ d = [x \in S |-> d[x]]
  BY <1>1 DEF InOrder
<1> HIDE DEF d
<1>8. ASSUME NEW x \in S
      PROVE  /\ d[x] \in Nat /\ f[x] \in Nat /\ d[x] <= f[x] /\ d[x] <= n
             /\ d[x] > 0 => V(B(x)) < n
             /\ d[x] < f[x] => d[x] = Monus(n, V(B(x))) /\ n < V(B(x)) + f[x]
             /\ d[x] = f[x] /\ f[x] > 0 => V(B(x)) + f[x] <= n
             /\ V(B(x)) >= n => d[x] = 0
  <2>1. V(B(x)) \in Nat /\ f[x] \in Nat /\ d[x] = Smaller(f[x], Monus(n, V(B(x))))
    BY <1>2, <1>6
  <2> HIDE DEF V, B
  <2> QED BY <2>1 DEF Smaller, Monus
<1>9. d \in [S -> Nat]
  BY <1>7, <1>8
<1>10. ASSUME NEW x \in P, NEW y \in P, <<x, y>> \in before
       PROVE  V(B(x)) + f[x] <= V(B(y))
  <2>1. B(x) \in SUBSET S /\ x \notin B(x) /\ B(x) \cup {x} \subseteq B(y)
    BY <1>10 DEF StrictlyOrders
  <2>2. V(B(x) \cup {x}) = V(B(x)) + f[x]
    BY <1>4, <2>1
  <2>3. V(B(x) \cup {x}) <= V(B(y))
    BY <1>3, <2>1
  <2>4. QED
    BY <2>2, <2>3
<1>11. ASSUME NEW T \in SUBSET P, \A y \in T : B(y) \subseteq T, \A y \in T : d[y] = f[y]
       PROVE  V(T) <= n
  <2>1. CASE T = {}
    <3>1. Part(f, {}) \in [S -> Nat] /\ \A x \in S : Part(f, {})[x] = 0
      BY PartType
    <3>2. V({}) = 0
      BY <3>1, TotalZero
    <3>3. QED
      BY <2>1, <3>2
  <2>2. CASE T # {}
    <3>1. IsFiniteSet(T) /\ StrictlyOrders(before, T)
      BY <1>1, FS_Subset DEF StrictlyOrders
    <3>2. PICK y \in T : \A x \in T : x # y => <<x, y>> \in before
      BY <2>2, <3>1, LastInOrder
    <3>3. T = B(y) \cup {y} /\ y \notin B(y) /\ B(y) \in SUBSET S /\ y \in S /\ f[y] > 0
      BY <1>11, <3>1, <3>2 DEF StrictlyOrders
    <3>4. V(T) = V(B(y)) + f[y]
      BY <1>4, <3>3
    <3>5. QED
      BY <1>8, <1>11, <3>3, <3>4
  <2>3. QED
    BY <2>1, <2>2
<1>12. \A x \in P, y \in P : <<x, y>> \in before => x \in B(y) /\ B(x) \subseteq B(y)
  BY DEF StrictlyOrders
<1>13. Total(d) = Smaller(n, Total(f))
  <2>1. V(P) = Total(f)
    <3>1. Part(f, P) = f
      BY DEF Part
    <3>2. QED
      BY <3>1
  <2>2. CASE \A x \in P : d[x] = f[x]
    <3>1. d = f
      <4>1. \A x \in S : d[x] = f[x]
        <5> HIDE DEF V, B
        <5> QED BY <1>8, <2>2
      <4>2. QED
        BY <1>9, <4>1
    <3>2. V(P) <= n
      BY <1>11, <2>2
    <3>3. QED
      BY <1>2, <2>1, <3>1, <3>2 DEF Smaller
  <2>3. CASE \E x \in P : d[x] # f[x]
    <3> DEFINE R == { x \in P : d[x] # f[x] }
    <3>1. R # {} /\ IsFiniteSet(R) /\ StrictlyOrders(before, R)
      BY <1>1, <2>3, FS_Subset DEF StrictlyOrders
    <3>2. PICK x \in R : \A y \in R : y # x => <<x, y>> \in before
      <4> HIDE DEF R
      <4> QED BY <3>1, FirstInOrder
    <3>3. x \in P /\ x \in S /\ d[x] < f[x]
      <4> HIDE DEF V, B
      <4> QED BY <1>8
    <3>4. \A y \in B(x) : d[y] = f[y] /\ y \in P
      BY <3>2, <3>3 DEF StrictlyOrders
    <3>5. V(B(x)) <= n
      BY <1>11, <1>12, <3>3, <3>4
    <3>6. d[x] + V(B(x)) = n /\ n < V(B(x)) + f[x]
      BY <1>2, <1>8, <3>3, <3>5 DEF Monus
    <3>7. ASSUME NEW y \in S, y \notin B(x), y # x PROVE d[y] = 0
      <4>1. CASE y \notin P
        <5> HIDE DEF V, B
        <5> QED BY <1>8, <3>7, <4>1
      <4>2. CASE y \in P
        <5>1. <<x, y>> \in before
          BY <3>3, <3>7, <4>2 DEF StrictlyOrders
        <5>2. V(B(y)) >= n
          <6>1. V(B(x)) + f[x] <= V(B(y))
            BY <1>10, <3>3, <4>2, <5>1
          <6>2. QED
            <7> HIDE DEF V, B
            <7> QED BY <1>2, <1>8, <3>3, <3>6, <6>1
        <5>3. QED
          <6> HIDE DEF V, B
          <6> QED BY <1>8, <3>7, <5>2
      <4>3. QED
        BY <4>1, <4>2
    <3>8. x \notin B(x) /\ B(x) \in SUBSET S
      BY <3>3 DEF StrictlyOrders
    <3> DEFINE g == Part(f, B(x))
    <3>9. /\ g \in [S -> Nat] /\ g[x] = 0
          /\ \A y \in S : y # x => d[y] = g[y]
      <4>1. g \in [S -> Nat] /\ \A y \in S : g[y] = IF y \in B(x) THEN f[y] ELSE 0
        BY PartType
      <4> HIDE DEF g, B
      <4> QED BY <3>3, <3>4, <3>7, <3>8, <4>1
    <3> HIDE DEF g
    <3>10. Total(d) + g[x] = Total(g) + d[x]
      BY <1>9, <3>3, <3>9, TotalChange
    <3>11. Total(g) = V(B(x))
      BY DEF g
    <3>12. Total(d) = n
      <4>1. Total(d) \in Nat /\ Total(g) \in Nat /\ d[x] \in Nat
        BY <1>8, <1>9, <3>3, <3>9, TotalType
      <4> HIDE DEF V, B
      <4> QED BY <3>6, <3>9, <3>10, <3>11, <4>1
    <3>13. V(B(x)) + f[x] <= V(P)
      <4>1. V(B(x) \cup {x}) = V(B(x)) + f[x]
        BY <1>4, <3>3, <3>8
      <4>2. B(x) \cup {x} \subseteq P
        BY <3>3
      <4>3. QED
        BY <1>3, <4>1, <4>2
    <3>14. QED
      <4> HIDE DEF V, B
      <4> QED BY <1>2, <1>8, <2>1, <3>3, <3>6, <3>12, <3>13 DEF Smaller
  <2>4. QED
    BY <2>2, <2>3
<1>14. ASSUME NEW x \in S, NEW y \in S, <<x, y>> \in before, d[y] > 0 PROVE d[x] = f[x]
  <2>1. CASE x \notin P
    <3> HIDE DEF V, B
    <3> QED BY <1>8, <2>1
  <2>2. CASE x \in P
    <3>1. y \in P
      <4> HIDE DEF V, B
      <4> QED BY <1>8, <1>14
    <3>2. V(B(x)) + f[x] <= V(B(y)) /\ V(B(y)) < n
      BY <1>8, <1>10, <1>14, <2>2, <3>1
    <3>3. QED
      <4> HIDE DEF V, B
      <4> QED BY <1>2, <1>8, <3>2
  <2>3. QED
    BY <2>1, <2>2
<1>15. QED
  BY <1>8, <1>9, <1>13, <1>14 DEF d

-----------------------------------------------------------------------------
(* Induction over numbers, and states taken back one by one.               *)

\* A set of natural numbers that is not empty has a least one.
LEMMA LeastNumber ==
  ASSUME NEW T, T \subseteq Nat, T # {}
  PROVE  \E n \in T : \A m \in T : n <= m
<1> DEFINE R == OpToRel(<, Nat)
<1>1. IsWellFoundedOn(R, Nat)
  BY NatLessThanWellFounded
<1>2. \A x, y \in Nat : <<y, x>> \in R <=> y < x
  BY DEF OpToRel
<1> HIDE DEF R
<1>3. PICK n \in T : \A m \in T : ~(<<m, n>> \in R)
  BY <1>1, WFMin
<1>4. n \in Nat /\ \A m \in T : m \in Nat /\ ~(m < n)
  BY <1>2, <1>3
<1>5. QED
  BY <1>4

\* What holds of 0 and of each next number holds of all; S is the set of the
\* numbers it holds of.
LEMMA AllNumbers ==
  ASSUME NEW S, 0 \in S, \A n \in Nat : n \in S => n + 1 \in S
  PROVE  \A n \in Nat : n \in S
<1> DEFINE T == Nat \ S
<1>1. SUFFICES ASSUME T # {} PROVE FALSE
  OBVIOUS
<1>2. PICK n \in T : \A m \in T : n <= m
  <2>1. T \subseteq Nat
    OBVIOUS
  <2> HIDE DEF T
  <2>2. QED
    BY <1>1, <2>1, LeastNumber
<1>3. n # 0 /\ n \in Nat
  OBVIOUS
<1>4. n - 1 \in Nat /\ n - 1 \notin T
  BY <1>2, <1>3
<1>5. n - 1 \in S
  BY <1>4
<1>6. QED
  BY <1>3, <1>4, <1>5

\* Of N steps, each takes a state back to the one before.
StepsBack(N, X, G) == \A n \in 1 .. N : G[n] \in [X -> X]

\* The states from the last one back, step by step.
StatesFrom(N, X, start, G, f) ==
  /\ f \in [0 .. N -> X] /\ f[N] = start
  /\ \A n \in 0 .. (N - 1) : f[n] = G[n + 1][f[n + 1]]

\* Steps taken back one by one are a function: what a definition by recursion
\* over them denotes.
LEMMA StatesBack ==
  ASSUME NEW N, N \in Nat, NEW X, NEW start, start \in X, NEW G, StepsBack(N, X, G)
  PROVE  \E f : StatesFrom(N, X, start, G, f)
<1>0. \A n \in 1 .. N : G[n] \in [X -> X]
  BY DEF StepsBack
<1> DEFINE Back(m, f) == f[N] = start /\ \A n \in (N - m) .. (N - 1) : f[n] = G[n + 1][f[n + 1]]
           S == { m \in Nat : m <= N => \E f \in [(N - m) .. N -> X] : Back(m, f) }
<1>1. 0 \in S
  <2> DEFINE f == [n \in (N - 0) .. N |-> start]
  <2>1. f \in [(N - 0) .. N -> X] /\ f[N] = start
    OBVIOUS
  <2>2. \A n \in (N - 0) .. (N - 1) : FALSE
    OBVIOUS
  <2> HIDE DEF f
  <2>3. Back(0, f)
    BY <2>1, <2>2
  <2> HIDE DEF Back
  <2>4. QED
    BY <2>1, <2>3
<1>2. ASSUME NEW m \in Nat, m \in S PROVE m + 1 \in S
  <2>1. SUFFICES ASSUME m + 1 <= N
                 PROVE  \E f \in [(N - (m + 1)) .. N -> X] : Back(m + 1, f)
    OBVIOUS
  <2>2. PICK f \in [(N - m) .. N -> X] : Back(m, f)
    BY <1>2, <2>1
  <2> DEFINE first == N - (m + 1)
             g     == [n \in first .. N |-> IF n = first THEN G[n + 1][f[n + 1]] ELSE f[n]]
  <2>3. /\ first \in Nat /\ first < N /\ first + 1 = N - m /\ first + 1 \in (N - m) .. N
        /\ first + 1 \in 1 .. N
    BY <2>1
  <2>4. f[first + 1] \in X
    BY <2>2, <2>3
  <2>5. G[first + 1] \in [X -> X]
    BY <1>0, <2>3
  <2>6. G[first + 1][f[first + 1]] \in X
    BY <2>4, <2>5
  <2>7. \A n \in (N - m) .. N : f[n] \in X
    BY <2>2
  <2>71. f[N] = start /\ \A n \in (N - m) .. (N - 1) : f[n] = G[n + 1][f[n + 1]]
    BY <2>2
  <2> HIDE DEF first, Back
  <2>8. \A n \in first .. N : n # first => n \in (N - m) .. N
    BY <2>3
  <2>9. g \in [first .. N -> X]
    BY <2>6, <2>7, <2>8
  <2>10. /\ g[first] = G[first + 1][f[first + 1]]
         /\ \A n \in (N - m) .. N : g[n] = f[n]
    BY <2>3
  <2> HIDE DEF g
  <2>11. g[N] = start
    BY <2>3, <2>10, <2>71
  <2>12. ASSUME NEW n \in first .. (N - 1) PROVE g[n] = G[n + 1][g[n + 1]]
    <3>1. g[n + 1] = f[n + 1]
      BY <2>3, <2>10
    <3>2. CASE n = first
      BY <2>10, <3>1, <3>2
    <3>3. CASE n # first
      <4>1. n \in (N - m) .. (N - 1)
        BY <2>3, <3>3
      <4>2. g[n] = f[n] /\ f[n] = G[n + 1][f[n + 1]]
        BY <2>10, <2>71, <4>1
      <4> QED
        BY <3>1, <4>2
    <3> QED
      BY <3>2, <3>3
  <2>13. Back(m + 1, g)
    BY <2>11, <2>12 DEF Back, first
  <2> QED
    BY <2>9, <2>13 DEF first
<1>3. \A m \in Nat : m \in S
  <2> HIDE DEF S
  <2> QED
    BY <1>1, <1>2, AllNumbers
<1>4. N \in S
  BY <1>3
<1>5. PICK f \in [(N - N) .. N -> X] : Back(N, f)
  <2> HIDE DEF Back
  <2> QED
    BY <1>4
<1>6. N - N = 0
  OBVIOUS
<1>7. QED
  BY <1>5, <1>6 DEF StatesFrom

\* Two sequences of states agree at the end, and at each state back to k if
\* they agree at the next.
AgreeBack(N, k, f, g) ==
  f[N] = g[N] /\ \A n \in k .. (N - 1) : f[n + 1] = g[n + 1] => f[n] = g[n]

LEMMA SameBack ==
  ASSUME NEW N, N \in Nat, NEW k, k \in 0 .. N, NEW f, NEW g, AgreeBack(N, k, f, g)
  PROVE  f[k] = g[k]
<1>0. f[N] = g[N] /\ \A n \in k .. (N - 1) : f[n + 1] = g[n + 1] => f[n] = g[n]
  BY DEF AgreeBack
<1> DEFINE S == { m \in Nat : m <= N - k => f[N - m] = g[N - m] }
<1>1. 0 \in S
  <2>1. N - 0 = N
    OBVIOUS
  <2> QED
    BY <1>0, <2>1
<1>2. ASSUME NEW m \in Nat, m \in S PROVE m + 1 \in S
  <2>1. SUFFICES ASSUME m + 1 <= N - k PROVE f[N - (m + 1)] = g[N - (m + 1)]
    OBVIOUS
  <2> DEFINE n == N - (m + 1)
  <2>2. n \in k .. (N - 1) /\ n + 1 = N - m /\ m <= N - k
    BY <2>1
  <2>3. f[N - m] = g[N - m]
    BY <1>2, <2>2
  <2> HIDE DEF n
  <2>4. f[n + 1] = g[n + 1]
    BY <2>2, <2>3
  <2>5. f[n] = g[n]
    BY <1>0, <2>2, <2>4
  <2> QED
    BY <2>5 DEF n
<1>3. N - k \in S
  <2>1. N - k \in Nat
    OBVIOUS
  <2> HIDE DEF S
  <2> QED
    BY <1>1, <1>2, <2>1, AllNumbers
<1>4. N - (N - k) = k /\ N - k <= N - k
  OBVIOUS
<1> QED
  BY <1>3, <1>4

\* The states from the first one on, step by step.
StatesOn(N, X, start, G, f) ==
  /\ f \in [0 .. N -> X] /\ f[0] = start
  /\ \A n \in 1 .. N : f[n] = G[n][f[n - 1]]

\* Steps taken forwards are a function too: the steps back in another order.
LEMMA StatesForward ==
  ASSUME NEW N, N \in Nat, NEW X, NEW start, start \in X, NEW G, StepsBack(N, X, G)
  PROVE  \E f : StatesOn(N, X, start, G, f)
<1> DEFINE H == [n \in 1 .. N |-> G[N + 1 - n]]
<1>1. \A n \in 1 .. N : G[n] \in [X -> X]
  BY DEF StepsBack
<1>2. \A n \in 1 .. N : N + 1 - n \in 1 .. N /\ H[n] = G[N + 1 - n]
  OBVIOUS
<1> HIDE DEF H
<1>3. StepsBack(N, X, H)
  BY <1>1, <1>2 DEF StepsBack
<1>4. PICK g : StatesFrom(N, X, start, H, g)
  BY <1>3, StatesBack
<1>5. /\ g \in [0 .. N -> X] /\ g[N] = start
      /\ \A n \in 0 .. (N - 1) : g[n] = H[n + 1][g[n + 1]]
  BY <1>4 DEF StatesFrom
<1> DEFINE f == [n \in 0 .. N |-> g[N - n]]
<1>6. \A n \in 0 .. N : N - n \in 0 .. N /\ f[n] = g[N - n]
  OBVIOUS
<1>7. f \in [0 .. N -> X]
  BY <1>5, <1>6
<1> HIDE DEF f
<1>8. f[0] = start
  BY <1>5, <1>6
<1>9. ASSUME NEW n \in 1 .. N PROVE f[n] = G[n][f[n - 1]]
  <2>1. /\ N - n \in 0 .. (N - 1) /\ n \in 0 .. N /\ n - 1 \in 0 .. N
        /\ N - n + 1 \in 1 .. N /\ N + 1 - (N - n + 1) = n /\ N - (n - 1) = N - n + 1
    OBVIOUS
  <2>2. f[n] = g[N - n] /\ f[n - 1] = g[N - n + 1]
    <3>1. f[n - 1] = g[N - (n - 1)]
      BY <1>6, <2>1
    <3> QED BY <1>6, <2>1, <3>1
  <2>3. g[N - n] = H[N - n + 1][g[N - n + 1]]
    BY <1>5, <2>1
  <2>4. H[N - n + 1] = G[n]
    <3>1. H[N - n + 1] = G[N + 1 - (N - n + 1)]
      BY <1>2, <2>1
    <3> QED BY <2>1, <3>1
  <2> QED BY <2>2, <2>3, <2>4
<1>10. QED
  BY <1>7, <1>8, <1>9 DEF StatesOn
=============================================================================
