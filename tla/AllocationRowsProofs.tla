------------------------ MODULE AllocationRowsProofs ------------------------
(***************************************************************************)
(* The rows implement the quantities: every loop of AllocationRows over    *)
(* allocation rows moves, in sum, what the call of Reservations promises.  *)
(*                                                                         *)
(* What has to be known of the rows for it, beside their types: they are   *)
(* rows of reservations that exist, reservation ids are given out in       *)
(* order, and the active incoming rows are in the order of their           *)
(* reservations, so that converting them in the order of the rows' ids     *)
(* serves the oldest reservation first.  That is RowsInv.                  *)
(*                                                                         *)
(* Weights, Sums and the like name what the sums are made of; a predicate  *)
(* of hypotheses (Drainable, AddsTo, TakesFrom) is one the provers match   *)
(* whole.                                                                  *)
(***************************************************************************)
EXTENDS TransactionUndo, QuantityLemmas, SequenceTheorems

-----------------------------------------------------------------------------
(* Sequences of rows.                                                      *)

\* Every element of S is in the sequence once.
LEMMA InSequenceBijection ==
  ASSUME NEW S, IsFiniteSet(S), NEW before, StrictlyOrders(before, S)
  PROVE  /\ Cardinality(S) \in Nat
         /\ InSequence(S, before) \in Bijection(1 .. Cardinality(S), S)
<1> DEFINE N == Cardinality(S)
           P(x) == { y \in S : <<y, x>> \in before }
           rank == [x \in S |-> Cardinality(P(x)) + 1]
           s == InSequence(S, before)
<1>1. N \in Nat
  BY FS_CardinalityType
<1>2. ASSUME NEW x \in S
      PROVE  /\ IsFiniteSet(P(x)) /\ Cardinality(P(x)) \in Nat
             /\ Cardinality(P(x)) < N
  <2>1. P(x) \in SUBSET S /\ x \notin P(x)
    BY DEF StrictlyOrders
  <2> HIDE DEF P
  <2>2. IsFiniteSet(P(x)) /\ Cardinality(P(x)) <= N /\ (N = Cardinality(P(x)) => S = P(x))
    BY <2>1, FS_Subset
  <2>3. QED
    BY <1>1, <2>1, <2>2, FS_CardinalityType
<1>3. ASSUME NEW x \in S, NEW y \in S, <<x, y>> \in before
      PROVE  Cardinality(P(x)) < Cardinality(P(y))
  <2>1. P(x) \in SUBSET P(y) /\ P(x) # P(y)
    BY <1>3 DEF StrictlyOrders
  <2> HIDE DEF P
  <2>2. /\ Cardinality(P(x)) <= Cardinality(P(y))
        /\ Cardinality(P(y)) = Cardinality(P(x)) => P(y) = P(x)
    BY <1>2, <2>1, FS_Subset
  <2>3. QED
    BY <1>2, <2>1, <2>2
<1>4. rank \in [S -> 1 .. N]
  <2> HIDE DEF P
  <2> QED BY <1>1, <1>2
<1>5. ASSUME NEW x \in S, NEW y \in S, rank[x] = rank[y] PROVE x = y
  <2>1. Cardinality(P(x)) = Cardinality(P(y))
    <3> HIDE DEF P
    <3> QED BY <1>2, <1>5
  <2>2. QED
    <3> HIDE DEF P
    <3>1. <<x, y>> \notin before /\ <<y, x>> \notin before
      BY <1>2, <1>3, <2>1
    <3>2. QED
      BY <3>1 DEF StrictlyOrders
<1>6. \A n \in 1 .. N : \E x \in S : rank[x] = n
  <2>1. rank \in Injection(S, 1 .. N)
    <3> HIDE DEF rank
    <3> QED BY <1>4, <1>5, Fun_IsInj
  <2>2. IsFiniteSet(1 .. N) /\ Cardinality(1 .. N) = N
    BY <1>1, FS_Interval
  <2>3. rank \in Surjection(S, 1 .. N)
    <3> HIDE DEF rank
    <3> QED BY <2>1, <2>2, FS_Injection
  <2>4. QED
    <3> HIDE DEF rank
    <3> QED BY <2>3, Fun_SurjectionProperties
<1>7. ASSUME NEW n \in 1 .. N PROVE s[n] \in S /\ rank[s[n]] = n
  <2>1. s[n] = CHOOSE x \in S : Cardinality(P(x)) = n - 1
    BY DEF InSequence
  <2>2. PICK x \in S : rank[x] = n
    BY <1>6
  <2>3. Cardinality(P(x)) = n - 1
    <3> HIDE DEF P
    <3> QED BY <1>1, <1>2, <2>2
  <2> HIDE DEF s, P
  <2>4. s[n] \in S /\ Cardinality(P(s[n])) = n - 1
    BY <2>1, <2>3
  <2>5. QED
    BY <1>1, <1>2, <2>4
<1>8. s \in [1 .. N -> S]
  <2> DEFINE nth(n) == CHOOSE x \in S : Cardinality({ y \in S : <<y, x>> \in before }) = n - 1
             t == [n \in 1 .. N |-> nth(n)]
  <2>1. s = t
    BY DEF InSequence
  <2>2. DOMAIN t = 1 .. N /\ t = [n \in DOMAIN t |-> t[n]]
    <3> HIDE DEF nth
    <3> QED OBVIOUS
  <2>3. \A n \in 1 .. N : t[n] \in S
    <3> HIDE DEF s, t
    <3> QED BY <1>7, <2>1
  <2>4. QED
    <3> HIDE DEF s, t
    <3> QED BY <2>1, <2>2, <2>3
<1>9. \A m, n \in 1 .. N : s[m] = s[n] => m = n
  <2> HIDE DEF s, rank
  <2> QED BY <1>7
<1>10. ASSUME NEW x \in S PROVE \E n \in 1 .. N : s[n] = x
  <2>1. rank[x] \in 1 .. N
    <3> HIDE DEF rank
    <3> QED BY <1>4
  <2>2. s[rank[x]] = x
    <3> HIDE DEF rank, s
    <3> QED BY <1>5, <1>7, <2>1
  <2>3. QED
    BY <2>1, <2>2
<1>11. s \in Bijection(1 .. N, S)
  <2> HIDE DEF s
  <2> QED BY <1>8, <1>9, <1>10, Fun_IsBij
<1>12. QED
  BY <1>1, <1>11

\* Ids are ordered.
LEMMA IdsInOrder ==
  ASSUME NEW X, NEW rows \in Seq(X), NEW S, S \subseteq DOMAIN rows
  PROVE  StrictlyOrders(IdOrder(rows), S)
BY DEF StrictlyOrders, IdOrder

\* What a row counts for r at a place, and whether it is one of a place.
Weights(rows, r, place) ==
  [i \in DOMAIN rows |-> IF /\ rows[i].status = "ACTIVE"
                            /\ rows[i].reservation = r
                            /\ rows[i].place = place
                         THEN rows[i].quantity ELSE 0]

\* Weights are natural numbers.
LEMMA WeightsType ==
  ASSUME NEW P, NEW T, NEW rows \in Seq(Row(P, T)), NEW r, NEW p
  PROVE  /\ Weights(rows, r, p) \in Seq(Nat)
         /\ Weights(rows, r, p) \in [DOMAIN rows -> Nat]
         /\ IsFiniteSet(DOMAIN rows)
<1>1. DOMAIN rows = 1 .. Len(rows) /\ Len(rows) \in Nat
  OBVIOUS
<1>2. \A i \in DOMAIN rows : rows[i].quantity \in Nat
  <2>1. \A i \in DOMAIN rows : rows[i] \in Row(P, T)
    BY <1>1
  <2>2. QED
    BY <2>1 DEF Row
<1>3. Weights(rows, r, p) \in [DOMAIN rows -> Nat]
  BY <1>2 DEF Weights
<1>4. Weights(rows, r, p) \in Seq(Nat)
  BY <1>1, <1>3
<1>5. QED
  BY <1>1, <1>3, <1>4, FS_Interval

\* The active quantity is the total of the weights.
LEMMA ActiveIsWeights ==
  ASSUME NEW P, NEW T, NEW rows \in Seq(Row(P, T)), NEW r, NEW p
  PROVE  /\ ActiveQuantity(rows, r, p) = Total(Weights(rows, r, p))
         /\ ActiveQuantity(rows, r, p) \in Nat
<1> DEFINE D == { j \in DOMAIN rows : /\ rows[j].status = "ACTIVE"
                                      /\ rows[j].reservation = r
                                      /\ rows[j].place = p }
           w == Weights(rows, r, p)
<1>1. w \in [DOMAIN rows -> Nat] /\ IsFiniteSet(DOMAIN rows)
  BY WeightsType
<1>2. /\ \A i \in DOMAIN rows \ D : w[i] = 0
      /\ \A i \in D : w[i] = rows[i].quantity
      /\ D \in SUBSET (DOMAIN rows)
  BY DEF Weights
<1>3. [i \in D |-> rows[i].quantity] = [i \in D |-> w[i]]
  BY <1>2
<1>4. ActiveQuantity(rows, r, p) = Total([i \in D |-> rows[i].quantity])
  BY DEF ActiveQuantity
<1> HIDE DEF D, w
<1>5. Total([i \in D |-> w[i]]) = Total(w)
  BY <1>1, <1>2, TotalRestricted
<1>6. Total(w) \in Nat
  BY <1>1, TotalType
<1>7. QED
  BY <1>3, <1>4, <1>5, <1>6 DEF w

\* A sequence that has the elements of two.
LEMMA IsConcat ==
  ASSUME NEW u \in Seq(Nat), NEW v \in Seq(Nat), NEW w \in Seq(Nat),
         Len(w) = Len(u) + Len(v),
         \A i \in 1 .. Len(w) : w[i] = IF i <= Len(u) THEN u[i] ELSE v[i - Len(u)]
  PROVE  w = u \o v
<1> DEFINE x == u \o v
<1>1. x \in Seq(Nat) /\ Len(x) = Len(u) + Len(v)
  BY ConcatProperties
<1>2. \A i \in 1 .. Len(u) + Len(v) : x[i] = IF i <= Len(u) THEN u[i] ELSE v[i - Len(u)]
  BY ConcatProperties
<1> HIDE DEF x
<1>3. w = x
  BY <1>1, <1>2, SeqEqual
<1>4. QED
  BY <1>3 DEF x

\* Rows put after others add what they have.
LEMMA ActiveConcat ==
  ASSUME NEW P, NEW T, NEW a \in Seq(Row(P, T)), NEW b \in Seq(Row(P, T)), NEW r, NEW p
  PROVE  /\ a \o b \in Seq(Row(P, T))
         /\ ActiveQuantity(a \o b, r, p) = ActiveQuantity(a, r, p) + ActiveQuantity(b, r, p)
<1>1. a \o b \in Seq(Row(P, T))
  OBVIOUS
<1>2. Weights(a \o b, r, p) = Weights(a, r, p) \o Weights(b, r, p)
  <2> DEFINE u == Weights(a, r, p)
             v == Weights(b, r, p)
             w == Weights(a \o b, r, p)
  <2>1. u \in Seq(Nat) /\ v \in Seq(Nat) /\ w \in Seq(Nat)
    BY <1>1, WeightsType
  <2>2. Len(u) = Len(a) /\ Len(v) = Len(b) /\ Len(w) = Len(a) + Len(b)
    BY <1>1 DEF Weights
  <2>3. ASSUME NEW i \in 1 .. (Len(a) + Len(b))
        PROVE  w[i] = IF i <= Len(a) THEN u[i] ELSE v[i - Len(a)]
    BY DEF Weights
  <2> HIDE DEF u, v, w
  <2>4. w = u \o v
    <3>1. Len(w) = Len(u) + Len(v)
      BY <2>2
    <3>2. \A i \in 1 .. Len(w) : w[i] = IF i <= Len(u) THEN u[i] ELSE v[i - Len(u)]
      BY <2>2, <2>3
    <3>3. QED
      BY <2>1, <3>1, <3>2, IsConcat
  <2>5. QED
    BY <2>4 DEF u, v, w
<1>3. Total(Weights(a, r, p) \o Weights(b, r, p))
        = Total(Weights(a, r, p)) + Total(Weights(b, r, p))
  BY WeightsType, TotalConcat
<1>4. QED
  BY <1>1, <1>2, <1>3, ActiveIsWeights

\* New rows count what they were asked to, each place once.
LEMMA NewRowsActive ==
  ASSUME NEW P, IsFiniteSet(P), NEW T, "ACTIVE" \in T, NEW q \in [P -> Nat],
         NEW r \in Reservation, MaxLog \in Nat,
         NEW before, StrictlyOrders(before, { p \in P : q[p] > 0 })
  PROVE  /\ NewRows(r, q, before) \in Seq(Row(P, T))
         /\ \A p \in P : ActiveQuantity(NewRows(r, q, before), r, p) = q[p]
         /\ \A x \in Reservation \ {r}, p \in P :
              ActiveQuantity(NewRows(r, q, before), x, p) = 0
         /\ \A i \in DOMAIN NewRows(r, q, before) :
              NewRows(r, q, before)[i].reservation = r
<1> DEFINE S == { p \in P : q[p] > 0 }
           N == Cardinality(S)
           s == InSequence(S, before)
           rows == NewRows(r, q, before)
<1>1. IsFiniteSet(S) /\ S \in SUBSET P
  BY FS_Subset
<1>2. N \in Nat /\ s \in Bijection(1 .. N, S)
  BY <1>1, InSequenceBijection
<1>3. /\ s \in [1 .. N -> S]
      /\ \A i, j \in 1 .. N : s[i] = s[j] => i = j
      /\ \A p \in S : \E i \in 1 .. N : s[i] = p
  <2> HIDE DEF s, N, S
  <2> QED BY <1>2, Fun_BijectionProperties
<1>4. rows = [n \in DOMAIN s |-> NewRow(r, s[n], q[s[n]])]
  BY DEF NewRows
<1> HIDE DEF s, N
<1>5. \A n \in 1 .. N : s[n] \in P /\ q[s[n]] \in Nat
  BY <1>3
<1>6. rows = [n \in 1 .. N |-> NewRow(r, s[n], q[s[n]])]
  BY <1>3, <1>4
<1>7. \A n \in 1 .. N : rows[n] = NewRow(r, s[n], q[s[n]])
  BY <1>6
<1>8. \A n \in 1 .. N : NewRow(r, s[n], q[s[n]]) \in Row(P, T)
  BY <1>5 DEF NewRow, Row, NoArrival
<1>9. rows \in Seq(Row(P, T)) /\ DOMAIN rows = 1 .. N
  BY <1>2, <1>6, <1>8
<1> HIDE DEF rows
<1>10. \A x, p : \A n \in 1 .. N :
         Weights(rows, x, p)[n] = IF x = r /\ s[n] = p THEN q[s[n]] ELSE 0
  BY <1>7, <1>9 DEF Weights, NewRow
<1>11. ASSUME NEW n \in 1 .. N PROVE rows[n].reservation = r
  <2>1. rows[n] = NewRow(r, s[n], q[s[n]])
    BY <1>7
  <2>2. QED
    BY <2>1 DEF NewRow
<1>12. ASSUME NEW p \in P PROVE ActiveQuantity(rows, r, p) = q[p]
  <2> DEFINE w == Weights(rows, r, p)
  <2>1. w \in [1 .. N -> Nat] /\ ActiveQuantity(rows, r, p) = Total(w) /\ IsFiniteSet(1 .. N)
    BY <1>2, <1>9, WeightsType, ActiveIsWeights, FS_Interval
  <2>2. \A n \in 1 .. N : w[n] = IF s[n] = p THEN q[s[n]] ELSE 0
    BY <1>10
  <2> HIDE DEF w
  <2>3. CASE p \in S
    <3>1. PICK n \in 1 .. N : s[n] = p
      BY <1>3, <2>3
    <3>2. w[n] = q[p] /\ \A m \in 1 .. N : m # n => w[m] = 0
      BY <1>3, <2>2, <3>1
    <3>3. QED
      BY <2>1, <3>2, TotalSingle
  <2>4. CASE p \notin S
    <3>1. \A n \in 1 .. N : w[n] = 0
      BY <1>3, <2>2, <2>4
    <3>2. Total(w) = 0
      BY <2>1, <3>1, TotalZero
    <3>3. q[p] = 0
      BY <2>4
    <3>4. QED
      BY <2>1, <3>2, <3>3
  <2>5. QED
    BY <2>3, <2>4
<1>13. ASSUME NEW x \in Reservation \ {r}, NEW p \in P PROVE ActiveQuantity(rows, x, p) = 0
  <2> DEFINE w == Weights(rows, x, p)
  <2>1. w \in [1 .. N -> Nat] /\ ActiveQuantity(rows, x, p) = Total(w) /\ IsFiniteSet(1 .. N)
    BY <1>2, <1>9, WeightsType, ActiveIsWeights, FS_Interval
  <2>2. \A n \in 1 .. N : w[n] = 0
    BY <1>10
  <2> HIDE DEF w
  <2>3. QED
    BY <2>1, <2>2, TotalZero
<1>14. QED
  BY <1>9, <1>11, <1>12, <1>13 DEF rows

\* A single new row.
LEMMA NewRowActive ==
  ASSUME NEW P, NEW T, "ACTIVE" \in T, NEW r \in Reservation, NEW p \in P, NEW n \in Nat,
         MaxLog \in Nat
  PROVE  /\ <<NewRow(r, p, n)>> \in Seq(Row(P, T))
         /\ \A x \in Reservation, y \in P :
              ActiveQuantity(<<NewRow(r, p, n)>>, x, y) = IF x = r /\ y = p THEN n ELSE 0
<1> DEFINE row == NewRow(r, p, n)
           rows == <<row>>
<1>1. row \in Row(P, T) /\ row.status = "ACTIVE" /\ row.reservation = r /\ row.place = p
      /\ row.quantity = n
  BY DEF NewRow, Row, NoArrival
<1> HIDE DEF row
<1>2. rows \in Seq(Row(P, T)) /\ DOMAIN rows = {1} /\ rows[1] = row
  BY <1>1
<1> HIDE DEF rows
<1>3. ASSUME NEW x \in Reservation, NEW y \in P
      PROVE  ActiveQuantity(rows, x, y) = IF x = r /\ y = p THEN n ELSE 0
  <2> DEFINE w == Weights(rows, x, y)
  <2>1. w \in [{1} -> Nat] /\ ActiveQuantity(rows, x, y) = Total(w) /\ IsFiniteSet({1})
    BY <1>2, WeightsType, ActiveIsWeights, FS_Singleton
  <2>2. w[1] = IF x = r /\ y = p THEN n ELSE 0
    BY <1>1, <1>2 DEF Weights
  <2> HIDE DEF w
  <2>3. \A i \in {1} : i # 1 => w[i] = 0
    OBVIOUS
  <2>4. 1 \in {1}
    OBVIOUS
  <2>5. Total(w) = w[1]
    BY <2>1, <2>3, <2>4, TotalSingle
  <2>6. QED
    BY <2>1, <2>2, <2>5
<1>4. QED
  BY <1>2, <1>3 DEF rows, row

\* What a row counts for r, and how d is spread over places.
ActiveQuantities(rows, r) ==
  [i \in DOMAIN rows |-> IF i \in ActiveOf(rows, r) THEN rows[i].quantity ELSE 0]

AtPlace(rows, p) == { i \in DOMAIN rows : rows[i].place = p }

AtPlaces(rows, d, P) == [p \in P |-> Total(Part(d, AtPlace(rows, p)))]

\* The fields of a row in a table.
LEMMA RowFields ==
  ASSUME NEW P, NEW T, NEW rows \in Seq(Row(P, T))
  PROVE  /\ DOMAIN rows = 1 .. Len(rows) /\ Len(rows) \in Nat /\ IsFiniteSet(DOMAIN rows)
         /\ \A i \in DOMAIN rows :
              /\ rows[i] \in Row(P, T) /\ rows[i].reservation \in Reservation
              /\ rows[i].place \in P /\ rows[i].quantity \in Nat /\ rows[i].status \in T
<1>1. DOMAIN rows = 1 .. Len(rows) /\ Len(rows) \in Nat
  OBVIOUS
<1>2. \A i \in DOMAIN rows : rows[i] \in Row(P, T)
  BY <1>1
<1>3. ASSUME NEW i \in DOMAIN rows
      PROVE  /\ rows[i].reservation \in Reservation /\ rows[i].place \in P
             /\ rows[i].quantity \in Nat /\ rows[i].status \in T
  <2>1. rows[i] \in Row(P, T)
    BY <1>2
  <2>2. QED
    BY <2>1 DEF Row
<1>4. IsFiniteSet(DOMAIN rows)
  BY <1>1, FS_Interval
<1>5. QED
  BY <1>1, <1>2, <1>3, <1>4

\* The quantities of r, place by place, are those of its active rows.
LEMMA ActiveByPlace ==
  ASSUME NEW P, IsFiniteSet(P), NEW T, NEW rows \in Seq(Row(P, T)), NEW r
  PROVE  LET a == [p \in P |-> ActiveQuantity(rows, r, p)]
         IN  /\ a \in [P -> Nat]
             /\ ActiveQuantities(rows, r) \in [DOMAIN rows -> Nat]
             /\ Total(ActiveQuantities(rows, r)) = Total(a)
             /\ a = AtPlaces(rows, ActiveQuantities(rows, r), P)
<1> DEFINE f == ActiveQuantities(rows, r)
           g == [i \in DOMAIN rows |-> rows[i].place]
           a == [p \in P |-> ActiveQuantity(rows, r, p)]
           b == Grouped(f, g, P)
<1>1. IsFiniteSet(DOMAIN rows)
  BY RowFields
<1>2. f \in [DOMAIN rows -> Nat] /\ g \in [DOMAIN rows -> P]
  BY RowFields DEF ActiveQuantities
<1>3. ASSUME NEW p \in P
      PROVE  /\ Total(Part(f, Where(g, p))) = ActiveQuantity(rows, r, p)
             /\ Where(g, p) = AtPlace(rows, p)
             /\ ActiveQuantity(rows, r, p) \in Nat
  <2>1. Where(g, p) = AtPlace(rows, p)
    BY DEF Where, AtPlace
  <2>2. Part(f, AtPlace(rows, p)) = Weights(rows, r, p)
    BY DEF Part, Weights, ActiveQuantities, ActiveOf, AtPlace
  <2>3. QED
    BY <2>1, <2>2, ActiveIsWeights
<1>4. a = b
  <2> HIDE DEF f, g
  <2> QED BY <1>3 DEF Grouped
<1>5. Total(b) = Total(f)
  <2> HIDE DEF f, g
  <2> QED BY <1>1, <1>2, TotalGrouped
<1>6. a = AtPlaces(rows, f, P)
  <2> HIDE DEF f, g
  <2> QED BY <1>3 DEF AtPlaces
<1>7. a \in [P -> Nat]
  BY <1>3
<1>8. QED
  BY <1>2, <1>4, <1>5, <1>6, <1>7

\* What a loop over the rows with certain ids draws.
LEMMA DrawnRowsFacts ==
  ASSUME NEW P, NEW T, NEW rows \in Seq(Row(P, T)), NEW n \in Nat,
         NEW ids \in SUBSET (DOMAIN rows)
  PROVE  LET d == DrawnRows(rows, n, ids)
             f == [i \in DOMAIN rows |-> IF i \in ids THEN rows[i].quantity ELSE 0]
         IN  /\ d \in [DOMAIN rows -> Nat] /\ f \in [DOMAIN rows -> Nat]
             /\ \A i \in DOMAIN rows : /\ d[i] <= f[i] /\ d[i] <= rows[i].quantity
                                       /\ d[i] > 0 => i \in ids
             /\ Total(d) = Smaller(n, Total(f))
             /\ \A i, j \in DOMAIN rows : i < j /\ d[j] > 0 => d[i] = f[i]
<1> DEFINE D == DOMAIN rows
           f == [i \in D |-> IF i \in ids THEN rows[i].quantity ELSE 0]
           before == IdOrder(rows)
           d == InOrder(f, n, before)
<1>1. \A i \in D : rows[i].quantity \in Nat
  BY RowFields
<1>2. IsFiniteSet(D) /\ f \in [D -> Nat]
  BY <1>1, RowFields
<1>3. StrictlyOrders(before, { i \in D : f[i] > 0 })
  BY IdsInOrder
<1>4. \A i \in D : f[i] = IF i \in ids THEN rows[i].quantity ELSE 0
  OBVIOUS
<1>5. d = DrawnRows(rows, n, ids)
  BY DEF DrawnRows
<1> HIDE DEF f, before
<1>6. /\ d \in [D -> Nat]
      /\ \A i \in D : d[i] <= f[i] /\ d[i] <= n
      /\ Total(d) = Smaller(n, Total(f))
      /\ \A i, j \in D : <<i, j>> \in before /\ d[j] > 0 => d[i] = f[i]
  <2> HIDE DEF D
  <2> QED BY <1>2, <1>3, InOrderDraw
<1> HIDE DEF d
<1>7. \A i, j \in D : i < j => <<i, j>> \in before
  BY DEF IdOrder, before
<1>8. ASSUME NEW i \in D PROVE d[i] <= rows[i].quantity /\ (d[i] > 0 => i \in ids)
  <2> HIDE DEF D
  <2> QED BY <1>1, <1>2, <1>4, <1>6
<1>9. QED
  <2>1. f = [i \in DOMAIN rows |-> IF i \in ids THEN rows[i].quantity ELSE 0]
    BY DEF f
  <2>2. QED
    BY <1>2, <1>5, <1>6, <1>7, <1>8, <2>1

\* The rows of r at a place.
RowsOf(rows, r, p) == { i \in DOMAIN rows : rows[i].reservation = r /\ rows[i].place = p }

\* A row with another quantity, and what a drain leaves at the place of a row.
Sized(row, n) == [row EXCEPT !.quantity = n]

Left(rows, d, ended, i) ==
  IF d[i] = 0 THEN rows[i]
  ELSE IF d[i] = rows[i].quantity THEN Sized(ended[i], d[i])
  ELSE Sized(rows[i], rows[i].quantity - d[i])

\* A row of another size is a row, otherwise the same.
LEMMA SizedFields ==
  ASSUME NEW P, NEW T, NEW row, row \in Row(P, T), NEW n, n \in Nat
  PROVE  /\ Sized(row, n) \in Row(P, T)
         /\ Sized(row, n).quantity = n /\ Sized(row, n).status = row.status
         /\ Sized(row, n).reservation = row.reservation /\ Sized(row, n).place = row.place
         /\ Sized(row, n).tx = row.tx /\ Sized(row, n).arrival = row.arrival
BY DEF Sized, Row

\* Whatever quantity a row is given, it is otherwise the row it was.
LEMMA SizedKeeps ==
  ASSUME NEW P, NEW T, NEW row, row \in Row(P, T), NEW n
  PROVE  /\ Sized(row, n).status = row.status
         /\ Sized(row, n).reservation = row.reservation
BY DEF Sized, Row

\* A drain takes what was drawn from the active quantities, and nothing else
\* of them: what ended does not count.
LEMMA DrainActive ==
  ASSUME NEW P, NEW T, NEW rows \in Seq(Row(P, T)), NEW d \in [DOMAIN rows -> Nat],
         NEW ended \in [DOMAIN rows -> Row(P, T)],
         \A i \in DOMAIN rows : /\ d[i] <= rows[i].quantity
                                /\ d[i] > 0 => rows[i].status = "ACTIVE"
                                /\ ended[i].status # "ACTIVE"
  PROVE  /\ Drain(rows, d, ended) \in Seq(Row(P, T))
         /\ DOMAIN rows \subseteq DOMAIN Drain(rows, d, ended)
         /\ \A i \in DOMAIN rows :
              Drain(rows, d, ended)[i] = Left(rows, d, ended, i)
         /\ \A j \in DOMAIN Drain(rows, d, ended) \ DOMAIN rows :
              \E i \in DOMAIN rows : /\ d[i] > 0
                                     /\ Drain(rows, d, ended)[j] = Sized(ended[i], d[i])
         /\ \A r, p : ActiveQuantity(Drain(rows, d, ended), r, p)
                        + Total(Part(d, RowsOf(rows, r, p))) = ActiveQuantity(rows, r, p)
<1> DEFINE D == DOMAIN rows
           part(i) == [ended[i] EXCEPT !.quantity = d[i]]
           S == { i \in D : 0 < d[i] /\ d[i] < rows[i].quantity }
           split == InSequence(S, IdOrder(rows))
           new(i) == IF d[i] = 0 THEN rows[i]
                     ELSE IF d[i] = rows[i].quantity THEN part(i)
                     ELSE [rows[i] EXCEPT !.quantity = @ - d[i]]
           head == [i \in D |-> new(i)]
           tail == [n \in DOMAIN split |-> part(split[n])]
           N == Cardinality(S)
<1>1. Drain(rows, d, ended) = head \o tail
  BY DEF Drain
<1>2. /\ D = 1 .. Len(rows) /\ Len(rows) \in Nat /\ IsFiniteSet(D)
      /\ \A i \in D : rows[i] \in Row(P, T) /\ rows[i].quantity \in Nat
  BY RowFields
<1>3. N \in Nat /\ split \in [1 .. N -> S]
  <2>1. IsFiniteSet(S) /\ StrictlyOrders(IdOrder(rows), S)
    BY <1>2, FS_Subset, IdsInOrder
  <2> HIDE DEF S
  <2>2. QED
    BY <2>1, InSequenceBijection, Fun_BijectionProperties
<1>4. \A i \in D : part(i) \in Row(P, T) /\ part(i).status # "ACTIVE"
  BY DEF Row
<1>5. ASSUME NEW i \in D PROVE new(i) \in Row(P, T)
  <2>1. rows[i] \in Row(P, T) /\ part(i) \in Row(P, T)
    BY <1>2, <1>4
  <2>2. rows[i].quantity \in Nat /\ d[i] \in Nat /\ d[i] <= rows[i].quantity
    BY <1>2
  <2>3. [rows[i] EXCEPT !.quantity = @ - d[i]] \in Row(P, T)
    <3>1. rows[i].quantity - d[i] \in Nat
      BY <2>2
    <3> HIDE DEF part
    <3>2. \A k \in Nat : [rows[i] EXCEPT !.quantity = k] \in Row(P, T)
      BY <2>1 DEF Row
    <3>3. QED
      BY <3>1, <3>2
  <2> HIDE DEF part
  <2>4. QED
    BY <2>1, <2>3
<1>6. head \in Seq(Row(P, T)) /\ Len(head) = Len(rows)
  <2> HIDE DEF new
  <2> QED BY <1>2, <1>5
<1>7. \A n \in 1 .. N : split[n] \in D /\ d[split[n]] > 0
  <2>1. \A i \in S : i \in D /\ d[i] > 0
    BY <1>2
  <2> HIDE DEF S, N, split
  <2>2. QED
    BY <1>3, <2>1
<1>8. tail \in Seq(Row(P, T)) /\ DOMAIN tail = 1 .. N
  <2> HIDE DEF part, split, N, S
  <2> QED BY <1>3, <1>4, <1>7
<1>9. \A n \in 1 .. N : tail[n] = part(split[n])
  <2> HIDE DEF part, split, N, S
  <2> QED BY <1>3
<1>10. \A n \in 1 .. N : tail[n].status # "ACTIVE"
  <2> HIDE DEF part, split, N, S, tail
  <2> QED BY <1>4, <1>7, <1>9
<1>11. \A i \in D : head[i] = new(i)
  <2> HIDE DEF new
  <2> QED OBVIOUS
<1>12. ASSUME NEW r, NEW p
       PROVE  ActiveQuantity(head, r, p) + Total(Part(d, RowsOf(rows, r, p)))
                = ActiveQuantity(rows, r, p)
  <2> DEFINE w == Weights(rows, r, p)
             v == Weights(head, r, p)
             c == Part(d, RowsOf(rows, r, p))
  <2>1. w \in [D -> Nat] /\ ActiveQuantity(rows, r, p) = Total(w)
    BY WeightsType, ActiveIsWeights
  <2>2. v \in [D -> Nat] /\ ActiveQuantity(head, r, p) = Total(v)
    <3> HIDE DEF head
    <3>1. DOMAIN head = D
      BY <1>2, <1>6
    <3>2. QED
      BY <1>6, <3>1, WeightsType, ActiveIsWeights
  <2>3. c \in [D -> Nat] /\ \A i \in D : c[i] = IF i \in RowsOf(rows, r, p) THEN d[i] ELSE 0
    BY PartType
  <2>4. ASSUME NEW i \in D PROVE c[i] <= w[i] /\ v[i] = w[i] - c[i]
    <3>1. head[i] = new(i) /\ DOMAIN head = D
      BY <1>11
    <3>2. /\ rows[i].quantity \in Nat /\ d[i] \in Nat /\ d[i] <= rows[i].quantity
          /\ d[i] > 0 => rows[i].status = "ACTIVE"
          /\ part(i).status # "ACTIVE"
          /\ rows[i] \in Row(P, T)
      BY <1>2, <1>4
    <3> HIDE DEF head, c, part
    <3>3. v[i] = IF new(i).status = "ACTIVE" /\ new(i).reservation = r /\ new(i).place = p
                 THEN new(i).quantity ELSE 0
      BY <3>1 DEF Weights
    <3>4. w[i] = IF rows[i].status = "ACTIVE" /\ rows[i].reservation = r /\ rows[i].place = p
                 THEN rows[i].quantity ELSE 0
      BY DEF Weights
    <3>5. c[i] = IF rows[i].reservation = r /\ rows[i].place = p THEN d[i] ELSE 0
      BY <2>3 DEF RowsOf
    <3> HIDE DEF v, w
    <3>6. CASE d[i] = 0
      BY <3>2, <3>3, <3>4, <3>5, <3>6
    <3>7. CASE d[i] # 0 /\ d[i] = rows[i].quantity
      BY <3>2, <3>3, <3>4, <3>5, <3>7
    <3>8. CASE d[i] # 0 /\ d[i] # rows[i].quantity
      <4>1. new(i) = [rows[i] EXCEPT !.quantity = @ - d[i]]
        BY <3>8
      <4>2. /\ new(i).status = rows[i].status /\ new(i).reservation = rows[i].reservation
            /\ new(i).place = rows[i].place /\ new(i).quantity = rows[i].quantity - d[i]
        BY <3>2, <4>1 DEF Row
      <4> HIDE DEF new
      <4>3. QED
        BY <3>2, <3>3, <3>4, <3>5, <3>8, <4>2
    <3>9. QED
      BY <3>6, <3>7, <3>8
  <2> HIDE DEF v, w, c
  <2>5. v = Minus(w, c)
    BY <2>1, <2>2, <2>4 DEF Minus
  <2>6. Total(Minus(w, c)) + Total(c) = Total(w)
    BY <1>2, <2>1, <2>3, <2>4, TotalMinus
  <2>7. QED
    BY <2>1, <2>2, <2>5, <2>6 DEF c
<1>13. ASSUME NEW r, NEW p PROVE ActiveQuantity(tail, r, p) = 0
  <2> DEFINE w == Weights(tail, r, p)
  <2>1. w \in [1 .. N -> Nat] /\ ActiveQuantity(tail, r, p) = Total(w) /\ IsFiniteSet(1 .. N)
    <3> HIDE DEF tail, N
    <3> QED BY <1>3, <1>8, WeightsType, ActiveIsWeights, FS_Interval
  <2>2. \A n \in 1 .. N : w[n] = 0
    <3> HIDE DEF tail, N
    <3> QED BY <1>8, <1>10 DEF Weights
  <2> HIDE DEF w, N
  <2>3. QED
    BY <2>1, <2>2, TotalZero
<1> DEFINE all == head \o tail
<1> HIDE DEF head, tail, N
<1>14. /\ all \in Seq(Row(P, T)) /\ Len(all) = Len(rows) + Len(tail)
       /\ \A i \in 1 .. Len(rows) + Len(tail) :
            all[i] = IF i <= Len(rows) THEN head[i] ELSE tail[i - Len(rows)]
  <2>1. all \in Seq(Row(P, T)) /\ Len(all) = Len(head) + Len(tail)
    BY <1>6, <1>8, ConcatProperties
  <2>2. \A i \in 1 .. Len(head) + Len(tail) :
          all[i] = IF i <= Len(head) THEN head[i] ELSE tail[i - Len(head)]
    BY <1>6, <1>8, ConcatProperties
  <2> HIDE DEF all
  <2>3. QED
    BY <1>6, <2>1, <2>2
<1>15. Len(tail) = N /\ DOMAIN all = 1 .. (Len(rows) + N)
  <2>1. Len(tail) = N
    BY <1>3, <1>8
  <2> HIDE DEF all
  <2>2. QED
    BY <1>14, <2>1
<1>16. D \subseteq DOMAIN all /\ \A i \in D : all[i] = new(i)
  <2>1. \A i \in D : i \in 1 .. (Len(rows) + N) /\ i <= Len(rows)
    BY <1>2, <1>3
  <2> HIDE DEF all, new, D
  <2> QED BY <1>11, <1>14, <1>15, <2>1
<1>17. ASSUME NEW j \in DOMAIN all \ D
       PROVE  \E i \in D : d[i] > 0 /\ all[j] = part(i)
  <2> HIDE DEF all, part
  <2>1. j - Len(rows) \in 1 .. N /\ all[j] = tail[j - Len(rows)]
    BY <1>2, <1>3, <1>14, <1>15
  <2>2. QED
    BY <1>7, <1>9, <2>1
<1>18. ASSUME NEW r, NEW p
       PROVE  ActiveQuantity(all, r, p) + Total(Part(d, RowsOf(rows, r, p)))
                = ActiveQuantity(rows, r, p)
  <2>1. ActiveQuantity(all, r, p) = ActiveQuantity(head, r, p) + ActiveQuantity(tail, r, p)
    BY <1>6, <1>8, ActiveConcat
  <2>2. ActiveQuantity(head, r, p) \in Nat
    BY <1>6, ActiveIsWeights
  <2> HIDE DEF all
  <2>3. QED
    BY <1>12, <1>13, <2>1, <2>2
<1>19. QED
  <2> HIDE DEF all
  <2>1. Drain(rows, d, ended) = all
    BY <1>1 DEF all
  <2>2. \A i \in D : new(i) = Left(rows, d, ended, i) /\ part(i) = Sized(ended[i], d[i])
    BY DEF Left, Sized
  <2> HIDE DEF new, part
  <2>3. QED
    BY <1>14, <1>16, <1>17, <1>18, <2>1, <2>2

\* The same, by name.
Drainable(P, T, rows, d, ended) ==
  /\ rows \in Seq(Row(P, T)) /\ d \in [DOMAIN rows -> Nat]
  /\ ended \in [DOMAIN rows -> Row(P, T)]
  /\ \A i \in DOMAIN rows : /\ d[i] <= rows[i].quantity
                            /\ d[i] > 0 => rows[i].status = "ACTIVE"
                            /\ ended[i].status # "ACTIVE"

Drained(P, T, rows, d, ended, after) ==
  /\ after \in Seq(Row(P, T))
  /\ DOMAIN rows \subseteq DOMAIN after
  /\ \A i \in DOMAIN rows : after[i] = Left(rows, d, ended, i)
  /\ \A j \in DOMAIN after \ DOMAIN rows :
       \E i \in DOMAIN rows : d[i] > 0 /\ after[j] = Sized(ended[i], d[i])
  /\ \A r, p : ActiveQuantity(after, r, p) + Total(Part(d, RowsOf(rows, r, p)))
                 = ActiveQuantity(rows, r, p)

\* DrainActive, of the hypotheses by name.
LEMMA DrainDrains ==
  ASSUME NEW P, NEW T, NEW rows, NEW d, NEW ended, Drainable(P, T, rows, d, ended)
  PROVE  Drained(P, T, rows, d, ended, Drain(rows, d, ended))
<1>1. /\ rows \in Seq(Row(P, T)) /\ d \in [DOMAIN rows -> Nat]
      /\ ended \in [DOMAIN rows -> Row(P, T)]
      /\ \A i \in DOMAIN rows : /\ d[i] <= rows[i].quantity
                                /\ d[i] > 0 => rows[i].status = "ACTIVE"
                                /\ ended[i].status # "ACTIVE"
  BY DEF Drainable
<1>2. QED
  BY <1>1, DrainActive DEF Drained

-----------------------------------------------------------------------------
(* Types.                                                                  *)

\* The index sets are finite, and those of the summed specification.
LEMMA Sets ==
  /\ IsFiniteSet(Location) /\ IsFiniteSet(Reservation) /\ IsFiniteSet(Order) /\ IsFiniteSet(Source)
  /\ Reservation = Summed!Reservation /\ Order = Summed!Order /\ Source = Summed!Source
  /\ NoOrder = Summed!NoOrder /\ NoOrder \notin Order
  /\ Reservation \subseteq Nat /\ Order \subseteq Nat /\ MaxLog \in Nat /\ MaxReservation \in Nat
<1>1. IsFiniteSet(Reservation) /\ IsFiniteSet(Order)
  BY RowsAssumption, FS_Interval DEF Reservation, Order
<1>2. IsFiniteSet(Source)
  <2>1. IsFiniteSet({NoOrder})
    BY FS_Singleton
  <2>2. QED
    BY <1>1, <2>1, FS_Union DEF Source
<1>3. QED
  BY <1>1, <1>2, RowsAssumption
  DEF Reservation, Order, Source, NoOrder, Summed!Reservation, Summed!Order, Summed!Source,
      Summed!NoOrder

StockStatus == {"ACTIVE", "RELEASED", "CONSUMED", "DELETED"}
IncomingStatus == {"ACTIVE", "RELEASED", "CONVERTED", "DELETED"}

\* Without the sums, which follow.
StateTypeOK ==
  /\ onHand \in [Location -> Nat]
  /\ orders \in [Order -> Summed!OrderLine]
  /\ reservations \in [Reservation -> Summed!ReservationRow]
  /\ splitRoot \in [Order -> {0} \cup Order]

RowsTypeOK ==
  /\ stockRows \in Seq(Row(Location, StockStatus))
  /\ incomingRows \in Seq(Row(Source, IncomingStatus))

\* Active quantities are natural numbers.
LEMMA SumsType ==
  ASSUME NEW P, NEW T, NEW rows \in Seq(Row(P, T))
  PROVE  [r \in Reservation |-> [p \in P |-> ActiveQuantity(rows, r, p)]]
           \in [Reservation -> [P -> Nat]]
BY ActiveIsWeights

\* The type invariant of the rows contains that of their sums.
LEMMA TypeParts ==
  /\ TypeOK <=> StateTypeOK /\ RowsTypeOK /\ log \in Seq(LogEntry)
  /\ TypeOK' <=> StateTypeOK' /\ RowsTypeOK' /\ log' \in Seq(LogEntry)
<1>1. RowsTypeOK => /\ ActiveStock \in [Reservation -> [Location -> Nat]]
                    /\ ActiveIncoming \in [Reservation -> [Source -> Nat]]
  BY SumsType DEF RowsTypeOK, ActiveStock, ActiveIncoming
<1>2. RowsTypeOK' => /\ ActiveStock' \in [Reservation -> [Location -> Nat]]
                     /\ ActiveIncoming' \in [Reservation -> [Source -> Nat]]
  BY SumsType DEF RowsTypeOK, ActiveStock, ActiveIncoming
<1>3. TypeOK <=> StateTypeOK /\ RowsTypeOK /\ log \in Seq(LogEntry)
  BY <1>1, Sets DEF TypeOK, StateTypeOK, RowsTypeOK, StockStatus, IncomingStatus, Summed!TypeOK
<1>4. TypeOK' <=> StateTypeOK' /\ RowsTypeOK' /\ log' \in Seq(LogEntry)
  BY <1>2, Sets DEF TypeOK, StateTypeOK, RowsTypeOK, StockStatus, IncomingStatus, Summed!TypeOK
<1>5. QED
  BY <1>3, <1>4

\* What a call logs has the type of an entry.
LEMMA LoggedType ==
  ASSUME log \in Seq(LogEntry), onHand \in [Location -> Nat], onHand' \in [Location -> Nat],
         NEW entry \in LogEntry, Logged(entry)
  PROVE  /\ log' \in Seq(LogEntry) /\ Len(log') = Len(log) + 1
         /\ log'[Len(log) + 1]
              = [entry EXCEPT !.moved = [l \in Location |-> onHand'[l] - onHand[l]]]
         /\ \A k \in DOMAIN log : k \in DOMAIN log' /\ log'[k] = log[k]
<1> DEFINE moved == [l \in Location |-> onHand'[l] - onHand[l]]
           last == [entry EXCEPT !.moved = moved]
<1>1. moved \in Delta
  BY DEF Delta
<1>2. last \in LogEntry
  <2> HIDE DEF moved
  <2> QED BY <1>1 DEF LogEntry
<1>3. log' = Append(log, last)
  BY DEF Logged
<1> HIDE DEF last
<1>4. QED
  BY <1>2, <1>3 DEF last

\* What a call logs for the ledger is an entry of the log.
LEMMA EntryType ==
  ASSUME NEW op \in {"RESERVE", "CONSUME", "ARRIVAL", "MOVE", "ADJUST"},
         NEW q \in Nat \ {0}, NEW from \in Location \cup {NoLocation},
         NEW to \in Location \cup {NoLocation}
  PROVE  Entry(op, q, from, to) \in LogEntry
<1>1. NoDelta \in Delta
  BY DEF NoDelta, Delta
<1>2. QED
  BY <1>1, Sets DEF Entry, LogEntry

\* What a reservation call logs is an entry of the log.
LEMMA ReservationEntryType ==
  ASSUME NEW op \in {"RESERVE", "CONSUME"}, NEW q \in Nat \ {0},
         NEW context \in {"create", "release", "consume"}, NEW r \in Reservation
  PROVE  ReservationEntry(op, q, context, r) \in LogEntry
<1>1. Entry(op, q, NoLocation, NoLocation) \in LogEntry
  BY EntryType
<1> QED
  BY <1>1 DEF ReservationEntry, LogEntry

\* Rows that a call ends are rows, of the same reservation and place.
LEMMA EndedType ==
  ASSUME NEW P, NEW T, NEW rows \in Seq(Row(P, T)), NEW status \in T, NEW id \in 0 .. MaxLog,
         NEW noted \in BOOLEAN
  PROVE  /\ Ended(rows, status, id, noted) \in [DOMAIN rows -> Row(P, T)]
         /\ \A i \in DOMAIN rows :
              LET e == Ended(rows, status, id, noted)[i]
              IN  /\ e.status = status /\ e.tx = id /\ e.quantity = rows[i].quantity
                  /\ e.reservation = rows[i].reservation /\ e.place = rows[i].place
<1>1. ASSUME NEW i \in DOMAIN rows
      PROVE  LET e == [rows[i] EXCEPT !.status = status, !.tx = id,
                                      !.arrival = IF noted THEN NoArrival ELSE @]
             IN  /\ e \in Row(P, T)
                 /\ e.status = status /\ e.tx = id /\ e.quantity = rows[i].quantity
                 /\ e.reservation = rows[i].reservation /\ e.place = rows[i].place
  <2>1. rows[i] \in Row(P, T)
    BY RowFields
  <2>2. NoArrival \in (0 .. MaxLog) \X Nat
    BY Sets DEF NoArrival
  <2>3. QED
    BY <2>1, <2>2 DEF Row
<1>2. QED
  BY <1>1 DEF Ended

\* What a draw takes at the places of r, and nobody else's.
LEMMA DrainOf ==
  ASSUME NEW P, IsFiniteSet(P), NEW T, NEW rows \in Seq(Row(P, T)), NEW r \in Reservation,
         NEW n \in Nat, NEW status \in T, status # "ACTIVE", NEW id \in 0 .. MaxLog,
         NEW noted \in BOOLEAN
  PROVE  LET d     == DrawnRows(rows, n, ActiveOf(rows, r))
             a     == [p \in P |-> ActiveQuantity(rows, r, p)]
             taken == AtPlaces(rows, d, P)
             after == Drain(rows, d, Ended(rows, status, id, noted))
         IN  /\ after \in Seq(Row(P, T))
             /\ taken \in Draws(a, Smaller(n, Total(a)))
             /\ [p \in P |-> ActiveQuantity(after, r, p)] = Minus(a, taken)
             /\ \A x \in Reservation \ {r}, p \in P :
                  ActiveQuantity(after, x, p) = ActiveQuantity(rows, x, p)
             /\ DOMAIN rows \subseteq DOMAIN after
             /\ \A i \in DOMAIN rows : after[i].reservation = rows[i].reservation
             /\ \A j \in DOMAIN after \ DOMAIN rows :
                  after[j].reservation = r /\ after[j].status # "ACTIVE"
             /\ \A i \in DOMAIN rows : after[i].status = "ACTIVE" => rows[i].status = "ACTIVE"
<1> DEFINE ids   == ActiveOf(rows, r)
           d     == DrawnRows(rows, n, ids)
           f     == ActiveQuantities(rows, r)
           a     == [p \in P |-> ActiveQuantity(rows, r, p)]
           taken == AtPlaces(rows, d, P)
           ended == Ended(rows, status, id, noted)
           after == Drain(rows, d, ended)
           place == [i \in DOMAIN rows |-> rows[i].place]
<1>1. /\ IsFiniteSet(DOMAIN rows)
      /\ \A i \in DOMAIN rows : rows[i].quantity \in Nat /\ rows[i].place \in P
                                /\ rows[i] \in Row(P, T)
  BY RowFields
<1>2. ids \in SUBSET (DOMAIN rows) /\ \A i \in ids : rows[i].status = "ACTIVE" /\ rows[i].reservation = r
  BY DEF ActiveOf
<1>3. f = [i \in DOMAIN rows |-> IF i \in ids THEN rows[i].quantity ELSE 0]
  BY DEF ActiveQuantities
<1> HIDE DEF ids
<1>4. /\ d \in [DOMAIN rows -> Nat] /\ f \in [DOMAIN rows -> Nat]
      /\ \A i \in DOMAIN rows : /\ d[i] <= f[i] /\ d[i] <= rows[i].quantity
                                /\ d[i] > 0 => i \in ids
      /\ Total(d) = Smaller(n, Total(f))
  BY <1>2, <1>3, DrawnRowsFacts
<1>5. /\ a \in [P -> Nat] /\ Total(f) = Total(a) /\ a = AtPlaces(rows, f, P)
  BY ActiveByPlace
<1>6. /\ ended \in [DOMAIN rows -> Row(P, T)]
      /\ \A i \in DOMAIN rows : /\ ended[i].status = status /\ ended[i].reservation = rows[i].reservation
                                /\ ended[i].place = rows[i].place
  BY EndedType
<1> HIDE DEF d, f, ended
<1>17. \A i \in DOMAIN rows : /\ d[i] <= rows[i].quantity
                               /\ d[i] > 0 => rows[i].status = "ACTIVE"
                               /\ ended[i].status # "ACTIVE"
  BY <1>2, <1>4, <1>6
<1>18. /\ \A X : Part(d, X) \in [DOMAIN rows -> Nat] /\ Part(f, X) \in [DOMAIN rows -> Nat]
       /\ \A X : \A i \in DOMAIN rows : /\ Part(d, X)[i] = IF i \in X THEN d[i] ELSE 0
                                        /\ Part(f, X)[i] = IF i \in X THEN f[i] ELSE 0
  <2>1. DOMAIN d = DOMAIN rows /\ DOMAIN f = DOMAIN rows
    BY <1>4
  <2>2. QED
    BY <1>4, <2>1 DEF Part
<1>7. /\ after \in Seq(Row(P, T)) /\ DOMAIN rows \subseteq DOMAIN after
      /\ \A i \in DOMAIN rows : after[i] = Left(rows, d, ended, i)
      /\ \A j \in DOMAIN after \ DOMAIN rows :
           \E i \in DOMAIN rows : d[i] > 0 /\ after[j] = Sized(ended[i], d[i])
      /\ \A x, p : ActiveQuantity(after, x, p) + Total(Part(d, RowsOf(rows, x, p)))
                     = ActiveQuantity(rows, x, p)
  <2>1. Drainable(P, T, rows, d, ended)
    BY <1>4, <1>6, <1>17 DEF Drainable
  <2>2. Drained(P, T, rows, d, ended, after)
    BY <2>1, DrainDrains
  <2>3. QED
    BY <2>2 DEF Drained
<1> HIDE DEF after
<1>8. place \in [DOMAIN rows -> P] /\ Grouped(d, place, P) = taken
  <2>1. ASSUME NEW p \in P PROVE Where(place, p) = AtPlace(rows, p)
    BY DEF Where, AtPlace
  <2>2. place \in [DOMAIN rows -> P]
    BY <1>1
  <2> HIDE DEF place
  <2>3. QED
    BY <2>1, <2>2 DEF Grouped, AtPlaces
<1>9. taken \in [P -> Nat] /\ Total(taken) = Total(d)
  <2> HIDE DEF place, taken
  <2> QED BY <1>1, <1>4, <1>8, TotalGrouped
<1>10. ASSUME NEW p \in P
       PROVE  /\ Total(Part(d, RowsOf(rows, r, p))) = taken[p]
              /\ \A x \in Reservation \ {r} : Total(Part(d, RowsOf(rows, x, p))) = 0
              /\ taken[p] <= a[p]
  <2>1. Part(d, RowsOf(rows, r, p)) = Part(d, AtPlace(rows, p))
    <3>1. ASSUME NEW i \in DOMAIN rows
          PROVE  Part(d, RowsOf(rows, r, p))[i] = Part(d, AtPlace(rows, p))[i]
      <4>1. d[i] \in Nat /\ (d[i] # 0 => rows[i].reservation = r)
        BY <1>2, <1>4
      <4>2. i \in RowsOf(rows, r, p) <=> i \in AtPlace(rows, p) /\ rows[i].reservation = r
        BY DEF RowsOf, AtPlace
      <4>3. QED
        BY <1>18, <4>1, <4>2
    <3>2. QED
      BY <1>18, <3>1
  <2>2. ASSUME NEW x \in Reservation \ {r} PROVE Total(Part(d, RowsOf(rows, x, p))) = 0
    <3> DEFINE c == Part(d, RowsOf(rows, x, p))
    <3>1. c \in [DOMAIN rows -> Nat]
      BY <1>4, PartType
    <3>2. \A i \in DOMAIN rows : c[i] = 0
      <4> SUFFICES ASSUME NEW i \in DOMAIN rows PROVE c[i] = 0
        OBVIOUS
      <4>1. d[i] \in Nat /\ (d[i] # 0 => rows[i].reservation = r)
        BY <1>2, <1>4
      <4>2. i \in RowsOf(rows, x, p) => rows[i].reservation = x
        BY DEF RowsOf
      <4>3. QED
        BY <1>18, <4>1, <4>2
    <3> HIDE DEF c
    <3>3. Total(c) = 0
      BY <1>1, <3>1, <3>2, TotalZero
    <3>4. QED
      BY <3>3 DEF c
  <2>3. taken[p] <= a[p]
    <3> DEFINE b == Part(d, AtPlace(rows, p))
               c == Part(f, AtPlace(rows, p))
    <3>1. taken[p] = Total(b) /\ a[p] = Total(c)
      BY <1>5 DEF AtPlaces
    <3>2. b \in [DOMAIN rows -> Nat] /\ c \in [DOMAIN rows -> Nat]
      BY <1>4, PartType
    <3>3. ASSUME NEW i \in DOMAIN rows PROVE b[i] <= c[i]
      <4>1. d[i] \in Nat /\ f[i] \in Nat /\ d[i] <= f[i]
        BY <1>4
      <4>2. QED
        BY <1>18, <4>1
    <3> HIDE DEF b, c, a, taken
    <3>4. QED
      BY <1>1, <3>1, <3>2, <3>3, TotalMonotone
  <2>4. QED
    BY <2>1, <2>2, <2>3 DEF AtPlaces
<1> HIDE DEF taken
<1>11. taken \in Draws(a, Smaller(n, Total(a)))
  <2> HIDE DEF a
  <2>1. Total(taken) = Smaller(n, Total(a)) /\ Total(a) \in Nat
    BY <1>4, <1>5, <1>9, TotalType
  <2>2. Smaller(n, Total(a)) \in Nat
    BY <2>1 DEF Smaller
  <2>3. \A p \in P : taken[p] \in 0 .. Smaller(n, Total(a))
    BY <1>9, <2>1, <2>2, EntryBelowTotal
  <2>4. DOMAIN a = P
    BY <1>5
  <2>5. QED
    BY <1>9, <1>10, <2>1, <2>3, <2>4 DEF Draws
<1>12. ASSUME NEW p \in P
       PROVE  /\ ActiveQuantity(after, r, p) = a[p] - taken[p]
              /\ \A x \in Reservation \ {r} : ActiveQuantity(after, x, p) = ActiveQuantity(rows, x, p)
  <2>1. ActiveQuantity(after, r, p) + taken[p] = ActiveQuantity(rows, r, p)
    BY <1>7, <1>10
  <2>2. \A x \in Reservation \ {r} : ActiveQuantity(after, x, p) + 0 = ActiveQuantity(rows, x, p)
    BY <1>7, <1>10
  <2>3. \A x : ActiveQuantity(after, x, p) \in Nat
    BY <1>7, ActiveIsWeights
  <2>4. taken[p] \in Nat /\ a[p] = ActiveQuantity(rows, r, p)
    BY <1>9
  <2>5. QED
    BY <2>1, <2>2, <2>3, <2>4
<1>13. [p \in P |-> ActiveQuantity(after, r, p)] = Minus(a, taken)
  BY <1>12 DEF Minus
<1>14. ASSUME NEW i \in DOMAIN rows
       PROVE  /\ after[i].reservation = rows[i].reservation
              /\ after[i].status = "ACTIVE" => rows[i].status = "ACTIVE"
  <2>1. ended[i] \in Row(P, T) /\ rows[i] \in Row(P, T)
    BY <1>1, <1>6
  <2>2. after[i] = Left(rows, d, ended, i) /\ d[i] \in Nat /\ d[i] <= rows[i].quantity
        /\ rows[i].quantity \in Nat
    BY <1>1, <1>4, <1>7
  <2>3. rows[i].quantity - d[i] \in Nat
    BY <2>2
  <2>4. /\ Sized(ended[i], d[i]).status = status
        /\ Sized(ended[i], d[i]).reservation = rows[i].reservation
    BY <1>6, <2>1, <2>2, SizedKeeps
  <2>5. /\ Sized(rows[i], rows[i].quantity - d[i]).status = rows[i].status
        /\ Sized(rows[i], rows[i].quantity - d[i]).reservation = rows[i].reservation
    BY <2>1, <2>3, SizedKeeps
  <2>6. QED
    BY <2>2, <2>4, <2>5 DEF Left
<1>15. ASSUME NEW j \in DOMAIN after \ DOMAIN rows
       PROVE  after[j].reservation = r /\ after[j].status # "ACTIVE"
  <2>1. PICK i \in DOMAIN rows : d[i] > 0 /\ after[j] = Sized(ended[i], d[i])
    BY <1>7
  <2>2. ended[i] \in Row(P, T) /\ rows[i].reservation = r
    BY <1>2, <1>4, <1>6, <2>1
  <2>3. /\ Sized(ended[i], d[i]).status = ended[i].status
        /\ Sized(ended[i], d[i]).reservation = ended[i].reservation
    BY <1>4, <2>2, SizedKeeps
  <2>4. ended[i].status = status /\ ended[i].reservation = rows[i].reservation
    BY <1>6
  <2>5. QED
    BY <2>1, <2>2, <2>3, <2>4
<1>16. QED
  BY <1>7, <1>11, <1>12, <1>13, <1>14, <1>15 DEF d, taken, after, ended, ids

-----------------------------------------------------------------------------
(* The invariant.                                                          *)

\* Rows are of reservations that exist.
OfUsed(rows, table) == \A i \in DOMAIN rows : table[rows[i].reservation].status # "Unused"

\* Active rows are in the order of their reservations.
InTurn(rows) ==
  \A i, j \in DOMAIN rows : i < j /\ rows[i].status = "ACTIVE" /\ rows[j].status = "ACTIVE"
                             => rows[i].reservation <= rows[j].reservation

\* Ids are given out in order.
UsedInOrder(table) ==
  \A x, y \in Reservation : x < y /\ table[y].status # "Unused" => table[x].status # "Unused"

\* What undos keep, too.
RowsBase ==
  /\ StateTypeOK /\ RowsTypeOK /\ log \in Seq(LogEntry)
  /\ OfUsed(stockRows, reservations) /\ OfUsed(incomingRows, reservations)
  /\ UsedInOrder(reservations)

RowsInv == RowsBase /\ InTurn(incomingRows)

\* A call that leaves active rows in turn.
KeepsTurn == InTurn(incomingRows) => InTurn(incomingRows')

\* What an active row of after was in before.
Kept(before, after) ==
  \A i \in DOMAIN after :
    after[i].status = "ACTIVE" =>
      /\ i \in DOMAIN before /\ before[i].status = "ACTIVE"
      /\ after[i].reservation = before[i].reservation

\* A call that makes no row active keeps the active rows in turn.
LEMMA InTurnKept ==
  ASSUME NEW before, NEW after, InTurn(before), Kept(before, after)
  PROVE  InTurn(after)
BY DEF InTurn, Kept

\* A reservation without rows has no active quantity.
LEMMA NoRowsOf ==
  ASSUME NEW P, NEW T, NEW rows \in Seq(Row(P, T)), NEW r, NEW p,
         \A i \in DOMAIN rows : rows[i].reservation # r
  PROVE  ActiveQuantity(rows, r, p) = 0
<1> DEFINE D == DOMAIN rows
           w == Weights(rows, r, p)
<1>1. w \in [D -> Nat] /\ IsFiniteSet(D) /\ ActiveQuantity(rows, r, p) = Total(w)
  BY WeightsType, ActiveIsWeights
<1>2. \A i \in D : w[i] = 0
  BY DEF Weights
<1> HIDE DEF D, w
<1>3. QED
  BY <1>1, <1>2, TotalZero

\* Rows of r appended to rows of others.
LEMMA AppendedRows ==
  ASSUME NEW P, NEW T, NEW a \in Seq(Row(P, T)), NEW b \in Seq(Row(P, T)), NEW r,
         \A i \in DOMAIN b : b[i].reservation = r
  PROVE  /\ a \o b \in Seq(Row(P, T)) /\ DOMAIN a \subseteq DOMAIN (a \o b)
         /\ \A i \in DOMAIN a : (a \o b)[i] = a[i]
         /\ \A i \in DOMAIN (a \o b) \ DOMAIN a :
              (a \o b)[i].reservation = r /\ \A j \in DOMAIN a : j < i
<1>1. /\ a \o b \in Seq(Row(P, T)) /\ Len(a \o b) = Len(a) + Len(b)
      /\ \A i \in 1 .. Len(a) + Len(b) : (a \o b)[i] = IF i <= Len(a) THEN a[i] ELSE b[i - Len(a)]
  BY ConcatProperties
<1>2. /\ Len(a) \in Nat /\ Len(b) \in Nat /\ DOMAIN a = 1 .. Len(a) /\ DOMAIN b = 1 .. Len(b)
      /\ DOMAIN (a \o b) = 1 .. (Len(a) + Len(b))
  BY <1>1, LenProperties
<1>3. ASSUME NEW i \in DOMAIN (a \o b) \ DOMAIN a
      PROVE  (a \o b)[i].reservation = r /\ \A j \in DOMAIN a : j < i
  <2>1. i \in 1 .. (Len(a) + Len(b)) /\ i > Len(a)
    BY <1>2
  <2>2. i - Len(a) \in DOMAIN b /\ (a \o b)[i] = b[i - Len(a)]
    BY <1>1, <1>2, <2>1
  <2>3. QED
    BY <1>2, <2>1, <2>2
<1>4. QED
  BY <1>1, <1>2, <1>3

-----------------------------------------------------------------------------
(* What the calls read.                                                    *)

\* The operators of Quantities are the same in the instance of Reservations.
LEMMA SameTotal == \A f : Summed!Total(f) = Total(f)
<1>1. ASSUME NEW f PROVE Summed!Units(f) = Units(f)
  BY DEF Summed!Units, Units
<1>2. ASSUME NEW S PROVE Summed!Cardinality(S) = Cardinality(S)
  BY Zenon DEF Summed!Cardinality, Cardinality
<1>3. QED
  BY <1>1, <1>2 DEF Summed!Total, Total

\* So are the other operators.
LEMMA SameQuantities ==
  /\ \A a, b : Summed!Smaller(a, b) = Smaller(a, b) /\ Summed!Monus(a, b) = Monus(a, b)
  /\ \A f, g : Summed!Minus(f, g) = Minus(f, g)
  /\ \A f, n : Summed!Draws(f, n) = Draws(f, n)
  /\ \A d, f, before : Summed!FirstFit(d, f, before) = FirstFit(d, f, before)
<1>1. \A a, b : Summed!Smaller(a, b) = Smaller(a, b) /\ Summed!Monus(a, b) = Monus(a, b)
  BY DEF Summed!Smaller, Smaller, Summed!Monus, Monus
<1>2. ASSUME NEW f, NEW g PROVE Summed!Minus(f, g) = Minus(f, g)
  BY DEF Summed!Minus, Minus
<1>3. ASSUME NEW f, NEW n PROVE Summed!Draws(f, n) = Draws(f, n)
  BY SameTotal DEF Summed!Draws, Draws
<1>4. ASSUME NEW d, NEW f, NEW before
      PROVE  Summed!FirstFit(d, f, before) = FirstFit(d, f, before)
  BY DEF Summed!FirstFit, FirstFit
<1>5. QED
  BY <1>1, <1>2, <1>3, <1>4

\* What the calls read are natural numbers.
LEMMA SupplyTypes ==
  ASSUME StateTypeOK, RowsTypeOK
  PROVE  /\ ActiveStock \in [Reservation -> [Location -> Nat]]
         /\ ActiveIncoming \in [Reservation -> [Source -> Nat]]
         /\ Summed!Available \in [Location -> Nat]
         /\ \A o \in Order : Summed!Allocatable(o) \in Nat
<1>1. /\ ActiveStock \in [Reservation -> [Location -> Nat]]
      /\ ActiveIncoming \in [Reservation -> [Source -> Nat]]
  BY SumsType DEF RowsTypeOK, ActiveStock, ActiveIncoming
<1>2. ASSUME NEW l \in Location PROVE Summed!AllocatedAt(l) \in Nat
  <2> DEFINE f == [x \in Reservation |-> ActiveStock[x][l]]
  <2>1. f \in [Reservation -> Nat]
    BY <1>1
  <2>2. Total(f) \in Nat
    <3> HIDE DEF f
    <3> QED BY <2>1, Sets, TotalType
  <2>3. Summed!AllocatedAt(l) = Total(f)
    BY SameTotal DEF Summed!AllocatedAt, Summed!Reservation, Reservation
  <2>4. QED
    BY <2>2, <2>3
<1>3. ASSUME NEW o \in Order PROVE Summed!IncomingFor(o) \in Nat
  <2> DEFINE f == [x \in Reservation |-> ActiveIncoming[x][o]]
  <2>1. f \in [Reservation -> Nat]
    BY <1>1 DEF Source
  <2>2. Total(f) \in Nat
    <3> HIDE DEF f
    <3> QED BY <2>1, Sets, TotalType
  <2>3. Summed!IncomingFor(o) = Total(f)
    BY SameTotal DEF Summed!IncomingFor, Summed!Reservation, Reservation
  <2>4. QED
    BY <2>2, <2>3
<1>4. Summed!Available \in [Location -> Nat]
  <2>1. \A l \in Location : onHand[l] \in Nat
    BY DEF StateTypeOK
  <2>2. \A l \in Location : Monus(onHand[l], Summed!AllocatedAt(l)) \in Nat
    BY <1>2, <2>1 DEF Monus
  <2>3. QED
    BY <2>2, SameQuantities DEF Summed!Available
<1>5. ASSUME NEW o \in Order PROVE Summed!Allocatable(o) \in Nat
  <2>1. orders[o].amount \in Nat
    BY DEF StateTypeOK, Summed!OrderLine
  <2>2. Monus(orders[o].amount, Summed!IncomingFor(o)) \in Nat
    BY <1>3, <2>1 DEF Monus
  <2>3. QED
    BY <2>2, SameQuantities DEF Summed!Allocatable
<1>6. QED
  BY <1>1, <1>4, <1>5

\* Only order lines of the project or of none, and not the preferred one, are open supply.
LEMMA OpenSupplyFacts ==
  ASSUME StateTypeOK, RowsTypeOK, NEW project, NEW preferred
  PROVE  /\ Summed!OpenSupply(project, preferred) \in [Source -> Nat]
         /\ \A s \in Source : Summed!OpenSupply(project, preferred)[s] > 0 =>
              s \in Order /\ s # preferred /\ orders[s].project \in {project, NoProject}
<1>1. \A o \in Order : Summed!Allocatable(o) \in Nat
  BY SupplyTypes
<1>2. Summed!OpenSupply(project, preferred) =
        [s \in Source |->
           IF /\ s # NoOrder /\ s # preferred
              /\ orders[s].status = "Ordered"
              /\ orders[s].project \in {project, NoProject}
              /\ orders[s].eta # Summed!NoEta
           THEN Summed!Allocatable(s) ELSE 0]
  BY Sets DEF Summed!OpenSupply
<1>3. \A s \in Source : s # NoOrder => s \in Order
  BY DEF Source
<1>4. QED
  BY <1>1, <1>2, <1>3

\* The order open supply is taken in is strict.
LEMMA SupplyOrdered ==
  ASSUME StateTypeOK, RowsTypeOK, NEW project, NEW preferred
  PROVE  StrictlyOrders(Summed!SupplyOrder,
                        { s \in Source : Summed!OpenSupply(project, preferred)[s] > 0 })
<1> DEFINE S == { s \in Source : Summed!OpenSupply(project, preferred)[s] > 0 }
<1>1. \A s \in S : s \in Order /\ orders[s].project \in {project, NoProject}
  BY OpenSupplyFacts
<1>2. \A s \in S : orders[s].eta \in Int /\ s \in Int
  <2>1. \A o \in Order : orders[o].eta \in 0 .. MaxEta
    BY DEF StateTypeOK, Summed!OrderLine
  <2>2. MaxEta \in Nat
    BY RowsAssumption
  <2>3. \A o \in Order : orders[o].eta \in Int /\ o \in Int
    BY <2>1, <2>2, RowsAssumption DEF Order
  <2> HIDE DEF S
  <2>4. QED
    BY <1>1, <2>3
<1>3. \A a, b \in S : <<a, b>> \in Summed!SupplyOrder <=> Summed!SupplyBefore(a, b)
  BY <1>1, Sets DEF Summed!SupplyOrder
<1> HIDE DEF S
<1>4. /\ \A x \in S : ~Summed!SupplyBefore(x, x)
      /\ \A x, y \in S : x # y => Summed!SupplyBefore(x, y) \/ Summed!SupplyBefore(y, x)
      /\ \A x, y, z \in S : Summed!SupplyBefore(x, y) /\ Summed!SupplyBefore(y, z)
                              => Summed!SupplyBefore(x, z)
  BY <1>1, <1>2 DEF Summed!SupplyBefore
<1>5. QED
  BY <1>3, <1>4 DEF StrictlyOrders, S

\* A strict order of a set is one of its parts.
LEMMA OrdersPart ==
  ASSUME NEW before, NEW S, StrictlyOrders(before, S), NEW U, U \subseteq S
  PROVE  StrictlyOrders(before, U)
BY DEF StrictlyOrders

-----------------------------------------------------------------------------
(* Creating a reservation.                                                 *)

\* ActiveStock and ActiveIncoming, of any rows.
Sums(rows, P) == [r \in Reservation |-> [p \in P |-> ActiveQuantity(rows, r, p)]]

\* The refinement mapping, by name.
LEMMA SumsOf ==
  /\ ActiveStock = Sums(stockRows, Location) /\ ActiveStock' = Sums(stockRows', Location)
  /\ ActiveIncoming = Sums(incomingRows, Source) /\ ActiveIncoming' = Sums(incomingRows', Source)
BY DEF Sums, ActiveStock, ActiveIncoming

\* Rows of a reservation that had none.
LEMMA AppendedSums ==
  ASSUME NEW P, NEW T, NEW rows, rows \in Seq(Row(P, T)), NEW added, added \in Seq(Row(P, T)),
         NEW r \in Reservation, NEW q, q \in [P -> Nat],
         \A i \in DOMAIN rows : rows[i].reservation # r,
         \A i \in DOMAIN added : added[i].reservation = r,
         \A p \in P : ActiveQuantity(added, r, p) = q[p]
  PROVE  Sums(rows \o added, P) = [Sums(rows, P) EXCEPT ![r] = q]
<1>1. ASSUME NEW x \in Reservation, NEW p \in P
      PROVE  ActiveQuantity(rows \o added, x, p) = IF x = r THEN q[p] ELSE ActiveQuantity(rows, x, p)
  <2>1. ActiveQuantity(rows \o added, x, p) = ActiveQuantity(rows, x, p) + ActiveQuantity(added, x, p)
    BY ActiveConcat
  <2>2. ActiveQuantity(rows, x, p) \in Nat
    BY ActiveIsWeights
  <2>3. CASE x = r
    <3>1. ActiveQuantity(rows, r, p) = 0
      BY NoRowsOf
    <3>2. QED
      BY <2>1, <2>3, <3>1
  <2>4. CASE x # r
    <3>1. ActiveQuantity(added, x, p) = 0
      BY <2>4, NoRowsOf
    <3>2. QED
      BY <2>1, <2>2, <2>4, <3>1
  <2>5. QED
    BY <2>3, <2>4
<1>2. ASSUME NEW x \in Reservation
      PROVE  [p \in P |-> ActiveQuantity(rows \o added, x, p)]
               = IF x = r THEN q ELSE [p \in P |-> ActiveQuantity(rows, x, p)]
  BY <1>1
<1>3. QED
  BY <1>2 DEF Sums

\* The same, by name.
AddsTo(P, T, rows, added, r, q) ==
  /\ rows \in Seq(Row(P, T)) /\ added \in Seq(Row(P, T)) /\ q \in [P -> Nat]
  /\ \A i \in DOMAIN rows : rows[i].reservation # r
  /\ \A i \in DOMAIN added : added[i].reservation = r
  /\ \A p \in P : ActiveQuantity(added, r, p) = q[p]

\* AppendedSums, of the hypotheses by name.
LEMMA AddedSums ==
  ASSUME NEW P, NEW T, NEW rows, NEW added, NEW r \in Reservation, NEW q,
         AddsTo(P, T, rows, added, r, q)
  PROVE  Sums(rows \o added, P) = [Sums(rows, P) EXCEPT ![r] = q]
BY AppendedSums DEF AddsTo

\* How a creation divides the quantity, and what it takes from stock.
LEMMA CreateStock ==
  ASSUME RowsBase, NEW r \in Reservation, NEW quantity \in Nat, NEW pq \in 0 .. quantity
  PROVE  LET avail == Summed!Available
             sq    == Smaller(Total(avail), quantity - pq)
             stock == InOrder(avail, sq, ShelfOrder)
             added == NewRows(r, stock, ShelfOrder)
         IN  /\ sq \in 0 .. quantity - pq
             /\ stock \in [Location -> Nat] /\ stock \in Draws(avail, sq)
             /\ FirstFit(stock, avail, Summed!LocationOrder)
             /\ added \in Seq(Row(Location, StockStatus))
             /\ \A i \in DOMAIN added : added[i].reservation = r
             /\ \A p \in Location : ActiveQuantity(added, r, p) = stock[p]
<1> DEFINE avail == Summed!Available
           sq    == Smaller(Total(avail), quantity - pq)
           stock == InOrder(avail, sq, ShelfOrder)
           added == NewRows(r, stock, ShelfOrder)
<1>1. avail \in [Location -> Nat]
  BY SupplyTypes DEF RowsBase
<1> HIDE DEF avail
<1>2. Total(avail) \in Nat
  BY <1>1, Sets, TotalType
<1>3. sq \in 0 .. quantity - pq /\ sq <= Total(avail) /\ sq \in Nat
  BY <1>2 DEF Smaller
<1> HIDE DEF sq
<1>4. StrictlyOrders(ShelfOrder, Location) /\ Summed!LocationOrder \subseteq ShelfOrder
  BY RowsAssumption
<1>5. StrictlyOrders(ShelfOrder, { x \in Location : avail[x] > 0 })
  BY <1>4, OrdersPart
<1>6. /\ stock \in [Location -> Nat]
      /\ \A x \in Location : stock[x] <= avail[x] /\ stock[x] <= sq
      /\ Total(stock) = Smaller(sq, Total(avail))
      /\ \A x, y \in Location : <<x, y>> \in ShelfOrder /\ stock[y] > 0 => stock[x] = avail[x]
  BY <1>1, <1>3, <1>5, Sets, InOrderDraw
<1> HIDE DEF stock
<1>7. Total(stock) = sq
  BY <1>2, <1>3, <1>6 DEF Smaller
<1>8. stock \in Draws(avail, sq)
  <2>1. \A x \in Location : stock[x] \in 0 .. sq
    BY <1>3, <1>6
  <2>2. QED
    BY <1>1, <1>6, <1>7, <2>1 DEF Draws
<1>9. FirstFit(stock, avail, Summed!LocationOrder)
  <2>1. \A pair \in Summed!LocationOrder :
           /\ pair[1] \in Location /\ pair[2] \in Location
           /\ pair = <<pair[1], pair[2]>> /\ pair \in ShelfOrder
    BY <1>4, RowsAssumption DEF Summed!LocationOrder
  <2>2. QED
    BY <1>6, <2>1 DEF FirstFit
<1>10. StrictlyOrders(ShelfOrder, { p \in Location : stock[p] > 0 })
  BY <1>4, OrdersPart
<1>11. /\ added \in Seq(Row(Location, StockStatus))
       /\ \A p \in Location : ActiveQuantity(added, r, p) = stock[p]
       /\ \A i \in DOMAIN added : added[i].reservation = r
  <2>1. "ACTIVE" \in StockStatus /\ MaxLog \in Nat /\ IsFiniteSet(Location)
    BY Sets DEF StockStatus
  <2>2. QED
    BY <1>6, <1>10, <2>1, NewRowsActive
<1>12. QED
  <2> HIDE DEF added
  <2> QED BY <1>3, <1>6, <1>8, <1>9, <1>11 DEF added, stock, sq, avail

\* What a creation takes from open lines, the preferred one first.
LEMMA CreateIncoming ==
  ASSUME RowsBase, NEW r \in Reservation, NEW project, NEW preferred \in Source,
         NEW pq \in Nat, pq # 0 => preferred # NoOrder, NEW short \in Nat,
         Total(InOrder(Summed!OpenSupply(project, preferred), short, Summed!SupplyOrder)) = short
  PROVE  LET supply == Summed!OpenSupply(project, preferred)
             open   == InOrder(supply, short, Summed!SupplyOrder)
             first  == IF pq = 0 THEN <<>> ELSE <<NewRow(r, preferred, pq)>>
             more   == NewRows(r, open, Summed!SupplyOrder)
         IN  /\ open \in Draws(supply, short)
             /\ FirstFit(open, supply, Summed!SupplyOrder)
             /\ first \in Seq(Row(Source, IncomingStatus)) /\ more \in Seq(Row(Source, IncomingStatus))
             /\ \A i \in DOMAIN (first \o more) : (first \o more)[i].reservation = r
             /\ \A p \in Source :
                  ActiveQuantity(first \o more, r, p) = [open EXCEPT ![preferred] = pq][p]
             /\ [open EXCEPT ![preferred] = pq] \in [Source -> Nat]
<1> DEFINE supply == Summed!OpenSupply(project, preferred)
           before == Summed!SupplyOrder
           open   == InOrder(supply, short, before)
           first  == IF pq = 0 THEN <<>> ELSE <<NewRow(r, preferred, pq)>>
           more   == NewRows(r, open, before)
           S      == { s \in Source : supply[s] > 0 }
<1>1. /\ supply \in [Source -> Nat]
      /\ \A s \in Source : supply[s] > 0 => s \in Order /\ s # preferred
  BY OpenSupplyFacts DEF RowsBase
<1>2. StrictlyOrders(before, S)
  BY SupplyOrdered DEF RowsBase
<1>3. Total(open) = short
  OBVIOUS
<1> HIDE DEF supply
<1>4. \A pair \in before : pair[1] \in Source /\ pair[2] \in Source /\ pair = <<pair[1], pair[2]>>
  BY Sets DEF Summed!SupplyOrder, Source
<1> HIDE DEF before
<1>5. /\ open \in [Source -> Nat]
      /\ \A x \in Source : open[x] <= supply[x] /\ open[x] <= short
      /\ \A x, y \in Source : <<x, y>> \in before /\ open[y] > 0 => open[x] = supply[x]
  BY <1>1, <1>2, Sets, InOrderDraw
<1> HIDE DEF open
<1>6. open \in Draws(supply, short)
  <2>1. \A x \in Source : open[x] \in 0 .. short
    BY <1>5
  <2>2. QED
    BY <1>1, <1>3, <1>5, <2>1 DEF Draws
<1>7. FirstFit(open, supply, before)
  BY <1>4, <1>5 DEF FirstFit
<1>8. open[preferred] = 0
  BY <1>1, <1>5
<1>9. /\ more \in Seq(Row(Source, IncomingStatus))
      /\ \A p \in Source : ActiveQuantity(more, r, p) = open[p]
      /\ \A i \in DOMAIN more : more[i].reservation = r
  <2>1. "ACTIVE" \in IncomingStatus /\ MaxLog \in Nat /\ IsFiniteSet(Source)
    BY Sets DEF IncomingStatus
  <2>2. { p \in Source : open[p] > 0 } \subseteq S
    BY <1>1, <1>5
  <2>3. StrictlyOrders(before, { p \in Source : open[p] > 0 })
    <3> HIDE DEF S
    <3> QED BY <1>2, <2>2, OrdersPart
  <2>4. QED
    BY <1>5, <2>1, <2>3, NewRowsActive
<1>10. /\ first \in Seq(Row(Source, IncomingStatus))
       /\ \A p \in Source : ActiveQuantity(first, r, p) = IF p = preferred THEN pq ELSE 0
       /\ \A i \in DOMAIN first : first[i].reservation = r
  <2>1. CASE pq = 0
    <3>1. first = <<>>
      BY <2>1
    <3> HIDE DEF first
    <3>2. first \in Seq(Row(Source, IncomingStatus)) /\ DOMAIN first = {}
      BY <3>1
    <3>3. \A i \in DOMAIN first : first[i].reservation # r
      BY <3>2
    <3>4. ASSUME NEW p \in Source PROVE ActiveQuantity(first, r, p) = 0
      BY <3>2, <3>3, NoRowsOf
    <3>5. QED
      BY <2>1, <3>2, <3>4
  <2>2. CASE pq # 0
    <3>1. first = <<NewRow(r, preferred, pq)>>
      BY <2>2
    <3>2. "ACTIVE" \in IncomingStatus /\ MaxLog \in Nat
      BY Sets DEF IncomingStatus
    <3>3. /\ <<NewRow(r, preferred, pq)>> \in Seq(Row(Source, IncomingStatus))
          /\ \A x \in Reservation, y \in Source :
               ActiveQuantity(<<NewRow(r, preferred, pq)>>, x, y)
                 = IF x = r /\ y = preferred THEN pq ELSE 0
      BY <3>2, NewRowActive
    <3>4. \A i \in DOMAIN first : first[i].reservation = r
      BY <3>1 DEF NewRow
    <3> HIDE DEF first
    <3>5. QED
      BY <3>1, <3>3, <3>4
  <2>3. QED
    BY <2>1, <2>2
<1> HIDE DEF first, more
<1>11. \A i \in DOMAIN (first \o more) : (first \o more)[i].reservation = r
  <2>1. /\ Len(first \o more) = Len(first) + Len(more) /\ first \o more \in Seq(Row(Source, IncomingStatus))
        /\ \A i \in 1 .. Len(first) + Len(more) :
             (first \o more)[i] = IF i <= Len(first) THEN first[i] ELSE more[i - Len(first)]
    BY <1>9, <1>10, ConcatProperties
  <2>2. /\ Len(first) \in Nat /\ Len(more) \in Nat /\ DOMAIN first = 1 .. Len(first)
        /\ DOMAIN more = 1 .. Len(more) /\ DOMAIN (first \o more) = 1 .. Len(first) + Len(more)
    BY <1>9, <1>10, <2>1, LenProperties
  <2>3. QED
    BY <1>9, <1>10, <2>1, <2>2
<1>12. ASSUME NEW p \in Source
       PROVE  ActiveQuantity(first \o more, r, p) = [open EXCEPT ![preferred] = pq][p]
  <2>1. ActiveQuantity(first \o more, r, p) = ActiveQuantity(first, r, p) + ActiveQuantity(more, r, p)
    BY <1>9, <1>10, ActiveConcat
  <2>2. ActiveQuantity(first \o more, r, p) = (IF p = preferred THEN pq ELSE 0) + open[p]
    BY <1>9, <1>10, <2>1
  <2>3. QED
    BY <1>5, <1>8, <2>2
<1>13. [open EXCEPT ![preferred] = pq] \in [Source -> Nat]
  BY <1>5
<1>14. QED
  BY <1>6, <1>7, <1>9, <1>10, <1>11, <1>12, <1>13 DEF supply, open, first, more, before

\* The preferred line gives at most what is asked for, and only an order line gives.
LEMMA PreferredFacts ==
  ASSUME RowsBase, NEW quantity \in Nat, NEW preferred \in Source
  PROVE  /\ Summed!PreferredQuantity(preferred, quantity) \in 0 .. quantity
         /\ Summed!PreferredQuantity(preferred, quantity) # 0 => preferred # NoOrder
<1>1. \A o \in Order : Summed!Allocatable(o) \in Nat
  BY SupplyTypes DEF RowsBase
<1>2. Summed!PreferredQuantity(preferred, quantity)
        = IF preferred = NoOrder THEN 0 ELSE Smaller(Summed!Allocatable(preferred), quantity)
  BY SameQuantities, Sets DEF Summed!PreferredQuantity
<1>3. preferred # NoOrder => preferred \in Order
  BY DEF Source
<1>4. QED
  BY <1>1, <1>2, <1>3 DEF Smaller

\* Rows of a new reservation come last: the ids of the reservations that have
\* rows are smaller.
LEMMA NewestLast ==
  ASSUME NEW rows, NEW after, NEW r \in Reservation, NEW table,
         OfUsed(rows, table), InTurn(rows), UsedInOrder(table), table[r].status = "Unused",
         \A i \in DOMAIN rows : rows[i].reservation \in Reservation,
         DOMAIN rows \subseteq DOMAIN after, \A i \in DOMAIN rows : after[i] = rows[i],
         \A i \in DOMAIN after \ DOMAIN rows :
           after[i].reservation = r /\ \A j \in DOMAIN rows : j < i,
         DOMAIN after \subseteq Nat
  PROVE  InTurn(after)
<1>1. \A i \in DOMAIN rows : rows[i].reservation <= r
  <2> SUFFICES ASSUME NEW i \in DOMAIN rows PROVE rows[i].reservation <= r
    OBVIOUS
  <2>1. table[rows[i].reservation].status # "Unused" /\ rows[i].reservation \in Reservation
    BY DEF OfUsed
  <2>2. rows[i].reservation \in Nat /\ r \in Nat
    BY <2>1, Sets
  <2>3. ~(r < rows[i].reservation)
    BY <2>1 DEF UsedInOrder
  <2>4. QED
    BY <2>2, <2>3
<1>2. r \in Nat
  BY Sets
<1> SUFFICES ASSUME NEW i \in DOMAIN after, NEW j \in DOMAIN after, i < j,
                    after[i].status = "ACTIVE", after[j].status = "ACTIVE"
             PROVE  after[i].reservation <= after[j].reservation
  BY DEF InTurn
<1>3. CASE i \in DOMAIN rows /\ j \in DOMAIN rows
  BY <1>3 DEF InTurn
<1>4. CASE i \in DOMAIN rows /\ j \notin DOMAIN rows
  BY <1>1, <1>4
<1>5. CASE i \notin DOMAIN rows /\ j \in DOMAIN rows
  BY <1>5
<1>6. CASE i \notin DOMAIN rows /\ j \notin DOMAIN rows
  BY <1>2, <1>6
<1>7. QED
  BY <1>3, <1>4, <1>5, <1>6

\* Creating a reservation implements the summed call.
LEMMA CreateStep ==
  ASSUME RowsBase, NEW r \in Reservation, NEW quantity \in 1 .. MaxQuantity,
         NEW project \in Project \cup {NoProject}, NEW preferred \in Source,
         CreateReservation(r, quantity, project, preferred)
  PROVE  RowsBase' /\ KeepsTurn /\ Summed!CreateReservation(r, quantity, project, preferred)
<1> DEFINE pq     == Summed!PreferredQuantity(preferred, quantity)
           avail  == Summed!Available
           sq     == Smaller(Total(avail), quantity - pq)
           short  == quantity - pq - sq
           supply == Summed!OpenSupply(project, preferred)
           stock  == InOrder(avail, sq, ShelfOrder)
           open   == InOrder(supply, short, Summed!SupplyOrder)
           added  == NewRows(r, stock, ShelfOrder)
           first  == IF pq = 0 THEN <<>> ELSE <<NewRow(r, preferred, pq)>>
           more   == NewRows(r, open, Summed!SupplyOrder)
           line   == [status |-> "ACTIVE", quantity |-> quantity, project |-> project]
<1>1. /\ MayLog
      /\ Summed!NextUnused(reservations, r)
      /\ preferred # NoOrder => Summed!PreferredEligible(preferred, project)
      /\ Total(open) = short
      /\ stockRows' = stockRows \o added
      /\ incomingRows' = (incomingRows \o first) \o more
      /\ reservations' = [reservations EXCEPT ![r] = line]
      /\ UNCHANGED <<onHand, orders, splitRoot>>
      /\ Logged(ReservationEntry("RESERVE", quantity, "create", r))
  BY DEF CreateReservation
<1>2. quantity \in Nat \ {0}
  BY RowsAssumption
<1>3. pq \in 0 .. quantity /\ (pq # 0 => preferred # NoOrder)
  BY <1>2, PreferredFacts
<1> HIDE DEF pq
<1>4. /\ sq \in 0 .. quantity - pq
      /\ stock \in [Location -> Nat] /\ stock \in Draws(avail, sq)
      /\ FirstFit(stock, avail, Summed!LocationOrder)
      /\ added \in Seq(Row(Location, StockStatus))
      /\ \A i \in DOMAIN added : added[i].reservation = r
      /\ \A p \in Location : ActiveQuantity(added, r, p) = stock[p]
  BY <1>2, <1>3, CreateStock
<1> HIDE DEF avail, sq, stock, added
<1>5. short \in Nat
  BY <1>2, <1>3, <1>4
<1>6. /\ open \in Draws(supply, short)
      /\ FirstFit(open, supply, Summed!SupplyOrder)
      /\ first \in Seq(Row(Source, IncomingStatus)) /\ more \in Seq(Row(Source, IncomingStatus))
      /\ \A i \in DOMAIN (first \o more) : (first \o more)[i].reservation = r
      /\ \A p \in Source :
           ActiveQuantity(first \o more, r, p) = [open EXCEPT ![preferred] = pq][p]
      /\ [open EXCEPT ![preferred] = pq] \in [Source -> Nat]
  <2>1. pq \in Nat
    BY <1>2, <1>3
  <2> HIDE DEF short
  <2>2. QED
    BY <1>1, <1>3, <1>5, <2>1, CreateIncoming
<1> HIDE DEF short, supply, open, first, more
<1>7. /\ StateTypeOK /\ RowsTypeOK /\ log \in Seq(LogEntry)
      /\ OfUsed(stockRows, reservations) /\ OfUsed(incomingRows, reservations)
      /\ UsedInOrder(reservations)
      /\ stockRows \in Seq(Row(Location, StockStatus))
      /\ incomingRows \in Seq(Row(Source, IncomingStatus))
  BY DEF RowsBase, RowsTypeOK
<1>8. /\ reservations[r].status = "Unused"
      /\ \A k \in Reservation : k < r => reservations[k].status # "Unused"
  BY <1>1, <1>7 DEF Summed!NextUnused, StateTypeOK
<1>9. /\ \A i \in DOMAIN stockRows : stockRows[i].reservation # r
      /\ \A i \in DOMAIN incomingRows : incomingRows[i].reservation # r
  BY <1>7, <1>8 DEF OfUsed
<1>10. ActiveStock' = [ActiveStock EXCEPT ![r] = stock]
  <2>1. AddsTo(Location, StockStatus, stockRows, added, r, stock)
    BY <1>4, <1>7, <1>9 DEF AddsTo
  <2>2. Sums(stockRows \o added, Location) = [Sums(stockRows, Location) EXCEPT ![r] = stock]
    BY <2>1, AddedSums
  <2>3. QED
    BY <1>1, <2>2, SumsOf
<1>11. first \o more \in Seq(Row(Source, IncomingStatus))
       /\ incomingRows' = incomingRows \o (first \o more)
  <2>1. first \o more \in Seq(Row(Source, IncomingStatus))
    BY <1>6, ConcatProperties
  <2>2. (incomingRows \o first) \o more = incomingRows \o (first \o more)
    <3>1. /\ incomingRows \in Seq(Row(Source, IncomingStatus))
          /\ first \in Seq(Row(Source, IncomingStatus))
          /\ more \in Seq(Row(Source, IncomingStatus))
      BY <1>6, <1>7
    \*VAR
    <3>2. QED
      BY <3>1, ConcatAssociative, SMTT(30)
  <2>3. QED
    BY <1>1, <2>1, <2>2
<1> DEFINE rest == first \o more
<1> HIDE DEF rest
<1>12. /\ rest \in Seq(Row(Source, IncomingStatus)) /\ incomingRows' = incomingRows \o rest
       /\ \A i \in DOMAIN rest : rest[i].reservation = r
       /\ \A p \in Source : ActiveQuantity(rest, r, p) = [open EXCEPT ![preferred] = pq][p]
  BY <1>6, <1>11 DEF rest
<1>13. ActiveIncoming' = [ActiveIncoming EXCEPT ![r] = [open EXCEPT ![preferred] = pq]]
  <2> DEFINE q == [open EXCEPT ![preferred] = pq]
  <2>1. q \in [Source -> Nat] /\ \A p \in Source : ActiveQuantity(rest, r, p) = q[p]
    BY <1>6, <1>12
  <2> HIDE DEF q
  <2>2. Sums(incomingRows \o rest, Source) = [Sums(incomingRows, Source) EXCEPT ![r] = q]
    <3>1. AddsTo(Source, IncomingStatus, incomingRows, rest, r, q)
      BY <1>7, <1>9, <1>12, <2>1 DEF AddsTo
    <3>2. QED
      BY <3>1, AddedSums
  <2>3. QED
    BY <1>12, <2>2, SumsOf DEF q
<1>14. Summed!CreateReservation(r, quantity, project, preferred)
  <2>1. \E s \in Draws(avail, sq), t \in Draws(supply, short) :
          /\ FirstFit(s, avail, Summed!LocationOrder)
          /\ FirstFit(t, supply, Summed!SupplyOrder)
          /\ ActiveStock' = [ActiveStock EXCEPT ![r] = s]
          /\ ActiveIncoming' = [ActiveIncoming EXCEPT ![r] = [t EXCEPT ![preferred] = pq]]
    BY <1>4, <1>6, <1>10, <1>13, Zenon
  <2>2. Summed!NextUnused(reservations, r)
        /\ (preferred # Summed!NoOrder => Summed!PreferredEligible(preferred, project))
        /\ reservations' = [reservations EXCEPT ![r] = line]
        /\ UNCHANGED <<onHand, orders>>
    BY <1>1, Sets
  <2>3. QED
    BY <2>1, <2>2, SameTotal, SameQuantities
    DEF Summed!CreateReservation, Summed!Reserve, avail, sq, supply, short, pq, line
<1>15. RowsBase' /\ KeepsTurn
  <2>1. line \in Summed!ReservationRow
    BY <1>2, Sets DEF Summed!ReservationRow
  <2>2. reservations' \in [Reservation -> Summed!ReservationRow] /\ reservations \in [Reservation -> Summed!ReservationRow]
    BY <1>1, <1>7, <2>1 DEF StateTypeOK
  <2>3. StateTypeOK'
    BY <1>1, <1>7, <2>2 DEF StateTypeOK
  <2>4. RowsTypeOK'
    BY <1>1, <1>4, <1>7, <1>12, ConcatProperties DEF RowsTypeOK
  <2>5. log' \in Seq(LogEntry)
    <3>1. ReservationEntry("RESERVE", quantity, "create", r) \in LogEntry
      BY <1>2, ReservationEntryType
    <3>2. QED
      BY <1>1, <1>7, <2>3, <3>1, LoggedType DEF StateTypeOK
  <2>6. /\ DOMAIN stockRows \subseteq DOMAIN stockRows'
        /\ \A i \in DOMAIN stockRows : stockRows'[i] = stockRows[i]
        /\ \A i \in DOMAIN stockRows' \ DOMAIN stockRows : stockRows'[i].reservation = r
    BY <1>1, <1>4, <1>7, AppendedRows
  <2>7. /\ DOMAIN incomingRows \subseteq DOMAIN incomingRows'
        /\ \A i \in DOMAIN incomingRows : incomingRows'[i] = incomingRows[i]
        /\ \A i \in DOMAIN incomingRows' \ DOMAIN incomingRows :
             incomingRows'[i].reservation = r /\ \A j \in DOMAIN incomingRows : j < i
    BY <1>7, <1>12, AppendedRows
  <2>8. \A x \in Reservation : reservations'[x].status = IF x = r THEN "ACTIVE" ELSE reservations[x].status
    BY <1>1, <2>2
  <2>9. /\ \A i \in DOMAIN stockRows : stockRows[i].reservation \in Reservation
        /\ \A i \in DOMAIN incomingRows : incomingRows[i].reservation \in Reservation
    BY <1>7, RowFields
  <2>10. OfUsed(stockRows', reservations') /\ OfUsed(incomingRows', reservations')
    BY <1>7, <2>6, <2>7, <2>8, <2>9 DEF OfUsed
  <2>11. ASSUME InTurn(incomingRows) PROVE InTurn(incomingRows')
    <3>1. DOMAIN incomingRows' \subseteq Nat
      <4>1. incomingRows' \in Seq(Row(Source, IncomingStatus))
        BY <2>4 DEF RowsTypeOK
      <4>2. QED
        BY <4>1
    <3>2. QED
      BY <1>7, <1>8, <2>7, <2>9, <2>11, <3>1, NewestLast
  <2>12. UsedInOrder(reservations')
    BY <1>7, <1>8, <2>8 DEF UsedInOrder
  <2>13. QED
    BY <2>3, <2>4, <2>5, <2>10, <2>11, <2>12 DEF RowsBase, KeepsTurn
<1>16. QED
  BY <1>14, <1>15

-----------------------------------------------------------------------------
(* Releasing and consuming.                                                *)

\* after is rows, less taken of the rows of r.
TakesFrom(P, T, rows, after, r, n, taken) ==
  /\ after \in Seq(Row(P, T))
  /\ taken \in [P -> Nat] /\ taken \in Draws(Sums(rows, P)[r], Smaller(n, Total(Sums(rows, P)[r])))
  /\ Sums(after, P) = [Sums(rows, P) EXCEPT ![r] = Minus(@, taken)]
  /\ Kept(rows, after)
  /\ \A i \in DOMAIN after :
       \/ after[i].reservation = r
       \/ i \in DOMAIN rows /\ after[i].reservation = rows[i].reservation

\* A loop over the active rows of r takes a draw from r, and from nobody else.
LEMMA DrainTakes ==
  ASSUME NEW P, IsFiniteSet(P), NEW T, NEW rows \in Seq(Row(P, T)), NEW r \in Reservation,
         NEW n \in Nat, NEW status \in T, status # "ACTIVE", NEW id \in 0 .. MaxLog,
         NEW noted \in BOOLEAN
  PROVE  LET d == DrawnRows(rows, n, ActiveOf(rows, r))
         IN  TakesFrom(P, T, rows, Drain(rows, d, Ended(rows, status, id, noted)), r, n,
                       AtPlaces(rows, d, P))
<1> DEFINE d     == DrawnRows(rows, n, ActiveOf(rows, r))
           a     == [p \in P |-> ActiveQuantity(rows, r, p)]
           taken == AtPlaces(rows, d, P)
           after == Drain(rows, d, Ended(rows, status, id, noted))
<1>1. /\ after \in Seq(Row(P, T))
      /\ taken \in Draws(a, Smaller(n, Total(a)))
      /\ [p \in P |-> ActiveQuantity(after, r, p)] = Minus(a, taken)
      /\ \A x \in Reservation \ {r}, p \in P :
           ActiveQuantity(after, x, p) = ActiveQuantity(rows, x, p)
      /\ DOMAIN rows \subseteq DOMAIN after
      /\ \A i \in DOMAIN rows : after[i].reservation = rows[i].reservation
      /\ \A j \in DOMAIN after \ DOMAIN rows :
           after[j].reservation = r /\ after[j].status # "ACTIVE"
      /\ \A i \in DOMAIN rows : after[i].status = "ACTIVE" => rows[i].status = "ACTIVE"
  BY DrainOf
<1>2. Sums(rows, P)[r] = a
  BY DEF Sums
<1> HIDE DEF after, taken
<1>3. taken \in [P -> Nat]
  <2>1. a \in [P -> Nat]
    BY ActiveIsWeights
  <2>2. Total(a) \in Nat
    <3> HIDE DEF a
    <3> QED BY <2>1, TotalType
  <2>3. Smaller(n, Total(a)) \in Nat
    BY <2>2 DEF Smaller
  <2> HIDE DEF a
  <2>4. QED
    BY <1>1, <2>1, <2>3, DrawType
<1>4. Sums(after, P) = [Sums(rows, P) EXCEPT ![r] = Minus(@, taken)]
  <2>1. ASSUME NEW x \in Reservation
        PROVE  [p \in P |-> ActiveQuantity(after, x, p)]
                 = IF x = r THEN Minus(a, taken) ELSE [p \in P |-> ActiveQuantity(rows, x, p)]
    BY <1>1
  <2>2. QED
    BY <1>2, <2>1 DEF Sums
<1>5. Kept(rows, after)
  BY <1>1 DEF Kept
<1>6. \A i \in DOMAIN after :
        \/ after[i].reservation = r
        \/ i \in DOMAIN rows /\ after[i].reservation = rows[i].reservation
  BY <1>1
<1>7. QED
  BY <1>1, <1>2, <1>3, <1>4, <1>5, <1>6 DEF TakesFrom, after, taken, d

\* A loop over rows draws natural numbers.
LEMMA DrawnRowsType ==
  ASSUME NEW P, NEW T, NEW rows, rows \in Seq(Row(P, T)), NEW n, n \in Nat,
         NEW ids, ids \in SUBSET (DOMAIN rows)
  PROVE  DrawnRows(rows, n, ids) \in [DOMAIN rows -> Nat]
BY DrawnRowsFacts

\* What stays true when a call moves rows of r to their end, and ends r or
\* not.
LEMMA ReducedKeeps ==
  ASSUME RowsBase, NEW r \in Reservation, NEW quantity \in Nat, NEW final,
         final \in {"RELEASED", "CONSUMED"},
         reservations[r].status = "ACTIVE", quantity <= reservations[r].quantity
  PROVE  /\ Summed!Reduced(r, quantity, final) \in [Reservation -> Summed!ReservationRow]
         /\ UsedInOrder(Summed!Reduced(r, quantity, final))
         /\ \A x \in Reservation : reservations[x].status # "Unused"
                                   => Summed!Reduced(r, quantity, final)[x].status # "Unused"
         /\ Summed!Reduced(r, quantity, final)[r].status # "Unused"
<1> DEFINE after == Summed!Reduced(r, quantity, final)
           row   == [status |-> IF reservations[r].quantity - quantity = 0 THEN final ELSE "ACTIVE",
                     quantity |-> IF reservations[r].quantity - quantity = 0 THEN quantity
                                  ELSE reservations[r].quantity - quantity,
                     project |-> reservations[r].project]
<1>1. reservations \in [Reservation -> Summed!ReservationRow] /\ UsedInOrder(reservations)
  BY DEF RowsBase, StateTypeOK
<1>2. after = [reservations EXCEPT ![r] = row]
  BY <1>1 DEF Summed!Reduced
<1>3. row \in Summed!ReservationRow /\ row.status # "Unused"
  <2>1. /\ reservations[r].quantity \in Nat /\ reservations[r].quantity - quantity \in Nat
        /\ reservations[r].project \in Project \cup {NoProject}
    BY <1>1 DEF Summed!ReservationRow
  <2>2. QED
    BY <2>1 DEF Summed!ReservationRow
<1> HIDE DEF after, row
<1>4. after \in [Reservation -> Summed!ReservationRow]
      /\ \A x \in Reservation : after[x] = IF x = r THEN row ELSE reservations[x]
  BY <1>1, <1>2, <1>3
<1>5. \A x \in Reservation : after[x].status = "Unused" <=> reservations[x].status = "Unused"
  BY <1>3, <1>4
<1>6. UsedInOrder(after)
  BY <1>1, <1>5 DEF UsedInOrder
<1>7. QED
  BY <1>3, <1>4, <1>5, <1>6 DEF after

\* A call that takes rows of r away leaves rows of reservations that exist.
LEMMA TakenUsed ==
  ASSUME NEW P, NEW T, NEW rows, NEW after, NEW r, NEW n, NEW taken,
         TakesFrom(P, T, rows, after, r, n, taken), rows \in Seq(Row(P, T)),
         NEW table, NEW now, OfUsed(rows, table), now[r].status # "Unused",
         \A x \in Reservation : table[x].status # "Unused" => now[x].status # "Unused"
  PROVE  OfUsed(after, now)
<1>1. \A i \in DOMAIN rows : rows[i].reservation \in Reservation
  BY RowFields
<1>2. QED
  BY <1>1 DEF TakesFrom, OfUsed

\* Releasing implements the summed call.
LEMMA ReleaseStep ==
  ASSUME RowsBase, NEW r \in Reservation, NEW quantity \in 1 .. MaxQuantity, NEW noted \in BOOLEAN,
         ReleaseReservation(r, quantity, noted)
  PROVE  RowsBase' /\ KeepsTurn /\ Summed!ReleaseReservation(r, quantity)
<1> DEFINE id    == Len(log) + 1
           sq    == Smaller(quantity, Total(ActiveStock[r]))
           iq    == quantity - sq
           stock == DrawnRows(stockRows, quantity, ActiveOf(stockRows, r))
           open  == DrawnRows(incomingRows, iq, ActiveOf(incomingRows, r))
           s     == AtPlaces(stockRows, stock, Location)
           t     == AtPlaces(incomingRows, open, Source)
<1>1. /\ MayLog
      /\ reservations[r].status = "ACTIVE"
      /\ quantity <= reservations[r].quantity
      /\ quantity <= Total(ActiveStock[r]) + Total(ActiveIncoming[r])
      /\ stockRows' = Drain(stockRows, stock, Ended(stockRows, "RELEASED", id, noted))
      /\ incomingRows' = Drain(incomingRows, open, Ended(incomingRows, "RELEASED", id, noted))
      /\ reservations' = Summed!Reduced(r, quantity, "RELEASED")
      /\ UNCHANGED <<onHand, orders, splitRoot>>
      /\ Logged(ReservationEntry("RESERVE", quantity, "release", r))
  BY DEF ReleaseReservation
<1>2. /\ StateTypeOK /\ RowsTypeOK /\ log \in Seq(LogEntry)
      /\ OfUsed(stockRows, reservations) /\ OfUsed(incomingRows, reservations)
      /\ UsedInOrder(reservations)
      /\ stockRows \in Seq(Row(Location, StockStatus))
      /\ incomingRows \in Seq(Row(Source, IncomingStatus))
  BY DEF RowsBase, RowsTypeOK
<1>3. quantity \in Nat \ {0}
  BY RowsAssumption
<1>4. id \in 0 .. MaxLog
  BY <1>1, <1>2, Sets DEF MayLog
<1>5. Total(ActiveStock[r]) \in Nat /\ Total(ActiveIncoming[r]) \in Nat
  BY <1>2, SupplyTypes, Sets, TotalType
<1>6. sq \in Nat /\ iq \in Nat /\ sq <= quantity /\ sq <= Total(ActiveStock[r])
      /\ Smaller(iq, Total(ActiveIncoming[r])) = iq
  BY <1>1, <1>3, <1>5 DEF Smaller
<1>7. TakesFrom(Location, StockStatus, stockRows, stockRows', r, quantity, s)
  <2>1. "RELEASED" \in StockStatus
    BY DEF StockStatus
  <2> HIDE DEF id
  <2>2. QED
    BY <1>1, <1>2, <1>3, <1>4, <2>1, Sets, DrainTakes
<1>8. TakesFrom(Source, IncomingStatus, incomingRows, incomingRows', r, iq, t)
  <2>1. "RELEASED" \in IncomingStatus
    BY DEF IncomingStatus
  <2> HIDE DEF id, iq
  <2>2. QED
    BY <1>1, <1>2, <1>4, <1>6, <2>1, Sets, DrainTakes
<1> HIDE DEF s, t, iq
<1>9. /\ s \in Draws(ActiveStock[r], sq) /\ t \in Draws(ActiveIncoming[r], iq)
      /\ ActiveStock' = [ActiveStock EXCEPT ![r] = Minus(@, s)]
      /\ ActiveIncoming' = [ActiveIncoming EXCEPT ![r] = Minus(@, t)]
  BY <1>6, <1>7, <1>8, SumsOf DEF TakesFrom
<1>10. Summed!ReleaseReservation(r, quantity)
  <2>1. \E x \in Draws(ActiveStock[r], sq), y \in Draws(ActiveIncoming[r], quantity - sq) :
          /\ ActiveStock' = [ActiveStock EXCEPT ![r] = Minus(@, x)]
          /\ ActiveIncoming' = [ActiveIncoming EXCEPT ![r] = Minus(@, y)]
    BY <1>9, Zenon DEF iq
  <2>2. QED
    BY <1>1, <2>1, SameTotal, SameQuantities DEF Summed!ReleaseReservation
<1>11. RowsBase' /\ KeepsTurn
  <2>1. /\ reservations' \in [Reservation -> Summed!ReservationRow] /\ UsedInOrder(reservations')
        /\ reservations'[r].status # "Unused"
        /\ \A x \in Reservation : reservations[x].status # "Unused" => reservations'[x].status # "Unused"
    BY <1>1, <1>3, ReducedKeeps
  <2>2. StateTypeOK'
    BY <1>1, <1>2, <2>1 DEF StateTypeOK
  <2>3. RowsTypeOK'
    BY <1>7, <1>8 DEF RowsTypeOK, TakesFrom
  <2>4. log' \in Seq(LogEntry)
    <3>1. ReservationEntry("RESERVE", quantity, "release", r) \in LogEntry
      BY <1>3, ReservationEntryType
    <3>2. QED
      BY <1>1, <1>2, <2>2, <3>1, LoggedType DEF StateTypeOK
  <2>5. OfUsed(stockRows', reservations') /\ OfUsed(incomingRows', reservations')
    BY <1>2, <1>7, <1>8, <2>1, TakenUsed
  <2>6. KeepsTurn
    BY <1>8, InTurnKept DEF TakesFrom, KeepsTurn
  <2>7. QED
    BY <2>1, <2>2, <2>3, <2>4, <2>5, <2>6 DEF RowsBase
<1>12. QED
  BY <1>10, <1>11

\* Consuming implements the summed call.
LEMMA ConsumeStep ==
  ASSUME RowsBase, NEW r \in Reservation, NEW quantity \in 1 .. MaxQuantity, NEW noted \in BOOLEAN,
         ConsumeReservation(r, quantity, noted)
  PROVE  RowsBase' /\ KeepsTurn /\ Summed!ConsumeReservation(r, quantity)
<1> DEFINE id    == Len(log) + 1
           drawn == DrawnRows(stockRows, quantity, ActiveOf(stockRows, r))
           taken == [l \in Location |->
                       Total([i \in { j \in DOMAIN drawn : stockRows[j].place = l } |-> drawn[i]])]
           s     == AtPlaces(stockRows, drawn, Location)
<1>1. /\ MayLog
      /\ reservations[r].status = "ACTIVE"
      /\ quantity <= reservations[r].quantity
      /\ quantity <= Total(ActiveStock[r])
      /\ \A l \in Location : taken[l] <= onHand[l]
      /\ onHand' = Minus(onHand, taken)
      /\ stockRows' = Drain(stockRows, drawn, Ended(stockRows, "CONSUMED", id, noted))
      /\ reservations' = Summed!Reduced(r, quantity, "CONSUMED")
      /\ UNCHANGED <<orders, splitRoot, incomingRows>>
      /\ Logged(ReservationEntry("CONSUME", quantity, "consume", r))
  BY DEF ConsumeReservation
<1>2. /\ StateTypeOK /\ RowsTypeOK /\ log \in Seq(LogEntry)
      /\ OfUsed(stockRows, reservations) /\ OfUsed(incomingRows, reservations)
      /\ UsedInOrder(reservations)
      /\ stockRows \in Seq(Row(Location, StockStatus))
      /\ incomingRows \in Seq(Row(Source, IncomingStatus))
  BY DEF RowsBase, RowsTypeOK
<1>3. quantity \in Nat \ {0}
  BY RowsAssumption
<1>4. id \in 0 .. MaxLog
  BY <1>1, <1>2, Sets DEF MayLog
<1>5. Total(ActiveStock[r]) \in Nat /\ Smaller(quantity, Total(ActiveStock[r])) = quantity
  <2>1. Total(ActiveStock[r]) \in Nat
    BY <1>2, SupplyTypes, Sets, TotalType
  <2>2. QED
    BY <1>1, <1>3, <2>1 DEF Smaller
<1>6. taken = s
  <2>1. drawn \in [DOMAIN stockRows -> Nat]
    <3>1. ActiveOf(stockRows, r) \in SUBSET (DOMAIN stockRows)
      BY DEF ActiveOf
    <3>2. quantity \in Nat
      BY <1>3
    <3>3. QED
      BY <1>2, <3>1, <3>2, DrawnRowsType
  <2> HIDE DEF drawn
  <2>2. ASSUME NEW l \in Location
        PROVE  Total([i \in { j \in DOMAIN drawn : stockRows[j].place = l } |-> drawn[i]])
                 = Total(Part(drawn, AtPlace(stockRows, l)))
    <3>1. { j \in DOMAIN drawn : stockRows[j].place = l } = AtPlace(stockRows, l)
      BY <2>1 DEF AtPlace
    <3>2. AtPlace(stockRows, l) \in SUBSET (DOMAIN stockRows)
      BY DEF AtPlace
    <3>3. Total([i \in AtPlace(stockRows, l) |-> drawn[i]]) = Total(Part(drawn, AtPlace(stockRows, l)))
      BY <2>1, <3>2, TotalOfPart
    <3>4. QED
      BY <3>1, <3>3
  <2>3. QED
    BY <2>2 DEF AtPlaces
<1>7. TakesFrom(Location, StockStatus, stockRows, stockRows', r, quantity, s)
  <2>1. "CONSUMED" \in StockStatus
    BY DEF StockStatus
  <2> HIDE DEF id
  <2>2. QED
    BY <1>1, <1>2, <1>3, <1>4, <2>1, Sets, DrainTakes
<1> HIDE DEF taken, s
<1>8. /\ s \in Draws(ActiveStock[r], quantity) /\ s \in [Location -> Nat]
      /\ ActiveStock' = [ActiveStock EXCEPT ![r] = Minus(@, s)]
      /\ ActiveIncoming' = ActiveIncoming
  BY <1>1, <1>5, <1>7, SumsOf DEF TakesFrom
<1>9. Summed!ConsumeReservation(r, quantity)
  <2>1. \E x \in Draws(ActiveStock[r], quantity) :
          /\ \A l \in Location : x[l] <= onHand[l]
          /\ onHand' = Minus(onHand, x)
          /\ ActiveStock' = [ActiveStock EXCEPT ![r] = Minus(@, x)]
    BY <1>1, <1>6, <1>8, Zenon
  <2>2. QED
    BY <1>1, <1>8, <2>1, SameQuantities DEF Summed!ConsumeReservation
<1>10. RowsBase' /\ KeepsTurn
  <2>1. /\ reservations' \in [Reservation -> Summed!ReservationRow] /\ UsedInOrder(reservations')
        /\ reservations'[r].status # "Unused"
        /\ \A x \in Reservation : reservations[x].status # "Unused" => reservations'[x].status # "Unused"
    BY <1>1, <1>3, ReducedKeeps
  <2>2. onHand' \in [Location -> Nat] /\ onHand \in [Location -> Nat]
    BY <1>1, <1>2, <1>6, <1>8 DEF StateTypeOK, Minus
  <2>3. StateTypeOK'
    BY <1>1, <1>2, <2>1, <2>2 DEF StateTypeOK
  <2>4. RowsTypeOK'
    BY <1>1, <1>2, <1>7 DEF RowsTypeOK, TakesFrom
  <2>5. log' \in Seq(LogEntry)
    <3>1. ReservationEntry("CONSUME", quantity, "consume", r) \in LogEntry
      BY <1>3, ReservationEntryType
    <3>2. QED
      BY <1>1, <1>2, <2>2, <3>1, LoggedType
  <2>6. OfUsed(stockRows', reservations')
    BY <1>2, <1>7, <2>1, TakenUsed
  <2>7. OfUsed(incomingRows', reservations')
    <3>1. \A i \in DOMAIN incomingRows : incomingRows[i].reservation \in Reservation
      BY <1>2, RowFields
    <3>2. QED
      BY <1>1, <1>2, <2>1, <3>1 DEF OfUsed
  <2>8. KeepsTurn
    BY <1>1 DEF InTurn, KeepsTurn
  <2>9. QED
    BY <2>1, <2>3, <2>4, <2>5, <2>6, <2>7, <2>8 DEF RowsBase
<1>11. QED
  BY <1>9, <1>10

-----------------------------------------------------------------------------
(* Arrivals.                                                               *)

\* The rows of a reservation, and how much of d is of each reservation.
OfReservation(rows, x) == { i \in DOMAIN rows : rows[i].reservation = x }

ByReservation(rows, d) == [x \in Reservation |-> Total(Part(d, OfReservation(rows, x)))]

\* Grouping a draw by reservation keeps its total.
LEMMA GroupedByReservation ==
  ASSUME NEW P, NEW T, NEW rows, rows \in Seq(Row(P, T)), NEW d, d \in [DOMAIN rows -> Nat]
  PROVE  /\ ByReservation(rows, d) \in [Reservation -> Nat]
         /\ Total(ByReservation(rows, d)) = Total(d)
<1> DEFINE D == DOMAIN rows
           g == [i \in D |-> rows[i].reservation]
<1>1. IsFiniteSet(D) /\ \A i \in D : rows[i].reservation \in Reservation
  BY RowFields
<1>2. ASSUME NEW x \in Reservation PROVE Where(g, x) = OfReservation(rows, x)
  BY DEF Where, OfReservation
<1>3. g \in [D -> Reservation]
  BY <1>1
<1>4. Grouped(d, g, Reservation) = ByReservation(rows, d)
  <2> HIDE DEF g
  <2> QED BY <1>2 DEF Grouped, ByReservation
<1> HIDE DEF D, g
<1>5. d \in [D -> Nat]
  BY DEF D
<1>6. QED
  BY <1>1, <1>3, <1>4, <1>5, Sets, TotalGrouped

SamePart(S, f, X, g, Y) ==
  \A i \in S : (IF i \in X THEN f[i] ELSE 0) = (IF i \in Y THEN g[i] ELSE 0)

\* Parts that agree everywhere are equal.
LEMMA PartsEqual ==
  ASSUME NEW S, NEW f, f \in [S -> Nat], NEW g, g \in [S -> Nat], NEW X, NEW Y,
         SamePart(S, f, X, g, Y)
  PROVE  Part(f, X) = Part(g, Y)
<1>1. /\ Part(f, X) \in [S -> Nat] /\ \A i \in S : Part(f, X)[i] = IF i \in X THEN f[i] ELSE 0
      /\ Part(g, Y) \in [S -> Nat] /\ \A i \in S : Part(g, Y)[i] = IF i \in Y THEN g[i] ELSE 0
  BY PartType
<1>2. QED
  BY <1>1 DEF SamePart

\* A part that takes nothing adds up to nothing.
LEMMA PartNothing ==
  ASSUME NEW S, IsFiniteSet(S), NEW f, f \in [S -> Nat], NEW X, \A i \in S : i \in X => f[i] = 0
  PROVE  Total(Part(f, X)) = 0
<1>1. /\ Part(f, X) \in [S -> Nat] /\ \A i \in S : Part(f, X)[i] = IF i \in X THEN f[i] ELSE 0
  BY PartType
<1>2. \A i \in S : Part(f, X)[i] = 0
  BY <1>1
<1>3. QED
  BY <1>1, <1>2, TotalZero

\* A part that adds up to something takes something.
LEMMA PartPositive ==
  ASSUME NEW S, IsFiniteSet(S), NEW f, f \in [S -> Nat], NEW X, Total(Part(f, X)) > 0
  PROVE  \E i \in S : i \in X /\ f[i] > 0
<1> SUFFICES ASSUME \A i \in S : i \in X => ~(f[i] > 0) PROVE FALSE
  OBVIOUS
<1>1. \A i \in S : i \in X => f[i] = 0
  OBVIOUS
<1>2. QED
  BY <1>1, PartNothing

\* A part of less adds up to less.
LEMMA PartsBelow ==
  ASSUME NEW S, IsFiniteSet(S), NEW f, f \in [S -> Nat], NEW g, g \in [S -> Nat], NEW X,
         \A i \in S : f[i] <= g[i]
  PROVE  Total(Part(f, X)) <= Total(Part(g, X))
<1>1. /\ Part(f, X) \in [S -> Nat] /\ \A i \in S : Part(f, X)[i] = IF i \in X THEN f[i] ELSE 0
      /\ Part(g, X) \in [S -> Nat] /\ \A i \in S : Part(g, X)[i] = IF i \in X THEN g[i] ELSE 0
  BY PartType
<1>2. \A i \in S : Part(f, X)[i] <= Part(g, X)[i]
  BY <1>1
<1>3. QED
  BY <1>1, <1>2, TotalMonotone

\* What an arrival converts, by reservation: oldest first when rows are in turn.
LEMMA ArrivalDraw ==
  ASSUME NEW rows, rows \in Seq(Row(Source, IncomingStatus)),
         NEW o, o \in Source, NEW n \in Nat
  PROVE  LET d    == DrawnRows(rows, n, ActiveOn(rows, o))
             conv == ByReservation(rows, d)
             held == [x \in Reservation |-> Sums(rows, Source)[x][o]]
         IN  /\ d \in [DOMAIN rows -> Nat]
             /\ \A i \in DOMAIN rows : /\ d[i] <= rows[i].quantity
                                       /\ d[i] > 0 => i \in ActiveOn(rows, o)
             /\ conv \in Draws(held, Smaller(n, Total(held)))
             /\ conv \in [Reservation -> Nat]
             /\ InTurn(rows) => FirstFit(conv, held, Summed!ReservationOrder)
             /\ \A x \in Reservation, p \in Source :
                  Total(Part(d, RowsOf(rows, x, p))) = IF p = o THEN conv[x] ELSE 0
<1> DEFINE D    == DOMAIN rows
           ids  == ActiveOn(rows, o)
           d    == DrawnRows(rows, n, ids)
           f    == [i \in D |-> IF i \in ids THEN rows[i].quantity ELSE 0]
           conv == ByReservation(rows, d)
           held == [x \in Reservation |-> Sums(rows, Source)[x][o]]
<1>1. /\ IsFiniteSet(D) /\ D \subseteq Nat
      /\ \A i \in D : rows[i].quantity \in Nat /\ rows[i].reservation \in Reservation
  BY RowFields
<1>2. ids \in SUBSET D /\ \A i \in D : i \in ids <=> rows[i].status = "ACTIVE" /\ rows[i].place = o
  BY DEF ActiveOn
<1> HIDE DEF ids
<1>3. /\ d \in [D -> Nat] /\ f \in [D -> Nat]
      /\ \A i \in D : /\ d[i] <= f[i] /\ d[i] <= rows[i].quantity
                      /\ d[i] > 0 => i \in ids
      /\ Total(d) = Smaller(n, Total(f))
      /\ \A i, j \in D : i < j /\ d[j] > 0 => d[i] = f[i]
  BY <1>2, DrawnRowsFacts
<1>4. \A i \in D : f[i] = IF i \in ids THEN rows[i].quantity ELSE 0
  OBVIOUS
<1> HIDE DEF d, f, D
<1>5. /\ conv \in [Reservation -> Nat] /\ Total(conv) = Total(d)
      /\ ByReservation(rows, f) \in [Reservation -> Nat] /\ Total(ByReservation(rows, f)) = Total(f)
  BY <1>3, GroupedByReservation DEF D
<1>6. ASSUME NEW x \in Reservation
      PROVE  held[x] = Total(Part(f, OfReservation(rows, x))) /\ held[x] \in Nat
  <2>1. /\ held[x] = ActiveQuantity(rows, x, o)
        /\ ActiveQuantity(rows, x, o) = Total(Weights(rows, x, o))
        /\ ActiveQuantity(rows, x, o) \in Nat
    BY ActiveIsWeights DEF Sums
  <2>2. Weights(rows, x, o) \in [D -> Nat]
    BY WeightsType DEF D
  <2>3. /\ Part(f, OfReservation(rows, x)) \in [D -> Nat]
        /\ \A i \in D : Part(f, OfReservation(rows, x))[i]
                          = IF i \in OfReservation(rows, x) THEN f[i] ELSE 0
    BY <1>3, PartType
  <2>4. \A i \in D : Weights(rows, x, o)[i] = Part(f, OfReservation(rows, x))[i]
    BY <1>2, <1>4, <2>3 DEF Weights, OfReservation, D
  <2>5. Weights(rows, x, o) = Part(f, OfReservation(rows, x))
    BY <2>2, <2>3, <2>4
  <2>6. QED
    BY <2>1, <2>5
<1>7. held = ByReservation(rows, f)
  BY <1>6 DEF ByReservation
<1>8. conv \in Draws(held, Smaller(n, Total(held)))
  <2>1. \A x \in Reservation : conv[x] <= held[x]
    <3> SUFFICES ASSUME NEW x \in Reservation PROVE conv[x] <= held[x]
      OBVIOUS
    <3>1. Total(Part(d, OfReservation(rows, x))) <= Total(Part(f, OfReservation(rows, x)))
      BY <1>1, <1>3, PartsBelow
    <3>2. QED
      BY <1>6, <3>1 DEF ByReservation
  <2> HIDE DEF conv, held
  <2>2. Total(conv) = Smaller(n, Total(held)) /\ Total(conv) \in Nat
    BY <1>3, <1>5, <1>7, Sets, TotalType
  <2>3. \A x \in Reservation : conv[x] \in 0 .. Smaller(n, Total(held))
    <3> SUFFICES ASSUME NEW x \in Reservation PROVE conv[x] \in 0 .. Smaller(n, Total(held))
      OBVIOUS
    <3>1. conv[x] <= Total(conv) /\ conv[x] \in Nat
      BY <1>5, Sets, EntryBelowTotal
    <3>2. QED
      BY <2>2, <3>1
  <2>4. DOMAIN held = Reservation
    BY DEF held
  <2>5. QED
    BY <1>5, <2>1, <2>2, <2>3, <2>4 DEF Draws
<1>9. ASSUME InTurn(rows) PROVE FirstFit(conv, held, Summed!ReservationOrder)
  <2>1. ASSUME NEW x \in Reservation, NEW y \in Reservation, x < y, conv[y] > 0
        PROVE  conv[x] = held[x]
    <3>1. Total(Part(d, OfReservation(rows, y))) > 0
      BY <2>1 DEF ByReservation
    <3>2. PICK j \in D : j \in OfReservation(rows, y) /\ d[j] > 0
      BY <1>1, <1>3, <3>1, PartPositive
    <3>3. j \in ids /\ rows[j].reservation = y
      BY <1>3, <3>2 DEF OfReservation
    <3>4. ASSUME NEW i \in D, i \in OfReservation(rows, x) PROVE d[i] = f[i]
      <4>1. rows[i].reservation = x
        BY <3>4 DEF OfReservation
      <4>2. CASE i \in ids
        <5>1. ~(j < i)
          <6>1. x \in Nat /\ y \in Nat
            BY Sets
          <6>2. QED
            BY <1>2, <1>9, <2>1, <3>3, <4>1, <4>2, <6>1 DEF InTurn, D
        <5>2. i # j
          <6>1. x \in Nat /\ y \in Nat
            BY Sets
          <6>2. QED
            BY <2>1, <3>3, <4>1, <6>1
        <5>3. i < j
          BY <1>1, <5>1, <5>2
        <5>4. QED
          BY <1>3, <3>2, <5>3
      <4>3. CASE i \notin ids
        BY <1>3, <1>4, <4>3
      <4>4. QED
        BY <4>2, <4>3
    <3>5. Part(d, OfReservation(rows, x)) = Part(f, OfReservation(rows, x))
      <4>1. SamePart(D, d, OfReservation(rows, x), f, OfReservation(rows, x))
        BY <3>4 DEF SamePart
      <4>2. d \in [D -> Nat] /\ f \in [D -> Nat]
        BY <1>3
      <4>3. QED
        BY <4>1, <4>2, PartsEqual
    <3>6. QED
      BY <1>6, <3>5 DEF ByReservation
  <2>2. \A pair \in Summed!ReservationOrder :
          pair[1] \in Reservation /\ pair[2] \in Reservation /\ pair[1] < pair[2]
    BY Sets DEF Summed!ReservationOrder
  <2> HIDE DEF conv, held
  <2>3. QED
    BY <2>1, <2>2 DEF FirstFit
<1>10. ASSUME NEW x \in Reservation, NEW p \in Source
       PROVE  Total(Part(d, RowsOf(rows, x, p))) = IF p = o THEN conv[x] ELSE 0
  <2>1. \A i \in D : d[i] > 0 => rows[i].place = o
    BY <1>2, <1>3
  <2>2. CASE p = o
    <3>1. SamePart(D, d, RowsOf(rows, x, p), d, OfReservation(rows, x))
      <4>1. ASSUME NEW i \in D
            PROVE  (IF i \in RowsOf(rows, x, p) THEN d[i] ELSE 0)
                     = (IF i \in OfReservation(rows, x) THEN d[i] ELSE 0)
        <5>1. d[i] \in Nat
          BY <1>3
        <5>2. QED
          BY <2>1, <2>2, <5>1 DEF RowsOf, OfReservation, D
      <4>2. QED
        BY <4>1 DEF SamePart
    <3>2. Part(d, RowsOf(rows, x, p)) = Part(d, OfReservation(rows, x))
      <4>1. d \in [D -> Nat]
        BY <1>3
      <4>2. QED
        BY <3>1, <4>1, PartsEqual
    <3>3. QED
      BY <2>2, <3>2 DEF ByReservation
  <2>3. CASE p # o
    <3>1. \A i \in D : i \in RowsOf(rows, x, p) => d[i] = 0
      BY <1>3, <2>1, <2>3 DEF RowsOf
    <3>2. QED
      BY <1>1, <1>3, <2>3, <3>1, PartNothing
  <2>4. QED
    BY <2>2, <2>3
<1>11. QED
  BY <1>3, <1>5, <1>8, <1>9, <1>10 DEF D, d, ids

\* Active rows on o go to rest.
Repointed(rows, o, rest) ==
  [i \in DOMAIN rows |-> IF rows[i].status = "ACTIVE" /\ rows[i].place = o
                         THEN [rows[i] EXCEPT !.place = rest] ELSE rows[i]]

\* What a line and the line that takes its rows over have for x.
Moved(q, o, rest, p) ==
  IF o = rest THEN q[p]
  ELSE IF p = o THEN 0 ELSE IF p = rest THEN q[rest] + q[o] ELSE q[p]

\* Rows that go to another line change nothing else.
LEMMA RepointedRows ==
  ASSUME NEW rows, rows \in Seq(Row(Source, IncomingStatus)),
         NEW o, o \in Source, NEW rest, rest \in Source
  PROVE  /\ Repointed(rows, o, rest) \in Seq(Row(Source, IncomingStatus))
         /\ DOMAIN Repointed(rows, o, rest) = DOMAIN rows
         /\ \A i \in DOMAIN rows :
              /\ Repointed(rows, o, rest)[i].status = rows[i].status
              /\ Repointed(rows, o, rest)[i].reservation = rows[i].reservation
              /\ Repointed(rows, o, rest)[i].quantity = rows[i].quantity
              /\ Repointed(rows, o, rest)[i].place
                   = IF rows[i].status = "ACTIVE" /\ rows[i].place = o THEN rest ELSE rows[i].place
<1>1. ASSUME NEW i \in DOMAIN rows
      PROVE  /\ Repointed(rows, o, rest)[i] \in Row(Source, IncomingStatus)
             /\ Repointed(rows, o, rest)[i].status = rows[i].status
             /\ Repointed(rows, o, rest)[i].reservation = rows[i].reservation
             /\ Repointed(rows, o, rest)[i].quantity = rows[i].quantity
             /\ Repointed(rows, o, rest)[i].place
                  = IF rows[i].status = "ACTIVE" /\ rows[i].place = o THEN rest ELSE rows[i].place
  <2>1. rows[i] \in Row(Source, IncomingStatus)
    BY RowFields
  <2>2. QED
    BY <2>1 DEF Repointed, Row
<1>2. DOMAIN rows = 1 .. Len(rows) /\ Len(rows) \in Nat
  BY RowFields
<1>3. DOMAIN Repointed(rows, o, rest) = DOMAIN rows
  BY DEF Repointed
<1>4. Repointed(rows, o, rest) \in Seq(Row(Source, IncomingStatus))
  <2> DEFINE s == Repointed(rows, o, rest)
  <2>1. s = [i \in 1 .. Len(rows) |-> s[i]]
    BY <1>2 DEF Repointed
  <2>2. \A i \in 1 .. Len(rows) : s[i] \in Row(Source, IncomingStatus)
    BY <1>1, <1>2
  <2> HIDE DEF s
  <2>3. s \in Seq(Row(Source, IncomingStatus))
    BY <1>2, <2>1, <2>2, IsASeq
  <2>4. QED
    BY <2>3 DEF s
<1>5. QED
  BY <1>1, <1>3, <1>4

\* The line that takes the rows over has what both had.
LEMMA RepointedSums ==
  ASSUME NEW rows, rows \in Seq(Row(Source, IncomingStatus)),
         NEW o, o \in Source, NEW rest, rest \in Source,
         NEW x \in Reservation, NEW p \in Source
  PROVE  Sums(Repointed(rows, o, rest), Source)[x][p] = Moved(Sums(rows, Source)[x], o, rest, p)
<1> DEFINE D     == DOMAIN rows
           after == Repointed(rows, o, rest)
           w(y)  == Weights(rows, x, y)
           v     == Weights(after, x, p)
<1>1. /\ after \in Seq(Row(Source, IncomingStatus)) /\ DOMAIN after = D
      /\ \A i \in D : /\ after[i].status = rows[i].status
                      /\ after[i].reservation = rows[i].reservation
                      /\ after[i].quantity = rows[i].quantity
                      /\ after[i].place = IF rows[i].status = "ACTIVE" /\ rows[i].place = o
                                          THEN rest ELSE rows[i].place
  BY RepointedRows
<1> HIDE DEF after
<1>2. IsFiniteSet(D) /\ \A i \in D : rows[i].quantity \in Nat
  BY RowFields
<1>3. \A y : /\ w(y) \in [D -> Nat] /\ ActiveQuantity(rows, x, y) = Total(w(y))
             /\ Total(w(y)) \in Nat
  BY WeightsType, ActiveIsWeights
<1>4. v \in [D -> Nat] /\ ActiveQuantity(after, x, p) = Total(v)
  BY <1>1, WeightsType, ActiveIsWeights
<1>5. \A y : \A i \in D : w(y)[i] = IF rows[i].status = "ACTIVE" /\ rows[i].reservation = x
                                       /\ rows[i].place = y THEN rows[i].quantity ELSE 0
  BY DEF Weights
<1>6. \A i \in D : v[i] = IF after[i].status = "ACTIVE" /\ after[i].reservation = x
                             /\ after[i].place = p THEN after[i].quantity ELSE 0
  BY <1>1 DEF Weights
<1>7. /\ Sums(after, Source)[x][p] = Total(v)
      /\ \A y \in Source : Sums(rows, Source)[x][y] = Total(w(y))
  BY <1>3, <1>4 DEF Sums
<1> HIDE DEF w, v, D
<1>8. CASE o = rest \/ (p # o /\ p # rest)
  <2>1. \A i \in D : v[i] = w(p)[i]
    BY <1>1, <1>5, <1>6, <1>8
  <2>2. v = w(p)
    BY <1>3, <1>4, <2>1
  <2>3. QED
    BY <1>7, <1>8, <2>2 DEF Moved, after
<1>9. CASE o # rest /\ p = o
  <2>1. \A i \in D : v[i] = 0
    BY <1>1, <1>6, <1>9
  <2>2. Total(v) = 0
    BY <1>2, <1>4, <2>1, TotalZero
  <2>3. QED
    BY <1>7, <1>9, <2>2 DEF Moved, after
<1>10. CASE o # rest /\ p = rest
  <2> DEFINE a == w(rest)
             b == w(o)
  <2>1. a \in [D -> Nat] /\ b \in [D -> Nat]
    BY <1>3
  <2>2. \A i \in D : v[i] = a[i] + b[i]
    BY <1>1, <1>2, <1>5, <1>6, <1>10
  <2>3. Total(a) = Sums(rows, Source)[x][rest] /\ Total(b) = Sums(rows, Source)[x][o]
    BY <1>7
  <2> HIDE DEF a, b
  <2>4. v = Plus(a, b)
    BY <1>4, <2>1, <2>2 DEF Plus
  <2>5. Total(v) = Total(a) + Total(b)
    BY <1>2, <2>1, <2>4, TotalPlus
  <2>6. QED
    BY <1>7, <1>10, <2>3, <2>5 DEF Moved, after
<1>11. QED
  BY <1>8, <1>9, <1>10

\* The stock row that what was drawn of row i becomes.
ArrivedRow(rows, d, id, l, i) ==
  [NewRow(rows[i].reservation, l, d[i]) EXCEPT !.arrival = <<id, i>>]

ArrivedRows(rows, d, id, l) ==
  LET converted == InSequence({ i \in DOMAIN d : d[i] > 0 }, IdOrder(rows))
  IN  [n \in DOMAIN converted |-> ArrivedRow(rows, d, id, l, converted[n])]

\* A function on 1 .. n is a sequence.
LEMMA FunctionIsSeq ==
  ASSUME NEW X, NEW n, n \in Nat, NEW s, s = [i \in 1 .. n |-> s[i]], \A i \in 1 .. n : s[i] \in X
  PROVE  s \in Seq(X)
<1>1. s \in [1 .. n -> X]
  OBVIOUS
<1>2. QED
  BY <1>1

Renamed(f, b, A) == [x \in A |-> f[b[x]]]

\* Counting in another order gives the same total.
LEMMA RenamedTotal ==
  ASSUME NEW A, NEW B, IsFiniteSet(B), NEW b, b \in Bijection(A, B), NEW f, f \in [B -> Nat]
  PROVE  Total(Renamed(f, b, A)) = Total(f)
BY TotalRenamed DEF Renamed

\* The stock rows of an arrival count, for each reservation, what was converted for it.
LEMMA ArrivedRowsActive ==
  ASSUME NEW rows, rows \in Seq(Row(Source, IncomingStatus)),
         NEW d, d \in [DOMAIN rows -> Nat], NEW id, id \in 0 .. MaxLog, NEW l, l \in Location
  PROVE  /\ ArrivedRows(rows, d, id, l) \in Seq(Row(Location, StockStatus))
         /\ \A n \in DOMAIN ArrivedRows(rows, d, id, l) :
              \E i \in DOMAIN rows :
                /\ d[i] > 0
                /\ ArrivedRows(rows, d, id, l)[n] = ArrivedRow(rows, d, id, l, i)
         /\ \A x \in Reservation, p \in Location :
              ActiveQuantity(ArrivedRows(rows, d, id, l), x, p)
                = IF p = l THEN ByReservation(rows, d)[x] ELSE 0
<1> DEFINE D   == DOMAIN rows
           S   == { i \in D : d[i] > 0 }
           N   == Cardinality(S)
           b   == InSequence(S, IdOrder(rows))
           new == ArrivedRows(rows, d, id, l)
<1>1. /\ IsFiniteSet(D) /\ D \subseteq Nat
      /\ \A i \in D : rows[i].reservation \in Reservation
  BY RowFields
<1>2. S \in SUBSET D /\ \A i \in D : i \in S <=> d[i] > 0
  OBVIOUS
<1>3. IsFiniteSet(S) /\ N \in Nat /\ b \in Bijection(1 .. N, S)
  <2>1. IsFiniteSet(S) /\ StrictlyOrders(IdOrder(rows), S)
    BY <1>1, FS_Subset, IdsInOrder
  <2> HIDE DEF S
  <2>2. QED
    BY <2>1, InSequenceBijection
<1>4. new = [n \in DOMAIN b |-> ArrivedRow(rows, d, id, l, b[n])]
  BY DEF ArrivedRows
<1> HIDE DEF S, N, b, new
<1>5. b \in [1 .. N -> S] /\ DOMAIN b = 1 .. N
  BY <1>3, Fun_BijectionProperties
<1>6. ASSUME NEW i \in D
      PROVE  /\ ArrivedRow(rows, d, id, l, i) \in Row(Location, StockStatus)
             /\ ArrivedRow(rows, d, id, l, i).status = "ACTIVE"
             /\ ArrivedRow(rows, d, id, l, i).place = l
             /\ ArrivedRow(rows, d, id, l, i).reservation = rows[i].reservation
             /\ ArrivedRow(rows, d, id, l, i).quantity = d[i]
  <2>1. i \in Nat /\ 0 \in 0 .. MaxLog /\ rows[i].reservation \in Reservation /\ d[i] \in Nat
    BY <1>1, Sets
  <2>2. QED
    BY <2>1 DEF ArrivedRow, NewRow, NoArrival, Row, StockStatus
<1>7. \A n \in 1 .. N : b[n] \in D /\ d[b[n]] > 0
  BY <1>2, <1>5
<1>8. DOMAIN new = 1 .. N /\ \A n \in 1 .. N : new[n] = ArrivedRow(rows, d, id, l, b[n])
  BY <1>4, <1>5
<1>9. new \in Seq(Row(Location, StockStatus))
  <2>1. \A n \in 1 .. N : new[n] \in Row(Location, StockStatus)
    BY <1>6, <1>7, <1>8
  <2>2. new = [n \in 1 .. N |-> new[n]]
    BY <1>4, <1>5
  <2>3. QED
    BY <1>3, <2>1, <2>2, FunctionIsSeq
<1>10. \A n \in DOMAIN new : \E i \in D : d[i] > 0 /\ new[n] = ArrivedRow(rows, d, id, l, i)
  BY <1>7, <1>8
<1>11. ASSUME NEW x \in Reservation, NEW p \in Location
       PROVE  ActiveQuantity(new, x, p) = IF p = l THEN ByReservation(rows, d)[x] ELSE 0
  <2> DEFINE w == Weights(new, x, p)
             f == Part(d, OfReservation(rows, x))
             h == [i \in S |-> f[i]]
  <2>1. w \in [1 .. N -> Nat] /\ ActiveQuantity(new, x, p) = Total(w)
    BY <1>8, <1>9, WeightsType, ActiveIsWeights
  <2>2. \A n \in 1 .. N : w[n] = IF p = l /\ rows[b[n]].reservation = x THEN d[b[n]] ELSE 0
    <3> SUFFICES ASSUME NEW n \in 1 .. N
                 PROVE  w[n] = IF p = l /\ rows[b[n]].reservation = x THEN d[b[n]] ELSE 0
      OBVIOUS
    <3>1. w[n] = IF new[n].status = "ACTIVE" /\ new[n].reservation = x /\ new[n].place = p
                 THEN new[n].quantity ELSE 0
      BY <1>8 DEF Weights
    <3> HIDE DEF w
    <3>2. QED
      BY <1>6, <1>7, <1>8, <3>1
  <2> HIDE DEF w
  <2>3. CASE p = l
    <3>1. f \in [D -> Nat] /\ \A i \in D : f[i] = IF i \in OfReservation(rows, x) THEN d[i] ELSE 0
      BY PartType
    <3> HIDE DEF f
    <3>2. h \in [S -> Nat]
      BY <1>2, <3>1
    <3>3. Total(h) = Total(f)
      <4>1. \A i \in D \ S : f[i] = 0
        BY <1>2, <3>1
      <4>2. QED
        BY <1>2, <3>1, <4>1, TotalRestricted
    <3>4. \A n \in 1 .. N : w[n] = h[b[n]]
      BY <1>5, <1>7, <2>2, <2>3, <3>1 DEF OfReservation
    <3> HIDE DEF h
    <3>5. Total(Renamed(h, b, 1 .. N)) = Total(h)
      BY <1>3, <3>2, RenamedTotal
    <3>6. w = Renamed(h, b, 1 .. N)
      BY <2>1, <3>4 DEF Renamed
    <3>7. Total(w) = Total(f)
      BY <3>3, <3>5, <3>6
    <3>8. QED
      BY <2>1, <2>3, <3>7 DEF f, ByReservation
  <2>4. CASE p # l
    <3>1. \A n \in 1 .. N : w[n] = 0
      BY <2>2, <2>4
    <3>2. IsFiniteSet(1 .. N)
      BY <1>3, FS_Interval
    <3>3. Total(w) = 0
      BY <2>1, <3>1, <3>2, TotalZero
    <3>4. QED
      BY <2>1, <2>4, <3>3
  <2>5. QED
    BY <2>3, <2>4
<1>12. QED
  BY <1>9, <1>10, <1>11 DEF new

\* Rows that are drained keep their reservation, and only active rows stay active.
LEMMA DrainedKeeps ==
  ASSUME NEW P, NEW T, NEW rows, NEW d, NEW ended, NEW after,
         Drainable(P, T, rows, d, ended), Drained(P, T, rows, d, ended, after),
         \A i \in DOMAIN rows : ended[i].reservation = rows[i].reservation
  PROVE  /\ Kept(rows, after)
         /\ \A i \in DOMAIN after :
              \E j \in DOMAIN rows : after[i].reservation = rows[j].reservation
<1>1. /\ rows \in Seq(Row(P, T)) /\ d \in [DOMAIN rows -> Nat]
      /\ ended \in [DOMAIN rows -> Row(P, T)]
      /\ \A i \in DOMAIN rows : /\ d[i] <= rows[i].quantity
                                /\ d[i] > 0 => rows[i].status = "ACTIVE"
                                /\ ended[i].status # "ACTIVE"
  BY DEF Drainable
<1>2. /\ DOMAIN rows \subseteq DOMAIN after
      /\ \A i \in DOMAIN rows : after[i] = Left(rows, d, ended, i)
      /\ \A j \in DOMAIN after \ DOMAIN rows :
           \E i \in DOMAIN rows : d[i] > 0 /\ after[j] = Sized(ended[i], d[i])
  BY DEF Drained
<1>3. ASSUME NEW i \in DOMAIN rows
      PROVE  /\ Sized(ended[i], d[i]).status # "ACTIVE"
             /\ Sized(ended[i], d[i]).reservation = rows[i].reservation
             /\ Left(rows, d, ended, i).reservation = rows[i].reservation
             /\ Left(rows, d, ended, i).status = "ACTIVE" => rows[i].status = "ACTIVE"
  <2>1. /\ ended[i] \in Row(P, T) /\ rows[i] \in Row(P, T) /\ d[i] \in Nat
        /\ rows[i].quantity \in Nat /\ d[i] <= rows[i].quantity
    BY <1>1, RowFields
  <2>2. rows[i].quantity - d[i] \in Nat
    BY <2>1
  <2>3. /\ Sized(ended[i], d[i]).status = ended[i].status
        /\ Sized(ended[i], d[i]).reservation = ended[i].reservation
    BY <2>1, SizedKeeps
  <2>4. /\ Sized(rows[i], rows[i].quantity - d[i]).status = rows[i].status
        /\ Sized(rows[i], rows[i].quantity - d[i]).reservation = rows[i].reservation
    BY <2>1, <2>2, SizedKeeps
  <2>5. QED
    BY <1>1, <2>3, <2>4 DEF Left
<1>4. QED
  BY <1>2, <1>3 DEF Kept

\* What arrives on o, of each reservation, when quantity does.
Converted(o, quantity) ==
  ByReservation(incomingRows, DrawnRows(incomingRows, quantity, ActiveOn(incomingRows, o)))

Receives(o, quantity, l, rest) ==
  /\ InTurn(incomingRows) => Converted(o, quantity) \in Summed!Conversions(o, quantity)
  /\ Converted(o, quantity) \in [Reservation -> Nat]
  /\ \A x \in Reservation : Converted(o, quantity)[x] <= ActiveIncoming[x][o]
  /\ ActiveStock' = [x \in Reservation |->
                       [ActiveStock[x] EXCEPT ![l] = @ + Converted(o, quantity)[x]]]
  /\ \A x \in Reservation, p \in Source :
       ActiveIncoming'[x][p]
         = Moved([ActiveIncoming[x] EXCEPT ![o] = @ - Converted(o, quantity)[x]], o, rest, p)
  /\ onHand' = [onHand EXCEPT ![l] = @ + quantity]
  /\ reservations' = reservations

\* What arrives becomes stock of the reservations it was incoming for.
LEMMA ReceiveStockStep ==
  ASSUME RowsBase, MayLog, NEW o \in Order, NEW quantity \in Nat \ {0}, NEW l \in Location,
         NEW rest \in Order, ReceiveStock(o, quantity, l, rest)
  PROVE  /\ Receives(o, quantity, l, rest)
         /\ RowsTypeOK' /\ log' \in Seq(LogEntry) /\ onHand' \in [Location -> Nat]
         /\ OfUsed(stockRows', reservations') /\ OfUsed(incomingRows', reservations')
         /\ KeepsTurn /\ UsedInOrder(reservations')
<1> DEFINE id    == Len(log) + 1
           rows  == incomingRows
           D     == DOMAIN rows
           d     == DrawnRows(rows, quantity, ActiveOn(rows, o))
           ended == [i \in D |-> [rows[i] EXCEPT !.status = "CONVERTED", !.arrival = <<id, i>>]]
           after == Drain(rows, d, ended)
           conv  == Converted(o, quantity)
           new   == ArrivedRows(rows, d, id, l)
<1>1. /\ StateTypeOK /\ RowsTypeOK /\ log \in Seq(LogEntry)
      /\ OfUsed(stockRows, reservations) /\ OfUsed(incomingRows, reservations)
      /\ UsedInOrder(reservations)
      /\ stockRows \in Seq(Row(Location, StockStatus))
      /\ rows \in Seq(Row(Source, IncomingStatus))
  BY DEF RowsBase, RowsTypeOK
<1>2. id \in 0 .. MaxLog /\ o \in Source /\ rest \in Source
  BY <1>1, Sets DEF MayLog, Source
<1>3. /\ d \in [D -> Nat]
      /\ \A i \in D : /\ d[i] <= rows[i].quantity
                      /\ d[i] > 0 => i \in ActiveOn(rows, o)
      /\ conv \in Draws([x \in Reservation |-> Sums(rows, Source)[x][o]],
                        Smaller(quantity, Total([x \in Reservation |-> Sums(rows, Source)[x][o]])))
      /\ conv \in [Reservation -> Nat]
      /\ InTurn(rows) => FirstFit(conv, [x \in Reservation |-> Sums(rows, Source)[x][o]],
                                  Summed!ReservationOrder)
      /\ \A x \in Reservation, p \in Source :
           Total(Part(d, RowsOf(rows, x, p))) = IF p = o THEN conv[x] ELSE 0
  BY <1>1, <1>2, ArrivalDraw DEF Converted
<1>4. /\ onHand' = [onHand EXCEPT ![l] = @ + quantity]
      /\ stockRows' = stockRows \o new
      /\ incomingRows' = Repointed(after, o, rest)
      /\ reservations' = reservations
      /\ Logged([Entry("ARRIVAL", quantity, NoLocation, l)
                   EXCEPT !.context = "arrival", !.order = o])
  <2>1. DOMAIN d = D
    BY <1>3
  <2>2. new = [n \in DOMAIN InSequence({ i \in DOMAIN d : d[i] > 0 }, IdOrder(rows)) |->
                 ArrivedRow(rows, d, id, l,
                            InSequence({ i \in DOMAIN d : d[i] > 0 }, IdOrder(rows))[n])]
    BY DEF ArrivedRows
  <2>3. QED
    BY <2>2 DEF ReceiveStock, ArrivedRow, Repointed
<1>5. /\ ended \in [D -> Row(Source, IncomingStatus)]
      /\ \A i \in D : ended[i].status = "CONVERTED" /\ ended[i].reservation = rows[i].reservation
  <2>1. ASSUME NEW i \in D
        PROVE  LET e == [rows[i] EXCEPT !.status = "CONVERTED", !.arrival = <<id, i>>]
               IN  /\ e \in Row(Source, IncomingStatus)
                   /\ e.status = "CONVERTED" /\ e.reservation = rows[i].reservation
    <3>1. rows[i] \in Row(Source, IncomingStatus) /\ i \in Nat
      BY <1>1, RowFields
    <3> HIDE DEF id
    <3>2. QED
      BY <1>2, <3>1 DEF Row, IncomingStatus
  <2>2. QED
    BY <2>1
<1> HIDE DEF id, d, ended, after, conv, new
<1>6. Drainable(Source, IncomingStatus, rows, d, ended)
  <2>1. \A i \in ActiveOn(rows, o) : rows[i].status = "ACTIVE"
    BY DEF ActiveOn
  <2>2. QED
    BY <1>1, <1>3, <1>5, <2>1 DEF Drainable
<1>7. Drained(Source, IncomingStatus, rows, d, ended, after)
  BY <1>6, DrainDrains DEF after
<1>8. /\ Kept(rows, after)
      /\ \A i \in DOMAIN after : \E j \in D : after[i].reservation = rows[j].reservation
  BY <1>5, <1>6, <1>7, DrainedKeeps
<1>9. /\ after \in Seq(Row(Source, IncomingStatus))
      /\ \A x, p : ActiveQuantity(after, x, p) + Total(Part(d, RowsOf(rows, x, p)))
                     = ActiveQuantity(rows, x, p)
  BY <1>7 DEF Drained
<1>10. ASSUME NEW x \in Reservation
       PROVE  Sums(after, Source)[x] = [Sums(rows, Source)[x] EXCEPT ![o] = @ - conv[x]]
  <2>1. ASSUME NEW p \in Source
        PROVE  ActiveQuantity(after, x, p) = IF p = o THEN ActiveQuantity(rows, x, p) - conv[x]
                                             ELSE ActiveQuantity(rows, x, p)
    <3>1. ActiveQuantity(after, x, p) + (IF p = o THEN conv[x] ELSE 0) = ActiveQuantity(rows, x, p)
      BY <1>3, <1>9
    <3>2. ActiveQuantity(after, x, p) \in Nat /\ conv[x] \in Nat
      BY <1>3, <1>9, ActiveIsWeights
    <3>3. QED
      BY <3>1, <3>2
  <2>2. QED
    BY <2>1 DEF Sums
<1>11. /\ Repointed(after, o, rest) \in Seq(Row(Source, IncomingStatus))
       /\ DOMAIN Repointed(after, o, rest) = DOMAIN after
       /\ \A i \in DOMAIN after :
            /\ Repointed(after, o, rest)[i].status = after[i].status
            /\ Repointed(after, o, rest)[i].reservation = after[i].reservation
  BY <1>2, <1>9, RepointedRows
<1>12. ASSUME NEW x \in Reservation, NEW p \in Source
       PROVE  ActiveIncoming'[x][p] = Moved([ActiveIncoming[x] EXCEPT ![o] = @ - conv[x]], o, rest, p)
  <2>1. Sums(Repointed(after, o, rest), Source)[x][p] = Moved(Sums(after, Source)[x], o, rest, p)
    BY <1>2, <1>9, RepointedSums
  <2>2. QED
    BY <1>4, <1>10, <2>1, SumsOf
<1>13. /\ new \in Seq(Row(Location, StockStatus))
       /\ \A n \in DOMAIN new :
            \E i \in D : d[i] > 0 /\ new[n] = ArrivedRow(rows, d, id, l, i)
       /\ \A x \in Reservation, p \in Location :
            ActiveQuantity(new, x, p) = IF p = l THEN conv[x] ELSE 0
  <2>1. d \in [DOMAIN rows -> Nat] /\ rows \in Seq(Row(Source, IncomingStatus))
    BY <1>1, <1>3
  <2>2. conv = ByReservation(rows, d)
    BY DEF conv, Converted, d
  <2>3. QED
    BY <1>2, <2>1, <2>2, ArrivedRowsActive DEF new
<1>14. ActiveStock' = [x \in Reservation |-> [ActiveStock[x] EXCEPT ![l] = @ + conv[x]]]
  <2>1. ASSUME NEW x \in Reservation, NEW p \in Location
        PROVE  ActiveQuantity(stockRows \o new, x, p)
                 = IF p = l THEN ActiveQuantity(stockRows, x, p) + conv[x]
                   ELSE ActiveQuantity(stockRows, x, p)
    <3>1. ActiveQuantity(stockRows \o new, x, p)
            = ActiveQuantity(stockRows, x, p) + ActiveQuantity(new, x, p)
      BY <1>1, <1>13, ActiveConcat
    <3>2. ActiveQuantity(stockRows, x, p) \in Nat
      BY <1>1, ActiveIsWeights
    <3>3. QED
      BY <1>13, <3>1, <3>2
  <2>2. ASSUME NEW x \in Reservation
        PROVE  Sums(stockRows \o new, Location)[x] = [Sums(stockRows, Location)[x] EXCEPT ![l] = @ + conv[x]]
    BY <2>1 DEF Sums
  <2>3. Sums(stockRows \o new, Location)
          = [x \in Reservation |-> [Sums(stockRows, Location)[x] EXCEPT ![l] = @ + conv[x]]]
    <3> DEFINE a == Sums(stockRows \o new, Location)
               b(x) == [Sums(stockRows, Location)[x] EXCEPT ![l] = @ + conv[x]]
    <3>1. a = [x \in Reservation |-> a[x]]
      BY DEF Sums
    <3>2. \A x \in Reservation : a[x] = b(x)
      BY <2>2
    <3> HIDE DEF a, b
    <3>3. a = [x \in Reservation |-> b(x)]
      BY <3>1, <3>2
    <3>4. QED
      BY <3>3 DEF a, b
  <2>4. QED
    BY <1>4, <2>3, SumsOf
<1>15. \A x \in Reservation : conv[x] <= ActiveIncoming[x][o]
  <2> SUFFICES ASSUME NEW x \in Reservation PROVE conv[x] <= ActiveIncoming[x][o]
    OBVIOUS
  <2>1. ActiveQuantity(after, x, o) + conv[x] = ActiveQuantity(rows, x, o)
    BY <1>2, <1>3, <1>9
  <2>2. ActiveQuantity(after, x, o) \in Nat /\ conv[x] \in Nat /\ ActiveQuantity(rows, x, o) \in Nat
    BY <1>1, <1>3, <1>9, ActiveIsWeights
  <2>3. ActiveIncoming[x][o] = ActiveQuantity(rows, x, o)
    BY <1>2 DEF ActiveIncoming
  <2>4. QED
    BY <2>1, <2>2, <2>3
<1>16. InTurn(incomingRows) => conv \in Summed!Conversions(o, quantity)
  <2>1. [x \in Summed!Reservation |-> ActiveIncoming[x][o]]
          = [x \in Reservation |-> Sums(rows, Source)[x][o]]
    BY SumsOf, Sets
  <2>2. QED
    BY <1>3, <2>1, SameTotal, SameQuantities DEF Summed!Conversions
<1>17. onHand' \in [Location -> Nat] /\ onHand \in [Location -> Nat]
  BY <1>1, <1>4 DEF StateTypeOK
<1>18. RowsTypeOK'
  <2>1. stockRows \o new \in Seq(Row(Location, StockStatus))
    BY <1>1, <1>13, ConcatProperties
  <2>2. QED
    BY <1>4, <1>11, <2>1 DEF RowsTypeOK
<1>19. log' \in Seq(LogEntry)
  <2> DEFINE e == [Entry("ARRIVAL", quantity, NoLocation, l) EXCEPT !.context = "arrival", !.order = o]
  <2>1. Entry("ARRIVAL", quantity, NoLocation, l) \in LogEntry
    BY EntryType
  <2>2. e \in LogEntry
    BY <2>1 DEF LogEntry
  <2>3. Logged(e)
    BY <1>4
  <2> HIDE DEF e
  <2>4. QED
    BY <1>1, <1>17, <2>2, <2>3, LoggedType
<1>20. OfUsed(incomingRows', reservations')
  BY <1>1, <1>4, <1>8, <1>11 DEF OfUsed
<1>21. OfUsed(stockRows', reservations')
  <2>1. \A n \in DOMAIN new : reservations[new[n].reservation].status # "Unused"
    <3> SUFFICES ASSUME NEW n \in DOMAIN new PROVE reservations[new[n].reservation].status # "Unused"
      OBVIOUS
    <3>1. PICK i \in D : new[n] = ArrivedRow(rows, d, id, l, i)
      BY <1>13
    <3>2. new[n].reservation = rows[i].reservation
      BY <3>1 DEF ArrivedRow, NewRow
    <3>3. QED
      BY <1>1, <3>2 DEF OfUsed
  <2>2. ASSUME NEW i \in DOMAIN (stockRows \o new)
        PROVE  \/ i \in DOMAIN stockRows /\ (stockRows \o new)[i] = stockRows[i]
               \/ \E n \in DOMAIN new : (stockRows \o new)[i] = new[n]
    <3>1. /\ Len(stockRows \o new) = Len(stockRows) + Len(new)
          /\ stockRows \o new \in Seq(Row(Location, StockStatus))
          /\ \A k \in 1 .. Len(stockRows) + Len(new) :
               (stockRows \o new)[k] = IF k <= Len(stockRows) THEN stockRows[k]
                                       ELSE new[k - Len(stockRows)]
      BY <1>1, <1>13, ConcatProperties
    <3>2. /\ Len(stockRows) \in Nat /\ Len(new) \in Nat /\ DOMAIN stockRows = 1 .. Len(stockRows)
          /\ DOMAIN new = 1 .. Len(new)
          /\ DOMAIN (stockRows \o new) = 1 .. Len(stockRows) + Len(new)
      BY <1>1, <1>13, <3>1, LenProperties
    <3>3. CASE i <= Len(stockRows)
      BY <3>1, <3>2, <3>3
    <3>4. CASE ~(i <= Len(stockRows))
      <4>1. i - Len(stockRows) \in DOMAIN new
        BY <3>2, <3>4
      <4>2. QED
        BY <3>1, <3>2, <3>4, <4>1
    <3>5. QED
      BY <3>3, <3>4
  <2>3. QED
    BY <1>1, <1>4, <2>1, <2>2 DEF OfUsed
<1>22. KeepsTurn
  <2>1. InTurn(incomingRows) => InTurn(after)
    BY <1>8, InTurnKept
  <2>2. QED
    BY <1>4, <1>11, <2>1 DEF InTurn, KeepsTurn
<1>23. UsedInOrder(reservations')
  BY <1>1, <1>4 DEF UsedInOrder
<1>24. Receives(o, quantity, l, rest)
  BY <1>3, <1>4, <1>12, <1>14, <1>15, <1>16 DEF Receives, conv
<1>25. QED
  BY <1>17, <1>18, <1>19, <1>20, <1>21, <1>22, <1>23, <1>24

\* A function given on the sources is the one an arrival's rows add up to.
LEMMA IncomingIs ==
  ASSUME RowsTypeOK', NEW f, f \in [Reservation -> [Source -> Int]],
         \A x \in Reservation, p \in Source : ActiveIncoming'[x][p] = f[x][p]
  PROVE  ActiveIncoming' = f
<1>1. ActiveIncoming' \in [Reservation -> [Source -> Nat]]
  BY SumsType DEF RowsTypeOK, ActiveIncoming
<1>2. ASSUME NEW x \in Reservation PROVE ActiveIncoming'[x] = f[x]
  BY <1>1
<1>3. QED
  BY <1>1, <1>2

\* The arrival of a whole line implements the summed call.
LEMMA FullArrivalStep ==
  ASSUME RowsBase, NEW o \in Order, NEW l \in Location, FullArrival(o, l)
  PROVE  /\ RowsBase' /\ KeepsTurn /\ Receives(o, orders[o].amount, l, o)
         /\ InTurn(incomingRows) => Summed!FullArrival(o, l)
<1> DEFINE quantity == orders[o].amount
           line     == Summed!LineOf(o, "Arrived", orders[o].amount, orders[o].ordered)
           conv     == Converted(o, quantity)
           inc      == [x \in Reservation |-> [ActiveIncoming[x] EXCEPT ![o] = @ - conv[x]]]
<1>1. /\ MayLog
      /\ orders[o].status = "Ordered" /\ orders[o].amount > 0
      /\ orders' = [orders EXCEPT ![o] = line]
      /\ ReceiveStock(o, quantity, l, o)
      /\ splitRoot' = splitRoot
  BY DEF FullArrival
<1>2. StateTypeOK /\ RowsTypeOK
  BY DEF RowsBase
<1>3. quantity \in Nat \ {0} /\ line \in Summed!OrderLine
  BY <1>1, <1>2 DEF StateTypeOK, Summed!OrderLine, Summed!LineOf
<1> HIDE DEF quantity, line
<1>4. /\ Receives(o, quantity, l, o)
      /\ RowsTypeOK' /\ log' \in Seq(LogEntry) /\ onHand' \in [Location -> Nat]
      /\ OfUsed(stockRows', reservations') /\ OfUsed(incomingRows', reservations')
      /\ KeepsTurn /\ UsedInOrder(reservations')
  BY <1>1, <1>3, ReceiveStockStep
<1>5. /\ InTurn(incomingRows) => conv \in Summed!Conversions(o, quantity)
      /\ conv \in [Reservation -> Nat]
      /\ ActiveStock' = [x \in Reservation |-> [ActiveStock[x] EXCEPT ![l] = @ + conv[x]]]
      /\ \A x \in Reservation, p \in Source :
           ActiveIncoming'[x][p] = Moved([ActiveIncoming[x] EXCEPT ![o] = @ - conv[x]], o, o, p)
      /\ onHand' = [onHand EXCEPT ![l] = @ + quantity]
      /\ reservations' = reservations
  BY <1>4 DEF Receives
<1> HIDE DEF conv
<1>6. ActiveIncoming' = inc
  <2>1. ActiveIncoming \in [Reservation -> [Source -> Nat]] /\ o \in Source
    BY <1>2, SupplyTypes DEF Source
  <2>2. inc \in [Reservation -> [Source -> Int]]
    BY <1>5, <2>1
  <2>3. \A x \in Reservation, p \in Source : ActiveIncoming'[x][p] = inc[x][p]
    BY <1>5 DEF Moved
  <2> HIDE DEF inc
  <2>4. QED
    BY <1>4, <2>2, <2>3, IncomingIs
<1>7. ASSUME InTurn(incomingRows) PROVE Summed!FullArrival(o, l)
  <2>1. \E c \in Summed!Conversions(o, quantity) :
          /\ ActiveStock' = [x \in Reservation |-> [ActiveStock[x] EXCEPT ![l] = @ + c[x]]]
          /\ ActiveIncoming' = [x \in Reservation |-> [ActiveIncoming[x] EXCEPT ![o] = @ - c[x]]]
    BY <1>5, <1>6, <1>7, Zenon DEF inc
  <2>2. QED
    BY <1>1, <1>5, <2>1 DEF Summed!FullArrival, quantity, line, Reservation, Summed!Reservation
<1>8. StateTypeOK'
  BY <1>1, <1>2, <1>3, <1>4, <1>5 DEF StateTypeOK
<1>9. QED
  BY <1>4, <1>7, <1>8 DEF RowsBase, quantity

\* The arrival of a part of a line implements the summed call.
LEMMA PartialArrivalStep ==
  ASSUME RowsBase, NEW o \in Order, NEW child \in Order, NEW quantity \in 1 .. MaxQuantity,
         NEW l \in Location, PartialArrival(o, child, quantity, l)
  PROVE  /\ RowsBase' /\ KeepsTurn /\ Receives(o, quantity, l, child)
         /\ InTurn(incomingRows) => Summed!PartialArrival(o, child, quantity, l)
<1> DEFINE share  == Summed!OrderedShare(o, quantity)
           parent == Summed!LineOf(o, "Arrived", quantity, share)
           rest   == Summed!LineOf(o, "Ordered", orders[o].amount - quantity, orders[o].ordered - share)
           conv   == Converted(o, quantity)
           inc    == [x \in Reservation |->
                        [ActiveIncoming[x] EXCEPT ![o] = 0,
                                                  ![child] = @ + ActiveIncoming[x][o] - conv[x]]]
<1>1. /\ MayLog
      /\ orders[o].status = "Ordered"
      /\ Summed!NextUnused(orders, child)
      /\ Summed!IntegerSafeSplit(o, quantity)
      /\ orders' = [orders EXCEPT ![o] = parent, ![child] = rest]
      /\ splitRoot' = [splitRoot EXCEPT ![child] = RootOf(o)]
      /\ ReceiveStock(o, quantity, l, child)
  BY DEF PartialArrival
<1>2. StateTypeOK /\ RowsTypeOK
  BY DEF RowsBase
<1>3. quantity \in Nat \ {0}
  BY RowsAssumption
<1>4. child # o
  BY <1>1 DEF Summed!NextUnused
<1>5. parent \in Summed!OrderLine /\ rest \in Summed!OrderLine
  <2>1. orders[o] \in Summed!OrderLine
    BY <1>2 DEF StateTypeOK
  <2>2. /\ orders[o].amount \in Nat /\ orders[o].ordered \in Nat
        /\ orders[o].project \in Project \cup {NoProject} /\ orders[o].eta \in 0 .. MaxEta
    BY <2>1 DEF Summed!OrderLine
  <2>3. /\ quantity < orders[o].amount /\ share > 0 /\ share < orders[o].ordered
    BY <1>1 DEF Summed!IntegerSafeSplit
  <2>4. share \in Int
    <3>1. orders[o].ordered * quantity \in Int /\ orders[o].amount > 0 /\ orders[o].amount \in Int
      BY <1>3, <2>2, <2>3
    <3>2. (orders[o].ordered * quantity) \div orders[o].amount \in Int
      BY <3>1
    <3>3. QED
      BY <3>2 DEF Summed!OrderedShare
  <2> HIDE DEF share
  <2>5. /\ share \in Nat /\ orders[o].amount - quantity \in Nat
        /\ orders[o].ordered - share \in Nat /\ quantity \in Nat
    BY <1>3, <2>2, <2>3, <2>4
  <2>6. QED
    BY <2>2, <2>5 DEF Summed!LineOf, Summed!OrderLine
<1> HIDE DEF share, parent, rest
<1>6. /\ Receives(o, quantity, l, child)
      /\ RowsTypeOK' /\ log' \in Seq(LogEntry) /\ onHand' \in [Location -> Nat]
      /\ OfUsed(stockRows', reservations') /\ OfUsed(incomingRows', reservations')
      /\ KeepsTurn /\ UsedInOrder(reservations')
  BY <1>1, <1>3, ReceiveStockStep
<1>7. /\ InTurn(incomingRows) => conv \in Summed!Conversions(o, quantity)
      /\ conv \in [Reservation -> Nat]
      /\ ActiveStock' = [x \in Reservation |-> [ActiveStock[x] EXCEPT ![l] = @ + conv[x]]]
      /\ \A x \in Reservation, p \in Source :
           ActiveIncoming'[x][p] = Moved([ActiveIncoming[x] EXCEPT ![o] = @ - conv[x]], o, child, p)
      /\ onHand' = [onHand EXCEPT ![l] = @ + quantity]
      /\ reservations' = reservations
  BY <1>6 DEF Receives
<1> HIDE DEF conv
<1>8. ActiveIncoming' = inc
  <2>1. ActiveIncoming \in [Reservation -> [Source -> Nat]] /\ o \in Source /\ child \in Source
    BY <1>2, SupplyTypes DEF Source
  <2>2. inc \in [Reservation -> [Source -> Int]]
    BY <1>7, <2>1
  <2>3. ASSUME NEW x \in Reservation, NEW p \in Source PROVE ActiveIncoming'[x][p] = inc[x][p]
    <3>1. ActiveIncoming[x] \in [Source -> Nat] /\ conv[x] \in Nat
      BY <1>7, <2>1
    <3>2. inc[x] = [ActiveIncoming[x] EXCEPT ![o] = 0, ![child] = @ + ActiveIncoming[x][o] - conv[x]]
      OBVIOUS
    <3>3. inc[x][p] = IF p = child THEN ActiveIncoming[x][child] + ActiveIncoming[x][o] - conv[x]
                      ELSE IF p = o THEN 0 ELSE ActiveIncoming[x][p]
      BY <1>4, <2>1, <3>1, <3>2
    <3> HIDE DEF inc
    <3>4. ActiveIncoming'[x][p] = Moved([ActiveIncoming[x] EXCEPT ![o] = @ - conv[x]], o, child, p)
      BY <1>7
    <3>5. QED
      BY <1>4, <2>1, <3>1, <3>3, <3>4 DEF Moved
  <2> HIDE DEF inc
  <2>4. QED
    BY <1>6, <2>2, <2>3, IncomingIs
<1>9. ASSUME InTurn(incomingRows) PROVE Summed!PartialArrival(o, child, quantity, l)
  <2>1. \E c \in Summed!Conversions(o, quantity) :
          /\ ActiveStock' = [x \in Reservation |-> [ActiveStock[x] EXCEPT ![l] = @ + c[x]]]
          /\ ActiveIncoming' = [x \in Reservation |->
               [ActiveIncoming[x] EXCEPT ![o] = 0,
                                         ![child] = @ + ActiveIncoming[x][o] - c[x]]]
    BY <1>7, <1>8, <1>9, Zenon DEF inc
  <2>2. QED
    BY <1>1, <1>7, <2>1
    DEF Summed!PartialArrival, share, parent, rest, Reservation, Summed!Reservation
<1>10. StateTypeOK'
  <2>1. RootOf(o) \in {0} \cup Order
    BY <1>2 DEF RootOf, StateTypeOK
  <2>2. splitRoot' \in [Order -> {0} \cup Order] /\ orders' \in [Order -> Summed!OrderLine]
    BY <1>1, <1>2, <1>5, <2>1 DEF StateTypeOK
  <2>3. QED
    BY <1>2, <1>6, <1>7, <2>2 DEF StateTypeOK
<1>11. QED
  BY <1>6, <1>9, <1>10 DEF RowsBase

-----------------------------------------------------------------------------
\* The invariant and the refinement hold initially.
LEMMA RowsInit ==
  ASSUME Init
  PROVE  RowsInv /\ Summed!Init
<1>1. /\ onHand \in StartOnHand /\ orders \in StartOrders
      /\ reservations = [r \in Reservation |-> [status |-> "Unused", quantity |-> 0, project |-> NoProject]]
      /\ splitRoot = [o \in Order |-> 0]
      /\ stockRows = <<>> /\ incomingRows = <<>> /\ log = <<>>
  BY DEF Init
<1>2. StateTypeOK
  <2>1. onHand \in [Location -> Nat] /\ orders \in [Order -> Summed!OrderLine]
    BY <1>1, RowsAssumption
  <2>2. reservations \in [Reservation -> Summed!ReservationRow]
    BY <1>1 DEF Summed!ReservationRow
  <2>3. splitRoot \in [Order -> {0} \cup Order]
    BY <1>1
  <2>4. QED
    BY <2>1, <2>2, <2>3 DEF StateTypeOK
<1>3. RowsTypeOK /\ log \in Seq(LogEntry) /\ DOMAIN stockRows = {} /\ DOMAIN incomingRows = {}
  BY <1>1 DEF RowsTypeOK
<1>4. RowsInv
  <2>1. UsedInOrder(reservations)
    BY <1>1 DEF UsedInOrder
  <2>2. QED
    BY <1>2, <1>3, <2>1 DEF RowsInv, RowsBase, OfUsed, InTurn
<1>5. /\ ActiveStock = [r \in Reservation |-> [l \in Location |-> 0]]
      /\ ActiveIncoming = [r \in Reservation |-> [s \in Source |-> 0]]
  <2>1. ASSUME NEW r \in Reservation, NEW l \in Location PROVE ActiveQuantity(stockRows, r, l) = 0
    BY <1>3, NoRowsOf DEF RowsTypeOK
  <2>2. ASSUME NEW r \in Reservation, NEW s \in Source PROVE ActiveQuantity(incomingRows, r, s) = 0
    BY <1>3, NoRowsOf DEF RowsTypeOK
  <2>3. QED
    BY <2>1, <2>2 DEF ActiveStock, ActiveIncoming
<1>6. Summed!Init
  BY <1>1, <1>5 DEF Summed!Init, Reservation, Summed!Reservation, Source, Summed!Source,
                    Order, Summed!Order, NoOrder, Summed!NoOrder
<1>7. QED
  BY <1>4, <1>6

\* Every step keeps the invariant and implements a step, or stutters.
LEMMA RowsStep ==
  ASSUME RowsInv, [Next]_vars
  PROVE  RowsInv' /\ [Summed!Next]_(Summed!vars)
<1>1. CASE UNCHANGED vars
  <2>1. /\ onHand' = onHand /\ orders' = orders /\ reservations' = reservations
        /\ splitRoot' = splitRoot /\ stockRows' = stockRows /\ incomingRows' = incomingRows
        /\ log' = log
    BY <1>1 DEF vars
  <2>2. RowsInv'
    <3>1. StateTypeOK' /\ RowsTypeOK'
      BY <2>1 DEF RowsInv, RowsBase, StateTypeOK, RowsTypeOK
    <3>2. UsedInOrder(reservations') /\ OfUsed(stockRows', reservations')
          /\ OfUsed(incomingRows', reservations') /\ InTurn(incomingRows') /\ log' \in Seq(LogEntry)
      BY <2>1 DEF RowsInv, RowsBase
    <3>3. QED
      BY <3>1, <3>2 DEF RowsInv, RowsBase
  <2>3. ActiveStock' = ActiveStock /\ ActiveIncoming' = ActiveIncoming
    BY <2>1, SumsOf
  <2>4. UNCHANGED Summed!vars
    BY <2>1, <2>3 DEF Summed!vars
  <2>5. QED
    BY <2>2, <2>4
<1>2. CASE Next
  <2>1. NoteGiven \subseteq BOOLEAN
    BY RowsAssumption
  <2>2. ASSUME NEW r \in Reservation, NEW q \in 1 .. MaxQuantity,
               NEW p \in Project \cup {NoProject}, NEW o \in Source, CreateReservation(r, q, p, o)
        PROVE  RowsInv' /\ Summed!Next
    <3>1. RowsInv' /\ Summed!CreateReservation(r, q, p, o)
      BY <2>2, CreateStep DEF RowsInv, KeepsTurn
    <3>2. QED
      BY <3>1, Sets DEF Summed!Next
  <2>3. ASSUME NEW r \in Reservation, NEW q \in 1 .. MaxQuantity, NEW noted \in NoteGiven,
               ReleaseReservation(r, q, noted)
        PROVE  RowsInv' /\ Summed!Next
    <3>1. noted \in BOOLEAN
      BY <2>1
    <3>2. RowsInv' /\ Summed!ReleaseReservation(r, q)
      BY <2>3, <3>1, ReleaseStep DEF RowsInv, KeepsTurn
    <3>3. QED
      BY <3>2, Sets DEF Summed!Next
  <2>4. ASSUME NEW r \in Reservation, NEW q \in 1 .. MaxQuantity, NEW noted \in NoteGiven,
               ConsumeReservation(r, q, noted)
        PROVE  RowsInv' /\ Summed!Next
    <3>1. noted \in BOOLEAN
      BY <2>1
    <3>2. RowsInv' /\ Summed!ConsumeReservation(r, q)
      BY <2>4, <3>1, ConsumeStep DEF RowsInv, KeepsTurn
    <3>3. QED
      BY <3>2, Sets DEF Summed!Next
  <2>5. ASSUME NEW o \in Order, NEW l \in Location, FullArrival(o, l)
        PROVE  RowsInv' /\ Summed!Next
    <3>1. RowsInv' /\ Summed!FullArrival(o, l)
      BY <2>5, FullArrivalStep DEF RowsInv, KeepsTurn
    <3>2. QED
      BY <3>1, Sets DEF Summed!Next
  <2>6. ASSUME NEW o \in Order, NEW c \in Order, NEW q \in 1 .. MaxQuantity, NEW l \in Location,
               PartialArrival(o, c, q, l)
        PROVE  RowsInv' /\ Summed!Next
    <3>1. RowsInv' /\ Summed!PartialArrival(o, c, q, l)
      BY <2>6, PartialArrivalStep DEF RowsInv, KeepsTurn
    <3>2. QED
      BY <3>1, Sets DEF Summed!Next
  <2>7. QED
    BY <1>2, <2>2, <2>3, <2>4, <2>5, <2>6 DEF Next, ReservationNext, ArrivalNext
<1>3. QED
  BY <1>1, <1>2

\* Rows, reservations, order lines and log entries always have their types.
THEOREM RowsTypeCorrect == Spec => []TypeOK
<1>1. Init => RowsInv
  BY RowsInit
<1>2. RowsInv /\ [Next]_vars => RowsInv'
  BY RowsStep
<1>3. RowsInv => TypeOK
  BY TypeParts DEF RowsInv, RowsBase
<1>4. QED
  BY <1>1, <1>2, <1>3, PTL DEF Spec

\* The allocation rows implement the quantities of Reservations: the loops that
\* create, drain, split, convert and re-point rows move in sum exactly what the
\* calls promise, and a conversion in the order of row ids serves the oldest
\* reservation first.
THEOREM RowsImplementReservations == Spec => ImplementsReservations
<1>1. Init => RowsInv /\ Summed!Init
  BY RowsInit
<1>2. RowsInv /\ [Next]_vars => RowsInv' /\ [Summed!Next]_(Summed!vars)
  BY RowsStep
<1>3. QED
  BY <1>1, <1>2, PTL DEF Spec, ImplementsReservations, Summed!Spec
=============================================================================
