------------------------- MODULE ReservationsProofs -------------------------
(***************************************************************************)
(* Theorems about Reservations, for every set of locations and projects    *)
(* and every bound: typing, the match of quantity and backing, that        *)
(* neither stock nor an open order line is promised beyond what it holds,  *)
(* and what an arrival does to dedicated lines, split lines and the supply *)
(* that was promised.                                                      *)
(***************************************************************************)
EXTENDS Reservations, QuantityLemmas

LEMMA Finite ==
  /\ IsFiniteSet(Location) /\ IsFiniteSet(Reservation)
  /\ IsFiniteSet(Order) /\ IsFiniteSet(Source)
<1>1. IsFiniteSet(Reservation) /\ IsFiniteSet(Order)
  BY ConstantsAssumption, FS_Interval DEF Reservation, Order
<1>2. IsFiniteSet(Source)
  BY <1>1, FS_AddElement DEF Source
<1>3. QED
  BY <1>1, <1>2, ConstantsAssumption

\* What the service reads is well typed.
LEMMA ReadsType ==
  ASSUME TypeOK
  PROVE  /\ \A l \in Location : /\ [r \in Reservation |-> allocated[r][l]] \in [Reservation -> Nat]
                                /\ AllocatedAt(l) \in Nat
         /\ \A o \in Source : /\ [r \in Reservation |-> incoming[r][o]] \in [Reservation -> Nat]
                              /\ IncomingFor(o) \in Nat
         /\ \A o \in Order : Allocatable(o) \in Nat
         /\ Available \in [Location -> Nat]
         /\ \A p, o : OpenSupply(p, o) \in [Source -> Nat]
         /\ \A r \in Reservation : /\ Total(allocated[r]) \in Nat
                                   /\ Total(incoming[r]) \in Nat
<1>1. ASSUME NEW l \in Location
      PROVE  /\ [r \in Reservation |-> allocated[r][l]] \in [Reservation -> Nat]
             /\ AllocatedAt(l) \in Nat
  <2>1. [r \in Reservation |-> allocated[r][l]] \in [Reservation -> Nat]
    BY DEF TypeOK
  <2>2. QED
    BY <2>1, Finite, TotalType DEF AllocatedAt
<1>2. ASSUME NEW o \in Source
      PROVE  /\ [r \in Reservation |-> incoming[r][o]] \in [Reservation -> Nat]
             /\ IncomingFor(o) \in Nat
  <2>1. [r \in Reservation |-> incoming[r][o]] \in [Reservation -> Nat]
    BY DEF TypeOK
  <2>2. QED
    BY <2>1, Finite, TotalType DEF IncomingFor
<1>3. ASSUME NEW o \in Order PROVE Allocatable(o) \in Nat
  <2>1. IncomingFor(o) \in Nat
    BY <1>2 DEF Source
  <2>2. orders[o].amount \in Nat
    BY DEF TypeOK, OrderLine
  <2>3. QED
    BY <2>1, <2>2 DEF Allocatable, Monus
<1>4. Available \in [Location -> Nat]
  <2>1. \A l \in Location : Monus(onHand[l], AllocatedAt(l)) \in Nat
    BY <1>1 DEF Monus, TypeOK
  <2>2. QED
    BY <2>1 DEF Available
<1>5. \A p, o : OpenSupply(p, o) \in [Source -> Nat]
  BY <1>3 DEF OpenSupply, Source, NoOrder
<1>6. ASSUME NEW r \in Reservation
      PROVE  Total(allocated[r]) \in Nat /\ Total(incoming[r]) \in Nat
  <2>1. allocated[r] \in [Location -> Nat] /\ incoming[r] \in [Source -> Nat]
    BY DEF TypeOK
  <2>2. QED
    BY <2>1, Finite, TotalType
<1>7. QED
  BY <1>1, <1>2, <1>3, <1>4, <1>5, <1>6

-----------------------------------------------------------------------------
(* Typing, action by action, with what each action does to the backing.    *)

LEMMA MinusType ==
  ASSUME NEW S, NEW f \in [S -> Nat], NEW d \in [S -> Nat], \A x \in S : d[x] <= f[x]
  PROVE  Minus(f, d) \in [S -> Nat]
BY DEF Minus

\* The quantities a creation splits its request into.
LEMMA CreateSplit ==
  ASSUME TypeOK, NEW quantity \in Nat, NEW preferred \in Source
  PROVE  LET preferredQty == PreferredQuantity(preferred, quantity)
             stockQty     == Smaller(Total(Available), quantity - preferredQty)
         IN  /\ preferredQty \in Nat /\ preferredQty <= quantity
             /\ stockQty \in Nat /\ quantity - preferredQty - stockQty \in Nat
<1> DEFINE preferredQty == PreferredQuantity(preferred, quantity)
<1>1. preferred # NoOrder => Allocatable(preferred) \in Nat
  BY ReadsType DEF Source
<1>2. preferredQty \in Nat /\ preferredQty <= quantity
  BY <1>1 DEF PreferredQuantity, Smaller
<1>3. Total(Available) \in Nat
  BY ReadsType, Finite, TotalType
<1>4. QED
  BY <1>2, <1>3 DEF Smaller

\* The preferred line adds its quantity to those of the other open lines.
LEMMA PreferredAdds ==
  ASSUME NEW open \in [Source -> Nat], NEW o \in Source, NEW k \in Nat, open[o] = 0
  PROVE  Total([open EXCEPT ![o] = k]) = Total(open) + k
<1> DEFINE g == [open EXCEPT ![o] = k]
<1>1. g \in [Source -> Nat] /\ g[o] = k /\ \A s \in Source : s # o => g[s] = open[s]
  OBVIOUS
<1> HIDE DEF g
<1>2. Total(g) + open[o] = Total(open) + g[o]
  BY <1>1, Finite, TotalChange
<1>3. Total(g) \in Nat
  BY <1>1, Finite, TotalType
<1>4. Total(g) = Total(open) + k
  BY <1>1, <1>2, <1>3
<1>5. QED
  BY <1>4 DEF g

LEMMA ReserveType ==
  ASSUME TypeOK, NEW r \in Reservation, NEW q \in Nat,
         NEW p \in Project \cup {NoProject}, NEW o \in Source,
         Reserve(r, q, p, o)
  PROVE  /\ reservations' \in [Reservation -> ReservationRow]
         /\ allocated' \in [Reservation -> [Location -> Nat]]
         /\ incoming' \in [Reservation -> [Source -> Nat]]
         /\ Total(allocated'[r]) + Total(incoming'[r]) = q
<1> DEFINE preferredQty == PreferredQuantity(o, q)
           stockQty     == Smaller(Total(Available), q - preferredQty)
           shortfall    == q - preferredQty - stockQty
           supply       == OpenSupply(p, o)
<1>1. /\ preferredQty \in Nat /\ preferredQty <= q /\ stockQty \in Nat
      /\ shortfall \in Nat /\ q \in Nat
  BY CreateSplit
<1>2. PICK stock \in Draws(Available, stockQty), open \in Draws(supply, shortfall) :
        /\ allocated' = [allocated EXCEPT ![r] = stock]
        /\ incoming' = [incoming EXCEPT ![r] = [open EXCEPT ![o] = preferredQty]]
  BY DEF Reserve
<1>3. stock \in [Location -> Nat] /\ Total(stock) = stockQty
  <2> HIDE DEF stockQty
  <2> QED BY <1>1, ReadsType, DrawType
<1>4. open \in [Source -> Nat] /\ Total(open) = shortfall /\ open[o] = 0
  <2>1. supply \in [Source -> Nat] /\ supply[o] = 0
    <3>1. supply \in [Source -> Nat]
      BY ReadsType
    <3>2. supply[o] = 0
      BY DEF OpenSupply
    <3>3. QED
      BY <3>1, <3>2
  <2>2. QED
    <3> HIDE DEF supply, shortfall
    <3>1. open \in [Source -> Nat] /\ open[o] <= supply[o] /\ Total(open) = shortfall
      BY <1>1, <2>1, DrawType
    <3> QED BY <2>1, <3>1
<1>5. /\ allocated'[r] = stock /\ incoming'[r] = [open EXCEPT ![o] = preferredQty]
      /\ allocated' \in [Reservation -> [Location -> Nat]]
      /\ incoming' \in [Reservation -> [Source -> Nat]]
  <2> HIDE DEF preferredQty
  <2> QED BY <1>1, <1>2, <1>3, <1>4 DEF TypeOK
<1>6. Total(incoming'[r]) = shortfall + preferredQty
  <2> HIDE DEF preferredQty, shortfall
  <2>1. Total([open EXCEPT ![o] = preferredQty]) = Total(open) + preferredQty
    BY <1>1, <1>4, PreferredAdds
  <2> QED BY <1>4, <1>5, <2>1
<1>7. Total(allocated'[r]) + Total(incoming'[r]) = q
  <2>1. Total(allocated'[r]) = stockQty /\ Total(incoming'[r]) = q - stockQty
    <3> HIDE DEF preferredQty, stockQty
    <3> QED BY <1>1, <1>3, <1>5, <1>6
  <2> HIDE DEF stockQty
  <2> QED BY <1>1, <2>1
<1>8. reservations' \in [Reservation -> ReservationRow]
  BY DEF Reserve, TypeOK, ReservationRow
<1>9. QED
  BY <1>5, <1>7, <1>8

LEMMA CreateType ==
  ASSUME TypeOK, NEW r \in Reservation, NEW q \in 1 .. MaxQuantity,
         NEW p \in Project \cup {NoProject}, NEW o \in Source,
         CreateReservation(r, q, p, o)
  PROVE  /\ TypeOK'
         /\ Total(allocated'[r]) + Total(incoming'[r]) = q
<1>1. q \in Nat /\ Reserve(r, q, p, o)
  BY ConstantsAssumption DEF CreateReservation
<1>2. QED
  BY <1>1, ReserveType DEF CreateReservation, TypeOK

LEMMA ReducedType ==
  ASSUME TypeOK, NEW r \in Reservation, NEW q \in Nat, q <= reservations[r].quantity,
         NEW final \in {"RELEASED", "CONSUMED"}
  PROVE  Reduced(r, q, final) \in [Reservation -> ReservationRow]
BY DEF TypeOK, ReservationRow, Reduced

LEMMA ReleaseType ==
  ASSUME TypeOK, NEW r \in Reservation, NEW q \in 1 .. MaxQuantity, ReleaseReservation(r, q)
  PROVE  /\ TypeOK'
         /\ Total(allocated'[r]) + Total(incoming'[r]) + q
              = Total(allocated[r]) + Total(incoming[r])
         /\ \A l \in Location : allocated'[r][l] <= allocated[r][l]
         /\ \A s \in Source : incoming'[r][s] <= incoming[r][s]
<1> DEFINE stockQty == Smaller(q, Total(allocated[r]))
           rest     == q - stockQty
<1>1. q \in Nat /\ Total(allocated[r]) \in Nat /\ Total(incoming[r]) \in Nat
  BY ReadsType, ConstantsAssumption
<1>2. stockQty \in Nat /\ rest \in Nat
  BY <1>1 DEF Smaller
<1>3. PICK stock \in Draws(allocated[r], stockQty), open \in Draws(incoming[r], rest) :
        /\ allocated' = [allocated EXCEPT ![r] = Minus(@, stock)]
        /\ incoming' = [incoming EXCEPT ![r] = Minus(@, open)]
  BY DEF ReleaseReservation
<1>4. allocated[r] \in [Location -> Nat] /\ incoming[r] \in [Source -> Nat]
  BY DEF TypeOK
<1>5. /\ stock \in [Location -> Nat] /\ \A l \in Location : stock[l] <= allocated[r][l]
      /\ Total(stock) = stockQty
      /\ open \in [Source -> Nat] /\ \A s \in Source : open[s] <= incoming[r][s]
      /\ Total(open) = rest
  <2> HIDE DEF stockQty, rest
  <2> QED BY <1>2, <1>4, DrawType
<1>6. /\ Minus(allocated[r], stock) \in [Location -> Nat]
      /\ Total(Minus(allocated[r], stock)) + Total(stock) = Total(allocated[r])
      /\ Minus(incoming[r], open) \in [Source -> Nat]
      /\ Total(Minus(incoming[r], open)) + Total(open) = Total(incoming[r])
  BY <1>4, <1>5, Finite, TotalMinus
<1>7. /\ allocated'[r] = Minus(allocated[r], stock) /\ incoming'[r] = Minus(incoming[r], open)
      /\ allocated' \in [Reservation -> [Location -> Nat]]
      /\ incoming' \in [Reservation -> [Source -> Nat]]
  BY <1>3, <1>6 DEF TypeOK
<1>8. Total(allocated'[r]) + Total(incoming'[r]) + q
        = Total(allocated[r]) + Total(incoming[r])
  <2>1. Total(Minus(allocated[r], stock)) \in Nat /\ Total(Minus(incoming[r], open)) \in Nat
    BY <1>6, Finite, TotalType
  <2> HIDE DEF stockQty
  <2>2. QED
    BY <1>1, <1>2, <1>5, <1>6, <1>7, <2>1
<1>9. /\ \A l \in Location : allocated'[r][l] <= allocated[r][l]
      /\ \A s \in Source : incoming'[r][s] <= incoming[r][s]
  BY <1>4, <1>5, <1>7 DEF Minus
<1>10. reservations' \in [Reservation -> ReservationRow]
  BY <1>1, ReducedType DEF ReleaseReservation
<1>11. QED
  BY <1>7, <1>8, <1>9, <1>10 DEF ReleaseReservation, TypeOK

LEMMA ConsumeType ==
  ASSUME TypeOK, NEW r \in Reservation, NEW q \in 1 .. MaxQuantity, ConsumeReservation(r, q)
  PROVE  /\ TypeOK'
         /\ Total(allocated'[r]) + q = Total(allocated[r])
         /\ \A l \in Location : /\ allocated'[r][l] <= allocated[r][l]
                                /\ onHand[l] - onHand'[l] = allocated[r][l] - allocated'[r][l]
<1>1. q \in Nat
  BY ConstantsAssumption
<1>2. PICK stock \in Draws(allocated[r], q) :
        /\ \A l \in Location : stock[l] <= onHand[l]
        /\ onHand' = Minus(onHand, stock)
        /\ allocated' = [allocated EXCEPT ![r] = Minus(@, stock)]
  BY DEF ConsumeReservation
<1>3. allocated[r] \in [Location -> Nat] /\ onHand \in [Location -> Nat]
  BY DEF TypeOK
<1>4. /\ stock \in [Location -> Nat] /\ \A l \in Location : stock[l] <= allocated[r][l]
      /\ Total(stock) = q
  BY <1>1, <1>3, DrawType
<1>5. /\ Minus(allocated[r], stock) \in [Location -> Nat]
      /\ Total(Minus(allocated[r], stock)) + Total(stock) = Total(allocated[r])
  BY <1>3, <1>4, Finite, TotalMinus
<1>6. onHand' \in [Location -> Nat]
  BY <1>2, <1>3, <1>4, MinusType
<1>7. /\ allocated'[r] = Minus(allocated[r], stock)
      /\ allocated' \in [Reservation -> [Location -> Nat]]
  BY <1>2, <1>5 DEF TypeOK
<1>8. Total(allocated'[r]) + q = Total(allocated[r])
  BY <1>4, <1>5, <1>7
<1>9. \A l \in Location : /\ allocated'[r][l] <= allocated[r][l]
                          /\ onHand[l] - onHand'[l] = allocated[r][l] - allocated'[r][l]
  BY <1>2, <1>3, <1>4, <1>7 DEF Minus
<1>10. reservations' \in [Reservation -> ReservationRow]
  BY <1>1, ReducedType DEF ConsumeReservation
<1>11. QED
  BY <1>6, <1>7, <1>8, <1>9, <1>10 DEF ConsumeReservation, TypeOK

\* What one arrival converts of each reservation.
LEMMA ConversionType ==
  ASSUME TypeOK, NEW o \in Order, NEW q \in Nat, NEW c \in Conversions(o, q)
  PROVE  /\ c \in [Reservation -> Nat]
         /\ \A r \in Reservation : c[r] <= incoming[r][o]
         /\ Total(c) = Smaller(q, IncomingFor(o))
<1> DEFINE rows == [r \in Reservation |-> incoming[r][o]]
<1>1. rows \in [Reservation -> Nat] /\ IncomingFor(o) \in Nat
  BY ReadsType DEF Source
<1>2. c \in Draws(rows, Smaller(q, IncomingFor(o)))
  BY DEF Conversions, IncomingFor
<1>3. Smaller(q, IncomingFor(o)) \in Nat
  BY <1>1 DEF Smaller
<1>4. /\ c \in [Reservation -> Nat] /\ \A r \in Reservation : c[r] <= rows[r]
      /\ Total(c) = Smaller(q, IncomingFor(o))
  <2> HIDE DEF rows
  <2> QED BY <1>1, <1>2, <1>3, DrawType
<1>5. QED
  BY <1>4

\* Converted rows raise the stock allocations at l by what they convert.
LEMMA ConvertedStock ==
  ASSUME TypeOK, NEW l \in Location, NEW c \in [Reservation -> Nat],
         allocated' = [r \in Reservation |-> [allocated[r] EXCEPT ![l] = @ + c[r]]]
  PROVE  /\ allocated' \in [Reservation -> [Location -> Nat]]
         /\ \A r \in Reservation : Total(allocated'[r]) = Total(allocated[r]) + c[r]
         /\ AllocatedAt(l)' = AllocatedAt(l) + Total(c)
         /\ \A k \in Location : k # l => AllocatedAt(k)' = AllocatedAt(k)
<1>1. allocated' \in [Reservation -> [Location -> Nat]]
  BY DEF TypeOK
<1>2. ASSUME NEW r \in Reservation
      PROVE  Total(allocated'[r]) = Total(allocated[r]) + c[r]
  <2>1. /\ allocated[r] \in [Location -> Nat] /\ allocated'[r] \in [Location -> Nat]
        /\ allocated'[r][l] = allocated[r][l] + c[r]
        /\ \A k \in Location : k # l => allocated'[r][k] = allocated[r][k]
    BY <1>1 DEF TypeOK
  <2>2. Total(allocated'[r]) + allocated[r][l] = Total(allocated[r]) + allocated'[r][l]
    BY <2>1, Finite, TotalChange
  <2>3. Total(allocated[r]) \in Nat /\ Total(allocated'[r]) \in Nat
    BY <2>1, Finite, TotalType
  <2>4. QED
    BY <2>1, <2>2, <2>3
<1>3. AllocatedAt(l)' = AllocatedAt(l) + Total(c)
  <2> DEFINE col == [r \in Reservation |-> allocated[r][l]]
             new == [r \in Reservation |-> allocated'[r][l]]
  <2>1. col \in [Reservation -> Nat]
    BY DEF TypeOK
  <2>2. new = Plus(col, c)
    BY <2>1 DEF Plus, TypeOK
  <2>3. Total(new) = Total(col) + Total(c)
    <3> HIDE DEF col, new
    <3> QED BY <2>1, <2>2, Finite, TotalPlus
  <2>4. QED
    BY <2>3 DEF AllocatedAt
<1>4. ASSUME NEW k \in Location, k # l PROVE AllocatedAt(k)' = AllocatedAt(k)
  <2>1. [r \in Reservation |-> allocated'[r][k]] = [r \in Reservation |-> allocated[r][k]]
    BY <1>4 DEF TypeOK
  <2>2. QED
    BY <2>1 DEF AllocatedAt
<1>5. QED
  BY <1>1, <1>2, <1>3, <1>4

LEMMA FullArrivalType ==
  ASSUME TypeOK, NEW o \in Order, NEW l \in Location, FullArrival(o, l)
  PROVE  \E c \in Conversions(o, orders[o].amount) :
           /\ TypeOK'
           /\ allocated' = [r \in Reservation |-> [allocated[r] EXCEPT ![l] = @ + c[r]]]
           /\ \A r \in Reservation :
                Total(incoming'[r]) + c[r] = Total(incoming[r])
           /\ [r \in Reservation |-> incoming'[r][o]]
                = Minus([r \in Reservation |-> incoming[r][o]], c)
           /\ \A s \in Source : s # o => IncomingFor(s)' = IncomingFor(s)
<1>1. orders[o] \in OrderLine /\ orders[o].amount \in Nat
  BY DEF TypeOK, OrderLine
<1>2. PICK c \in Conversions(o, orders[o].amount) :
        /\ allocated' = [r \in Reservation |-> [allocated[r] EXCEPT ![l] = @ + c[r]]]
        /\ incoming' = [r \in Reservation |-> [incoming[r] EXCEPT ![o] = @ - c[r]]]
  BY DEF FullArrival
<1>3. c \in [Reservation -> Nat] /\ \A r \in Reservation : c[r] <= incoming[r][o]
  BY <1>1, ConversionType
<1>4. incoming' \in [Reservation -> [Source -> Nat]]
  BY <1>2, <1>3 DEF TypeOK, Source
<1>5. ASSUME NEW r \in Reservation
      PROVE  Total(incoming'[r]) + c[r] = Total(incoming[r])
  <2>1. /\ incoming[r] \in [Source -> Nat] /\ incoming'[r] \in [Source -> Nat]
        /\ o \in Source /\ incoming'[r][o] = incoming[r][o] - c[r]
        /\ \A s \in Source : s # o => incoming'[r][s] = incoming[r][s]
    BY <1>2, <1>4 DEF TypeOK, Source
  <2>2. Total(incoming'[r]) + incoming[r][o] = Total(incoming[r]) + incoming'[r][o]
    BY <2>1, Finite, TotalChange
  <2>3. Total(incoming[r]) \in Nat /\ Total(incoming'[r]) \in Nat
    BY <2>1, Finite, TotalType
  <2>4. QED
    BY <1>3, <2>1, <2>2, <2>3
<1>6. [r \in Reservation |-> incoming'[r][o]] = Minus([r \in Reservation |-> incoming[r][o]], c)
  BY <1>2 DEF Minus, TypeOK, Source
<1>7. ASSUME NEW s \in Source, s # o PROVE IncomingFor(s)' = IncomingFor(s)
  <2>1. [r \in Reservation |-> incoming'[r][s]] = [r \in Reservation |-> incoming[r][s]]
    BY <1>2, <1>7 DEF TypeOK
  <2>2. QED
    BY <2>1 DEF IncomingFor
<1>8. orders' \in [Order -> OrderLine]
  BY <1>1 DEF FullArrival, LineOf, OrderLine, TypeOK
<1>9. onHand' \in [Location -> Nat]
  BY <1>1 DEF FullArrival, TypeOK
<1>10. TypeOK'
  BY <1>2, <1>3, <1>4, <1>8, <1>9, ConvertedStock DEF FullArrival, TypeOK
<1>11. QED
  BY <1>2, <1>5, <1>6, <1>7, <1>10

\* The line split off is new, and both parts are positive.
LEMMA SplitType ==
  ASSUME TypeOK, NEW o \in Order, NEW q \in Nat, IntegerSafeSplit(o, q)
  PROVE  /\ OrderedShare(o, q) \in Nat /\ orders[o].ordered - OrderedShare(o, q) \in Nat
         /\ q \in Nat /\ q < orders[o].amount /\ orders[o].amount - q \in Nat
<1>1. orders[o].amount \in Nat /\ orders[o].ordered \in Nat
  BY DEF TypeOK, OrderLine
<1>2. q < orders[o].amount
  BY DEF IntegerSafeSplit
<1>3. OrderedShare(o, q) \in Int
  <2>1. orders[o].ordered * q \in Int /\ orders[o].amount \in Nat \ {0}
    BY <1>1, <1>2
  <2>2. QED
    BY <2>1 DEF OrderedShare
<1>4. QED
  BY <1>1, <1>2, <1>3 DEF IntegerSafeSplit

LEMMA PartialArrivalType ==
  ASSUME TypeOK, NEW o \in Order, NEW child \in Order, NEW q \in 1 .. MaxQuantity,
         NEW l \in Location, PartialArrival(o, child, q, l)
  PROVE  \E c \in Conversions(o, q) :
           /\ TypeOK' /\ child # o
           /\ allocated' = [r \in Reservation |-> [allocated[r] EXCEPT ![l] = @ + c[r]]]
           /\ \A r \in Reservation :
                Total(incoming'[r]) + c[r] = Total(incoming[r])
           /\ \A r \in Reservation :
                /\ incoming'[r][o] = 0
                /\ incoming'[r][child] = incoming[r][child] + incoming[r][o] - c[r]
           /\ \A s \in Source : s # o /\ s # child => IncomingFor(s)' = IncomingFor(s)
<1>1. IntegerSafeSplit(o, q)
  BY DEF PartialArrival
<1>2. /\ OrderedShare(o, q) \in Nat /\ orders[o].ordered - OrderedShare(o, q) \in Nat
      /\ q \in Nat /\ orders[o].amount - q \in Nat
  BY <1>1, SplitType
<1>3. PICK c \in Conversions(o, q) :
        /\ allocated' = [r \in Reservation |-> [allocated[r] EXCEPT ![l] = @ + c[r]]]
        /\ incoming' = [r \in Reservation |->
             [incoming[r] EXCEPT ![o] = 0, ![child] = @ + incoming[r][o] - c[r]]]
  BY DEF PartialArrival
<1>4. c \in [Reservation -> Nat] /\ \A r \in Reservation : c[r] <= incoming[r][o]
  BY <1>2, ConversionType
<1>5. child # o /\ o \in Source /\ child \in Source
  BY DEF PartialArrival, NextUnused, Source
<1>6. ASSUME NEW r \in Reservation
      PROVE  /\ incoming'[r] \in [Source -> Nat]
             /\ incoming'[r][o] = 0
             /\ incoming'[r][child] = incoming[r][child] + incoming[r][o] - c[r]
             /\ \A s \in Source : s # o /\ s # child => incoming'[r][s] = incoming[r][s]
  <2>1. /\ incoming[r] \in [Source -> Nat]
        /\ incoming'[r] = [incoming[r] EXCEPT ![o] = 0, ![child] = @ + incoming[r][o] - c[r]]
    BY <1>3 DEF TypeOK
  <2>2. incoming[r][child] + incoming[r][o] - c[r] \in Nat
    BY <1>4, <1>5, <2>1
  <2>3. QED
    BY <1>5, <2>1, <2>2
<1>7. incoming' \in [Reservation -> [Source -> Nat]]
  BY <1>3, <1>6
<1>8. ASSUME NEW r \in Reservation
      PROVE  Total(incoming'[r]) + c[r] = Total(incoming[r])
  <2> DEFINE mid == [incoming[r] EXCEPT ![o] = 0]
  <2>1. /\ incoming[r] \in [Source -> Nat] /\ mid \in [Source -> Nat] /\ mid[o] = 0
        /\ mid[child] = incoming[r][child]
        /\ \A s \in Source : s # o => mid[s] = incoming[r][s]
    BY <1>5 DEF TypeOK
  <2>2. incoming'[r] \in [Source -> Nat] /\ \A s \in Source : s # child => incoming'[r][s] = mid[s]
    BY <1>6, <2>1
  <2> HIDE DEF mid
  <2>3. Total(mid) + incoming[r][o] = Total(incoming[r]) + mid[o]
    BY <1>5, <2>1, Finite, TotalChange
  <2>4. Total(incoming'[r]) + mid[child] = Total(mid) + incoming'[r][child]
    BY <1>5, <2>1, <2>2, Finite, TotalChange
  <2>5. Total(incoming[r]) \in Nat /\ Total(incoming'[r]) \in Nat /\ Total(mid) \in Nat
    BY <2>1, <2>2, Finite, TotalType
  <2>6. incoming[r][o] \in Nat /\ incoming[r][child] \in Nat /\ c[r] \in Nat
    BY <1>4, <1>5, <2>1
  <2>7. QED
    BY <1>6, <2>1, <2>3, <2>4, <2>5, <2>6
<1>9. ASSUME NEW s \in Source, s # o, s # child PROVE IncomingFor(s)' = IncomingFor(s)
  <2>1. [r \in Reservation |-> incoming'[r][s]] = [r \in Reservation |-> incoming[r][s]]
    BY <1>6, <1>9
  <2>2. QED
    BY <2>1 DEF IncomingFor
<1>10. orders' \in [Order -> OrderLine]
  BY <1>2 DEF PartialArrival, LineOf, OrderLine, TypeOK
<1>11. onHand' \in [Location -> Nat]
  BY <1>2 DEF PartialArrival, TypeOK
<1>12. TypeOK'
  <2>1. allocated' \in [Reservation -> [Location -> Nat]]
    BY <1>3, <1>4, ConvertedStock
  <2>2. reservations' \in [Reservation -> ReservationRow]
    BY DEF PartialArrival, TypeOK
  <2>3. QED
    BY <1>7, <1>10, <1>11, <2>1, <2>2 DEF TypeOK
<1>13. QED
  BY <1>3, <1>5, <1>6, <1>8, <1>9, <1>12

-----------------------------------------------------------------------------
(* The invariants.                                                         *)

\* Every call keeps the types.
LEMMA TypeStep == TypeOK /\ [Next]_vars => TypeOK'
<1> SUFFICES ASSUME TypeOK, [Next]_vars PROVE TypeOK'
  OBVIOUS
<1>1. ASSUME NEW r \in Reservation, NEW q \in 1 .. MaxQuantity,
             NEW p \in Project \cup {NoProject}, NEW o \in Source,
             CreateReservation(r, q, p, o)
      PROVE  TypeOK'
  BY <1>1, CreateType
<1>2. ASSUME NEW r \in Reservation, NEW q \in 1 .. MaxQuantity, ReleaseReservation(r, q)
      PROVE  TypeOK'
  BY <1>2, ReleaseType
<1>3. ASSUME NEW r \in Reservation, NEW q \in 1 .. MaxQuantity, ConsumeReservation(r, q)
      PROVE  TypeOK'
  BY <1>3, ConsumeType
<1>4. ASSUME NEW o \in Order, NEW l \in Location, FullArrival(o, l)
      PROVE  TypeOK'
  BY <1>4, FullArrivalType
<1>5. ASSUME NEW o \in Order, NEW c \in Order, NEW q \in 1 .. MaxQuantity,
             NEW l \in Location, PartialArrival(o, c, q, l)
      PROVE  TypeOK'
  BY <1>5, PartialArrivalType
<1>6. CASE UNCHANGED vars
  BY <1>6 DEF vars, TypeOK
<1>7. QED
  BY <1>1, <1>2, <1>3, <1>4, <1>5, <1>6 DEF Next

LEMMA TypeInit == Init => TypeOK
BY ConstantsAssumption DEF Init, TypeOK, ReservationRow

\* Every state of the service is well typed: no ledger, line or allocation
\* quantity ever becomes negative.
THEOREM TypeCorrect == Spec => []TypeOK
BY TypeInit, TypeStep, PTL DEF Spec

\* Backing, reservation by reservation: the one that acts keeps its match, the
\* arrivals move quantity from incoming to stock, the others are untouched.
LEMMA BackingStep == TypeOK /\ BackingMatchesQuantity /\ [Next]_vars => BackingMatchesQuantity'
<1> DEFINE Backing(r) == IF reservations[r].status = "ACTIVE"
                         THEN reservations[r].quantity = Total(allocated[r]) + Total(incoming[r])
                         ELSE Total(allocated[r]) = 0 /\ Total(incoming[r]) = 0
<1> SUFFICES ASSUME TypeOK, BackingMatchesQuantity, [Next]_vars, NEW k \in Reservation
             PROVE  Backing(k)'
  BY DEF BackingMatchesQuantity
<1>1. /\ Backing(k)
      /\ Total(allocated[k]) \in Nat /\ Total(incoming[k]) \in Nat
      /\ reservations[k].quantity \in Nat
  BY ReadsType DEF BackingMatchesQuantity, TypeOK, ReservationRow
<1>2. ASSUME reservations'[k] = reservations[k],
             Total(allocated'[k]) + Total(incoming'[k]) = Total(allocated[k]) + Total(incoming[k]),
             Total(allocated'[k]) \in Nat, Total(incoming'[k]) \in Nat
      PROVE  Backing(k)'
  BY <1>1, <1>2
<1>3. ASSUME NEW r \in Reservation, NEW q \in 1 .. MaxQuantity,
             NEW p \in Project \cup {NoProject}, NEW o \in Source,
             CreateReservation(r, q, p, o)
      PROVE  Backing(k)'
  <2>1. Total(allocated'[r]) + Total(incoming'[r]) = q
    BY <1>3, CreateType
  <2>2. CASE k = r
    BY <1>3, <2>1, <2>2 DEF CreateReservation, Reserve, TypeOK
  <2>3. CASE k # r
    BY <1>1, <1>3, <2>3 DEF CreateReservation, Reserve, TypeOK
  <2>4. QED
    BY <2>2, <2>3
<1>4. ASSUME NEW r \in Reservation, NEW q \in 1 .. MaxQuantity, ReleaseReservation(r, q)
      PROVE  Backing(k)'
  <2>1. /\ TypeOK'
        /\ Total(allocated'[r]) + Total(incoming'[r]) + q
             = Total(allocated[r]) + Total(incoming[r])
    BY <1>4, ReleaseType
  <2>2. CASE k = r
    <3>1. Total(allocated'[k]) \in Nat /\ Total(incoming'[k]) \in Nat
      BY <2>1, <2>2, Finite, TotalType DEF TypeOK
    <3>2. /\ reservations[k].status = "ACTIVE" /\ q <= reservations[k].quantity /\ q \in Nat
          /\ reservations' = Reduced(k, q, "RELEASED")
      BY <1>4, <2>2, ConstantsAssumption DEF ReleaseReservation
    <3>3. reservations'[k] =
            [status   |-> IF reservations[k].quantity - q = 0 THEN "RELEASED" ELSE "ACTIVE",
             quantity |-> IF reservations[k].quantity - q = 0 THEN q ELSE reservations[k].quantity - q,
             project  |-> reservations[k].project]
      BY <3>2 DEF Reduced, TypeOK
    <3>4. QED
      BY <1>1, <2>1, <2>2, <3>1, <3>2, <3>3
  <2>3. CASE k # r
    BY <1>1, <1>4, <2>3 DEF ReleaseReservation, Reduced, TypeOK
  <2>4. QED
    BY <2>2, <2>3
<1>5. ASSUME NEW r \in Reservation, NEW q \in 1 .. MaxQuantity, ConsumeReservation(r, q)
      PROVE  Backing(k)'
  <2>1. TypeOK' /\ Total(allocated'[r]) + q = Total(allocated[r]) /\ incoming' = incoming
    BY <1>5, ConsumeType DEF ConsumeReservation
  <2>2. CASE k = r
    <3>1. Total(allocated'[k]) \in Nat
      BY <2>1, <2>2, Finite, TotalType DEF TypeOK
    <3>2. /\ reservations[k].status = "ACTIVE" /\ q <= reservations[k].quantity /\ q \in Nat
          /\ reservations' = Reduced(k, q, "CONSUMED")
      BY <1>5, <2>2, ConstantsAssumption DEF ConsumeReservation
    <3>3. reservations'[k] =
            [status   |-> IF reservations[k].quantity - q = 0 THEN "CONSUMED" ELSE "ACTIVE",
             quantity |-> IF reservations[k].quantity - q = 0 THEN q ELSE reservations[k].quantity - q,
             project  |-> reservations[k].project]
      BY <3>2 DEF Reduced, TypeOK
    <3>4. QED
      BY <1>1, <2>1, <2>2, <3>1, <3>2, <3>3
  <2>3. CASE k # r
    BY <1>1, <1>5, <2>3 DEF ConsumeReservation, Reduced, TypeOK
  <2>4. QED
    BY <2>2, <2>3
<1>6. ASSUME NEW o \in Order, NEW l \in Location, FullArrival(o, l)
      PROVE  Backing(k)'
  <2>0. orders[o].amount \in Nat
    BY DEF TypeOK, OrderLine
  <2>1. PICK c \in Conversions(o, orders[o].amount) :
          /\ TypeOK'
          /\ allocated' = [r \in Reservation |-> [allocated[r] EXCEPT ![l] = @ + c[r]]]
          /\ \A r \in Reservation : Total(incoming'[r]) + c[r] = Total(incoming[r])
    BY <1>6, FullArrivalType
  <2>2. c \in [Reservation -> Nat]
    BY <2>0, ConversionType
  <2>3. Total(allocated'[k]) = Total(allocated[k]) + c[k]
    BY <2>1, <2>2, ConvertedStock
  <2>4. Total(allocated'[k]) \in Nat /\ Total(incoming'[k]) \in Nat
    BY <2>1, Finite, TotalType DEF TypeOK
  <2>5. Total(incoming'[k]) + c[k] = Total(incoming[k]) /\ c[k] \in Nat
    BY <2>1, <2>2
  <2>6. reservations'[k] = reservations[k]
    BY <1>6 DEF FullArrival
  <2>7. QED
    BY <1>1, <1>2, <2>3, <2>4, <2>5, <2>6
<1>7. ASSUME NEW o \in Order, NEW child \in Order, NEW q \in 1 .. MaxQuantity,
             NEW l \in Location, PartialArrival(o, child, q, l)
      PROVE  Backing(k)'
  <2>0. q \in Nat
    BY ConstantsAssumption
  <2>1. PICK c \in Conversions(o, q) :
          /\ TypeOK'
          /\ allocated' = [r \in Reservation |-> [allocated[r] EXCEPT ![l] = @ + c[r]]]
          /\ \A r \in Reservation : Total(incoming'[r]) + c[r] = Total(incoming[r])
    BY <1>7, PartialArrivalType
  <2>2. c \in [Reservation -> Nat]
    BY <2>0, ConversionType
  <2>3. Total(allocated'[k]) = Total(allocated[k]) + c[k]
    BY <2>1, <2>2, ConvertedStock
  <2>4. Total(allocated'[k]) \in Nat /\ Total(incoming'[k]) \in Nat
    BY <2>1, Finite, TotalType DEF TypeOK
  <2>5. Total(incoming'[k]) + c[k] = Total(incoming[k]) /\ c[k] \in Nat
    BY <2>1, <2>2
  <2>6. reservations'[k] = reservations[k]
    BY <1>7 DEF PartialArrival
  <2>7. QED
    BY <1>1, <1>2, <2>3, <2>4, <2>5, <2>6
<1>8. CASE UNCHANGED vars
  BY <1>1, <1>8 DEF vars
<1>9. QED
  BY <1>3, <1>4, <1>5, <1>6, <1>7, <1>8 DEF Next

\* At first nothing is reserved.
LEMMA BackingInit == Init => BackingMatchesQuantity
<1> SUFFICES ASSUME Init, NEW r \in Reservation
             PROVE  Total(allocated[r]) = 0 /\ Total(incoming[r]) = 0
  BY DEF Init, BackingMatchesQuantity
<1>1. /\ allocated[r] \in [Location -> Nat] /\ \A l \in Location : allocated[r][l] = 0
      /\ incoming[r] \in [Source -> Nat] /\ \A s \in Source : incoming[r][s] = 0
  BY DEF Init
<1>2. QED
  BY <1>1, Finite, TotalZero

\* The quantity of every ACTIVE reservation is what its active allocations add
\* up to, in every reachable state and for every set of locations and lines.
THEOREM BackingCorrect == Spec => []BackingMatchesQuantity
BY BackingInit, BackingStep, TypeCorrect, PTL DEF Spec

\* A reservation whose allocations shrink by d at l lowers the sum there by d.
LEMMA AllocatedAtChange ==
  ASSUME TypeOK, TypeOK', NEW r \in Reservation, NEW l \in Location,
         \A k \in Reservation : k # r => allocated'[k] = allocated[k]
  PROVE  AllocatedAt(l)' + allocated[r][l] = AllocatedAt(l) + allocated'[r][l]
<1> DEFINE col == [k \in Reservation |-> allocated[k][l]]
           new == [k \in Reservation |-> allocated'[k][l]]
<1>1. /\ col \in [Reservation -> Nat] /\ new \in [Reservation -> Nat]
      /\ col[r] = allocated[r][l] /\ new[r] = allocated'[r][l]
      /\ \A k \in Reservation : k # r => new[k] = col[k]
  BY DEF TypeOK
<1>2. Total(new) + col[r] = Total(col) + new[r]
  <2> HIDE DEF col, new
  <2> QED BY <1>1, Finite, TotalChange
<1>3. QED
  BY <1>1, <1>2 DEF AllocatedAt

LEMMA IncomingForChange ==
  ASSUME TypeOK, TypeOK', NEW r \in Reservation, NEW s \in Source,
         \A k \in Reservation : k # r => incoming'[k] = incoming[k]
  PROVE  IncomingFor(s)' + incoming[r][s] = IncomingFor(s) + incoming'[r][s]
<1> DEFINE col == [k \in Reservation |-> incoming[k][s]]
           new == [k \in Reservation |-> incoming'[k][s]]
<1>1. /\ col \in [Reservation -> Nat] /\ new \in [Reservation -> Nat]
      /\ col[r] = incoming[r][s] /\ new[r] = incoming'[r][s]
      /\ \A k \in Reservation : k # r => new[k] = col[k]
  BY DEF TypeOK
<1>2. Total(new) + col[r] = Total(col) + new[r]
  <2> HIDE DEF col, new
  <2> QED BY <1>1, Finite, TotalChange
<1>3. QED
  BY <1>1, <1>2 DEF IncomingFor

\* What a creation takes from a location, and from an order line, is still
\* free there; the reservation it fills held nothing.
LEMMA CreateTakesFree ==
  ASSUME TypeOK, TypeOK', BackingMatchesQuantity, NEW r \in Reservation,
         NEW q \in 1 .. MaxQuantity, NEW p \in Project \cup {NoProject},
         NEW o \in Source, CreateReservation(r, q, p, o)
  PROVE  /\ \A l \in Location : /\ allocated[r][l] = 0
                                /\ allocated'[r][l] <= Monus(onHand[l], AllocatedAt(l))
         /\ \A s \in Source : /\ incoming[r][s] = 0
                              /\ incoming'[r][s] > 0 =>
                                   /\ s # NoOrder /\ orders[s].status = "Ordered"
                                   /\ incoming'[r][s] <= Allocatable(s)
<1> DEFINE preferredQty == PreferredQuantity(o, q)
           stockQty     == Smaller(Total(Available), q - preferredQty)
           shortfall    == q - preferredQty - stockQty
           supply       == OpenSupply(p, o)
<1>1. preferredQty \in Nat /\ stockQty \in Nat /\ shortfall \in Nat
  BY CreateSplit
<1>2. PICK stock \in Draws(Available, stockQty), open \in Draws(supply, shortfall) :
        /\ allocated' = [allocated EXCEPT ![r] = stock]
        /\ incoming' = [incoming EXCEPT ![r] = [open EXCEPT ![o] = preferredQty]]
  BY DEF CreateReservation, Reserve
<1>3. stock \in [Location -> Nat] /\ \A l \in Location : stock[l] <= Available[l]
  <2> HIDE DEF stockQty
  <2> QED BY <1>1, ReadsType, DrawType
<1>4. open \in [Source -> Nat] /\ \A s \in Source : open[s] <= supply[s]
  <2>1. supply \in [Source -> Nat]
    BY ReadsType
  <2>2. QED
    <3> HIDE DEF supply, shortfall
    <3> QED BY <1>1, <2>1, DrawType
<1>5. /\ \A l \in Location : allocated[r][l] = 0
      /\ \A s \in Source : incoming[r][s] = 0
  <2>1. Total(allocated[r]) = 0 /\ Total(incoming[r]) = 0
    BY DEF CreateReservation, Reserve, NextUnused, BackingMatchesQuantity
  <2>2. allocated[r] \in [Location -> Nat] /\ incoming[r] \in [Source -> Nat]
    BY DEF TypeOK
  <2>3. QED
    BY <2>1, <2>2, Finite, TotalZero
<1>6. ASSUME NEW l \in Location
      PROVE  allocated'[r][l] <= Monus(onHand[l], AllocatedAt(l))
  <2>1. allocated'[r][l] = stock[l] /\ stock[l] \in Nat /\ stock[l] <= Available[l]
    BY <1>2, <1>3 DEF TypeOK
  <2>2. Available[l] = 0 \/ Available[l] = Monus(onHand[l], AllocatedAt(l))
    BY DEF Available
  <2>3. Monus(onHand[l], AllocatedAt(l)) \in Nat
    BY ReadsType DEF Monus, TypeOK
  <2>4. QED
    BY <2>1, <2>2, <2>3
<1>7. ASSUME NEW s \in Source, incoming'[r][s] > 0
      PROVE  /\ s # NoOrder /\ orders[s].status = "Ordered"
             /\ incoming'[r][s] <= Allocatable(s)
  <2>1. incoming'[r] = [open EXCEPT ![o] = preferredQty]
    <3> HIDE DEF preferredQty
    <3> QED BY <1>2 DEF TypeOK
  <2>2. CASE s = o
    <3>1. incoming'[r][s] = preferredQty
      <4> HIDE DEF preferredQty
      <4> QED BY <1>4, <2>1, <2>2
    <3>2. s # NoOrder
      BY <1>7, <2>2, <3>1 DEF PreferredQuantity
    <3>3. PreferredEligible(s, p)
      BY <2>2, <3>2 DEF CreateReservation, Reserve
    <3>4. preferredQty <= Allocatable(s)
      <4>1. q \in Nat /\ Allocatable(s) \in Nat
        BY <3>2, ReadsType, ConstantsAssumption DEF Source
      <4>2. QED
        BY <2>2, <3>2, <4>1 DEF PreferredQuantity, Smaller
    <3>5. QED
      <4> HIDE DEF preferredQty
      <4> QED BY <3>1, <3>2, <3>3, <3>4 DEF PreferredEligible
  <2>3. CASE s # o
    <3>1. incoming'[r][s] = open[s] /\ open[s] \in Nat /\ open[s] <= supply[s]
      <4> HIDE DEF preferredQty, supply
      <4> QED BY <1>4, <2>1, <2>3
    <3>2. supply[s] \in Nat /\ supply[s] > 0
      <4>1. supply[s] \in Nat
        BY ReadsType
      <4>2. QED
        <5> HIDE DEF supply
        <5> QED BY <1>7, <3>1, <4>1
    <3>3. s # NoOrder /\ orders[s].status = "Ordered" /\ supply[s] = Allocatable(s)
      BY <3>2 DEF OpenSupply
    <3>4. QED
      <4> HIDE DEF supply
      <4> QED BY <3>1, <3>3
  <2>4. QED
    BY <2>2, <2>3
<1>8. QED
  BY <1>5, <1>6, <1>7

\* No location is promised beyond its stock: creations take what is free,
\* consumption takes stock and promise together, and an arrival converts at
\* most what it brings.
LEMMA StockStep ==
  TypeOK /\ BackingMatchesQuantity /\ StockCoversAllocations /\ [Next]_vars
    => StockCoversAllocations'
<1> SUFFICES ASSUME TypeOK, BackingMatchesQuantity, StockCoversAllocations, [Next]_vars,
                    NEW l \in Location
             PROVE  AllocatedAt(l)' <= onHand'[l]
  BY DEF StockCoversAllocations
<1>1. /\ AllocatedAt(l) \in Nat /\ onHand[l] \in Nat /\ AllocatedAt(l) <= onHand[l]
      /\ \A r \in Reservation : allocated[r][l] \in Nat
  BY ReadsType DEF StockCoversAllocations, TypeOK
<1>2. ASSUME TypeOK' PROVE AllocatedAt(l)' \in Nat
  <2>1. [r \in Reservation |-> allocated'[r][l]] \in [Reservation -> Nat]
    BY <1>2 DEF TypeOK
  <2>2. QED
    BY <2>1, Finite, TotalType DEF AllocatedAt
<1>3. ASSUME NEW r \in Reservation, NEW q \in 1 .. MaxQuantity,
             NEW p \in Project \cup {NoProject}, NEW o \in Source,
             CreateReservation(r, q, p, o)
      PROVE  AllocatedAt(l)' <= onHand'[l]
  <2>1. TypeOK' /\ onHand' = onHand
    BY <1>3, CreateType DEF CreateReservation, Reserve
  <2>2. \A k \in Reservation : k # r => allocated'[k] = allocated[k]
    BY <1>3 DEF CreateReservation, Reserve, TypeOK
  <2>3. AllocatedAt(l)' + allocated[r][l] = AllocatedAt(l) + allocated'[r][l]
    BY <2>1, <2>2, AllocatedAtChange
  <2>4. allocated[r][l] = 0 /\ allocated'[r][l] <= Monus(onHand[l], AllocatedAt(l))
    BY <1>3, <2>1, CreateTakesFree
  <2>5. allocated'[r][l] \in Nat
    BY <2>1 DEF TypeOK
  <2>6. QED
    BY <1>1, <1>2, <2>1, <2>3, <2>4, <2>5 DEF Monus
<1>4. ASSUME NEW r \in Reservation, NEW q \in 1 .. MaxQuantity, ReleaseReservation(r, q)
      PROVE  AllocatedAt(l)' <= onHand'[l]
  <2>1. TypeOK' /\ onHand' = onHand /\ allocated'[r][l] <= allocated[r][l]
    BY <1>4, ReleaseType DEF ReleaseReservation
  <2>2. \A k \in Reservation : k # r => allocated'[k] = allocated[k]
    BY <1>4 DEF ReleaseReservation, TypeOK
  <2>3. AllocatedAt(l)' + allocated[r][l] = AllocatedAt(l) + allocated'[r][l]
    BY <2>1, <2>2, AllocatedAtChange
  <2>4. allocated'[r][l] \in Nat
    BY <2>1 DEF TypeOK
  <2>5. QED
    BY <1>1, <1>2, <2>1, <2>3, <2>4
<1>5. ASSUME NEW r \in Reservation, NEW q \in 1 .. MaxQuantity, ConsumeReservation(r, q)
      PROVE  AllocatedAt(l)' <= onHand'[l]
  <2>1. /\ TypeOK' /\ allocated'[r][l] <= allocated[r][l]
        /\ onHand[l] - onHand'[l] = allocated[r][l] - allocated'[r][l]
    BY <1>5, ConsumeType
  <2>2. \A k \in Reservation : k # r => allocated'[k] = allocated[k]
    BY <1>5 DEF ConsumeReservation, TypeOK
  <2>3. AllocatedAt(l)' + allocated[r][l] = AllocatedAt(l) + allocated'[r][l]
    BY <2>1, <2>2, AllocatedAtChange
  <2>4. allocated'[r][l] \in Nat /\ onHand'[l] \in Nat
    BY <2>1 DEF TypeOK
  <2>5. QED
    BY <1>1, <1>2, <2>1, <2>3, <2>4
<1>6. ASSUME NEW o \in Order, NEW q \in Nat, NEW at \in Location,
             NEW c \in Conversions(o, q), TypeOK',
             allocated' = [r \in Reservation |-> [allocated[r] EXCEPT ![at] = @ + c[r]]],
             onHand' = [onHand EXCEPT ![at] = @ + q]
      PROVE  AllocatedAt(l)' <= onHand'[l]
  <2>1. c \in [Reservation -> Nat] /\ Total(c) = Smaller(q, IncomingFor(o))
    BY <1>6, ConversionType
  <2>2. IncomingFor(o) \in Nat
    BY ReadsType DEF Source
  <2>3. Total(c) \in Nat /\ Total(c) <= q
    BY <2>1, <2>2 DEF Smaller
  <2>4. /\ AllocatedAt(at)' = AllocatedAt(at) + Total(c)
        /\ l # at => AllocatedAt(l)' = AllocatedAt(l)
    BY <1>6, <2>1, ConvertedStock
  <2>5. CASE l = at
    <3>1. onHand'[l] = onHand[l] + q
      BY <1>6, <2>5 DEF TypeOK
    <3>2. QED
      BY <1>1, <2>3, <2>4, <2>5, <3>1
  <2>6. CASE l # at
    <3>1. onHand'[l] = onHand[l]
      BY <1>6, <2>6 DEF TypeOK
    <3>2. QED
      BY <1>1, <2>4, <2>6, <3>1
  <2>7. QED
    BY <2>5, <2>6
<1>7. ASSUME NEW o \in Order, NEW at \in Location, FullArrival(o, at)
      PROVE  AllocatedAt(l)' <= onHand'[l]
  <2>1. orders[o].amount \in Nat
    BY DEF TypeOK, OrderLine
  <2>2. PICK c \in Conversions(o, orders[o].amount) :
          /\ TypeOK'
          /\ allocated' = [r \in Reservation |-> [allocated[r] EXCEPT ![at] = @ + c[r]]]
    BY <1>7, FullArrivalType
  <2>3. onHand' = [onHand EXCEPT ![at] = @ + orders[o].amount]
    BY <1>7 DEF FullArrival
  <2>4. QED
    BY <1>6, <2>1, <2>2, <2>3
<1>8. ASSUME NEW o \in Order, NEW child \in Order, NEW q \in 1 .. MaxQuantity,
             NEW at \in Location, PartialArrival(o, child, q, at)
      PROVE  AllocatedAt(l)' <= onHand'[l]
  <2>1. q \in Nat
    BY ConstantsAssumption
  <2>2. PICK c \in Conversions(o, q) :
          /\ TypeOK'
          /\ allocated' = [r \in Reservation |-> [allocated[r] EXCEPT ![at] = @ + c[r]]]
    BY <1>8, PartialArrivalType
  <2>3. onHand' = [onHand EXCEPT ![at] = @ + q]
    BY <1>8 DEF PartialArrival
  <2>4. QED
    BY <1>6, <2>1, <2>2, <2>3
<1>9. CASE UNCHANGED vars
  BY <1>1, <1>9 DEF vars, AllocatedAt
<1>10. QED
  BY <1>3, <1>4, <1>5, <1>7, <1>8, <1>9 DEF Next

\* At first nothing is allocated.
LEMMA StockInit == Init => StockCoversAllocations
<1> SUFFICES ASSUME Init, NEW l \in Location PROVE AllocatedAt(l) <= onHand[l]
  BY DEF StockCoversAllocations
<1>1. /\ [r \in Reservation |-> allocated[r][l]] \in [Reservation -> Nat]
      /\ \A r \in Reservation : [k \in Reservation |-> allocated[k][l]][r] = 0
  BY DEF Init
<1>2. AllocatedAt(l) = 0
  BY <1>1, Finite, TotalZero DEF AllocatedAt
<1>3. onHand[l] \in Nat
  BY ConstantsAssumption DEF Init
<1>4. QED
  BY <1>2, <1>3

\* Whatever reservations and arrivals do, the stock of every location covers
\* all that is allocated from it, provided no stock leaves by other ways.
THEOREM StockCorrect == Spec => []StockCoversAllocations
BY StockInit, StockStep, TypeCorrect, BackingCorrect, PTL DEF Spec

-----------------------------------------------------------------------------

\* No open line promises more than it will bring, and nothing else is waited
\* for: an arrival converts all that its line promises or hands the rest to
\* the line that keeps the rest of the amount.
LEMMA OpenLineStep ==
  TypeOK /\ BackingMatchesQuantity /\ OpenLineCoversIncoming /\ [Next]_vars
    => OpenLineCoversIncoming'
<1> DEFINE Holds(s) == IF s # NoOrder /\ orders[s].status = "Ordered"
                       THEN orders[s].amount ELSE 0
<1> SUFFICES ASSUME TypeOK, BackingMatchesQuantity, OpenLineCoversIncoming, [Next]_vars,
                    NEW s \in Source
             PROVE  IncomingFor(s)' <= Holds(s)'
  BY DEF OpenLineCoversIncoming
<1>1. /\ IncomingFor(s) \in Nat /\ Holds(s) \in Nat /\ IncomingFor(s) <= Holds(s)
      /\ \A r \in Reservation : incoming[r][s] \in Nat
  BY ReadsType DEF OpenLineCoversIncoming, TypeOK, OrderLine, Source, NoOrder
<1>2. ASSUME TypeOK' PROVE IncomingFor(s)' \in Nat
  <2>1. [r \in Reservation |-> incoming'[r][s]] \in [Reservation -> Nat]
    BY <1>2 DEF TypeOK
  <2>2. QED
    BY <2>1, Finite, TotalType DEF IncomingFor
<1>3. ASSUME NEW r \in Reservation, NEW q \in 1 .. MaxQuantity,
             NEW p \in Project \cup {NoProject}, NEW o \in Source,
             CreateReservation(r, q, p, o)
      PROVE  IncomingFor(s)' <= Holds(s)'
  <2>1. TypeOK' /\ orders' = orders
    BY <1>3, CreateType DEF CreateReservation, Reserve
  <2>2. \A k \in Reservation : k # r => incoming'[k] = incoming[k]
    BY <1>3 DEF CreateReservation, Reserve, TypeOK
  <2>3. IncomingFor(s)' + incoming[r][s] = IncomingFor(s) + incoming'[r][s]
    BY <2>1, <2>2, IncomingForChange
  <2>4. /\ incoming[r][s] = 0
        /\ incoming'[r][s] > 0 => /\ s # NoOrder /\ orders[s].status = "Ordered"
                                  /\ incoming'[r][s] <= Allocatable(s)
    BY <1>3, <2>1, CreateTakesFree
  <2>5. incoming'[r][s] \in Nat
    BY <2>1 DEF TypeOK
  <2>6. CASE incoming'[r][s] = 0
    BY <1>1, <1>2, <2>1, <2>3, <2>4, <2>6
  <2>7. CASE incoming'[r][s] > 0
    <3>1. orders[s].amount \in Nat /\ Holds(s) = orders[s].amount /\ Holds(s)' = orders[s].amount
      BY <2>1, <2>4, <2>7 DEF TypeOK, OrderLine, Source
    <3>2. incoming'[r][s] <= Monus(orders[s].amount, IncomingFor(s))
      BY <2>4, <2>7 DEF Allocatable
    <3> HIDE DEF Holds
    <3>3. QED
      BY <1>1, <1>2, <2>1, <2>3, <2>4, <2>5, <3>1, <3>2 DEF Monus
  <2>8. QED
    BY <2>5, <2>6, <2>7
<1>4. ASSUME NEW r \in Reservation, NEW q \in 1 .. MaxQuantity, ReleaseReservation(r, q)
      PROVE  IncomingFor(s)' <= Holds(s)'
  <2>1. TypeOK' /\ orders' = orders /\ incoming'[r][s] <= incoming[r][s]
    BY <1>4, ReleaseType DEF ReleaseReservation
  <2>2. \A k \in Reservation : k # r => incoming'[k] = incoming[k]
    BY <1>4 DEF ReleaseReservation, TypeOK
  <2>3. IncomingFor(s)' + incoming[r][s] = IncomingFor(s) + incoming'[r][s]
    BY <2>1, <2>2, IncomingForChange
  <2>4. incoming'[r][s] \in Nat /\ Holds(s)' = Holds(s)
    BY <2>1 DEF TypeOK
  <2> HIDE DEF Holds
  <2>5. QED
    BY <1>1, <1>2, <2>1, <2>3, <2>4
<1>5. ASSUME NEW r \in Reservation, NEW q \in 1 .. MaxQuantity, ConsumeReservation(r, q)
      PROVE  IncomingFor(s)' <= Holds(s)'
  BY <1>1, <1>5 DEF ConsumeReservation, IncomingFor
<1>6. ASSUME NEW o \in Order, NEW at \in Location, FullArrival(o, at)
      PROVE  IncomingFor(s)' <= Holds(s)'
  <2>1. PICK c \in Conversions(o, orders[o].amount) :
          /\ TypeOK'
          /\ [r \in Reservation |-> incoming'[r][o]]
               = Minus([r \in Reservation |-> incoming[r][o]], c)
          /\ \A k \in Source : k # o => IncomingFor(k)' = IncomingFor(k)
    BY <1>6, FullArrivalType
  <2>2. CASE s # o
    <3>1. Holds(s)' = Holds(s)
      BY <1>6, <2>2 DEF FullArrival, TypeOK, Source
    <3>2. QED
      BY <1>1, <2>1, <2>2, <3>1
  <2>3. CASE s = o
    <3> DEFINE rows == [r \in Reservation |-> incoming[r][o]]
    <3>1. /\ rows \in [Reservation -> Nat] /\ Total(rows) = IncomingFor(o)
          /\ IncomingFor(o) \in Nat /\ orders[o].amount \in Nat
          /\ IncomingFor(o) <= orders[o].amount
      BY <1>1, <1>6, <2>3 DEF IncomingFor, TypeOK, OrderLine, FullArrival, Source
    <3>2. /\ c \in [Reservation -> Nat] /\ \A r \in Reservation : c[r] <= rows[r]
          /\ Total(c) = IncomingFor(o)
      BY <3>1, ConversionType DEF Smaller
    <3>3. Total(Minus(rows, c)) + Total(c) = Total(rows) /\ Minus(rows, c) \in [Reservation -> Nat]
      <4> HIDE DEF rows
      <4> QED BY <3>1, <3>2, Finite, TotalMinus
    <3>4. Total(Minus(rows, c)) \in Nat
      <4> HIDE DEF rows
      <4> QED BY <3>3, Finite, TotalType
    <3>5. IncomingFor(s)' = 0
      <4>1. IncomingFor(s)' = Total(Minus(rows, c))
        BY <2>1, <2>3 DEF IncomingFor
      <4> HIDE DEF rows
      <4>2. QED
        BY <3>1, <3>2, <3>3, <3>4, <4>1, SMTT(30)
    <3>6. Holds(s)' = 0
      BY <1>6, <2>3 DEF FullArrival, LineOf, TypeOK, OrderLine
    <3>7. QED
      BY <3>5, <3>6
  <2>4. QED
    BY <2>2, <2>3
<1>7. ASSUME NEW o \in Order, NEW child \in Order, NEW q \in 1 .. MaxQuantity,
             NEW at \in Location, PartialArrival(o, child, q, at)
      PROVE  IncomingFor(s)' <= Holds(s)'
  <2>0. q \in Nat /\ q < orders[o].amount /\ orders[o].amount - q \in Nat
    BY <1>7, SplitType DEF PartialArrival
  <2>1. PICK c \in Conversions(o, q) :
          /\ TypeOK' /\ child # o
          /\ \A r \in Reservation :
               /\ incoming'[r][o] = 0
               /\ incoming'[r][child] = incoming[r][child] + incoming[r][o] - c[r]
          /\ \A k \in Source : k # o /\ k # child => IncomingFor(k)' = IncomingFor(k)
    BY <1>7, PartialArrivalType
  <2>2. CASE s # o /\ s # child
    <3>1. Holds(s)' = Holds(s)
      BY <1>7, <2>2 DEF PartialArrival, TypeOK, Source
    <3>2. QED
      BY <1>1, <2>1, <2>2, <3>1
  <2>3. CASE s = o
    <3>1. /\ [r \in Reservation |-> incoming'[r][s]] \in [Reservation -> Nat]
          /\ \A k \in Reservation : [r \in Reservation |-> incoming'[r][s]][k] = 0
      BY <2>1, <2>3
    <3>2. IncomingFor(s)' = 0
      BY <3>1, Finite, TotalZero DEF IncomingFor
    <3>3. Holds(s)' \in Nat
      BY <2>1 DEF TypeOK, OrderLine, Source, NoOrder
    <3> HIDE DEF Holds
    <3>4. QED
      BY <3>2, <3>3
  <2>4. CASE s = child
    <3> DEFINE rows == [r \in Reservation |-> incoming[r][o]]
               old  == [r \in Reservation |-> incoming[r][child]]
    <3>1. /\ rows \in [Reservation -> Nat] /\ Total(rows) = IncomingFor(o)
          /\ IncomingFor(o) \in Nat /\ orders[o].amount \in Nat
          /\ IncomingFor(o) <= orders[o].amount
      <4>1. IncomingFor(o) <= orders[o].amount
        BY <1>7 DEF OpenLineCoversIncoming, PartialArrival, Source, NoOrder, Order
      <4>2. QED
        BY <4>1, ReadsType DEF IncomingFor, TypeOK, OrderLine, Source
    <3>2. \A r \in Reservation : incoming[r][child] = 0
      <4>1. IncomingFor(child) = 0
        BY <1>1, <1>7, <2>4 DEF PartialArrival, NextUnused
      <4>2. old \in [Reservation -> Nat] /\ Total(old) = 0
        BY <2>4, <4>1, ReadsType DEF IncomingFor
      <4>3. \A r \in Reservation : old[r] = 0
        <5> HIDE DEF old
        <5> QED BY <4>2, Finite, TotalZero
      <4>4. QED
        BY <4>3
    <3>3. /\ c \in [Reservation -> Nat] /\ \A r \in Reservation : c[r] <= rows[r]
          /\ Total(c) = Smaller(q, IncomingFor(o))
      BY <2>0, ConversionType
    <3>4. [r \in Reservation |-> incoming'[r][child]] = Minus(rows, c)
      BY <2>1, <3>1, <3>2, <3>3 DEF Minus
    <3>5. Total(Minus(rows, c)) + Total(c) = Total(rows) /\ Minus(rows, c) \in [Reservation -> Nat]
      <4> HIDE DEF rows
      <4> QED BY <3>1, <3>3, Finite, TotalMinus
    <3>6. Total(Minus(rows, c)) \in Nat
      <4> HIDE DEF rows
      <4> QED BY <3>5, Finite, TotalType
    <3>7. IncomingFor(s)' = Total(Minus(rows, c))
      BY <2>4, <3>4 DEF IncomingFor
    <3>8. Holds(s)' = orders[o].amount - q
      BY <1>7, <2>1, <2>4 DEF PartialArrival, LineOf, TypeOK, Order, NoOrder
    <3>9. QED
      <4> HIDE DEF rows, Holds
      <4> QED BY <2>0, <3>1, <3>3, <3>5, <3>6, <3>7, <3>8 DEF Smaller
  <2>5. QED
    BY <2>2, <2>3, <2>4
<1>8. CASE UNCHANGED vars
  BY <1>1, <1>8 DEF vars, IncomingFor
<1>9. QED
  BY <1>3, <1>4, <1>5, <1>6, <1>7, <1>8 DEF Next

\* Every incoming allocation is backed by an open line large enough for all
\* the allocations that wait for it.
THEOREM OpenLineCorrect == Spec => []OpenLineCoversIncoming
<1>1. Init => OpenLineCoversIncoming
  <2> SUFFICES ASSUME Init, NEW s \in Source
               PROVE  IncomingFor(s) <= IF s # NoOrder /\ orders[s].status = "Ordered"
                                        THEN orders[s].amount ELSE 0
    BY DEF OpenLineCoversIncoming
  <2>1. /\ [r \in Reservation |-> incoming[r][s]] \in [Reservation -> Nat]
        /\ \A r \in Reservation : [k \in Reservation |-> incoming[k][s]][r] = 0
    BY DEF Init
  <2>2. IncomingFor(s) = 0
    BY <2>1, Finite, TotalZero DEF IncomingFor
  <2>3. s # NoOrder => orders[s].amount \in Nat
    BY ConstantsAssumption DEF Init, OrderLine, Source
  <2>4. QED
    BY <2>2, <2>3
<1>2. QED
  BY <1>1, OpenLineStep, TypeCorrect, BackingCorrect, PTL DEF Spec

\* Dedicated supply, call by call: a creation promises only lines that fit its
\* project, and the rest of a line split by an arrival, which takes the promises
\* along, keeps the line's project; nothing waited for it before, since it was
\* no open line.
LEMMA DedicatedStep ==
  /\ TypeOK /\ OpenLineCoversIncoming
  /\ DedicatedSupplyStaysInProject
  /\ [Next]_vars
  => DedicatedSupplyStaysInProject'
<1> SUFFICES ASSUME TypeOK, OpenLineCoversIncoming, DedicatedSupplyStaysInProject, [Next]_vars,
                    NEW r \in Reservation, NEW o \in Order, incoming'[r][o] > 0
             PROVE  orders'[o].project \in {NoProject, reservations'[r].project}
  BY DEF DedicatedSupplyStaysInProject
<1>1. /\ o \in Source /\ o # NoOrder /\ incoming[r][o] \in Nat
      /\ incoming[r][o] > 0 => orders[o].project \in {NoProject, reservations[r].project}
  <2>1. o \in Source /\ o # NoOrder
    BY ConstantsAssumption DEF Source, Order, NoOrder
  <2>2. QED
    BY <2>1 DEF TypeOK, DedicatedSupplyStaysInProject
<1>2. ASSUME NEW k \in Reservation, NEW q \in 1 .. MaxQuantity,
             NEW p \in Project \cup {NoProject}, NEW preferred \in Source,
             CreateReservation(k, q, p, preferred)
      PROVE  orders'[o].project \in {NoProject, reservations'[r].project}
  <2>1. orders' = orders
    BY <1>2 DEF CreateReservation
  <2>2. CASE r # k
    BY <1>1, <1>2, <2>1, <2>2 DEF CreateReservation, Reserve, TypeOK
  <2>3. CASE r = k
    <3> DEFINE preferredQty == PreferredQuantity(preferred, q)
               short == q - preferredQty - Smaller(Total(Available), q - preferredQty)
               supply == OpenSupply(p, preferred)
    <3>1. PICK open \in Draws(supply, short) :
            incoming' = [incoming EXCEPT ![k] = [open EXCEPT ![preferred] = preferredQty]]
      BY <1>2 DEF CreateReservation, Reserve
    <3>2. reservations'[r].project = p
      BY <1>2, <2>3 DEF CreateReservation, Reserve, TypeOK
    <3>3. CASE o = preferred
      BY <1>1, <1>2, <2>1, <3>2, <3>3 DEF CreateReservation, Reserve, PreferredEligible
    <3>4. CASE o # preferred
      <4>1. supply \in [Source -> Nat]
        BY ReadsType
      <4>2. DOMAIN open = Source /\ open[o] <= supply[o] /\ open[o] \in Int
        <5> HIDE DEF supply, short
        <5> QED BY <1>1, <4>1 DEF Draws
      <4>3. incoming'[r][o] = open[o]
        BY <1>1, <2>3, <3>1, <3>4, <4>2 DEF TypeOK
      <4>4. supply[o] # 0
        <5> HIDE DEF supply
        <5> QED BY <1>1, <4>1, <4>2, <4>3
      <4>5. orders[o].project \in {p, NoProject}
        BY <1>1, <4>4 DEF OpenSupply
      <4>6. QED
        BY <2>1, <3>2, <4>5
    <3>5. QED
      BY <3>3, <3>4
  <2>4. QED
    BY <2>2, <2>3
<1>3. ASSUME NEW k \in Reservation, NEW q \in 1 .. MaxQuantity, ReleaseReservation(k, q)
      PROVE  orders'[o].project \in {NoProject, reservations'[r].project}
  <2>1. orders' = orders /\ reservations'[r].project = reservations[r].project
    BY <1>3 DEF ReleaseReservation, Reduced, TypeOK
  <2>2. incoming'[r][o] \in Nat /\ incoming'[r][o] <= incoming[r][o]
    <3>1. CASE r = k
      BY <1>1, <1>3, <3>1, ReleaseType DEF TypeOK
    <3>2. CASE r # k
      BY <1>1, <1>3, <3>2 DEF ReleaseReservation, TypeOK
    <3>3. QED
      BY <3>1, <3>2
  <2>3. QED
    BY <1>1, <2>1, <2>2
<1>4. ASSUME NEW k \in Reservation, NEW q \in 1 .. MaxQuantity, ConsumeReservation(k, q)
      PROVE  orders'[o].project \in {NoProject, reservations'[r].project}
  <2>1. reservations'[r].project = reservations[r].project
    BY <1>4 DEF ConsumeReservation, Reduced, TypeOK
  <2>2. QED
    BY <1>1, <1>4, <2>1 DEF ConsumeReservation
<1>5. ASSUME NEW m \in Order, NEW l \in Location, FullArrival(m, l)
      PROVE  orders'[o].project \in {NoProject, reservations'[r].project}
  <2>1. orders'[o].project = orders[o].project /\ reservations' = reservations
    BY <1>5 DEF FullArrival, LineOf, TypeOK
  <2>2. PICK c \in Conversions(m, orders[m].amount) :
          incoming' = [k \in Reservation |-> [incoming[k] EXCEPT ![m] = @ - c[k]]]
    BY <1>5 DEF FullArrival
  <2>3. orders[m].amount \in Nat
    BY DEF TypeOK, OrderLine
  <2>4. c[r] \in Nat
    BY <2>3, ConversionType
  <2>5. incoming[r][o] > 0
    BY <1>1, <2>2, <2>4 DEF TypeOK
  <2>6. QED
    BY <1>1, <2>1, <2>5
<1>6. ASSUME NEW m \in Order, NEW child \in Order, NEW q \in 1 .. MaxQuantity,
             NEW l \in Location, PartialArrival(m, child, q, l)
      PROVE  orders'[o].project \in {NoProject, reservations'[r].project}
  <2>1. reservations' = reservations /\ child # m
        /\ orders[child].status = "Unused"
    BY <1>6 DEF PartialArrival, NextUnused
  <2>2. PICK c \in Conversions(m, q) :
          incoming' = [k \in Reservation |->
             [incoming[k] EXCEPT ![m] = 0, ![child] = @ + incoming[k][m] - c[k]]]
    BY <1>6 DEF PartialArrival
  <2>3. c[r] \in Nat
    BY ConstantsAssumption, ConversionType
  <2>4. child \in Source /\ m \in Source /\ incoming[r] \in [Source -> Nat]
    BY DEF TypeOK, Source
  <2>5. /\ orders'[m].project = orders[m].project
        /\ orders'[child].project = orders[m].project
        /\ \A s \in Order : s # m /\ s # child => orders'[s] = orders[s]
    BY <1>6, <2>1 DEF PartialArrival, LineOf, TypeOK
  <2>6. CASE o = child
    <3>1. incoming[r][child] = 0
      <4>1. IncomingFor(child) <= 0
        BY <2>1, <2>4 DEF OpenLineCoversIncoming
      <4>2. [k \in Reservation |-> incoming[k][child]] \in [Reservation -> Nat]
            /\ IncomingFor(child) \in Nat
        BY <2>4, ReadsType
      <4>3. [k \in Reservation |-> incoming[k][child]][r] <= IncomingFor(child)
        BY <4>2, Finite, EntryBelowTotal DEF IncomingFor
      <4>4. QED
        BY <2>4, <4>1, <4>2, <4>3
    <3>2. incoming'[r][child] = incoming[r][m] - c[r]
      <4>1. incoming'[r][child] = incoming[r][child] + incoming[r][m] - c[r]
        BY <2>1, <2>2, <2>4
      <4>2. QED
        BY <2>3, <2>4, <3>1, <4>1
    <3>3. incoming[r][m] > 0
      BY <2>3, <2>4, <2>6, <3>2
    <3>4. orders[m].project \in {NoProject, reservations[r].project}
      BY <3>3 DEF DedicatedSupplyStaysInProject
    <3>5. QED
      BY <2>1, <2>5, <2>6, <3>4
  <2>7. CASE o # child
    <3>1. o # m /\ incoming'[r][o] = incoming[r][o]
      BY <1>1, <2>2, <2>4, <2>7
    <3>2. QED
      BY <1>1, <2>1, <2>5, <2>7, <3>1
  <2>8. QED
    BY <2>6, <2>7
<1>7. CASE UNCHANGED vars
  BY <1>1, <1>7 DEF vars
<1>8. QED
  BY <1>2, <1>3, <1>4, <1>5, <1>6, <1>7 DEF Next

\* Supply dedicated to one project never backs a reservation of another, by
\* whichever way it was promised and however often its line arrives in parts.
THEOREM DedicatedCorrect == Spec => []DedicatedSupplyStaysInProject
<1>1. Init => DedicatedSupplyStaysInProject
  BY DEF Init, DedicatedSupplyStaysInProject, Source
<1>2. QED
  BY <1>1, DedicatedStep, TypeCorrect, OpenLineCorrect, PTL DEF Spec

\* A share that divides evenly: the parts have the proportion of the whole.
LEMMA ExactShare ==
  ASSUME NEW x \in Nat, NEW a \in Nat \ {0}, x % a = 0
  PROVE  (x \div a) * a = x
  OBVIOUS

\* Only an arrival in part makes a line, and it splits both quantities of its
\* line in one proportion.
LEMMA SplitStep ==
  ASSUME TypeOK, [Next]_vars, NEW o \in Order, NEW c \in Order,
         orders[o].status = "Ordered", orders'[o].status = "Arrived",
         orders[c].status = "Unused", orders'[c].status = "Ordered"
  PROVE  /\ orders'[o].amount * orders[o].ordered = orders[o].amount * orders'[o].ordered
         /\ orders'[c].amount * orders[o].ordered = orders[o].amount * orders'[c].ordered
         /\ orders'[o].ordered + orders'[c].ordered = orders[o].ordered
<1> DEFINE Kept == /\ orders'[o].amount * orders[o].ordered = orders[o].amount * orders'[o].ordered
                   /\ orders'[c].amount * orders[o].ordered = orders[o].amount * orders'[c].ordered
                   /\ orders'[o].ordered + orders'[c].ordered = orders[o].ordered
<1>1. PICK m \in Order, child \in Order, q \in 1 .. MaxQuantity, l \in Location :
        PartialArrival(m, child, q, l)
  <2>1. orders' # orders
    OBVIOUS
  <2>2. ASSUME NEW m \in Order, NEW l \in Location, FullArrival(m, l) PROVE FALSE
    BY <2>2 DEF FullArrival, LineOf, TypeOK
  <2>3. QED
    BY <2>1, <2>2 DEF Next, vars, CreateReservation, ReleaseReservation, ConsumeReservation
<1>2. m # child /\ IntegerSafeSplit(m, q)
  BY <1>1 DEF PartialArrival, NextUnused
<1>3. orders' = [orders EXCEPT
        ![m] = LineOf(m, "Arrived", q, OrderedShare(m, q)),
        ![child] = LineOf(m, "Ordered", orders[m].amount - q,
                          orders[m].ordered - OrderedShare(m, q))]
  BY <1>1 DEF PartialArrival
<1>4. o = m /\ c = child
  BY <1>2, <1>3 DEF TypeOK, LineOf
<1>5. /\ orders'[o].amount = q /\ orders'[o].ordered = OrderedShare(o, q)
      /\ orders'[c].amount = orders[o].amount - q
      /\ orders'[c].ordered = orders[o].ordered - OrderedShare(o, q)
  BY <1>2, <1>3, <1>4 DEF TypeOK, LineOf
<1>6. /\ orders[o].amount \in Nat \ {0} /\ orders[o].ordered \in Nat /\ q \in Nat
      /\ OrderedShare(o, q) \in Nat
  <2>1. q \in Nat /\ q < orders[o].amount /\ OrderedShare(o, q) \in Nat
    BY <1>2, <1>4, SplitType
  <2>2. QED
    BY <2>1 DEF TypeOK, OrderLine
<1>7. OrderedShare(o, q) * orders[o].amount = orders[o].ordered * q
  <2>1. orders[o].ordered * q \in Nat /\ (orders[o].ordered * q) % orders[o].amount = 0
    BY <1>2, <1>4, <1>6 DEF IntegerSafeSplit
  <2>2. QED
    BY <1>6, <2>1, ExactShare DEF OrderedShare
<1>8. ASSUME NEW a \in Nat, NEW n \in Nat, NEW k \in Nat, NEW s \in Nat, s * a = n * k
      PROVE  k * n = a * s /\ (a - k) * n = a * (n - s) /\ s + (n - s) = n
  BY <1>8
<1>9. QED
  BY <1>5, <1>6, <1>7, <1>8

\* No arrival changes the pack size of what is ordered.
THEOREM PackSizeKept == Spec => SplitsKeepPackSize
<1>1. TypeOK /\ [Next]_vars =>
        [ \A o, c \in Order :
            /\ orders[o].status = "Ordered" /\ orders'[o].status = "Arrived"
            /\ orders[c].status = "Unused" /\ orders'[c].status = "Ordered"
            => /\ orders'[o].amount * orders[o].ordered = orders[o].amount * orders'[o].ordered
               /\ orders'[c].amount * orders[o].ordered = orders[o].amount * orders'[c].ordered
               /\ orders'[o].ordered + orders'[c].ordered = orders[o].ordered ]_vars
  BY SplitStep
<1>2. QED
  BY <1>1, TypeCorrect, PTL DEF Spec, SplitsKeepPackSize

-----------------------------------------------------------------------------
(* Supply, and what is promised of it.                                     *)

OpenAmounts == [o \in Order |-> IF orders[o].status = "Ordered" THEN orders[o].amount ELSE 0]

HeldBy == [r \in Reservation |-> Total(allocated[r]) + Total(incoming[r])]

LEMMA SupplyType ==
  ASSUME TypeOK
  PROVE  /\ OpenAmounts \in [Order -> Nat] /\ HeldBy \in [Reservation -> Nat]
         /\ Total(onHand) \in Nat /\ Total(OpenAmounts) \in Nat /\ Total(HeldBy) \in Nat
         /\ Supply = Total(onHand) + Total(OpenAmounts) /\ Promised = Total(HeldBy)
<1>1. OpenAmounts \in [Order -> Nat]
  BY DEF OpenAmounts, TypeOK, OrderLine
<1>2. HeldBy \in [Reservation -> Nat]
  BY ReadsType DEF HeldBy
<1>3. onHand \in [Location -> Nat]
  BY DEF TypeOK
<1>4. Total(onHand) \in Nat /\ Total(OpenAmounts) \in Nat /\ Total(HeldBy) \in Nat
  BY <1>1, <1>2, <1>3, Finite, TotalType
<1>5. QED
  BY <1>1, <1>2, <1>4 DEF Supply, Promised, OpenAmounts, HeldBy

\* A line whose quantity on order changes takes the total along.
LEMMA OpenAmountsChange ==
  ASSUME NEW f \in [Order -> Nat], NEW g \in [Order -> Nat], NEW o \in Order,
         \A s \in Order : s # o => g[s] = f[s]
  PROVE  Total(g) + f[o] = Total(f) + g[o]
BY Finite, TotalChange

\* What arrives at a location leaves the line it was on order on.
LEMMA FullArrivalSupply ==
  ASSUME TypeOK, NEW o \in Order, NEW l \in Location, FullArrival(o, l)
  PROVE  Supply' = Supply
<1>1. TypeOK'
  BY FullArrivalType
<1>2. /\ orders[o].status = "Ordered" /\ orders[o].amount \in Nat
      /\ onHand \in [Location -> Nat] /\ onHand' \in [Location -> Nat]
      /\ onHand'[l] = onHand[l] + orders[o].amount
      /\ \A k \in Location : k # l => onHand'[k] = onHand[k]
  BY <1>1 DEF FullArrival, TypeOK, OrderLine
<1>3. Total(onHand') + onHand[l] = Total(onHand) + onHand'[l]
  BY <1>2, Finite, TotalChange
<1>4. OpenAmounts \in [Order -> Nat] /\ OpenAmounts' \in [Order -> Nat]
  BY <1>1 DEF OpenAmounts, TypeOK, OrderLine
<1>5. /\ OpenAmounts[o] = orders[o].amount /\ OpenAmounts'[o] = 0
      /\ \A s \in Order : s # o => OpenAmounts'[s] = OpenAmounts[s]
  BY <1>2 DEF OpenAmounts, FullArrival, LineOf, TypeOK
<1>6. Total(OpenAmounts') + OpenAmounts[o] = Total(OpenAmounts) + OpenAmounts'[o]
  BY <1>4, <1>5, OpenAmountsChange
<1>7. /\ Supply = Total(onHand) + Total(OpenAmounts)
      /\ Total(onHand) \in Nat /\ Total(OpenAmounts) \in Nat
  BY SupplyType
<1>8. /\ Supply' = Total(onHand') + Total(OpenAmounts')
      /\ Total(onHand') \in Nat /\ Total(OpenAmounts') \in Nat
  <2>1. Total(onHand') \in Nat /\ Total(OpenAmounts') \in Nat
    BY <1>2, <1>4, Finite, TotalType
  <2>2. QED
    BY <2>1 DEF Supply, OpenAmounts
<1>9. onHand[l] \in Nat
  BY <1>2
<1>10. QED
  BY <1>2, <1>3, <1>5, <1>6, <1>7, <1>8, <1>9

\* The rest of a line that arrives in part stays on order, on the new line.
LEMMA PartialArrivalSupply ==
  ASSUME TypeOK, NEW o \in Order, NEW child \in Order, NEW q \in 1 .. MaxQuantity,
         NEW l \in Location, PartialArrival(o, child, q, l)
  PROVE  Supply' = Supply
<1>1. TypeOK' /\ child # o
  BY PartialArrivalType
<1>2. /\ orders[o].status = "Ordered" /\ orders[child].status = "Unused"
      /\ q \in Nat /\ q < orders[o].amount /\ orders[o].amount \in Nat
  <2>1. q \in Nat /\ q < orders[o].amount
    BY SplitType DEF PartialArrival
  <2>2. QED
    BY <2>1 DEF PartialArrival, NextUnused, TypeOK, OrderLine
<1>3. /\ onHand \in [Location -> Nat] /\ onHand' \in [Location -> Nat]
      /\ onHand'[l] = onHand[l] + q
      /\ \A k \in Location : k # l => onHand'[k] = onHand[k]
  BY <1>1 DEF PartialArrival, TypeOK
<1>4. Total(onHand') + onHand[l] = Total(onHand) + onHand'[l]
  BY <1>3, Finite, TotalChange
<1>5. OpenAmounts \in [Order -> Nat] /\ OpenAmounts' \in [Order -> Nat]
  BY <1>1 DEF OpenAmounts, TypeOK, OrderLine
<1>6. /\ OpenAmounts[o] = orders[o].amount /\ OpenAmounts'[o] = 0
      /\ OpenAmounts[child] = 0 /\ OpenAmounts'[child] = orders[o].amount - q
      /\ \A s \in Order : s # o /\ s # child => OpenAmounts'[s] = OpenAmounts[s]
  BY <1>1, <1>2 DEF OpenAmounts, PartialArrival, LineOf, TypeOK
<1> DEFINE mid == [OpenAmounts EXCEPT ![o] = 0]
<1>7. /\ mid \in [Order -> Nat] /\ mid[o] = 0 /\ mid[child] = 0
      /\ \A s \in Order : s # o => mid[s] = OpenAmounts[s]
      /\ \A s \in Order : s # child => OpenAmounts'[s] = mid[s]
  BY <1>1, <1>5, <1>6
<1> HIDE DEF mid
<1>8. Total(mid) + OpenAmounts[o] = Total(OpenAmounts) + mid[o]
  BY <1>5, <1>7, OpenAmountsChange
<1>9. Total(OpenAmounts') + mid[child] = Total(mid) + OpenAmounts'[child]
  BY <1>5, <1>7, OpenAmountsChange
<1>10. /\ Supply = Total(onHand) + Total(OpenAmounts)
       /\ Total(onHand) \in Nat /\ Total(OpenAmounts) \in Nat
  BY SupplyType
<1>11. /\ Supply' = Total(onHand') + Total(OpenAmounts')
       /\ Total(onHand') \in Nat /\ Total(OpenAmounts') \in Nat /\ Total(mid) \in Nat
  <2>1. Total(onHand') \in Nat /\ Total(OpenAmounts') \in Nat /\ Total(mid) \in Nat
    BY <1>3, <1>5, <1>7, Finite, TotalType
  <2>2. QED
    BY <2>1 DEF Supply, OpenAmounts
<1>12. onHand[l] \in Nat
  BY <1>3
<1>13. QED
  BY <1>2, <1>3, <1>4, <1>6, <1>7, <1>8, <1>9, <1>10, <1>11, <1>12

\* A consumption takes from stock what it takes from the promises.
LEMMA ConsumeSupply ==
  ASSUME TypeOK, NEW r \in Reservation, NEW q \in 1 .. MaxQuantity, ConsumeReservation(r, q)
  PROVE  Supply' < Supply /\ Supply - Supply' = Promised - Promised'
<1>1. /\ TypeOK' /\ Total(allocated'[r]) + q = Total(allocated[r]) /\ q \in Nat /\ q > 0
  BY ConsumeType, ConstantsAssumption
<1>2. PICK stock \in Draws(allocated[r], q) :
        /\ \A l \in Location : stock[l] <= onHand[l]
        /\ onHand' = Minus(onHand, stock)
  BY DEF ConsumeReservation
<1>3. allocated[r] \in [Location -> Nat] /\ onHand \in [Location -> Nat]
  BY DEF TypeOK
<1>4. stock \in [Location -> Nat] /\ Total(stock) = q
  BY <1>1, <1>2, <1>3, DrawType
<1>5. Total(onHand') + q = Total(onHand)
  BY <1>2, <1>3, <1>4, Finite, TotalMinus
<1>6. HeldBy \in [Reservation -> Nat] /\ HeldBy' \in [Reservation -> Nat]
  <2>1. \A k \in Reservation : Total(allocated'[k]) \in Nat /\ Total(incoming'[k]) \in Nat
    BY <1>1, Finite, TotalType DEF TypeOK
  <2>2. QED
    BY <2>1, SupplyType DEF HeldBy
<1>7. HeldBy'[r] + q = HeldBy[r]
  <2>1. incoming' = incoming
    BY DEF ConsumeReservation
  <2>2. /\ Total(allocated[r]) \in Nat /\ Total(incoming[r]) \in Nat
        /\ Total(allocated'[r]) \in Nat
    BY <1>1, ReadsType, Finite, TotalType DEF TypeOK
  <2>3. QED
    BY <1>1, <2>1, <2>2 DEF HeldBy
<1>8. \A k \in Reservation : k # r => HeldBy'[k] = HeldBy[k]
  BY DEF HeldBy, ConsumeReservation, TypeOK
<1>9. Total(HeldBy') + HeldBy[r] = Total(HeldBy) + HeldBy'[r]
  BY <1>6, <1>8, Finite, TotalChange
<1>10. /\ Supply = Total(onHand) + Total(OpenAmounts) /\ Promised = Total(HeldBy)
       /\ Total(onHand) \in Nat /\ Total(OpenAmounts) \in Nat /\ Total(HeldBy) \in Nat
  BY SupplyType
<1>11. Supply' = Total(onHand') + Total(OpenAmounts) /\ Promised' = Total(HeldBy')
  BY DEF Supply, Promised, OpenAmounts, HeldBy, ConsumeReservation
<1>12. Total(onHand') \in Nat /\ Total(HeldBy') \in Nat /\ HeldBy[r] \in Nat /\ HeldBy'[r] \in Nat
  BY <1>1, <1>6, Finite, TotalType DEF TypeOK
<1>13. QED
  BY <1>1, <1>5, <1>7, <1>9, <1>10, <1>11, <1>12

\* Stock on hand and on order together change by consumptions alone, and then by
\* what was promised to the reservation.
THEOREM SupplyKept == Spec => ConsumedSupplyWasPromised
<1>1. TypeOK /\ [Next]_vars => [ \/ Supply' = Supply
                                 \/ Supply' < Supply /\ Supply - Supply' = Promised - Promised' ]_vars
  <2> SUFFICES ASSUME TypeOK, Next
               PROVE  \/ Supply' = Supply
                      \/ Supply' < Supply /\ Supply - Supply' = Promised - Promised'
    OBVIOUS
  <2>1. ASSUME NEW r \in Reservation, NEW q \in 1 .. MaxQuantity,
               NEW p \in Project \cup {NoProject}, NEW o \in Source,
               CreateReservation(r, q, p, o)
        PROVE  Supply' = Supply
    BY <2>1 DEF CreateReservation, Supply
  <2>2. ASSUME NEW r \in Reservation, NEW q \in 1 .. MaxQuantity, ReleaseReservation(r, q)
        PROVE  Supply' = Supply
    BY <2>2 DEF ReleaseReservation, Supply
  <2>3. QED
    BY <2>1, <2>2, ConsumeSupply, FullArrivalSupply, PartialArrivalSupply DEF Next
<1>2. QED
  BY <1>1, TypeCorrect, PTL DEF Spec, ConsumedSupplyWasPromised
=============================================================================
