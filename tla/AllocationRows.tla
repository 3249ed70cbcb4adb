--------------------------- MODULE AllocationRows ---------------------------
(***************************************************************************)
(* The same calls as in Reservations, with the rows they write: stock      *)
(* allocation rows and incoming allocation rows with their ids, statuses   *)
(* and the markers their notes carry, and the transaction log.  Every draw *)
(* is the one the code's loop makes.  The rows, summed, implement          *)
(* Reservations; the markers and the log are what TransactionUndo reads.   *)
(*                                                                         *)
(* Of a note only the markers are kept: tx is the log id of the            *)
(* [[tx:id]] it ends with (0 when none), arrival the pair of               *)
(* [[arrival_tx:log:incoming row]].                                        *)
(***************************************************************************)
EXTENDS Integers, Sequences, Quantities

CONSTANTS
  Location, STOCK, RESERVED, Project, NoProject,
  MaxReservation, MaxOrder, MaxQuantity, MaxEta,
  StartOnHand, StartOrders,
  NoLocation,      \* NULL from_location or to_location
  ShelfOrder,      \* pairs: STOCK first, then the locations by name
  NoteGiven,       \* whether releases and consumptions carry a note: part of BOOLEAN
  MaxLog           \* bound: the log has at most MaxLog entries

VARIABLES
  onHand, orders, reservations,
  splitRoot,       \* local_order_splits: root_order_id by child, 0 when none
  stockRows,       \* reservation_allocations, by id
  incomingRows,    \* reservation_incoming_allocations, by id
  log              \* transaction_log, by id

vars == <<onHand, orders, reservations, splitRoot, stockRows, incomingRows, log>>

Reservation == 1 .. MaxReservation
Order       == 1 .. MaxOrder
NoOrder     == 0
Source      == Order \cup {NoOrder}

NoArrival == <<0, 0>>

\* The ACTIVE quantity of r at a location, or on an order line.
ActiveQuantity(rows, r, place) ==
  Total([i \in { j \in DOMAIN rows : /\ rows[j].status = "ACTIVE"
                                     /\ rows[j].reservation = r
                                     /\ rows[j].place = place } |-> rows[i].quantity])

ActiveStock ==
  [r \in Reservation |-> [l \in Location |-> ActiveQuantity(stockRows, r, l)]]

ActiveIncoming ==
  [r \in Reservation |-> [s \in Source |-> ActiveQuantity(incomingRows, r, s)]]

Summed == INSTANCE Reservations
            WITH InitialOnHand <- StartOnHand, InitialOrders <- StartOrders,
                 allocated <- ActiveStock, incoming <- ActiveIncoming

\* What Reservations assumes; and shelves are taken in one order, STOCK before
\* the others.
ASSUME RowsAssumption ==
  /\ IsFiniteSet(Location) /\ STOCK \in Location /\ RESERVED \in Location
  /\ STOCK # RESERVED /\ NoLocation \notin Location
  /\ NoProject \notin Project
  /\ MaxReservation \in Nat /\ MaxOrder \in Nat
  /\ MaxQuantity \in Nat /\ MaxEta \in Nat /\ MaxLog \in Nat
  /\ StartOnHand \subseteq [Location -> Nat]
  /\ StartOrders \subseteq [Order -> Summed!OrderLine]
  /\ \A start \in StartOrders : \A o \in Order :
       start[o].status = "Ordered" => start[o].amount > 0 /\ start[o].ordered > 0
  /\ NoteGiven \subseteq BOOLEAN
  /\ StrictlyOrders(ShelfOrder, Location) /\ Summed!LocationOrder \subseteq ShelfOrder

Row(place, statuses) ==
  [ reservation : Reservation,
    place       : place,
    quantity    : Nat,
    status      : statuses,
    tx          : 0 .. MaxLog,
    arrival     : (0 .. MaxLog) \X Nat ]

Delta == [Location -> Int]

LogEntry ==
  [ op          : {"RESERVE", "CONSUME", "ARRIVAL", "MOVE", "ADJUST"},
    quantity    : Nat \ {0},
    from        : Location \cup {NoLocation},
    to          : Location \cup {NoLocation},
    context     : {"none", "create", "release", "consume", "arrival"},
    reservation : {0} \cup Reservation,
    order       : {0} \cup Order,
    undoOf      : 0 .. MaxLog,
    undone      : BOOLEAN,
    moved       : Delta ]       \* history: what the call did to the ledger

TypeOK ==
  /\ Summed!TypeOK
  /\ splitRoot \in [Order -> {0} \cup Order]
  /\ stockRows \in Seq(Row(Location, {"ACTIVE", "RELEASED", "CONSUMED", "DELETED"}))
  /\ incomingRows \in Seq(Row(Source, {"ACTIVE", "RELEASED", "CONVERTED", "DELETED"}))
  /\ log \in Seq(LogEntry)

Init ==
  /\ onHand \in StartOnHand
  /\ orders \in StartOrders
  /\ reservations =
       [r \in Reservation |-> [status |-> "Unused", quantity |-> 0, project |-> NoProject]]
  /\ splitRoot = [o \in Order |-> 0]
  /\ stockRows = <<>> /\ incomingRows = <<>> /\ log = <<>>

-----------------------------------------------------------------------------
(* Rows and log entries.                                                   *)

NewRow(r, place, quantity) ==
  [reservation |-> r, place |-> place, quantity |-> quantity,
   status |-> "ACTIVE", tx |-> 0, arrival |-> NoArrival]

\* The elements of S in that order: the n-th has n - 1 of them before it.
InSequence(S, before) ==
  [n \in 1 .. Cardinality(S) |->
     CHOOSE x \in S : Cardinality({ y \in S : <<y, x>> \in before }) = n - 1]

\* Older rows first.
IdOrder(rows) == { p \in (DOMAIN rows) \X (DOMAIN rows) : p[1] < p[2] }

\* One new row for each place the quantities are not 0 at, in that order.
NewRows(r, quantities, before) ==
  LET places == InSequence({ p \in DOMAIN quantities : quantities[p] > 0 }, before)
  IN  [n \in DOMAIN places |-> NewRow(r, places[n], quantities[places[n]])]

ActiveOf(rows, r) ==
  { i \in DOMAIN rows : rows[i].status = "ACTIVE" /\ rows[i].reservation = r }

ActiveOn(rows, place) ==
  { i \in DOMAIN rows : rows[i].status = "ACTIVE" /\ rows[i].place = place }

\* n drawn from the rows with these ids, in the order of the ids.
DrawnRows(rows, n, ids) ==
  InOrder([i \in DOMAIN rows |-> IF i \in ids THEN rows[i].quantity ELSE 0],
          n, IdOrder(rows))

\* Fault: a row drawn from in part ends with all of its quantity.
DrainWhole(rows, drawn, ended) ==
  [i \in DOMAIN rows |-> IF drawn[i] = 0 THEN rows[i] ELSE ended[i]]

\* A row drawn from entirely ends; one drawn from in part stays ACTIVE with
\* what is left, and the part that ended becomes a row of its own.
Drain(rows, drawn, ended) ==
  LET part(i) == [ended[i] EXCEPT !.quantity = drawn[i]]
      split   == InSequence({ i \in DOMAIN rows : 0 < drawn[i] /\ drawn[i] < rows[i].quantity },
                            IdOrder(rows))
  IN  [i \in DOMAIN rows |->
         IF drawn[i] = 0 THEN rows[i]
         ELSE IF drawn[i] = rows[i].quantity THEN part(i)
         ELSE [rows[i] EXCEPT !.quantity = @ - drawn[i]]]
      \o [n \in DOMAIN split |-> part(split[n])]

\* Fault: a note given with the call replaces the transaction marker too.
EndedByNote(rows, status, id, noted) ==
  [i \in DOMAIN rows |-> [rows[i] EXCEPT !.status = status,
                                         !.tx = IF noted THEN 0 ELSE id]]

\* What a release or a consumption writes on the rows it ends: a note given
\* with the call replaces the row's, arrival marker included.
Ended(rows, status, id, noted) ==
  [i \in DOMAIN rows |-> [rows[i] EXCEPT !.status = status, !.tx = id,
                                         !.arrival = IF noted THEN NoArrival ELSE @]]

NoDelta == [l \in Location |-> 0]

Entry(op, quantity, from, to) ==
  [op |-> op, quantity |-> quantity, from |-> from, to |-> to, context |-> "none",
   reservation |-> 0, order |-> 0, undoOf |-> 0, undone |-> FALSE, moved |-> NoDelta]

\* Every call that changes the ledger or a reservation logs one entry; the
\* bound on the log is a guard of each.
MayLog == Len(log) < MaxLog

Logged(entry) ==
  log' = Append(log, [entry EXCEPT !.moved = [l \in Location |-> onHand'[l] - onHand[l]]])

ReservationEntry(op, quantity, context, r) ==
  [Entry(op, quantity, NoLocation, NoLocation) EXCEPT !.context = context, !.reservation = r]

-----------------------------------------------------------------------------
(* Reservations.                                                           *)

CreateReservation(r, quantity, project, preferred) ==
  LET preferredQty == Summed!PreferredQuantity(preferred, quantity)
      stockQty     == Smaller(Total(Summed!Available), quantity - preferredQty)
      shortfall    == quantity - preferredQty - stockQty
      stock        == InOrder(Summed!Available, stockQty, ShelfOrder)
      open         == InOrder(Summed!OpenSupply(project, preferred), shortfall,
                              Summed!SupplyOrder)
  IN  /\ MayLog
      /\ Summed!NextUnused(reservations, r)
      /\ preferred # NoOrder => Summed!PreferredEligible(preferred, project)
      /\ Total(open) = shortfall
      /\ stockRows' = stockRows \o NewRows(r, stock, ShelfOrder)
      /\ incomingRows' =
           incomingRows
           \o (IF preferredQty = 0 THEN <<>> ELSE <<NewRow(r, preferred, preferredQty)>>)
           \o NewRows(r, open, Summed!SupplyOrder)
      /\ reservations' =
           [reservations EXCEPT ![r] =
              [status |-> "ACTIVE", quantity |-> quantity, project |-> project]]
      /\ UNCHANGED <<onHand, orders, splitRoot>>
      /\ Logged(ReservationEntry("RESERVE", quantity, "create", r))

ReleaseReservation(r, quantity, noted) ==
  LET id       == Len(log) + 1
      stockQty == Smaller(quantity, Total(ActiveStock[r]))
      stock    == DrawnRows(stockRows, quantity, ActiveOf(stockRows, r))
      open     == DrawnRows(incomingRows, quantity - stockQty, ActiveOf(incomingRows, r))
  IN  /\ MayLog
      /\ reservations[r].status = "ACTIVE"
      /\ quantity <= reservations[r].quantity
      /\ quantity <= Total(ActiveStock[r]) + Total(ActiveIncoming[r])
      /\ stockRows' = Drain(stockRows, stock, Ended(stockRows, "RELEASED", id, noted))
      /\ incomingRows' = Drain(incomingRows, open, Ended(incomingRows, "RELEASED", id, noted))
      /\ reservations' = Summed!Reduced(r, quantity, "RELEASED")
      /\ UNCHANGED <<onHand, orders, splitRoot>>
      /\ Logged(ReservationEntry("RESERVE", quantity, "release", r))

ConsumeReservation(r, quantity, noted) ==
  LET id    == Len(log) + 1
      drawn == DrawnRows(stockRows, quantity, ActiveOf(stockRows, r))
      taken == [l \in Location |->
                  Total([i \in { j \in DOMAIN drawn : stockRows[j].place = l } |-> drawn[i]])]
  IN  /\ MayLog
      /\ reservations[r].status = "ACTIVE"
      /\ quantity <= reservations[r].quantity
      /\ quantity <= Total(ActiveStock[r])
      /\ \A l \in Location : taken[l] <= onHand[l]
      /\ onHand' = Minus(onHand, taken)
      /\ stockRows' = Drain(stockRows, drawn, Ended(stockRows, "CONSUMED", id, noted))
      /\ reservations' = Summed!Reduced(r, quantity, "CONSUMED")
      /\ UNCHANGED <<orders, splitRoot, incomingRows>>
      /\ Logged(ReservationEntry("CONSUME", quantity, "consume", r))

-----------------------------------------------------------------------------
(* Arrivals.                                                               *)

\* quantity arrives at l on line o: the incoming rows of o are converted in
\* the order of their ids, each into a new stock row; rows, or parts of
\* rows, that are not converted go to line rest.
ReceiveStock(o, quantity, l, rest) ==
  LET id        == Len(log) + 1
      drawn     == DrawnRows(incomingRows, quantity, ActiveOn(incomingRows, o))
      ended     == [i \in DOMAIN incomingRows |->
                      [incomingRows[i] EXCEPT !.status = "CONVERTED", !.arrival = <<id, i>>]]
      rows      == Drain(incomingRows, drawn, ended)
      converted == InSequence({ i \in DOMAIN drawn : drawn[i] > 0 }, IdOrder(incomingRows))
  IN  /\ onHand' = [onHand EXCEPT ![l] = @ + quantity]
      /\ stockRows' = stockRows \o
           [n \in DOMAIN converted |->
              [NewRow(incomingRows[converted[n]].reservation, l, drawn[converted[n]])
                 EXCEPT !.arrival = <<id, converted[n]>>]]
      /\ incomingRows' =
           [i \in DOMAIN rows |->
              IF rows[i].status = "ACTIVE" /\ rows[i].place = o
              THEN [rows[i] EXCEPT !.place = rest] ELSE rows[i]]
      /\ UNCHANGED reservations
      /\ Logged([Entry("ARRIVAL", quantity, NoLocation, l)
                   EXCEPT !.context = "arrival", !.order = o])

FullArrival(o, l) ==
  /\ MayLog
  /\ orders[o].status = "Ordered"
  /\ orders[o].amount > 0
  /\ orders' = [orders EXCEPT
       ![o] = Summed!LineOf(o, "Arrived", orders[o].amount, orders[o].ordered)]
  /\ ReceiveStock(o, orders[o].amount, l, o)
  /\ UNCHANGED splitRoot

RootOf(o) == IF splitRoot[o] = 0 THEN o ELSE splitRoot[o]

PartialArrival(o, child, quantity, l) ==
  /\ MayLog
  /\ orders[o].status = "Ordered"
  /\ Summed!NextUnused(orders, child)
  /\ Summed!IntegerSafeSplit(o, quantity)
  /\ LET share == Summed!OrderedShare(o, quantity)
     IN orders' = [orders EXCEPT
          ![o] = Summed!LineOf(o, "Arrived", quantity, share),
          ![child] = Summed!LineOf(o, "Ordered", orders[o].amount - quantity,
                                   orders[o].ordered - share)]
  /\ splitRoot' = [splitRoot EXCEPT ![child] = RootOf(o)]
  /\ ReceiveStock(o, quantity, l, child)

-----------------------------------------------------------------------------
ReservationNext ==
  \/ \E r \in Reservation, q \in 1 .. MaxQuantity, p \in Project \cup {NoProject},
        o \in Source : CreateReservation(r, q, p, o)
  \/ \E r \in Reservation, q \in 1 .. MaxQuantity, noted \in NoteGiven :
        ReleaseReservation(r, q, noted)
  \/ \E r \in Reservation, q \in 1 .. MaxQuantity, noted \in NoteGiven :
        ConsumeReservation(r, q, noted)

ArrivalNext ==
  \/ \E o \in Order, l \in Location : FullArrival(o, l)
  \/ \E o \in Order, c \in Order, q \in 1 .. MaxQuantity, l \in Location :
        PartialArrival(o, c, q, l)

Next == ReservationNext \/ ArrivalNext

Spec == Init /\ [][Next]_vars

-----------------------------------------------------------------------------
(* Properties.                                                             *)

\* The rows implement the quantities of Reservations: every loop over rows
\* moves in sum what the call promises, and splits and re-points rows
\* without losing or doubling any of it.
ImplementsReservations == Summed!Spec
=============================================================================
