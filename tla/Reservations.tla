---------------------------- MODULE Reservations ----------------------------
(***************************************************************************)
(* Reservations of one item and the supply that backs them: stock on hand  *)
(* by location (inventory_ledger), active stock allocations                *)
(* (reservation_allocations), open purchase-order lines (orders) and       *)
(* active incoming allocations (reservation_incoming_allocations).         *)
(*                                                                         *)
(* An action is one committed call of the service: the calls lock the item *)
(* (RequestLocks shows that this makes them atomic).  Allocation rows are  *)
(* aggregated to one quantity per reservation and location, or reservation *)
(* and order line; AllocationRows keeps the rows and implements this       *)
(* module.  Items share no state here, so one is enough.  Order lines only *)
(* arrive here; OrderLines adds the calls that edit, split, merge and      *)
(* delete them, TransactionUndo the calls that undo.                       *)
(***************************************************************************)
EXTENDS Integers, Quantities

CONSTANTS
  Location,        \* the inventory locations
  STOCK,           \* where arrivals go by default, and the first to allocate
  RESERVED,        \* the location whose stock is never allocated
  Project,         \* the projects
  NoProject,       \* NULL project_id
  MaxReservation,  \* bound: reservation ids are 1 .. MaxReservation
  MaxOrder,        \* bound: order ids are 1 .. MaxOrder
  MaxQuantity,     \* bound: the quantity of a request is 1 .. MaxQuantity
  MaxEta,          \* bound: expected-arrival dates are 1 .. MaxEta
  InitialOnHand,   \* the ledgers the program may start from
  InitialOrders    \* the order lines the program may start from

Reservation == 1 .. MaxReservation
Order       == 1 .. MaxOrder
NoOrder     == 0                      \* NULL order_id
NoEta       == 0                      \* NULL expected_arrival
Source      == Order \cup {NoOrder}   \* what order_id of an incoming row holds

OrderLine ==
  [ status  : {"Unused", "Ordered", "Arrived", "Deleted"},
    amount  : Nat,                    \* order_amount
    ordered : Nat,                    \* ordered_quantity
    project : Project \cup {NoProject},
    eta     : 0 .. MaxEta ]

ReservationRow ==
  [ status   : {"Unused", "ACTIVE", "RELEASED", "CONSUMED"},
    quantity : Nat,
    project  : Project \cup {NoProject} ]

ASSUME ConstantsAssumption ==
  /\ IsFiniteSet(Location) /\ STOCK \in Location /\ RESERVED \in Location
  /\ STOCK # RESERVED
  /\ NoProject \notin Project
  /\ MaxReservation \in Nat /\ MaxOrder \in Nat
  /\ MaxQuantity \in Nat /\ MaxEta \in Nat
  /\ InitialOnHand \subseteq [Location -> Nat]
  /\ InitialOrders \subseteq [Order -> OrderLine]
  /\ \A init \in InitialOrders : \A o \in Order :
       init[o].status = "Ordered" => init[o].amount > 0 /\ init[o].ordered > 0

VARIABLES
  onHand,          \* inventory_ledger.quantity; 0 where there is no row
  orders,          \* the order lines
  reservations,    \* the reservations
  allocated,       \* ACTIVE stock-backed quantity, by reservation and location
  incoming         \* ACTIVE incoming-backed quantity, by reservation and order

vars == <<onHand, orders, reservations, allocated, incoming>>

TypeOK ==
  /\ onHand \in [Location -> Nat]
  /\ orders \in [Order -> OrderLine]
  /\ reservations \in [Reservation -> ReservationRow]
  /\ allocated \in [Reservation -> [Location -> Nat]]
  /\ incoming \in [Reservation -> [Source -> Nat]]

Init ==
  /\ onHand \in InitialOnHand
  /\ orders \in InitialOrders
  /\ reservations =
       [r \in Reservation |->
          [status |-> "Unused", quantity |-> 0, project |-> NoProject]]
  /\ allocated = [r \in Reservation |-> [l \in Location |-> 0]]
  /\ incoming = [r \in Reservation |-> [s \in Source |-> 0]]

-----------------------------------------------------------------------------
(* What the service reads before it writes.                                *)

AllocatedAt(l) == Total([r \in Reservation |-> allocated[r][l]])

IncomingFor(o) == Total([r \in Reservation |-> incoming[r][o]])

\* Fault: active allocations are not subtracted.
LedgerOnly == [l \in Location |-> IF l = RESERVED THEN 0 ELSE onHand[l]]

\* What may still be allocated: never negative, never RESERVED stock.
Available ==
  [l \in Location |-> IF l = RESERVED THEN 0 ELSE Monus(onHand[l], AllocatedAt(l))]

\* Fault: what the line already promised is not subtracted.
WholeLine(o) == orders[o].amount

\* What an open order line may still promise.
Allocatable(o) == Monus(orders[o].amount, IncomingFor(o))

\* The open lines reservation creation fills a shortfall from: those of the
\* project or of none, with a known arrival date.
OpenSupply(project, preferred) ==
  [s \in Source |->
     IF /\ s # NoOrder /\ s # preferred
        /\ orders[s].status = "Ordered"
        /\ orders[s].project \in {project, NoProject}
        /\ orders[s].eta # NoEta
     THEN Allocatable(s) ELSE 0]

LocationOrder == { <<STOCK, l>> : l \in Location \ {STOCK} }

\* The project's own lines come first, then the earlier, then the older.
SupplyBefore(a, b) ==
  IF orders[a].project # orders[b].project
  THEN orders[b].project = NoProject
  ELSE \/ orders[a].eta < orders[b].eta
       \/ orders[a].eta = orders[b].eta /\ a < b

SupplyOrder == { p \in Order \X Order : SupplyBefore(p[1], p[2]) }

\* Rows of one order line are converted oldest reservation first.
ReservationOrder == { p \in Reservation \X Reservation : p[1] < p[2] }

NextUnused(table, id) ==
  /\ table[id].status = "Unused"
  /\ \A k \in DOMAIN table : k < id => table[k].status # "Unused"

-----------------------------------------------------------------------------
(* Reservations.                                                           *)

\* Fault: the preferred line's project is not compared.
AnyProjectEligible(o, project) == orders[o].status = "Ordered" /\ Allocatable(o) > 0

\* The preferred line is checked before anything is allocated.
PreferredEligible(o, project) ==
  /\ orders[o].status = "Ordered"
  /\ orders[o].project \in {project, NoProject}
  /\ Allocatable(o) > 0

PreferredQuantity(o, quantity) ==
  IF o = NoOrder THEN 0 ELSE Smaller(Allocatable(o), quantity)

\* The preferred line first, then stock, then other open lines; the call
\* fails, and changes nothing, when these cannot cover the quantity.
Reserve(r, quantity, project, preferred) ==
  LET preferredQty == PreferredQuantity(preferred, quantity)
      stockQty     == Smaller(Total(Available), quantity - preferredQty)
      shortfall    == quantity - preferredQty - stockQty
      supply       == OpenSupply(project, preferred)
  IN  /\ NextUnused(reservations, r)
      /\ preferred # NoOrder => PreferredEligible(preferred, project)
      /\ \E stock \in Draws(Available, stockQty), open \in Draws(supply, shortfall) :
           /\ FirstFit(stock, Available, LocationOrder)
           /\ FirstFit(open, supply, SupplyOrder)
           /\ allocated' = [allocated EXCEPT ![r] = stock]
           /\ incoming' = [incoming EXCEPT ![r] = [open EXCEPT ![preferred] = preferredQty]]
      /\ reservations' =
           [reservations EXCEPT ![r] =
              [status |-> "ACTIVE", quantity |-> quantity, project |-> project]]

CreateReservation(r, quantity, project, preferred) ==
  /\ Reserve(r, quantity, project, preferred)
  /\ UNCHANGED <<onHand, orders>>

\* Fault: a partial request leaves the quantity as it was.
NotReduced(r, quantity, final) ==
  [reservations EXCEPT ![r].status =
     IF reservations[r].quantity = quantity THEN final ELSE @]

\* A request that takes all of it ends the reservation and leaves its
\* quantity; any other leaves it ACTIVE with what remains.
Reduced(r, quantity, final) ==
  LET left == reservations[r].quantity - quantity
  IN  [reservations EXCEPT ![r] =
         [status   |-> IF left = 0 THEN final ELSE "ACTIVE",
          quantity |-> IF left = 0 THEN quantity ELSE left,
          project  |-> @.project]]

\* Stock rows are released before incoming rows; the ledger does not move.
ReleaseReservation(r, quantity) ==
  /\ reservations[r].status = "ACTIVE"
  /\ quantity <= reservations[r].quantity
  /\ quantity <= Total(allocated[r]) + Total(incoming[r])
  /\ LET stockQty == Smaller(quantity, Total(allocated[r]))
     IN  \E stock \in Draws(allocated[r], stockQty),
            open \in Draws(incoming[r], quantity - stockQty) :
           /\ allocated' = [allocated EXCEPT ![r] = Minus(@, stock)]
           /\ incoming' = [incoming EXCEPT ![r] = Minus(@, open)]
  /\ reservations' = Reduced(r, quantity, "RELEASED")
  /\ UNCHANGED <<onHand, orders>>

\* Only stock-backed quantity can be consumed, from where it is allocated,
\* and only if the ledger still has it there.
ConsumeReservation(r, quantity) ==
  /\ reservations[r].status = "ACTIVE"
  /\ quantity <= reservations[r].quantity
  /\ \E stock \in Draws(allocated[r], quantity) :
       /\ \A l \in Location : stock[l] <= onHand[l]
       /\ onHand' = Minus(onHand, stock)
       /\ allocated' = [allocated EXCEPT ![r] = Minus(@, stock)]
  /\ reservations' = Reduced(r, quantity, "CONSUMED")
  /\ UNCHANGED <<orders, incoming>>

-----------------------------------------------------------------------------
(* Arrivals.                                                               *)

\* The share of ordered_quantity that goes with part of the amount.
OrderedShare(o, part) == (orders[o].ordered * part) \div orders[o].amount

\* Fault: the share of the ordered quantity is rounded down.
RoundedSplit(o, part) == part < orders[o].amount

\* Fault: only divisibility is checked, not that something remains.
DivisibleSplit(o, part) == (orders[o].ordered * part) % orders[o].amount = 0

\* A line is split only where both quantities stay positive integers.
IntegerSafeSplit(o, part) ==
  /\ part < orders[o].amount
  /\ (orders[o].ordered * part) % orders[o].amount = 0
  /\ OrderedShare(o, part) > 0
  /\ OrderedShare(o, part) < orders[o].ordered

\* Incoming rows of o become stock allocations at l, oldest first, as far as
\* the arrived quantity goes.
Conversions(o, quantity) ==
  LET rows == [r \in Reservation |-> incoming[r][o]]
  IN  { c \in Draws(rows, Smaller(quantity, Total(rows))) :
          FirstFit(c, rows, ReservationOrder) }

\* Fault: the new line keeps the amount of the whole line.
LineKeepingAmount(o, status, amount, ordered) ==
  [orders[o] EXCEPT !.status = status, !.ordered = ordered]

\* Line o, or the line split from it: project and date stay those of o.
LineOf(o, status, amount, ordered) ==
  [status |-> status, amount |-> amount, ordered |-> ordered,
   project |-> orders[o].project, eta |-> orders[o].eta]

FullArrival(o, l) ==
  /\ orders[o].status = "Ordered"
  /\ orders[o].amount > 0
  /\ orders' = [orders EXCEPT
       ![o] = LineOf(o, "Arrived", orders[o].amount, orders[o].ordered)]
  /\ onHand' = [onHand EXCEPT ![l] = @ + orders[o].amount]
  /\ \E conversion \in Conversions(o, orders[o].amount) :
       /\ allocated' = [r \in Reservation |->
                          [allocated[r] EXCEPT ![l] = @ + conversion[r]]]
       /\ incoming' = [r \in Reservation |->
                          [incoming[r] EXCEPT ![o] = @ - conversion[r]]]
  /\ UNCHANGED reservations

\* The arrived part keeps the line's id; the rest becomes a new open line,
\* to which the rows not converted move.
PartialArrival(o, child, quantity, l) ==
  /\ orders[o].status = "Ordered"
  /\ NextUnused(orders, child)
  /\ IntegerSafeSplit(o, quantity)
  /\ LET share == OrderedShare(o, quantity)
     IN orders' = [orders EXCEPT
          ![o] = LineOf(o, "Arrived", quantity, share),
          ![child] = LineOf(o, "Ordered", orders[o].amount - quantity,
                            orders[o].ordered - share)]
  /\ onHand' = [onHand EXCEPT ![l] = @ + quantity]
  /\ \E conversion \in Conversions(o, quantity) :
       /\ allocated' = [r \in Reservation |->
                          [allocated[r] EXCEPT ![l] = @ + conversion[r]]]
       /\ incoming' = [r \in Reservation |->
                          [incoming[r] EXCEPT ![o] = 0,
                                              ![child] = @ + incoming[r][o] - conversion[r]]]
  /\ UNCHANGED reservations

-----------------------------------------------------------------------------
Next ==
  \/ \E r \in Reservation, q \in 1 .. MaxQuantity, p \in Project \cup {NoProject},
        o \in Source : CreateReservation(r, q, p, o)
  \/ \E r \in Reservation, q \in 1 .. MaxQuantity : ReleaseReservation(r, q)
  \/ \E r \in Reservation, q \in 1 .. MaxQuantity : ConsumeReservation(r, q)
  \/ \E o \in Order, l \in Location : FullArrival(o, l)
  \/ \E o \in Order, c \in Order, q \in 1 .. MaxQuantity, l \in Location :
        PartialArrival(o, c, q, l)

Spec == Init /\ [][Next]_vars

-----------------------------------------------------------------------------
(* Properties.                                                             *)

\* The quantity of an ACTIVE reservation is exactly what its active stock
\* and incoming allocations add up to, and a reservation that is over holds
\* no supply: releases, consumptions and arrivals move the three together.
BackingMatchesQuantity ==
  \A r \in Reservation :
    IF reservations[r].status = "ACTIVE"
    THEN reservations[r].quantity = Total(allocated[r]) + Total(incoming[r])
    ELSE Total(allocated[r]) = 0 /\ Total(incoming[r]) = 0

\* Reservations never promise more stock of a location than it has, whatever
\* mix of them was created from stock or converted by arrivals.
StockCoversAllocations ==
  \A l \in Location : AllocatedAt(l) <= onHand[l]

\* Every incoming allocation is backed by an open order line that is still
\* large enough for all of them: arrivals in parts leave none behind.
OpenLineCoversIncoming ==
  \A o \in Source :
    IncomingFor(o) <= IF o # NoOrder /\ orders[o].status = "Ordered"
                      THEN orders[o].amount ELSE 0

\* A line dedicated to a project backs no reservation of another project,
\* also after it arrived in parts.
DedicatedSupplyStaysInProject ==
  \A r \in Reservation, o \in Order :
    incoming[r][o] > 0 => orders[o].project \in {NoProject, reservations[r].project}

Supply == Total(onHand) + Total([o \in Order |-> IF orders[o].status = "Ordered"
                                                  THEN orders[o].amount ELSE 0])

Promised == Total([r \in Reservation |-> Total(allocated[r]) + Total(incoming[r])])

\* Stock on hand and on order together change only when a reservation is
\* consumed, and then by exactly the quantity it was promised.
ConsumedSupplyWasPromised ==
  [][ \/ Supply' = Supply
      \/ Supply' < Supply /\ Supply - Supply' = Promised - Promised' ]_vars

\* Lines split by arrivals in parts keep the pack size of the line they come
\* from: order_amount per ordered_quantity is the same for parent and child.
SplitsKeepPackSize ==
  [][ \A o, c \in Order :
        /\ orders[o].status = "Ordered" /\ orders'[o].status = "Arrived"
        /\ orders[c].status = "Unused" /\ orders'[c].status = "Ordered"
        => /\ orders'[o].amount * orders[o].ordered = orders[o].amount * orders'[o].ordered
           /\ orders'[c].amount * orders[o].ordered = orders[o].amount * orders'[c].ordered
           /\ orders'[o].ordered + orders'[c].ordered = orders[o].ordered ]_vars
=============================================================================
