------------------------- MODULE InventoryOperations -------------------------
(***************************************************************************)
(* The direct inventory calls, beside the reservations and arrivals of     *)
(* AllocationRows.  They look at the ledger alone: stock a reservation     *)
(* counts on may be moved or consumed, and what is left to allocate is     *)
(* then 0, never less.                                                     *)
(***************************************************************************)
EXTENDS AllocationRows

ReservationStateUnchanged ==
  UNCHANGED <<orders, reservations, splitRoot, stockRows, incomingRows>>

\* op is "RESERVE" for the batch operation of that name, which moves stock
\* as "MOVE" does and logs it under its own name.
MoveInventory(quantity, source, target, op) ==
  /\ MayLog
  /\ source # target
  /\ quantity <= onHand[source]
  /\ onHand' = [onHand EXCEPT ![source] = @ - quantity, ![target] = @ + quantity]
  /\ ReservationStateUnchanged
  /\ Logged(Entry(op, quantity, source, target))

ConsumeInventory(quantity, source) ==
  /\ MayLog
  /\ quantity <= onHand[source]
  /\ onHand' = [onHand EXCEPT ![source] = @ - quantity]
  /\ ReservationStateUnchanged
  /\ Logged(Entry("CONSUME", quantity, source, NoLocation))

IncreaseInventory(quantity, location) ==
  /\ MayLog
  /\ onHand' = [onHand EXCEPT ![location] = @ + quantity]
  /\ ReservationStateUnchanged
  /\ Logged(Entry("ADJUST", quantity, NoLocation, location))

DecreaseInventory(quantity, location) ==
  /\ MayLog
  /\ quantity <= onHand[location]
  /\ onHand' = [onHand EXCEPT ![location] = @ - quantity]
  /\ ReservationStateUnchanged
  /\ Logged(Entry("ADJUST", quantity, location, NoLocation))

\* An arrival with no order line, from a batch of operations.
BatchArrival(quantity, location) ==
  /\ MayLog
  /\ onHand' = [onHand EXCEPT ![location] = @ + quantity]
  /\ ReservationStateUnchanged
  /\ Logged(Entry("ARRIVAL", quantity, NoLocation, location))

InventoryNext ==
  \/ \E q \in 1 .. MaxQuantity, a \in Location, b \in Location, op \in {"MOVE", "RESERVE"} :
        MoveInventory(q, a, b, op)
  \/ \E q \in 1 .. MaxQuantity, l \in Location : ConsumeInventory(q, l)
  \/ \E q \in 1 .. MaxQuantity, l \in Location : IncreaseInventory(q, l)
  \/ \E q \in 1 .. MaxQuantity, l \in Location : DecreaseInventory(q, l)
  \/ \E q \in 1 .. MaxQuantity, l \in Location : BatchArrival(q, l)
=============================================================================
