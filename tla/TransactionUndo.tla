-------------------------- MODULE TransactionUndo --------------------------
(***************************************************************************)
(* undo_transaction: every log entry may be undone once, by a compensating *)
(* call that appends an entry of its own and marks the original.  What a   *)
(* reservation call did is found again through the markers in the notes of *)
(* the rows it ended.  Undo entries are entries: they may be undone too.   *)
(***************************************************************************)
EXTENDS InventoryOperations, FiniteSets

CONSTANT MaxDirect   \* bound: direct inventory calls in a history

Undoable(k, op) == MayLog /\ k \in DOMAIN log /\ ~log[k].undone /\ log[k].op = op

\* The compensating entry is appended and the original marked.
Compensated(k, entry) ==
  log' = Append([log EXCEPT ![k].undone = TRUE],
                [entry EXCEPT !.undoOf = k,
                              !.moved = [l \in Location |-> onHand'[l] - onHand[l]]])

-----------------------------------------------------------------------------
(* Inventory calls.  What can be taken back is limited by what is there.   *)

\* Fault: the stock that is left is not looked at.
WholeEntry(k) == log[k].quantity

Returnable(k) == Smaller(log[k].quantity, onHand[log[k].to])

UndoMove(k) ==
  /\ Undoable(k, "MOVE")
  /\ Returnable(k) > 0
  /\ onHand' = [onHand EXCEPT ![log[k].to] = @ - Returnable(k),
                              ![log[k].from] = @ + Returnable(k)]
  /\ ReservationStateUnchanged
  /\ Compensated(k, Entry("MOVE", Returnable(k), log[k].to, log[k].from))

UndoIncrease(k) ==
  /\ Undoable(k, "ADJUST")
  /\ log[k].to # NoLocation
  /\ Returnable(k) > 0
  /\ onHand' = [onHand EXCEPT ![log[k].to] = @ - Returnable(k)]
  /\ ReservationStateUnchanged
  /\ Compensated(k, Entry("ADJUST", Returnable(k), log[k].to, NoLocation))

UndoDecrease(k) ==
  /\ Undoable(k, "ADJUST")
  /\ log[k].to = NoLocation
  /\ onHand' = [onHand EXCEPT ![log[k].from] = @ + log[k].quantity]
  /\ ReservationStateUnchanged
  /\ Compensated(k, Entry("ADJUST", log[k].quantity, NoLocation, log[k].from))

\* Fault: consumed stock always goes back to STOCK.
DefaultShelf(k) == STOCK

\* Where consumed stock goes back to.
Shelf(k) == IF log[k].from = NoLocation THEN STOCK ELSE log[k].from

\* Any CONSUME entry that no reservation wrote, compensating ones included.
UndoConsumption(k) ==
  /\ Undoable(k, "CONSUME")
  /\ log[k].context # "consume"
  /\ onHand' = [onHand EXCEPT ![Shelf(k)] = @ + log[k].quantity]
  /\ ReservationStateUnchanged
  /\ Compensated(k, Entry("ADJUST", log[k].quantity, NoLocation, Shelf(k)))

-----------------------------------------------------------------------------
(* Reservation calls.                                                      *)

\* The rows that call k ended, by the marker their notes end with.
MarkedRows(rows, r, status, k) ==
  { i \in DOMAIN rows : rows[i].reservation = r /\ rows[i].status = status /\ rows[i].tx = k }

QuantityOf(rows, ids) == Total([i \in ids |-> rows[i].quantity])

Least(ids) == CHOOSE i \in ids : \A j \in ids : i <= j

Gone(row) == [row EXCEPT !.status = "DELETED", !.quantity = 0]

\* Fault: every row given back becomes active again, beside the one there is.
RestoredApart(rows, r, ids) ==
  [i \in DOMAIN rows |->
     IF i \in ids THEN [rows[i] EXCEPT !.status = "ACTIVE", !.tx = 0] ELSE rows[i]]

\* The first active row of the same reservation and place takes the quantity
\* of a row given back, which is deleted; without one the row is active again.
Restored(rows, r, ids) ==
  LET at(p)   == { i \in ids : rows[i].place = p }
      home(p) == LET active == { i \in ActiveOf(rows, r) : rows[i].place = p }
                 IN  Least(IF active = {} THEN at(p) ELSE active)
  IN  [i \in DOMAIN rows |->
         IF rows[i].reservation = r /\ at(rows[i].place) # {} /\ home(rows[i].place) = i
         THEN [rows[i] EXCEPT
                 !.status   = "ACTIVE",
                 !.tx       = IF i \in ids THEN 0 ELSE @,
                 !.quantity = (IF i \in ids THEN 0 ELSE @) + QuantityOf(rows, at(rows[i].place))]
         ELSE IF i \in ids THEN Gone(rows[i]) ELSE rows[i]]

\* Fault: the quantity a partial call took is not given back.
StatusReactivated(r, quantity) == [reservations EXCEPT ![r].status = "ACTIVE"]

\* The reservation gets the quantity of the call back, whether the call had
\* taken it from there (a partial one) or left it there (a full one).
Reactivated(r, quantity) ==
  [reservations EXCEPT ![r].quantity = @ + quantity, ![r].status = "ACTIVE"]

UndoRelease(k) ==
  LET r    == log[k].reservation
      sIds == MarkedRows(stockRows, r, "RELEASED", k)
      iIds == MarkedRows(incomingRows, r, "RELEASED", k)
  IN  /\ Undoable(k, "RESERVE")
      /\ log[k].context = "release"
      /\ reservations[r].status # "CONSUMED"
      /\ QuantityOf(stockRows, sIds) + QuantityOf(incomingRows, iIds) = log[k].quantity
      /\ stockRows' = Restored(stockRows, r, sIds)
      /\ incomingRows' = Restored(incomingRows, r, iIds)
      /\ reservations' = Reactivated(r, log[k].quantity)
      /\ UNCHANGED <<onHand, orders, splitRoot>>
      /\ Compensated(k, Entry("RESERVE", log[k].quantity, NoLocation, NoLocation))

UndoReservationConsume(k) ==
  LET r   == log[k].reservation
      ids == MarkedRows(stockRows, r, "CONSUMED", k)
  IN  /\ Undoable(k, "CONSUME")
      /\ log[k].context = "consume"
      /\ QuantityOf(stockRows, ids) = log[k].quantity
      /\ onHand' = [l \in Location |->
                      onHand[l] + QuantityOf(stockRows, { i \in ids : stockRows[i].place = l })]
      /\ stockRows' = Restored(stockRows, r, ids)
      /\ reservations' = Reactivated(r, log[k].quantity)
      /\ UNCHANGED <<orders, splitRoot, incomingRows>>
      /\ Compensated(k, Entry("CONSUME", log[k].quantity, NoLocation, NoLocation))

\* Fault: only the first row is released.
FirstReleased(rows, r) ==
  [i \in DOMAIN rows |->
     IF i \in ActiveOf(rows, r) /\ i = Least(ActiveOf(rows, r))
     THEN [rows[i] EXCEPT !.status = "RELEASED", !.tx = 0, !.arrival = NoArrival]
     ELSE rows[i]]

\* Undoing a creation releases what the reservation holds now.
ReleasedRows(rows, r) ==
  [i \in DOMAIN rows |->
     IF i \in ActiveOf(rows, r)
     THEN [rows[i] EXCEPT !.status = "RELEASED", !.tx = 0, !.arrival = NoArrival]
     ELSE rows[i]]

UndoCreate(k) ==
  LET r == log[k].reservation
  IN  /\ Undoable(k, "RESERVE")
      /\ log[k].context = "create"
      /\ reservations[r].status = "ACTIVE"
      /\ stockRows' = ReleasedRows(stockRows, r)
      /\ incomingRows' = ReleasedRows(incomingRows, r)
      /\ reservations' = [reservations EXCEPT ![r].status = "RELEASED"]
      /\ UNCHANGED <<onHand, orders, splitRoot>>
      /\ Compensated(k, Entry("RESERVE", log[k].quantity, NoLocation, NoLocation))

-----------------------------------------------------------------------------
(* Arrivals.                                                               *)

\* Fault: lines of the split that have arrived are taken too.
SplitSiblings(o) ==
  { s \in Order \ {o} : s = RootOf(o) \/ splitRoot[s] = RootOf(o) }

\* Open lines of the same split, to which a quantity taken back may go.
OpenSiblings(o) ==
  { s \in Order \ {o} : /\ orders[s].status = "Ordered"
                        /\ s = RootOf(o) \/ splitRoot[s] = RootOf(o) }

\* n of line o is open again, on line target: on o itself when that is all of
\* it, else on the oldest open sibling, else on a new line.
ReopenLine(o, n, target) ==
  LET restored == Smaller(n, orders[o].amount)
      share    == Summed!OrderedShare(o, restored)
      rest     == [orders[o] EXCEPT !.amount = @ - restored, !.ordered = @ - share]
  IN  IF orders[o].status # "Arrived"
      THEN target = o /\ UNCHANGED <<orders, splitRoot>>
      ELSE /\ (orders[o].ordered * restored) % orders[o].amount = 0
           /\ \/ /\ restored = orders[o].amount
                 /\ target = o
                 /\ orders' = [orders EXCEPT ![o].status = "Ordered"]
                 /\ UNCHANGED splitRoot
              \/ /\ restored < orders[o].amount
                 /\ OpenSiblings(o) # {} /\ target = Least(OpenSiblings(o))
                 /\ orders' = [orders EXCEPT ![o] = rest,
                                             ![target].amount = @ + restored,
                                             ![target].ordered = @ + share]
                 /\ UNCHANGED splitRoot
              \/ /\ restored < orders[o].amount
                 /\ OpenSiblings(o) = {} /\ Summed!NextUnused(orders, target)
                 /\ orders' = [orders EXCEPT
                      ![o] = rest,
                      ![target] = Summed!LineOf(o, "Ordered", restored, share)]
                 /\ splitRoot' = [splitRoot EXCEPT ![target] = RootOf(o)]

\* Of what arrival k converted, as much as n allows and the stock row still
\* has goes back to being incoming, now from line target.
RestoreBacking(k, n, target) ==
  LET ids       == { i \in DOMAIN incomingRows :
                       incomingRows[i].status = "CONVERTED" /\ incomingRows[i].arrival[1] = k }
      holders(i) == { j \in DOMAIN stockRows : /\ stockRows[j].status = "ACTIVE"
                                               /\ stockRows[j].arrival = incomingRows[i].arrival }
      held      == { i \in ids : holders(i) # {} }
      back      == InOrder([i \in DOMAIN incomingRows |->
                              IF i \in held
                              THEN Smaller(incomingRows[i].quantity,
                                           stockRows[Least(holders(i))].quantity)
                              ELSE 0],
                           n, IdOrder(incomingRows))
      moved     == { i \in held : back[i] > 0 }
      homes(i)  == { j \in ActiveOf(incomingRows, incomingRows[i].reservation) :
                       incomingRows[j].place = target }
      fresh     == InSequence({ i \in moved : /\ homes(i) = {}
                                              /\ back[i] < incomingRows[i].quantity },
                              IdOrder(incomingRows))
      less(row, x) == IF x = row.quantity THEN Gone(row) ELSE [row EXCEPT !.quantity = @ - x]
  IN  /\ stockRows' =
           [j \in DOMAIN stockRows |->
              less(stockRows[j],
                   Total([i \in { m \in moved : Least(holders(m)) = j } |-> back[i]]))]
      /\ incomingRows' =
           [j \in DOMAIN incomingRows |->
              IF j \in moved
              THEN IF homes(j) = {} /\ back[j] = incomingRows[j].quantity
                   THEN [incomingRows[j] EXCEPT !.status = "ACTIVE", !.arrival = NoArrival,
                                                !.place = target]
                   ELSE less(incomingRows[j], back[j])
              ELSE [incomingRows[j] EXCEPT
                      !.quantity = @ + Total([i \in { m \in moved : /\ homes(m) # {}
                                                                    /\ Least(homes(m)) = j }
                                                |-> back[i]])]]
           \o [n2 \in DOMAIN fresh |->
                 NewRow(incomingRows[fresh[n2]].reservation, target, back[fresh[n2]])]

UndoArrival(k) ==
  /\ Undoable(k, "ARRIVAL")
  /\ Returnable(k) > 0
  /\ onHand' = [onHand EXCEPT ![log[k].to] = @ - Returnable(k)]
  /\ IF log[k].order = NoOrder
     THEN UNCHANGED <<orders, splitRoot, stockRows, incomingRows>>
     ELSE \E target \in Order : /\ ReopenLine(log[k].order, Returnable(k), target)
                                /\ RestoreBacking(k, Returnable(k), target)
  /\ UNCHANGED reservations
  /\ Compensated(k, Entry("CONSUME", Returnable(k), log[k].to, NoLocation))

-----------------------------------------------------------------------------
UndoNext ==
  \E k \in 1 .. MaxLog :
     \/ UndoMove(k)
     \/ UndoIncrease(k)
     \/ UndoDecrease(k)
     \/ UndoConsumption(k)
     \/ UndoRelease(k)
     \/ UndoReservationConsume(k)
     \/ UndoCreate(k)
     \/ UndoArrival(k)

DirectCalls == { k \in DOMAIN log : log[k].context = "none" /\ log[k].undoOf = 0 }

DirectNext == Cardinality(DirectCalls) < MaxDirect /\ InventoryNext

UndoSpec == Init /\ [][ReservationNext \/ ArrivalNext \/ DirectNext \/ UndoNext]_vars

-----------------------------------------------------------------------------
(* Properties.                                                             *)

Backing(r) == Total(ActiveStock[r]) + Total(ActiveIncoming[r])

\* A reservation that was released or consumed holds no supply, whatever was
\* undone since (the integrity summary counts those that do).
EndedHoldsNothing ==
  \A r \in Reservation : reservations[r].status # "ACTIVE" => Backing(r) = 0

\* No sequence of calls and undos backs a reservation with more than it asks
\* for: what comes back never exceeds what the reservation counts.
NeverOverbacked ==
  \A r \in Reservation : Backing(r) <= reservations[r].quantity

\* The rows marked by a release or a consumption add up to its log entry for
\* as long as it is not undone: no later call, split, merge or undo of
\* another entry makes that undo fail or give back another quantity.
MarkersMatchLog ==
  \A k \in DOMAIN log :
    LET r == log[k].reservation
    IN  ~log[k].undone =>
          /\ log[k].context = "release" =>
               log[k].quantity = QuantityOf(stockRows, MarkedRows(stockRows, r, "RELEASED", k))
                 + QuantityOf(incomingRows, MarkedRows(incomingRows, r, "RELEASED", k))
          /\ log[k].context = "consume" =>
               log[k].quantity = QuantityOf(stockRows, MarkedRows(stockRows, r, "CONSUMED", k))

\* A reservation has at most one active row on an order line: the undos, which
\* take the first row they find, leave no second one behind.
OneActiveRowPerLine ==
  \A r \in Reservation : \A i, j \in ActiveOf(incomingRows, r) :
    incomingRows[i].place = incomingRows[j].place => i = j

\* Undoing k moves the stock of a location the other way than k did, and not
\* by more than k did.
Reverses(k) ==
  \A l \in Location :
    LET did == log[k].moved[l]
        now == onHand'[l] - onHand[l]
    IN  IF did >= 0 THEN -did <= now /\ now <= 0 ELSE 0 <= now /\ now <= -did

Undone(k) == ~log[k].undone /\ log'[k].undone

\* The undo of a call takes back, location by location, at most what the call
\* did there, in the opposite direction.
UndoReverses ==
  [][ \A k \in DOMAIN log : Undone(k) /\ log[k].undoOf = 0 => Reverses(k) ]_vars

\* The same of undone undos: "safe reversal with compensating transactions".
EveryUndoReverses == [][ \A k \in DOMAIN log : Undone(k) => Reverses(k) ]_vars

OnOrder == Total([o \in Order |-> IF orders[o].status = "Ordered" THEN orders[o].amount ELSE 0])

\* What an undone arrival takes from stock is on order again, all of it and
\* no more, on the line it came from or on one of its split.
UndoneArrivalIsOnOrder ==
  [][ \A k \in DOMAIN log :
        Undone(k) /\ log[k].context = "arrival"
        => Total(onHand') + OnOrder' = Total(onHand) + OnOrder ]_vars

\* The quantity of an ACTIVE reservation is what its active rows add up to.
RemainingEqualsActiveRows ==
  \A r \in Reservation :
    reservations[r].status = "ACTIVE" => reservations[r].quantity = Backing(r)
=============================================================================
