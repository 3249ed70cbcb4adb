---------------------------- MODULE RequestLocks ----------------------------
(***************************************************************************)
(* The calls of Reservations as the requests they run in: each takes the   *)
(* advisory locks of its call one by one, reads, works out what to write,  *)
(* and commits; closing the connection rolls back whatever was not         *)
(* committed.  PostgreSQL holds the locks up to the end of the transaction *)
(* and shows other requests nothing before the commit (READ COMMITTED), so *)
(* the writes of a request are one step, made of values read before it.    *)
(*                                                                         *)
(* update_order takes no lock.  LockedSpec leaves it out, and implements   *)
(* Reservations; RequestSpec has it.                                        *)
(***************************************************************************)
EXTENDS Reservations, Sequences, Functions

CONSTANTS
  Shelf,           \* the locations arrivals name
  MaxStock,        \* bound: no order edit begins with more in stock
  Client,          \* the connections of the pool
  NoCall           \* a connection no request uses

VARIABLE
  request          \* what each connection is doing

requestVars == <<vars, request>>

-----------------------------------------------------------------------------
(* Calls and the locks they take, in the order they take them.             *)

Call ==
  [op : {"create"}, order : Order \cup {NoOrder}, project : Project \cup {NoProject},
   quantity : 1 .. MaxQuantity]
  \cup [op : {"release", "consume"}, reservation : Reservation, quantity : 1 .. MaxQuantity]
  \cup [op : {"arrive"}, order : Order, quantity : 1 .. MaxQuantity, location : Shelf]

\* A new expected arrival date, with status "Ordered" given or not; for part
\* of the line or, when that is 0, for all of it.
Edit ==
  [op : {"edit"}, order : Order, eta : 1 .. MaxEta, reopen : BOOLEAN,
   part : 0 .. MaxQuantity]

ASSUME RequestsAssumption ==
  /\ Shelf \subseteq Location
  /\ NoCall \notin Call \cup Edit

ItemLock == <<"item", 1>>

\* The lock of the row a call names.
RowLock(call) ==
  CASE call.op \in {"create", "edit"}     -> <<>>
    [] call.op \in {"release", "consume"} -> << <<"reservation", call.reservation>> >>
    [] call.op = "arrive"                 -> << <<"order", call.order>> >>

\* Fault: a release locks the item before the reservation.
ItemFirst(call) ==
  CASE call.op = "edit"    -> <<>>
    [] call.op = "release" -> <<ItemLock>> \o RowLock(call)
    [] OTHER               -> RowLock(call) \o <<ItemLock>>

\* Fault: an arrival locks its order line only.
OrderOnly(call) ==
  RowLock(call) \o IF call.op \in {"edit", "arrive"} THEN <<>> ELSE <<ItemLock>>

\* Fault: a creation takes no lock.
CreateUnlocked(call) ==
  RowLock(call) \o IF call.op \in {"edit", "create"} THEN <<>> ELSE <<ItemLock>>

LocksOf(call) == RowLock(call) \o IF call.op = "edit" THEN <<>> ELSE <<ItemLock>>

-----------------------------------------------------------------------------
(* What a call writes, from what it reads.  A call with no writes fails.   *)

NoRows == [id \in {} |-> NoCall]

Only(id, row) == [k \in {id} |-> row]

\* Columns of order lines, whole rows of the other tables, and what is added
\* to the ledger and to the stock allocations.
NoWrites ==
  [orders |-> NoRows, reservations |-> NoRows, incoming |-> NoRows,
   received |-> NoRows, allocated |-> NoRows, onHand |-> NoRows]

Columns == {"status", "amount", "ordered", "project", "eta"}

\* UPDATE of some columns, INSERT of all.
Write(columns, line) == [columns |-> columns, line |-> line]

Written(line, write) ==
  LET of(column) == IF column \in write.columns THEN write.line ELSE line
  IN  [status  |-> of("status").status,
       amount  |-> of("amount").amount,
       ordered |-> of("ordered").ordered,
       project |-> of("project").project,
       eta     |-> of("eta").eta]

\* The lines that requests in progress have inserted or changed.
Pending ==
  { o \in Order : \E c \in Client : \E w \in request[c].writes : o \in DOMAIN w.orders }

\* Ids come from a sequence, which gives none to two requests.
NewLines(pending) ==
  { n \in Order : /\ orders[n].status = "Unused" /\ n \notin pending
                  /\ \A k \in Order :
                       k < n => orders[k].status # "Unused" \/ k \in pending }

\* The row of a reservation and all that backs it.
RowWrites(r, row, stock, open) ==
  [NoWrites EXCEPT !.reservations = Only(r, row),
                   !.allocated = Only(r, stock), !.incoming = Only(r, open)]

CreateWrites(call) ==
  LET preferredQty == PreferredQuantity(call.order, call.quantity)
      stockQty     == Smaller(Total(Available), call.quantity - preferredQty)
      supply       == OpenSupply(call.project, call.order)
      row          == [status |-> "ACTIVE", quantity |-> call.quantity, project |-> call.project]
  IN  { RowWrites(r, row, stock, [open EXCEPT ![call.order] = preferredQty]) :
          r \in { n \in Reservation : /\ NextUnused(reservations, n)
                                      /\ call.order # NoOrder =>
                                           PreferredEligible(call.order, call.project) },
          stock \in { s \in Draws(Available, stockQty) :
                        FirstFit(s, Available, LocationOrder) },
          open \in { s \in Draws(supply, call.quantity - preferredQty - stockQty) :
                       FirstFit(s, supply, SupplyOrder) } }

\* Status and quantity of the reservation are those read, as for every call.
Active(call) ==
  /\ reservations[call.reservation].status = "ACTIVE"
  /\ call.quantity <= reservations[call.reservation].quantity

ReleaseWrites(call) ==
  LET r        == call.reservation
      stockQty == Smaller(call.quantity, Total(allocated[r]))
  IN  { RowWrites(r, Reduced(r, call.quantity, "RELEASED")[r],
                  Minus(allocated[r], stock), Minus(incoming[r], open)) :
          stock \in { s \in Draws(allocated[r], stockQty) : Active(call) },
          open \in Draws(incoming[r], call.quantity - stockQty) }

ConsumeWrites(call) ==
  LET r == call.reservation
  IN  { [NoWrites EXCEPT !.reservations = Only(r, Reduced(r, call.quantity, "CONSUMED")[r]),
                         !.allocated    = Only(r, Minus(allocated[r], stock)),
                         !.onHand       = [l \in Location |-> -stock[l]]] :
          stock \in { s \in Draws(allocated[r], call.quantity) : Active(call) } }

ArrivedLine(o, quantity) ==
  LET whole == quantity = orders[o].amount
  IN  Write(IF whole THEN {"status"} ELSE {"status", "amount", "ordered"},
            LineOf(o, "Arrived", quantity, OrderedShare(o, quantity)))

RestOf(o, quantity) ==
  Write(Columns, LineOf(o, "Ordered", orders[o].amount - quantity,
                        orders[o].ordered - OrderedShare(o, quantity)))

\* The lines and incoming rows of an arrival, and what it puts on the shelf.
ArrivalWrites(call, lines, rows, conversion) ==
  LET at(l, quantity) == IF l = call.location THEN quantity ELSE 0
  IN  [NoWrites EXCEPT
         !.orders   = lines,
         !.incoming = rows,
         !.received = [r \in Reservation |-> [l \in Location |-> at(l, conversion[r])]],
         !.onHand   = [l \in Location |-> at(l, call.quantity)]]

\* The rows that wait for a line, without those converted or moved to line c.
RowsLeft(o, conversion) ==
  [r \in Reservation |-> [incoming[r] EXCEPT ![o] = @ - conversion[r]]]

RowsMoved(o, c, conversion) ==
  [r \in Reservation |->
     [incoming[r] EXCEPT ![o] = 0, ![c] = @ + incoming[r][o] - conversion[r]]]

SplitLines(o, c, quantity) ==
  [n \in {o, c} |-> IF n = o THEN ArrivedLine(o, quantity) ELSE RestOf(o, quantity)]

ArriveWrites(call, pending) ==
  LET o == call.order
      q == call.quantity
  IN  IF orders[o].status # "Ordered" THEN {}
      ELSE IF q = orders[o].amount
      THEN { ArrivalWrites(call, Only(o, ArrivedLine(o, q)), RowsLeft(o, conversion), conversion) :
               conversion \in Conversions(o, q) }
      ELSE { ArrivalWrites(call, SplitLines(o, c, q), RowsMoved(o, c, conversion), conversion) :
               c \in { n \in NewLines(pending) : IntegerSafeSplit(o, q) },
               conversion \in Conversions(o, q) }

\* The line an edit dates or takes a part off, and the line of that part.
EditedLine(call) ==
  LET o       == call.order
      columns == IF call.part = 0 THEN {"eta"} ELSE {"amount", "ordered"}
  IN  Write((IF call.reopen THEN {"status"} ELSE {}) \cup columns,
            [status |-> "Ordered", amount |-> orders[o].amount - call.part,
             ordered |-> orders[o].ordered - OrderedShare(o, call.part), eta |-> call.eta])

PartLine(call) ==
  LET o == call.order
  IN  Write(Columns,
            [status |-> "Ordered", amount |-> call.part, ordered |-> OrderedShare(o, call.part),
             project |-> orders[o].project, eta |-> call.eta])

PartLines(call, c) ==
  [n \in {call.order, c} |-> IF n = call.order THEN EditedLine(call) ELSE PartLine(call)]

LineWrites(lines) == [NoWrites EXCEPT !.orders = lines]

\* The date of the whole line, or a new line with the date for a part of it.
EditWrites(call, pending) ==
  IF orders[call.order].status # "Ordered" THEN {}
  ELSE IF call.part = 0 THEN { LineWrites(Only(call.order, EditedLine(call))) }
  ELSE { LineWrites(PartLines(call, c)) :
           c \in { n \in NewLines(pending) : IntegerSafeSplit(call.order, call.part) } }

WritesOf(call, pending) ==
  CASE call.op = "create"  -> CreateWrites(call)
    [] call.op = "release" -> ReleaseWrites(call)
    [] call.op = "consume" -> ConsumeWrites(call)
    [] call.op = "arrive"  -> ArriveWrites(call, pending)
    [] call.op = "edit"    -> EditWrites(call, pending)

-----------------------------------------------------------------------------
(* The steps of a request.                                                 *)

Idle == [call |-> NoCall, todo |-> <<>>, held |-> {}, writes |-> {}]

RequestInit == Init /\ request = [c \in Client |-> Idle]

Busy(c) == request[c].call # NoCall

Held == UNION { request[c].held : c \in Client }

\* The rows the call names exist; they are read here for the item they are
\* of, which never changes, and read again under the locks.
Begin(c, call) ==
  /\ ~Busy(c)
  /\ call.op \in {"release", "consume"} => reservations[call.reservation].status # "Unused"
  /\ call.op \in {"arrive", "edit"} => orders[call.order].status # "Unused"
  /\ request' = [request EXCEPT ![c] = [Idle EXCEPT !.call = call, !.todo = LocksOf(call)]]
  /\ UNCHANGED vars

Acquire(c) ==
  /\ request[c].todo # <<>>
  /\ Head(request[c].todo) \notin Held
  /\ request' = [request EXCEPT ![c].todo = Tail(@),
                                ![c].held = @ \cup {Head(request[c].todo)}]
  /\ UNCHANGED vars

\* All locks held: read, check, work out the writes.
Prepare(c) ==
  /\ Busy(c) /\ request[c].todo = <<>> /\ request[c].writes = {}
  /\ \E w \in WritesOf(request[c].call, Pending) : request' = [request EXCEPT ![c].writes = {w}]
  /\ UNCHANGED vars

\* The statements of a request change the columns and rows they name, and
\* add to what the ledger has at the commit.
Apply(w) ==
  LET add(f, g) == [x \in DOMAIN f |-> f[x] + IF x \in DOMAIN g THEN g[x] ELSE 0]
      rows(table, written) == [i \in DOMAIN table |->
                                 IF i \in DOMAIN written THEN written[i] ELSE table[i]]
  IN  /\ \A l \in DOMAIN w.onHand : onHand[l] + w.onHand[l] >= 0
      /\ onHand' = add(onHand, w.onHand)
      /\ orders' = [o \in Order |-> IF o \in DOMAIN w.orders
                                    THEN Written(orders[o], w.orders[o]) ELSE orders[o]]
      /\ reservations' = rows(reservations, w.reservations)
      /\ incoming' = rows(incoming, w.incoming)
      /\ allocated' = [r \in Reservation |->
           IF r \in DOMAIN w.received THEN add(allocated[r], w.received[r])
           ELSE rows(allocated, w.allocated)[r]]

Commit(c) ==
  \E w \in request[c].writes : Apply(w) /\ request' = [request EXCEPT ![c] = Idle]

\* Fault: the connection goes back to the pool with its locks.
KeepLocks(c) ==
  request' = [request EXCEPT ![c] = [Idle EXCEPT !.held = request[c].held]]

\* Closing the connection rolls the transaction back.
Close(c) == request' = [request EXCEPT ![c] = Idle]

\* A check failed, or the ledger no longer has what a consumption takes.
Reject(c) ==
  /\ Busy(c) /\ request[c].todo = <<>>
  /\ IF request[c].writes = {} THEN WritesOf(request[c].call, Pending) = {}
     ELSE \A w \in request[c].writes : \E l \in DOMAIN w.onHand : onHand[l] + w.onHand[l] < 0
  /\ Close(c)
  /\ UNCHANGED vars

\* The client is gone, or a statement failed, at any moment.
Abort(c) == Busy(c) /\ Close(c) /\ UNCHANGED vars

Step(c) == Acquire(c) \/ Prepare(c) \/ Commit(c) \/ Reject(c)

Work == \E c \in Client : Step(c) \/ Abort(c)

LockedNext == Work \/ \E c \in Client, call \in Call : Begin(c, call)

RequestNext ==
  \/ LockedNext
  \/ \E c \in Client, call \in Edit : Total(onHand) <= MaxStock /\ Begin(c, call)

\* A request that can go on does, and one that waits for a lock that is free
\* again and again is granted it: PostgreSQL queues those who wait.
Fairness == \A c \in Client : SF_requestVars(Step(c))

LockedSpec == RequestInit /\ [][LockedNext]_requestVars /\ Fairness

RequestSpec == RequestInit /\ [][RequestNext]_requestVars /\ Fairness

-----------------------------------------------------------------------------
(* Properties.                                                             *)

\* Types; the locks a request holds and waits for are those of its call, and
\* no two requests hold one lock.
RequestTypeOK ==
  /\ TypeOK
  /\ \A c \in Client :
       IF Busy(c)
       THEN /\ request[c].call \in Call \cup Edit
            /\ request[c].held \cup Range(request[c].todo) = Range(LocksOf(request[c].call))
            /\ Cardinality(request[c].writes) <= 1
       ELSE request[c] = Idle
  /\ \A c, d \in Client : c # d => request[c].held \cap request[d].held = {}

\* Under the locks every request acts as if alone: what it read is still so
\* when it commits, and no two requests promise or take the same supply.
RequestsAreSerial == Spec

WaitsFor(c, d) == request[c].todo # <<>> /\ Head(request[c].todo) \in request[d].held

\* Requests that touch one item never wait for each other in a circle.
NoCircularWait ==
  \A waiting \in SUBSET Client :
    waiting # {} => \E c \in waiting : ~\E d \in waiting : WaitsFor(c, d)

\* Every request ends, committed or rejected.
EveryRequestEnds == \A c \in Client : Busy(c) ~> ~Busy(c)

\* "Arrived orders cannot be updated".
ArrivedIsFinal ==
  [][ \A o \in Order : orders[o].status = "Arrived" => orders'[o] = orders[o] ]_requestVars
=============================================================================
