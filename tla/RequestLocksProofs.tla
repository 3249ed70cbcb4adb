------------------------- MODULE RequestLocksProofs -------------------------
(***************************************************************************)
(* Theorems about RequestLocks, for any number of connections: the order   *)
(* in which requests take their locks, that requests that lock act one     *)
(* after the other, as Reservations has them, and that order edits, which  *)
(* take no lock, leave quantities, backing and stock in step.              *)
(***************************************************************************)
EXTENDS RequestLocks, ReservationsProofs, SequenceTheorems

-----------------------------------------------------------------------------
(* The locks.                                                              *)

\* The locks of the row of a call, as a set.
RowLocks(call) == Range(RowLock(call))

\* A request has none of its locks, the lock of its row, or all of them, and
\* works out what it writes when it has them all.
RowOK(row) ==
  /\ row \in [call : {row.call}, todo : {row.todo}, held : {row.held}, writes : {row.writes}]
  /\ IF row.call = NoCall THEN row = Idle
     ELSE /\ row.call \in Call \cup Edit
          /\ \/ row.todo = LocksOf(row.call) /\ row.held = {}
             \/ row.call \in Call /\ row.todo = <<ItemLock>> /\ row.held = RowLocks(row.call)
             \/ row.todo = <<>> /\ row.held = Range(LocksOf(row.call))
          /\ row.todo # <<>> => row.writes = {}
          /\ row.writes = {} \/ \E w : row.writes = {w}

LockInv ==
  /\ request = [c \in Client |-> request[c]]
  /\ \A c \in Client : RowOK(request[c])
  /\ \A c, d \in Client : c # d => request[c].held \cap request[d].held = {}

\* What the lists of locks come to, call by call.
LEMMA LocksList ==
  ASSUME NEW call \in Call \cup Edit
  PROVE  /\ call.op = "edit" <=> call \in Edit
         /\ call.op = "edit" => LocksOf(call) = <<>> /\ RowLocks(call) = {}
         /\ call.op = "create" => LocksOf(call) = <<ItemLock>> /\ RowLocks(call) = {}
         /\ call.op \in {"release", "consume"} =>
              /\ LocksOf(call) = << <<"reservation", call.reservation>>, ItemLock >>
              /\ RowLocks(call) = { <<"reservation", call.reservation>> }
         /\ call.op = "arrive" =>
              /\ LocksOf(call) = << <<"order", call.order>>, ItemLock >>
              /\ RowLocks(call) = { <<"order", call.order>> }
         /\ call.op \in {"create", "release", "consume", "arrive", "edit"}
<1>1. call.op \in {"create", "release", "consume", "arrive", "edit"}
  BY DEF Call, Edit
<1>2. call.op = "edit" <=> call \in Edit
  BY DEF Call, Edit
<1>3. \A x : Range(<<x>>) = {x}
  BY DEF Range
<1>4. Range(<<>>) = {}
  BY DEF Range
<1>5. ASSUME NEW x, NEW y PROVE <<x>> \o <<y>> = <<x, y>>
  <2>1. <<x>> \in Seq({x, y}) /\ <<y>> \in Seq({x, y}) /\ <<x, y>> \in Seq({x, y})
    OBVIOUS
  <2>2. /\ Len(<<x>> \o <<y>>) = Len(<<x, y>>)
        /\ \A i \in 1 .. Len(<<x>> \o <<y>>) : (<<x>> \o <<y>>)[i] = <<x, y>>[i]
    BY <2>1, ConcatProperties
  <2>3. <<x>> \o <<y>> \in Seq({x, y})
    BY <2>1, ConcatProperties
  <2> QED BY <2>1, <2>2, <2>3, SeqEqual
<1>7. ASSUME NEW y PROVE <<>> \o <<y>> = <<y>> /\ <<y>> \o <<>> = <<y>>
  <2>1. <<>> \in Seq({y}) /\ <<y>> \in Seq({y})
    OBVIOUS
  <2> QED BY <2>1
<1>8. <<>> \o <<>> = <<>>
  OBVIOUS
<1>6. QED
  BY <1>1, <1>2, <1>3, <1>4, <1>5, <1>7, <1>8 DEF LocksOf, RowLock, RowLocks

\* A request that changes as these rows do, beside others that hold none of
\* its locks, keeps the invariant.
LEMMA RowChange ==
  ASSUME LockInv, NEW c \in Client, NEW row, RowOK(row),
         request' = [request EXCEPT ![c] = row],
         \A d \in Client : d # c => row.held \cap request[d].held = {}
  PROVE  LockInv'
<1>1. request' = [d \in Client |-> request'[d]]
  BY DEF LockInv
<1>2. request'[c] = row /\ \A d \in Client : d # c => request'[d] = request[d]
  BY DEF LockInv
<1>3. \A d \in Client : RowOK(request'[d])
  BY <1>2 DEF LockInv
<1>4. \A d, e \in Client : d # e => request'[d].held \cap request'[e].held = {}
  BY <1>2 DEF LockInv
<1>5. QED
  BY <1>1, <1>3, <1>4 DEF LockInv, RowOK, Idle

LEMMA IdleOK == RowOK(Idle) /\ Idle.held = {}
BY DEF RowOK, Idle

LEMMA BeginLocks ==
  ASSUME LockInv, NEW c \in Client, NEW call \in Call \cup Edit, Begin(c, call)
  PROVE  LockInv'
<1> DEFINE row == [Idle EXCEPT !.call = call, !.todo = LocksOf(call)]
<1>1. /\ row.call = call /\ row.todo = LocksOf(call) /\ row.held = {} /\ row.writes = {}
      /\ row \in [call : {row.call}, todo : {row.todo}, held : {row.held}, writes : {row.writes}]
  BY DEF Idle
<1>2. call # NoCall
  BY RequestsAssumption
<1>3. RowOK(row)
  <2> HIDE DEF row
  <2> QED BY <1>1, <1>2 DEF RowOK
<1>4. request' = [request EXCEPT ![c] = row]
  BY DEF Begin
<1> HIDE DEF row
<1>5. QED
  BY <1>1, <1>3, <1>4, RowChange

LEMMA AcquireLocks ==
  ASSUME LockInv, NEW c \in Client, Acquire(c)
  PROVE  LockInv'
<1> DEFINE old == request[c]
           row == [old EXCEPT !.todo = Tail(@), !.held = @ \cup {Head(old.todo)}]
<1>1. RowOK(old) /\ old.todo # <<>> /\ \A d \in Client : Head(old.todo) \notin request[d].held
  BY DEF Acquire, LockInv, Held
<1>2. old.call # NoCall
  BY <1>1 DEF RowOK, Idle
<1>3. /\ row.call = old.call /\ row.todo = Tail(old.todo)
      /\ row.held = old.held \cup {Head(old.todo)} /\ row.writes = {}
      /\ row \in [call : {row.call}, todo : {row.todo}, held : {row.held}, writes : {row.writes}]
  BY <1>1, <1>2 DEF RowOK
<1>4. request' = [request EXCEPT ![c] = row]
  BY DEF Acquire, LockInv
<1>5. \/ row.call \in Call /\ row.todo = <<ItemLock>> /\ row.held = RowLocks(row.call)
      \/ row.todo = <<>> /\ row.held = Range(LocksOf(row.call))
  <2> HIDE DEF row, old
  <2>1. old.call \in Call \cup Edit
    BY <1>1, <1>2 DEF RowOK
  <2>2. \A x : Tail(<<x>>) = <<>> /\ Head(<<x>>) = x /\ Range(<<x>>) = {x}
    BY DEF Range
  <2>3. \A x, y : Tail(<<x, y>>) = <<y>> /\ Head(<<x, y>>) = x /\ Range(<<x, y>>) = {x, y}
    BY DEF Range
  <2>4. CASE old.call \in Call /\ old.todo = <<ItemLock>> /\ old.held = RowLocks(old.call)
    <3>1. old.call.op # "edit"
      BY <2>4 DEF Call
    <3>2. Range(LocksOf(old.call)) = RowLocks(old.call) \cup {ItemLock}
      BY <2>1, <2>2, <2>3, <3>1, LocksList
    <3>3. QED
      BY <1>3, <2>2, <2>4, <3>2, Zenon
  <2>5. CASE old.todo = LocksOf(old.call) /\ old.held = {}
    <3>1. CASE old.call.op = "create"
      <4>1. LocksOf(old.call) = <<ItemLock>>
        BY <2>1, <3>1, LocksList
      <4>2. /\ Tail(old.todo) = <<>> /\ Head(old.todo) = ItemLock
            /\ Range(LocksOf(old.call)) = {ItemLock}
        BY <2>2, <2>5, <4>1, Zenon
      <4>3. QED
        BY <1>3, <2>5, <4>2, Zenon
    <3>2. ASSUME NEW x, LocksOf(old.call) = <<x, ItemLock>>, RowLocks(old.call) = {x},
                 old.call \in Call
          PROVE  row.call \in Call /\ row.todo = <<ItemLock>> /\ row.held = RowLocks(row.call)
      <4>1. Tail(old.todo) = <<ItemLock>> /\ Head(old.todo) = x
        BY <2>3, <2>5, <3>2, Zenon
      <4>2. QED
        BY <1>3, <2>5, <3>2, <4>1, Zenon
    <3>3. old.call \in Call \/ LocksOf(old.call) = <<>>
      BY <2>1, LocksList
    <3>4. QED
      BY <1>1, <2>1, <2>5, <3>1, <3>2, <3>3, LocksList, Zenon
  <2>6. QED
    BY <1>1, <1>2, <2>4, <2>5 DEF RowOK
<1> HIDE DEF row
<1>6. RowOK(row)
  BY <1>1, <1>2, <1>3, <1>5 DEF RowOK
<1>7. \A d \in Client : d # c => row.held \cap request[d].held = {}
  BY <1>1, <1>3 DEF LockInv
<1>8. QED
  BY <1>4, <1>6, <1>7, RowChange

LEMMA PrepareLocks ==
  ASSUME LockInv, NEW c \in Client, Prepare(c)
  PROVE  LockInv'
<1> DEFINE old == request[c]
<1>1. PICK w : request' = [request EXCEPT ![c].writes = {w}]
  BY DEF Prepare
<1> DEFINE row == [old EXCEPT !.writes = {w}]
<1>2. RowOK(old) /\ old.call # NoCall /\ old.todo = <<>>
  BY DEF Prepare, LockInv, Busy
<1>3. /\ row.call = old.call /\ row.todo = <<>> /\ row.held = old.held /\ row.writes = {w}
      /\ row \in [call : {row.call}, todo : {row.todo}, held : {row.held}, writes : {row.writes}]
  BY <1>2 DEF RowOK
<1>4. request' = [request EXCEPT ![c] = row]
  BY <1>1 DEF LockInv
<1> HIDE DEF row
<1>5. RowOK(row)
  BY <1>2, <1>3 DEF RowOK
<1>6. \A d \in Client : d # c => row.held \cap request[d].held = {}
  BY <1>3 DEF LockInv
<1>7. QED
  BY <1>4, <1>5, <1>6, RowChange

LEMMA EndLocks ==
  ASSUME LockInv, NEW c \in Client, request' = [request EXCEPT ![c] = Idle]
  PROVE  LockInv'
BY IdleOK, RowChange

LEMMA LockStep == LockInv /\ [RequestNext]_requestVars => LockInv'
<1> SUFFICES ASSUME LockInv, [RequestNext]_requestVars PROVE LockInv'
  OBVIOUS
<1>1. ASSUME NEW c \in Client, Step(c) PROVE LockInv'
  BY <1>1, AcquireLocks, PrepareLocks, EndLocks DEF Step, Commit, Reject, Close
<1>2. ASSUME NEW c \in Client, Abort(c) PROVE LockInv'
  BY <1>2, EndLocks DEF Abort, Close
<1>3. ASSUME NEW c \in Client, NEW call \in Call \cup Edit, Begin(c, call) PROVE LockInv'
  BY <1>3, BeginLocks
<1>4. CASE UNCHANGED requestVars
  BY <1>4 DEF requestVars, LockInv, RowOK, Idle
<1>5. QED
  BY <1>1, <1>2, <1>3, <1>4 DEF RequestNext, LockedNext, Work

LEMMA LockInit == RequestInit => LockInv
BY IdleOK DEF RequestInit, LockInv

-----------------------------------------------------------------------------
(* Deadlock.                                                               *)

\* A request that waits for the lock of the item holds at most the lock of
\* its row; one that waits for the lock of a row holds none.
LEMMA WaitingHolds ==
  ASSUME LockInv, NEW c \in Client, request[c].todo # <<>>
  PROVE  /\ ItemLock \notin request[c].held
         /\ request[c].held # {} => Head(request[c].todo) = ItemLock
<1> DEFINE row == request[c]
<1>1. RowOK(row) /\ row.call # NoCall
  BY DEF LockInv, RowOK, Idle
<1>2. row.call \in Call \cup Edit
  BY <1>1 DEF RowOK
<1>3. ItemLock \notin RowLocks(row.call)
  BY <1>2, LocksList DEF ItemLock
<1>4. Head(<<ItemLock>>) = ItemLock
  OBVIOUS
<1>5. QED
  BY <1>1, <1>3, <1>4 DEF RowOK

LEMMA NoCircle == LockInv => NoCircularWait
<1> SUFFICES ASSUME LockInv, NEW waiting \in SUBSET Client, waiting # {},
                    \A c \in waiting : \E d \in waiting : WaitsFor(c, d)
             PROVE  FALSE
  BY DEF NoCircularWait
<1>1. PICK c \in waiting : TRUE
  OBVIOUS
<1>2. PICK d \in waiting : WaitsFor(c, d)
  OBVIOUS
<1>3. PICK e \in waiting : WaitsFor(d, e)
  OBVIOUS
<1>4. PICK f \in waiting : WaitsFor(e, f)
  OBVIOUS
<1>5. Head(request[d].todo) = ItemLock
  BY <1>2, <1>3, WaitingHolds DEF WaitsFor
<1>6. ItemLock \notin request[e].held
  BY <1>4, WaitingHolds DEF WaitsFor
<1>7. QED
  BY <1>3, <1>5, <1>6 DEF WaitsFor

\* Requests of one item take the lock of their row before that of the item
\* and let go of both at their end: they never wait for each other in a
\* circle, with order edits among them or not.
THEOREM NoDeadlock == RequestSpec => []NoCircularWait
<1>1. RequestInit /\ [][RequestNext]_requestVars => []LockInv
  BY LockInit, LockStep, PTL
<1>2. QED
  BY <1>1, NoCircle, PTL DEF RequestSpec

\* The same of the requests that lock, on their own.
THEOREM NoLockedDeadlock == LockedSpec => []NoCircularWait
<1>1. [LockedNext]_requestVars => [RequestNext]_requestVars
  BY DEF RequestNext
<1>2. RequestInit /\ [][LockedNext]_requestVars => []LockInv
  BY <1>1, LockInit, LockStep, PTL
<1>3. QED
  BY <1>2, NoCircle, PTL DEF LockedSpec

-----------------------------------------------------------------------------
(* Requests that lock act one after the other.                             *)

\* What a call reads and works out is the same as long as the tables are.
LEMMA SameWrites ==
  ASSUME UNCHANGED vars, NEW call
  PROVE  WritesOf(call, {})' = WritesOf(call, {})
<1>1. /\ onHand' = onHand /\ orders' = orders /\ reservations' = reservations
      /\ allocated' = allocated /\ incoming' = incoming
  BY DEF vars
<1>2. CreateWrites(call)' = CreateWrites(call)
  BY <1>1 DEF CreateWrites, PreferredQuantity, Available, AllocatedAt, OpenSupply,
              Allocatable, IncomingFor, NextUnused, PreferredEligible, SupplyOrder, SupplyBefore
<1>3. ReleaseWrites(call)' = ReleaseWrites(call)
  BY <1>1 DEF ReleaseWrites, Active, Reduced
<1>4. ConsumeWrites(call)' = ConsumeWrites(call)
  BY <1>1 DEF ConsumeWrites, Active, Reduced
<1>5. ArriveWrites(call, {})' = ArriveWrites(call, {})
  BY <1>1 DEF ArriveWrites, ArrivalWrites, Conversions, RowsLeft, RowsMoved, SplitLines,
              ArrivedLine, RestOf, LineOf, OrderedShare, NewLines, IntegerSafeSplit
<1>6. EditWrites(call, {})' = EditWrites(call, {})
  BY <1>1 DEF EditWrites, EditedLine, PartLine, PartLines, OrderedShare, NewLines,
              IntegerSafeSplit
<1>7. QED
  BY <1>2, <1>3, <1>4, <1>5, <1>6 DEF WritesOf

\* The tables after a commit, by what its writes name.
LEMMA Applied ==
  ASSUME TypeOK, NEW w, Apply(w)
  PROVE  /\ w.onHand = NoRows => onHand' = onHand
         /\ w.orders = NoRows => orders' = orders
         /\ w.reservations = NoRows => reservations' = reservations
         /\ w.incoming = NoRows => incoming' = incoming
         /\ \A r \in Reservation : \A row :
              /\ w.reservations = Only(r, row) => reservations' = [reservations EXCEPT ![r] = row]
              /\ w.incoming = Only(r, row) => incoming' = [incoming EXCEPT ![r] = row]
              /\ w.allocated = Only(r, row) /\ w.received = NoRows
                   => allocated' = [allocated EXCEPT ![r] = row]
<1>1. w.onHand = NoRows => onHand' = onHand
  BY DEF Apply, NoRows, TypeOK
<1>2. w.orders = NoRows => orders' = orders
  BY DEF Apply, NoRows, TypeOK
<1>3. w.reservations = NoRows => reservations' = reservations
  BY DEF Apply, NoRows, TypeOK
<1>4. w.incoming = NoRows => incoming' = incoming
  BY DEF Apply, NoRows, TypeOK
<1>5. ASSUME NEW r \in Reservation, NEW row
      PROVE  /\ w.reservations = Only(r, row) => reservations' = [reservations EXCEPT ![r] = row]
             /\ w.incoming = Only(r, row) => incoming' = [incoming EXCEPT ![r] = row]
  BY DEF Apply, Only, TypeOK
<1>6. ASSUME NEW r \in Reservation, NEW row, w.allocated = Only(r, row), w.received = NoRows
      PROVE  allocated' = [allocated EXCEPT ![r] = row]
  BY <1>6 DEF Apply, Only, NoRows, TypeOK
<1>7. QED
  BY <1>1, <1>2, <1>3, <1>4, <1>5, <1>6

LEMMA CreateCommits ==
  ASSUME TypeOK, NEW call \in Call, call.op = "create", NEW w \in WritesOf(call, {}), Apply(w)
  PROVE  Next
<1> DEFINE q == call.quantity
           preferredQty == PreferredQuantity(call.order, q)
           stockQty     == Smaller(Total(Available), q - preferredQty)
           supply       == OpenSupply(call.project, call.order)
           row          == [status |-> "ACTIVE", quantity |-> q, project |-> call.project]
<1>1. q \in 1 .. MaxQuantity /\ call.project \in Project \cup {NoProject} /\ call.order \in Source
  BY DEF Call, Source
<1>2. w \in CreateWrites(call)
  BY DEF WritesOf
<1>3. PICK r \in Reservation, stock \in Draws(Available, stockQty),
           open \in Draws(supply, q - preferredQty - stockQty) :
        /\ NextUnused(reservations, r)
        /\ call.order # NoOrder => PreferredEligible(call.order, call.project)
        /\ FirstFit(stock, Available, LocationOrder) /\ FirstFit(open, supply, SupplyOrder)
        /\ w = RowWrites(r, row, stock, [open EXCEPT ![call.order] = preferredQty])
  <2> HIDE DEF row
  <2> QED BY <1>2 DEF CreateWrites, row
<1> DEFINE opened == [open EXCEPT ![call.order] = preferredQty]
<1>4. /\ w.onHand = NoRows /\ w.orders = NoRows /\ w.received = NoRows
      /\ w.reservations = Only(r, row) /\ w.allocated = Only(r, stock)
      /\ w.incoming = Only(r, opened)
  <2> HIDE DEF row, opened
  <2> QED BY <1>3 DEF RowWrites, NoWrites, opened
<1>5. /\ onHand' = onHand /\ orders' = orders
      /\ reservations' = [reservations EXCEPT ![r] = row]
      /\ allocated' = [allocated EXCEPT ![r] = stock]
      /\ incoming' = [incoming EXCEPT ![r] = opened]
  <2> HIDE DEF row, opened
  <2> QED BY <1>4, Applied
<1>6. CreateReservation(r, q, call.project, call.order)
  BY <1>3, <1>5 DEF CreateReservation, Reserve
<1>7. QED
  BY <1>1, <1>6 DEF Next

LEMMA ReleaseCommits ==
  ASSUME TypeOK, BackingMatchesQuantity, NEW call \in Call, call.op = "release",
         NEW w \in WritesOf(call, {}), Apply(w)
  PROVE  Next
<1> DEFINE q == call.quantity
           r == call.reservation
           stockQty == Smaller(q, Total(allocated[r]))
           row == Reduced(r, q, "RELEASED")[r]
<1>1. q \in 1 .. MaxQuantity /\ r \in Reservation
  BY DEF Call
<1>2. w \in ReleaseWrites(call)
  BY DEF WritesOf
<1>3. PICK stock \in Draws(allocated[r], stockQty), open \in Draws(incoming[r], q - stockQty) :
        /\ Active(call)
        /\ w = RowWrites(r, row, Minus(allocated[r], stock), Minus(incoming[r], open))
  <2> HIDE DEF row
  <2> QED BY <1>2 DEF ReleaseWrites, row
<1> DEFINE held == Minus(allocated[r], stock)
           waiting == Minus(incoming[r], open)
<1>4. /\ w.onHand = NoRows /\ w.orders = NoRows /\ w.received = NoRows
      /\ w.reservations = Only(r, row) /\ w.allocated = Only(r, held)
      /\ w.incoming = Only(r, waiting)
  <2> HIDE DEF row, held, waiting
  <2> QED BY <1>3 DEF RowWrites, NoWrites, held, waiting
<1>5. /\ onHand' = onHand /\ orders' = orders
      /\ reservations' = [reservations EXCEPT ![r] = row]
      /\ allocated' = [allocated EXCEPT ![r] = held]
      /\ incoming' = [incoming EXCEPT ![r] = waiting]
  <2> HIDE DEF row, held, waiting
  <2> QED BY <1>1, <1>4, Applied
<1>6. reservations' = Reduced(r, q, "RELEASED")
  BY <1>1, <1>5 DEF Reduced, TypeOK
<1>7. q <= Total(allocated[r]) + Total(incoming[r])
  BY <1>1, <1>3 DEF BackingMatchesQuantity, Active
<1>8. ReleaseReservation(r, q)
  <2> HIDE DEF row
  <2> QED BY <1>3, <1>5, <1>6, <1>7 DEF ReleaseReservation, Active
<1>9. QED
  BY <1>1, <1>8 DEF Next

LEMMA ConsumeCommits ==
  ASSUME TypeOK, NEW call \in Call, call.op = "consume", NEW w \in WritesOf(call, {}), Apply(w)
  PROVE  Next
<1> DEFINE q == call.quantity
           r == call.reservation
           row == Reduced(r, q, "CONSUMED")[r]
<1>1. q \in 1 .. MaxQuantity /\ r \in Reservation /\ q \in Nat
  BY ConstantsAssumption DEF Call
<1>2. w \in ConsumeWrites(call)
  BY DEF WritesOf
<1>3. PICK stock \in Draws(allocated[r], q) :
        /\ Active(call)
        /\ w = [NoWrites EXCEPT !.reservations = Only(r, row),
                                !.allocated    = Only(r, Minus(allocated[r], stock)),
                                !.onHand       = [l \in Location |-> -stock[l]]]
  <2> HIDE DEF row
  <2> QED BY <1>2 DEF ConsumeWrites, row
<1> DEFINE held == Minus(allocated[r], stock)
<1>4. /\ w.onHand = [l \in Location |-> -stock[l]]
      /\ w.orders = NoRows /\ w.received = NoRows /\ w.incoming = NoRows
      /\ w.reservations = Only(r, row) /\ w.allocated = Only(r, held)
  <2> HIDE DEF row, held
  <2> QED BY <1>3 DEF NoWrites, held
<1>5. /\ incoming' = incoming /\ orders' = orders
      /\ reservations' = [reservations EXCEPT ![r] = row]
      /\ allocated' = [allocated EXCEPT ![r] = held]
  <2> HIDE DEF row, held
  <2> QED BY <1>1, <1>4, Applied
<1>6. stock \in [Location -> Nat] /\ onHand \in [Location -> Nat]
  <2>1. allocated[r] \in [Location -> Nat]
    BY <1>1 DEF TypeOK
  <2>2. QED
    BY <1>1, <2>1, DrawType DEF TypeOK
<1>7. \A l \in Location : stock[l] <= onHand[l]
  BY <1>4, <1>6 DEF Apply
<1>8. onHand' = Minus(onHand, stock)
  BY <1>4, <1>6 DEF Apply, Minus
<1>9. reservations' = Reduced(r, q, "CONSUMED")
  BY <1>1, <1>5 DEF Reduced, TypeOK
<1>10. ConsumeReservation(r, q)
  <2> HIDE DEF row
  <2> QED BY <1>3, <1>5, <1>7, <1>8, <1>9 DEF ConsumeReservation, Active
<1>11. QED
  BY <1>1, <1>10 DEF Next

\* What an arrival adds to stock and allocations when it commits.
LEMMA ArrivalApplied ==
  ASSUME TypeOK, NEW call, call.location \in Location, call.quantity \in Nat,
         NEW lines, NEW rows, NEW conversion \in [Reservation -> Nat],
         DOMAIN rows = Reservation, rows = [r \in Reservation |-> rows[r]],
         Apply(ArrivalWrites(call, lines, rows, conversion))
  PROVE  /\ onHand' = [onHand EXCEPT ![call.location] = @ + call.quantity]
         /\ allocated' = [r \in Reservation |->
                            [allocated[r] EXCEPT ![call.location] = @ + conversion[r]]]
         /\ incoming' = rows
         /\ reservations' = reservations
         /\ orders' = [o \in Order |-> IF o \in DOMAIN lines
                                       THEN Written(orders[o], lines[o]) ELSE orders[o]]
<1> DEFINE w == ArrivalWrites(call, lines, rows, conversion)
           received == [r \in Reservation |-> [l \in Location |->
                          IF l = call.location THEN conversion[r] ELSE 0]]
           added == [l \in Location |-> IF l = call.location THEN call.quantity ELSE 0]
<1>1. /\ w.orders = lines /\ w.incoming = rows /\ w.received = received /\ w.onHand = added
      /\ w.reservations = NoRows
  <2> HIDE DEF received, added
  <2> QED BY DEF ArrivalWrites, NoWrites, received, added
<1> HIDE DEF w
<1>2. Apply(w)
  BY DEF w
<1>3. onHand' = [onHand EXCEPT ![call.location] = @ + call.quantity]
  <2>1. /\ added \in [Location -> Nat] /\ added[call.location] = call.quantity
        /\ \A l \in Location : l # call.location => added[l] = 0
    OBVIOUS
  <2> HIDE DEF added
  <2>2. onHand' = [l \in Location |-> onHand[l] + added[l]]
    BY <1>1, <1>2, <2>1 DEF Apply, TypeOK
  <2> DEFINE l == call.location
  <2>3. l \in Location /\ added[l] = call.quantity /\ \A k \in Location : k # l => added[k] = 0
    BY <2>1
  <2> HIDE DEF l
  <2>4. onHand' = [onHand EXCEPT ![l] = @ + call.quantity]
    <3>1. \A k \in Location : onHand[k] + added[k] = IF k = l THEN onHand[l] + call.quantity
                                                    ELSE onHand[k]
      BY <2>3 DEF TypeOK
    <3>2. DOMAIN onHand = Location /\ onHand = [k \in Location |-> onHand[k]]
      BY DEF TypeOK
    <3>3. QED
      BY <2>2, <2>3, <3>1, <3>2
  <2>5. QED
    BY <2>4 DEF l
<1>4. allocated' = [r \in Reservation |->
                      [allocated[r] EXCEPT ![call.location] = @ + conversion[r]]]
  <2>1. /\ DOMAIN received = Reservation
        /\ \A r \in Reservation :
             /\ received[r] \in [Location -> Nat] /\ received[r][call.location] = conversion[r]
             /\ \A l \in Location : l # call.location => received[r][l] = 0
    OBVIOUS
  <2> HIDE DEF received
  <2>2. allocated' = [r \in Reservation |-> [l \in Location |-> allocated[r][l] + received[r][l]]]
    <3>1. allocated' = [r \in Reservation |->
             [x \in DOMAIN allocated[r] |->
                allocated[r][x] + IF x \in DOMAIN received[r] THEN received[r][x] ELSE 0]]
      <4>1. allocated' = [r \in Reservation |->
               IF r \in DOMAIN w.received
               THEN [x \in DOMAIN allocated[r] |->
                       allocated[r][x] + IF x \in DOMAIN w.received[r] THEN w.received[r][x] ELSE 0]
               ELSE [i \in DOMAIN allocated |->
                       IF i \in DOMAIN w.allocated THEN w.allocated[i] ELSE allocated[i]][r]]
        BY <1>2 DEF Apply
      <4>2. w.received = received
        BY <1>1
      <4>3. QED
        BY <2>1, <4>1, <4>2
    <3>2. QED
      BY <2>1, <3>1 DEF TypeOK
  <2>3. \A r \in Reservation : [l \in Location |-> allocated[r][l] + received[r][l]]
                                  = [allocated[r] EXCEPT ![call.location] = @ + conversion[r]]
    BY <2>1 DEF TypeOK
  <2>4. QED
    BY <2>2, <2>3
<1>5. incoming' = rows
  BY <1>1, <1>2 DEF Apply, TypeOK
<1>6. reservations' = reservations
  BY <1>1, <1>2, Applied
<1>7. orders' = [o \in Order |-> IF o \in DOMAIN lines
                                 THEN Written(orders[o], lines[o]) ELSE orders[o]]
  BY <1>1, <1>2 DEF Apply
<1>8. QED
  BY <1>3, <1>4, <1>5, <1>6, <1>7

LEMMA ArriveCommits ==
  ASSUME TypeOK, NEW call \in Call, call.op = "arrive", NEW w \in WritesOf(call, {}), Apply(w)
  PROVE  Next
<1> DEFINE q == call.quantity
           o == call.order
           l == call.location
<1>1. q \in 1 .. MaxQuantity /\ q \in Nat /\ o \in Order /\ l \in Location
  BY ConstantsAssumption, RequestsAssumption DEF Call
<1>2. w \in ArriveWrites(call, {})
  BY DEF WritesOf
<1>3. orders[o].status = "Ordered" /\ orders[o] \in OrderLine
  BY <1>1, <1>2 DEF ArriveWrites, TypeOK
<1>4. CASE q = orders[o].amount
  <2> DEFINE lines == Only(o, ArrivedLine(o, q))
  <2>1. PICK conversion \in Conversions(o, q) :
          w = ArrivalWrites(call, lines, RowsLeft(o, conversion), conversion)
    BY <1>2, <1>3, <1>4 DEF ArriveWrites
  <2>2. conversion \in [Reservation -> Nat]
    BY <1>1, ConversionType
  <2>3. /\ onHand' = [onHand EXCEPT ![l] = @ + q]
        /\ allocated' = [r \in Reservation |-> [allocated[r] EXCEPT ![l] = @ + conversion[r]]]
        /\ incoming' = RowsLeft(o, conversion) /\ reservations' = reservations
        /\ orders' = [n \in Order |-> IF n \in DOMAIN lines
                                      THEN Written(orders[n], lines[n]) ELSE orders[n]]
    <3> DEFINE rows == RowsLeft(o, conversion)
    <3>1. DOMAIN rows = Reservation /\ rows = [r \in Reservation |-> rows[r]]
      BY DEF RowsLeft, RowsMoved
    <3> HIDE DEF lines, rows
    <3>2. w = ArrivalWrites(call, lines, rows, conversion)
      BY <2>1 DEF rows
    <3>3. incoming' = rows
      BY <1>1, <2>2, <3>1, <3>2, ArrivalApplied
    <3>4. QED
      BY <1>1, <2>2, <3>1, <3>2, <3>3, ArrivalApplied DEF rows
  <2>4. orders' = [orders EXCEPT ![o] = LineOf(o, "Arrived", orders[o].amount, orders[o].ordered)]
    <3>1. Written(orders[o], lines[o]) = LineOf(o, "Arrived", orders[o].amount, orders[o].ordered)
      BY <1>4 DEF Written, Only, ArrivedLine, Write, LineOf
    <3>2. DOMAIN lines = {o}
      BY DEF Only
    <3> HIDE DEF lines
    <3>3. QED
      BY <1>1, <2>3, <3>1, <3>2 DEF TypeOK
  <2>5. FullArrival(o, l)
    <3>1. conversion \in Conversions(o, orders[o].amount) /\ orders[o].amount > 0
      BY <1>1, <1>4, <2>1
    <3>2. onHand' = [onHand EXCEPT ![l] = @ + orders[o].amount]
      BY <1>4, <2>3
    <3>3. incoming' = [r \in Reservation |-> [incoming[r] EXCEPT ![o] = @ - conversion[r]]]
      BY <2>3 DEF RowsLeft
    <3>4. QED
      BY <1>3, <2>3, <2>4, <3>1, <3>2, <3>3 DEF FullArrival
  <2>6. QED
    BY <1>1, <2>5 DEF Next
<1>5. CASE q # orders[o].amount
  <2>1. PICK c \in NewLines({}), conversion \in Conversions(o, q) :
          /\ w = ArrivalWrites(call, SplitLines(o, c, q), RowsMoved(o, c, conversion), conversion)
          /\ IntegerSafeSplit(o, q)
    BY <1>2, <1>3, <1>5 DEF ArriveWrites
  <2>2. conversion \in [Reservation -> Nat]
    BY <1>1, ConversionType
  <2>3. c \in Order /\ NextUnused(orders, c) /\ c # o
    BY <1>3, <2>1 DEF NewLines, NextUnused, TypeOK
  <2>4. /\ onHand' = [onHand EXCEPT ![l] = @ + q]
        /\ allocated' = [r \in Reservation |-> [allocated[r] EXCEPT ![l] = @ + conversion[r]]]
        /\ incoming' = RowsMoved(o, c, conversion) /\ reservations' = reservations
        /\ orders' = [n \in Order |-> IF n \in DOMAIN SplitLines(o, c, q)
                                      THEN Written(orders[n], SplitLines(o, c, q)[n]) ELSE orders[n]]
    <3> DEFINE rows == RowsMoved(o, c, conversion)
               written == SplitLines(o, c, q)
    <3>1. DOMAIN rows = Reservation /\ rows = [r \in Reservation |-> rows[r]]
      BY DEF RowsLeft, RowsMoved
    <3> HIDE DEF written, rows
    <3>2. w = ArrivalWrites(call, written, rows, conversion)
      BY <2>1 DEF rows, written
    <3>3. /\ incoming' = rows
          /\ orders' = [n \in Order |-> IF n \in DOMAIN written
                                        THEN Written(orders[n], written[n]) ELSE orders[n]]
      BY <1>1, <2>2, <3>1, <3>2, ArrivalApplied
    <3>4. QED
      BY <1>1, <2>2, <3>1, <3>2, <3>3, ArrivalApplied DEF rows, written
  <2> DEFINE share == OrderedShare(o, q)
  <2>5. orders' = [orders EXCEPT
          ![o] = LineOf(o, "Arrived", q, share),
          ![c] = LineOf(o, "Ordered", orders[o].amount - q, orders[o].ordered - share)]
    <3> DEFINE written == SplitLines(o, c, q)
    <3>1. Written(orders[o], written[o]) = LineOf(o, "Arrived", q, share)
      BY <1>5 DEF SplitLines, Written, ArrivedLine, Write, LineOf
    <3>2. Written(orders[c], written[c])
            = LineOf(o, "Ordered", orders[o].amount - q, orders[o].ordered - share)
      BY <2>3 DEF SplitLines, Written, RestOf, Write, LineOf, Columns
    <3>3. DOMAIN written = {o, c}
      BY DEF SplitLines
    <3> HIDE DEF written, share
    <3>4. orders' = [n \in Order |-> IF n \in DOMAIN written
                                     THEN Written(orders[n], written[n]) ELSE orders[n]]
      BY <2>4 DEF written
    <3>5. QED
      BY <1>1, <2>3, <3>1, <3>2, <3>3, <3>4 DEF TypeOK
  <2>6. PartialArrival(o, c, q, l)
    BY <1>1, <1>3, <2>1, <2>3, <2>4, <2>5 DEF PartialArrival, RowsMoved
  <2>7. QED
    BY <1>1, <2>3, <2>6 DEF Next
<1>6. QED
  BY <1>4, <1>5

\* A request that has worked out its writes, or is about to, holds the lock of
\* the item; so it is the only one.
LEMMA WriterHoldsItem ==
  ASSUME LockInv, NEW c \in Client, request[c].call \in Call, request[c].todo = <<>>
  PROVE  /\ ItemLock \in request[c].held
         /\ \A d \in Client : d # c /\ request[d].call \in Call => request[d].writes = {}
<1>1. RowOK(request[c]) /\ request[c].call # NoCall
  BY RequestsAssumption DEF LockInv
<1>2. \A x, y : x \in Range(<<x>>) /\ y \in Range(<<x, y>>)
  BY DEF Range
<1>3. ASSUME NEW call \in Call
      PROVE  ItemLock \in Range(LocksOf(call)) /\ LocksOf(call) # <<>>
  <2>1. call.op # "edit"
    BY DEF Call
  <2>2. \A x, y : <<x>> # <<>> /\ <<x, y>> # <<>>
    OBVIOUS
  <2>3. \/ LocksOf(call) = <<ItemLock>>
        \/ \E x : LocksOf(call) = <<x, ItemLock>>
    BY <2>1, LocksList
  <2>4. QED
    BY <1>2, <2>2, <2>3, Zenon
<1>4. <<ItemLock>> # <<>>
  OBVIOUS
<1>5. ItemLock \in request[c].held
  BY <1>1, <1>3, <1>4 DEF RowOK
<1>6. ASSUME NEW d \in Client, d # c, request[d].call \in Call, request[d].writes # {}
      PROVE  FALSE
  <2>1. RowOK(request[d]) /\ request[d].call # NoCall
    BY <1>6, RequestsAssumption DEF LockInv
  <2>2. request[d].todo = <<>>
    BY <1>6, <2>1 DEF RowOK
  <2>3. ItemLock \in request[d].held
    BY <1>3, <1>4, <1>6, <2>1, <2>2 DEF RowOK
  <2>4. QED
    BY <1>5, <1>6, <2>3 DEF LockInv
<1>7. QED
  BY <1>5, <1>6

\* What a request is about to write is what its call would write now.
SerialInv ==
  /\ TypeOK
  /\ BackingMatchesQuantity
  /\ LockInv
  /\ \A c \in Client :
       /\ request[c] = Idle \/ request[c].call \in Call
       /\ \A call \in Call :
            request[c].call = call => request[c].writes \subseteq WritesOf(call, {})

LEMMA SerialInit == RequestInit => SerialInv
<1> SUFFICES ASSUME RequestInit PROVE SerialInv
  OBVIOUS
<1>1. TypeOK
  BY TypeInit DEF RequestInit
<1>2. QED
  BY <1>1, BackingInit, LockInit DEF RequestInit, SerialInv, Idle

\* Only one request at a time has read and not written.
LEMMA AloneWhenPrepared ==
  ASSUME SerialInv, NEW c \in Client, Busy(c), request[c].todo = <<>>
  PROVE  \A d \in Client : d # c => request[d].writes = {}
<1>1. request[c].call \in Call
  BY DEF SerialInv, Busy, Idle
<1>2. ASSUME NEW d \in Client, request[d].call \notin Call PROVE request[d].writes = {}
  BY <1>2 DEF SerialInv, Idle
<1>3. QED
  BY <1>1, <1>2, WriterHoldsItem DEF SerialInv

LEMMA CommitIsSerial ==
  ASSUME SerialInv, NEW c \in Client, Commit(c)
  PROVE  Next
<1>1. PICK w \in request[c].writes : Apply(w)
  BY DEF Commit
<1>2. w \in WritesOf(request[c].call, {}) /\ request[c].call \in Call
  BY <1>1 DEF SerialInv, Idle
<1>3. request[c].call.op \in {"create", "release", "consume", "arrive"}
  BY <1>2 DEF Call
<1>4. QED
  BY <1>1, <1>2, <1>3, CreateCommits, ReleaseCommits, ConsumeCommits, ArriveCommits DEF SerialInv

\* A step of a request is a step of the calls that act one by one, or none.
LEMMA SerialStep ==
  ASSUME SerialInv, [LockedNext]_requestVars
  PROVE  SerialInv' /\ [Next]_vars
<1>1. LockInv'
  BY LockStep DEF SerialInv, RequestNext
<1>2. ASSUME UNCHANGED vars,
             \A c \in Client :
               /\ request'[c] = Idle \/ request'[c].call \in Call
               /\ \A call \in Call :
                    request'[c].call = call => request'[c].writes \subseteq WritesOf(call, {})
      PROVE  SerialInv' /\ [Next]_vars
  <2>1. TypeOK' /\ BackingMatchesQuantity'
    <3>1. [Next]_vars
      BY <1>2
    <3>2. QED
      BY <3>1, TypeStep, BackingStep DEF SerialInv
  <2>2. \A call \in Call : WritesOf(call, {})' = WritesOf(call, {})
    BY <1>2, SameWrites
  <2>3. Idle' = Idle
    BY DEF Idle
  <2>4. QED
    BY <1>1, <1>2, <2>1, <2>2, <2>3 DEF SerialInv
<1>3. ASSUME NEW c \in Client, Acquire(c) PROVE SerialInv' /\ [Next]_vars
  <2>1. /\ request'[c].call = request[c].call /\ request'[c].writes = request[c].writes
        /\ \A d \in Client : d # c => request'[d] = request[d]
    BY <1>3 DEF Acquire, SerialInv, LockInv, RowOK
  <2>2. request[c] # Idle
    BY <1>3 DEF Acquire, Idle
  <2>3. QED
    BY <1>2, <1>3, <2>1, <2>2 DEF Acquire, SerialInv
<1>4. ASSUME NEW c \in Client, Prepare(c) PROVE SerialInv' /\ [Next]_vars
  <2>1. Pending = {}
    BY <1>4, AloneWhenPrepared DEF Pending, Prepare
  <2>2. PICK w \in WritesOf(request[c].call, {}) : request' = [request EXCEPT ![c].writes = {w}]
    BY <1>4, <2>1 DEF Prepare
  <2>3. /\ request'[c].call = request[c].call /\ request'[c].writes = {w}
        /\ \A d \in Client : d # c => request'[d] = request[d]
    BY <2>2 DEF SerialInv, LockInv, RowOK
  <2>4. request[c] # Idle
    BY <1>4 DEF Prepare, Busy, Idle
  <2>5. QED
    BY <1>2, <1>4, <2>2, <2>3, <2>4 DEF Prepare, SerialInv
<1>5. ASSUME NEW c \in Client, UNCHANGED vars, request' = [request EXCEPT ![c] = Idle]
      PROVE  SerialInv' /\ [Next]_vars
  <2>1. request'[c] = Idle /\ \A d \in Client : d # c => request'[d] = request[d]
    BY <1>5 DEF SerialInv, LockInv
  <2>2. Idle.writes = {}
    BY DEF Idle
  <2>3. QED
    BY <1>2, <1>5, <2>1, <2>2 DEF SerialInv
<1>6. ASSUME NEW c \in Client, Commit(c) PROVE SerialInv' /\ [Next]_vars
  <2>1. Next
    BY <1>6, CommitIsSerial
  <2>2. TypeOK' /\ BackingMatchesQuantity'
    BY <2>1, TypeStep, BackingStep DEF SerialInv
  <2>3. request'[c] = Idle /\ \A d \in Client : d # c => request'[d] = request[d]
    BY <1>6 DEF Commit, SerialInv, LockInv
  <2>4. Busy(c) /\ request[c].todo = <<>>
    BY <1>6 DEF Commit, SerialInv, LockInv, RowOK, Busy, Idle
  <2>5. \A d \in Client : request'[d].writes = {}
    BY <2>3, <2>4, AloneWhenPrepared DEF Idle
  <2>6. \A d \in Client : request'[d] = Idle \/ request'[d].call \in Call
    BY <2>3 DEF SerialInv
  <2>7. Idle' = Idle
    BY DEF Idle
  <2>8. QED
    BY <1>1, <2>1, <2>2, <2>5, <2>6, <2>7 DEF SerialInv
<1>7. ASSUME NEW c \in Client, NEW call \in Call, Begin(c, call) PROVE SerialInv' /\ [Next]_vars
  <2>1. /\ request'[c].call = call /\ request'[c].writes = {}
        /\ \A d \in Client : d # c => request'[d] = request[d]
    BY <1>7 DEF Begin, Idle, SerialInv, LockInv
  <2>2. QED
    BY <1>2, <1>7, <2>1 DEF Begin, SerialInv
<1>8. CASE UNCHANGED requestVars
  BY <1>2, <1>8 DEF requestVars, SerialInv
<1>9. QED
  BY <1>3, <1>4, <1>5, <1>6, <1>7, <1>8
     DEF LockedNext, Work, Step, Reject, Abort, Close

\* Requests that take the locks of their calls implement the calls that act
\* one after the other: what a request read is still so when it commits, no
\* matter how many others run and where they stop.
THEOREM LockedIsSerial == LockedSpec => RequestsAreSerial
<1>1. RequestInit => Init
  BY DEF RequestInit
<1>2. QED
  BY <1>1, SerialInit, SerialStep, PTL DEF LockedSpec, RequestsAreSerial, Spec

\* A request holds and waits for the locks of its call.
LEMMA LocksOfCall ==
  ASSUME LockInv, NEW c \in Client, Busy(c)
  PROVE  /\ request[c].call \in Call \cup Edit
         /\ request[c].held \cup Range(request[c].todo) = Range(LocksOf(request[c].call))
         /\ Cardinality(request[c].writes) <= 1
<1>1. RowOK(request[c]) /\ request[c].call # NoCall /\ request[c].call \in Call \cup Edit
  BY DEF LockInv, RowOK, Busy
<1>2. \A x, y : Range(<<x>>) = {x} /\ Range(<<x, y>>) = {x, y}
  BY DEF Range
<1>3. Range(<<>>) = {}
  BY DEF Range
<1>4. request[c].call \in Call =>
        RowLocks(request[c].call) \cup {ItemLock} = Range(LocksOf(request[c].call))
  <2> SUFFICES ASSUME request[c].call \in Call
               PROVE  RowLocks(request[c].call) \cup {ItemLock} = Range(LocksOf(request[c].call))
    OBVIOUS
  <2>1. \/ LocksOf(request[c].call) = <<ItemLock>> /\ RowLocks(request[c].call) = {}
        \/ \E x : /\ LocksOf(request[c].call) = <<x, ItemLock>>
                  /\ RowLocks(request[c].call) = {x}
    <3>1. request[c].call.op # "edit"
      BY DEF Call
    <3>2. QED
      BY <1>1, <3>1, LocksList
  <2>2. CASE LocksOf(request[c].call) = <<ItemLock>> /\ RowLocks(request[c].call) = {}
    BY <1>2, <2>2
  <2>3. ASSUME NEW x, LocksOf(request[c].call) = <<x, ItemLock>>,
               RowLocks(request[c].call) = {x}
        PROVE  RowLocks(request[c].call) \cup {ItemLock} = Range(LocksOf(request[c].call))
    <3>1. Range(LocksOf(request[c].call)) = {x, ItemLock}
      BY <1>2, <2>3, Zenon
    <3>2. QED
      BY <2>3, <3>1
  <2>4. QED
    BY <2>1, <2>2, <2>3
<1>5. request[c].held \cup Range(request[c].todo) = Range(LocksOf(request[c].call))
  BY <1>1, <1>2, <1>3, <1>4, Zenon DEF RowOK
<1>6. Cardinality(request[c].writes) <= 1
  <2>1. request[c].writes = {} \/ \E w : request[c].writes = {w}
    BY <1>1 DEF RowOK
  <2>2. Cardinality(request[c].writes) \in {0, 1}
    BY <2>1, FS_EmptySet, FS_Singleton, Zenon
  <2>3. QED
    BY <2>2
<1>7. QED
  BY <1>1, <1>5, <1>6

LEMMA RequestTypes ==
  ASSUME TypeOK, LockInv
  PROVE  RequestTypeOK
<1>1. \A c \in Client : ~Busy(c) => request[c] = Idle
  BY DEF LockInv, RowOK, Busy
<1>2. QED
  BY <1>1, LocksOfCall DEF RequestTypeOK, LockInv

-----------------------------------------------------------------------------
(* With order edits, which take no lock.                                   *)

\* The columns a statement writes are of their types.
WriteOK(write) ==
  /\ "status" \in write.columns => write.line.status \in {"Ordered", "Arrived"}
  /\ "amount" \in write.columns => write.line.amount \in Nat
  /\ "ordered" \in write.columns => write.line.ordered \in Nat
  /\ "project" \in write.columns => write.line.project \in Project \cup {NoProject}
  /\ "eta" \in write.columns => write.line.eta \in 0 .. MaxEta

LinesOK(lines) == \A n \in DOMAIN lines : WriteOK(lines[n])

\* What a creation has worked out, whatever becomes of the order lines.
CreateKept(call, w) ==
  \E r \in Reservation, stock \in [Location -> Nat], open \in [Source -> Nat] :
    /\ reservations[r].status = "Unused"
    /\ \A l \in Location : stock[l] <= Monus(onHand[l], AllocatedAt(l))
    /\ Total(stock) + Total(open) = call.quantity
    /\ w = RowWrites(r, [status |-> "ACTIVE", quantity |-> call.quantity,
                         project |-> call.project], stock, open)

\* The same of an arrival: what it converts leaves the incoming rows.
ArriveKept(call, w) ==
  \E lines : \E rows \in [Reservation -> [Source -> Nat]], conversion \in [Reservation -> Nat] :
    /\ LinesOK(lines)
    /\ \A r \in Reservation : Total(rows[r]) + conversion[r] = Total(incoming[r])
    /\ Total(conversion) <= call.quantity
    /\ w = ArrivalWrites(call, lines, rows, conversion)

\* What a request has worked out that no edit can change.
Kept(call, w) ==
  /\ call.op = "create" => CreateKept(call, w)
  /\ call.op = "release" => w \in ReleaseWrites(call)
  /\ call.op = "consume" => w \in ConsumeWrites(call)
  /\ call.op = "arrive" => ArriveKept(call, w)
  /\ call.op = "edit" => \E lines : LinesOK(lines) /\ w = LineWrites(lines)

EditInv ==
  /\ TypeOK
  /\ BackingMatchesQuantity
  /\ StockCoversAllocations
  /\ LockInv
  /\ \A c \in Client, call \in Call \cup Edit :
       request[c].call = call => \A w \in request[c].writes : Kept(call, w)

LEMMA KeptStays ==
  ASSUME UNCHANGED <<onHand, reservations, allocated, incoming>>, NEW call, NEW w
  PROVE  Kept(call, w)' <=> Kept(call, w)
<1>1. CreateKept(call, w)' <=> CreateKept(call, w)
  BY DEF CreateKept, AllocatedAt
<1>2. ReleaseWrites(call)' = ReleaseWrites(call)
  BY DEF ReleaseWrites, Active, Reduced
<1>3. ConsumeWrites(call)' = ConsumeWrites(call)
  BY DEF ConsumeWrites, Active, Reduced
<1>4. ArriveKept(call, w)' <=> ArriveKept(call, w)
  BY DEF ArriveKept
<1>5. QED
  BY <1>1, <1>2, <1>3, <1>4 DEF Kept

LEMMA CreateKeeps ==
  ASSUME TypeOK, NEW call \in Call, call.op = "create", NEW w \in CreateWrites(call)
  PROVE  CreateKept(call, w)
<1> DEFINE q == call.quantity
           preferredQty == PreferredQuantity(call.order, q)
           stockQty     == Smaller(Total(Available), q - preferredQty)
           shortfall    == q - preferredQty - stockQty
           supply       == OpenSupply(call.project, call.order)
           row          == [status |-> "ACTIVE", quantity |-> q, project |-> call.project]
<1>1. q \in 1 .. MaxQuantity /\ call.order \in Source
  BY DEF Call, Source
<1>2. PICK r \in Reservation, stock \in Draws(Available, stockQty), open \in Draws(supply, shortfall) :
        /\ NextUnused(reservations, r)
        /\ w = RowWrites(r, row, stock, [open EXCEPT ![call.order] = preferredQty])
  <2> HIDE DEF row
  <2> QED BY DEF CreateWrites, row
<1>3. preferredQty \in Nat /\ stockQty \in Nat /\ shortfall \in Nat /\ q \in Nat
  BY <1>1, CreateSplit, ConstantsAssumption
<1>4. /\ stock \in [Location -> Nat] /\ Total(stock) = stockQty
      /\ \A l \in Location : stock[l] <= Available[l]
  <2> HIDE DEF stockQty
  <2> QED BY <1>3, ReadsType, DrawType
<1>5. open \in [Source -> Nat] /\ Total(open) = shortfall /\ open[call.order] = 0
  <2>1. supply \in [Source -> Nat] /\ supply[call.order] = 0
    <3>1. supply \in [Source -> Nat]
      BY ReadsType
    <3>2. supply[call.order] = 0
      BY <1>1 DEF OpenSupply
    <3>3. QED
      BY <3>1, <3>2
  <2> HIDE DEF supply, shortfall
  <2>2. open \in [Source -> Nat] /\ open[call.order] <= supply[call.order] /\ Total(open) = shortfall
    BY <1>1, <1>3, <2>1, DrawType
  <2> QED BY <1>1, <2>1, <2>2
<1> DEFINE opened == [open EXCEPT ![call.order] = preferredQty]
<1>6. opened \in [Source -> Nat] /\ Total(stock) + Total(opened) = q
  <2>1. Total(opened) = Total(open) + preferredQty /\ opened \in [Source -> Nat]
    <3> HIDE DEF preferredQty, shortfall
    <3> QED BY <1>1, <1>3, <1>5, PreferredAdds
  <2>2. Total(opened) = shortfall + preferredQty
    <3> HIDE DEF opened, preferredQty, shortfall
    <3> QED BY <1>3, <1>5, <2>1
  <2> HIDE DEF opened, preferredQty, stockQty
  <2>3. QED
    BY <1>3, <1>4, <2>1, <2>2
<1>7. \A l \in Location : stock[l] <= Monus(onHand[l], AllocatedAt(l))
  <2>1. ASSUME NEW l \in Location PROVE stock[l] <= Monus(onHand[l], AllocatedAt(l))
    <3>1. Available[l] \in {0, Monus(onHand[l], AllocatedAt(l))}
      BY DEF Available
    <3>2. Monus(onHand[l], AllocatedAt(l)) \in Nat /\ stock[l] \in Nat
      BY <1>4, ReadsType DEF Monus, TypeOK
    <3>3. QED
      BY <1>4, <3>1, <3>2
  <2>2. QED
    BY <2>1
<1>8. w = RowWrites(r, row, stock, opened) /\ reservations[r].status = "Unused"
  BY <1>2 DEF NextUnused
<1> HIDE DEF opened
<1>9. QED
  BY <1>4, <1>6, <1>7, <1>8 DEF CreateKept

\* Incoming rows without those converted.
LEMMA RowsLeftType ==
  ASSUME TypeOK, NEW o \in Order, NEW c \in [Reservation -> Nat],
         \A r \in Reservation : c[r] <= incoming[r][o]
  PROVE  /\ RowsLeft(o, c) \in [Reservation -> [Source -> Nat]]
         /\ \A r \in Reservation : Total(RowsLeft(o, c)[r]) + c[r] = Total(incoming[r])
<1> DEFINE rows == RowsLeft(o, c)
<1>1. ASSUME NEW r \in Reservation
      PROVE  /\ incoming[r] \in [Source -> Nat] /\ rows[r] \in [Source -> Nat]
             /\ o \in Source /\ rows[r][o] = incoming[r][o] - c[r]
             /\ \A s \in Source : s # o => rows[r][s] = incoming[r][s]
             /\ incoming[r][o] \in Nat /\ c[r] \in Nat /\ c[r] <= incoming[r][o]
  <2>1. incoming[r] \in [Source -> Nat] /\ o \in Source /\ c[r] \in Nat /\ c[r] <= incoming[r][o]
    BY DEF TypeOK, Source
  <2>2. rows[r] = [incoming[r] EXCEPT ![o] = @ - c[r]]
    BY DEF RowsLeft
  <2> HIDE DEF rows
  <2>3. incoming[r][o] - c[r] \in Nat
    BY <2>1
  <2>4. QED
    BY <2>1, <2>2, <2>3
<1>2. rows \in [Reservation -> [Source -> Nat]]
  <2>1. rows = [r \in Reservation |-> rows[r]]
    BY DEF RowsLeft
  <2> HIDE DEF rows
  <2> QED BY <1>1, <2>1
<1> HIDE DEF rows
<1>3. ASSUME NEW r \in Reservation
      PROVE  Total(rows[r]) + c[r] = Total(incoming[r])
  <2>1. Total(rows[r]) + incoming[r][o] = Total(incoming[r]) + rows[r][o]
    BY <1>1, Finite, TotalChange
  <2>2. Total(incoming[r]) \in Nat /\ Total(rows[r]) \in Nat
    BY <1>1, Finite, TotalType
  <2>3. /\ rows[r][o] = incoming[r][o] - c[r]
        /\ incoming[r][o] \in Nat /\ c[r] \in Nat
    BY <1>1
  <2>4. QED
    BY <2>1, <2>2, <2>3
<1>4. QED
  BY <1>2, <1>3 DEF rows

\* Incoming rows without those converted, the rest of them on another line.
LEMMA RowsMovedType ==
  ASSUME TypeOK, NEW o \in Order, NEW n \in Order, n # o, NEW c \in [Reservation -> Nat],
         \A r \in Reservation : c[r] <= incoming[r][o]
  PROVE  /\ RowsMoved(o, n, c) \in [Reservation -> [Source -> Nat]]
         /\ \A r \in Reservation : Total(RowsMoved(o, n, c)[r]) + c[r] = Total(incoming[r])
<1> DEFINE rows == RowsMoved(o, n, c)
<1>1. ASSUME NEW r \in Reservation
      PROVE  /\ incoming[r] \in [Source -> Nat] /\ o \in Source /\ n \in Source
             /\ incoming[r][n] \in Nat /\ incoming[r][o] \in Nat
             /\ c[r] \in Nat /\ c[r] <= incoming[r][o]
  BY DEF TypeOK, Source
<1>2. ASSUME NEW r \in Reservation
      PROVE  /\ rows[r] \in [Source -> Nat]
             /\ rows[r][o] = 0 /\ rows[r][n] = incoming[r][n] + incoming[r][o] - c[r]
             /\ \A s \in Source : s # o /\ s # n => rows[r][s] = incoming[r][s]
  <2>1. rows[r] = [incoming[r] EXCEPT ![o] = 0, ![n] = @ + incoming[r][o] - c[r]]
    BY DEF RowsMoved
  <2> HIDE DEF rows
  <2>2. incoming[r][n] + incoming[r][o] - c[r] \in Nat
    BY <1>1
  <2>3. QED
    BY <1>1, <2>1, <2>2
<1>3. rows \in [Reservation -> [Source -> Nat]]
  <2>1. rows = [r \in Reservation |-> rows[r]]
    BY DEF RowsMoved
  <2> HIDE DEF rows
  <2> QED BY <1>2, <2>1
<1> HIDE DEF rows
<1>4. ASSUME NEW r \in Reservation
      PROVE  Total(rows[r]) + c[r] = Total(incoming[r])
  <2> DEFINE left == [incoming[r] EXCEPT ![o] = @ - c[r]]
  <2>1. /\ left \in [Source -> Nat] /\ left[o] = incoming[r][o] - c[r]
        /\ \A s \in Source : s # o => left[s] = incoming[r][s]
    BY <1>1
  <2> HIDE DEF left
  <2>2. Total(left) + incoming[r][o] = Total(incoming[r]) + left[o]
    BY <1>1, <2>1, Finite, TotalChange
  <2>3. Total(rows[r]) = Total(left)
    <3>1. rows[r][o] + rows[r][n] = left[o] + left[n]
      BY <1>1, <1>2, <2>1
    <3>2. \A s \in Source : s # o /\ s # n => rows[r][s] = left[s]
      BY <1>2, <2>1
    <3>3. /\ left \in [Source -> Nat] /\ rows[r] \in [Source -> Nat]
          /\ o \in Source /\ n \in Source
      BY <1>1, <1>2, <2>1
    <3>4. QED
      BY <3>1, <3>2, <3>3, Finite, TotalMoved
  <2>4. Total(incoming[r]) \in Nat /\ Total(left) \in Nat
    BY <1>1, <2>1, Finite, TotalType
  <2>5. incoming[r][o] \in Nat /\ c[r] \in Nat
    BY <1>1
  <2>6. QED
    BY <2>1, <2>2, <2>3, <2>4, <2>5
<1>5. QED
  BY <1>3, <1>4 DEF rows

LEMMA ArriveKeptBy ==
  ASSUME NEW call, NEW lines, NEW rows, NEW conversion, LinesOK(lines),
         rows \in [Reservation -> [Source -> Nat]], conversion \in [Reservation -> Nat],
         \A r \in Reservation : Total(rows[r]) + conversion[r] = Total(incoming[r]),
         Total(conversion) <= call.quantity
  PROVE  ArriveKept(call, ArrivalWrites(call, lines, rows, conversion))
BY Zenon DEF ArriveKept

LEMMA ArriveKeeps ==
  ASSUME TypeOK, NEW call \in Call, call.op = "arrive", NEW pending,
         NEW w \in ArriveWrites(call, pending)
  PROVE  ArriveKept(call, w)
<1> DEFINE q == call.quantity
           o == call.order
<1>1. q \in 1 .. MaxQuantity /\ q \in Nat /\ o \in Order
  BY ConstantsAssumption DEF Call
<1>2. orders[o].status = "Ordered" /\ orders[o] \in OrderLine
  BY <1>1 DEF ArriveWrites, TypeOK
<1>3. ASSUME NEW conversion \in Conversions(o, q)
      PROVE  /\ conversion \in [Reservation -> Nat]
             /\ \A r \in Reservation : conversion[r] <= incoming[r][o]
             /\ Total(conversion) <= q
  <2>1. /\ conversion \in [Reservation -> Nat]
        /\ \A r \in Reservation : conversion[r] <= incoming[r][o]
        /\ Total(conversion) = Smaller(q, IncomingFor(o))
    BY <1>1, ConversionType
  <2>2. IncomingFor(o) \in Nat
    BY <1>1, ReadsType DEF Source
  <2>3. QED
    BY <1>1, <2>1, <2>2 DEF Smaller
<1>4. CASE q = orders[o].amount
  <2> DEFINE lines == Only(o, ArrivedLine(o, q))
  <2>1. PICK conversion \in Conversions(o, q) :
          w = ArrivalWrites(call, lines, RowsLeft(o, conversion), conversion)
    BY <1>2, <1>4 DEF ArriveWrites
  <2>2. LinesOK(lines)
    BY <1>4 DEF LinesOK, Only, WriteOK, ArrivedLine, Write, LineOf
  <2>3. /\ RowsLeft(o, conversion) \in [Reservation -> [Source -> Nat]]
        /\ \A r \in Reservation :
             Total(RowsLeft(o, conversion)[r]) + conversion[r] = Total(incoming[r])
    BY <1>1, <1>3, RowsLeftType
  <2> HIDE DEF lines
  <2>4. conversion \in [Reservation -> Nat] /\ Total(conversion) <= call.quantity
    BY <1>3
  <2>5. ArriveKept(call, ArrivalWrites(call, lines, RowsLeft(o, conversion), conversion))
    BY <2>2, <2>3, <2>4, ArriveKeptBy, Zenon
  <2>6. QED
    BY <2>1, <2>5, Zenon
<1>5. CASE q # orders[o].amount
  <2>1. PICK n \in NewLines(pending), conversion \in Conversions(o, q) :
          /\ w = ArrivalWrites(call, SplitLines(o, n, q), RowsMoved(o, n, conversion), conversion)
          /\ IntegerSafeSplit(o, q)
    BY <1>2, <1>5 DEF ArriveWrites
  <2>2. n \in Order /\ n # o
    BY <1>2, <2>1 DEF NewLines
  <2>3. LinesOK(SplitLines(o, n, q))
    <3>1. /\ OrderedShare(o, q) \in Nat /\ orders[o].ordered - OrderedShare(o, q) \in Nat
          /\ orders[o].amount - q \in Nat
      BY <1>1, <2>1, SplitType
    <3>2. WriteOK(ArrivedLine(o, q))
      BY <1>1, <1>5, <3>1 DEF WriteOK, ArrivedLine, Write, LineOf
    <3>3. WriteOK(RestOf(o, q))
      BY <1>2, <3>1 DEF WriteOK, RestOf, Write, LineOf, OrderLine
    <3>4. QED
      BY <3>2, <3>3 DEF LinesOK, SplitLines
  <2>4. /\ RowsMoved(o, n, conversion) \in [Reservation -> [Source -> Nat]]
        /\ \A r \in Reservation :
             Total(RowsMoved(o, n, conversion)[r]) + conversion[r] = Total(incoming[r])
    BY <1>1, <1>3, <2>2, RowsMovedType
  <2> DEFINE lines == SplitLines(o, n, q)
             rows  == RowsMoved(o, n, conversion)
  <2>5. conversion \in [Reservation -> Nat] /\ Total(conversion) <= call.quantity
    BY <1>3
  <2>6. ArriveKept(call, ArrivalWrites(call, lines, rows, conversion))
    BY <2>3, <2>4, <2>5, ArriveKeptBy, Zenon
  <2>7. QED
    BY <2>1, <2>6, Zenon
<1>6. QED
  BY <1>4, <1>5

LEMMA EditKeeps ==
  ASSUME TypeOK, NEW call \in Edit, NEW pending, NEW w \in EditWrites(call, pending)
  PROVE  \E lines : LinesOK(lines) /\ w = LineWrites(lines)
<1> DEFINE o == call.order
<1>1. /\ o \in Order /\ call.eta \in 0 .. MaxEta /\ call.part \in 0 .. MaxQuantity
      /\ orders[o] \in OrderLine
  BY ConstantsAssumption DEF Edit, TypeOK
<1>2. CASE call.part = 0
  <2>1. w = LineWrites(Only(o, EditedLine(call)))
    BY <1>2 DEF EditWrites
  <2>2. WriteOK(EditedLine(call))
    BY <1>1, <1>2 DEF WriteOK, Write, EditedLine
  <2>3. LinesOK(Only(o, EditedLine(call)))
    BY <2>2 DEF LinesOK, Only
  <2>4. QED
    BY <2>1, <2>3, Zenon
<1>3. CASE call.part # 0
  <2>1. PICK n \in NewLines(pending) :
          w = LineWrites(PartLines(call, n)) /\ IntegerSafeSplit(o, call.part)
    BY <1>3 DEF EditWrites
  <2>2. call.part \in 1 .. MaxQuantity
    BY <1>1, <1>3, ConstantsAssumption
  <2>3. /\ OrderedShare(o, call.part) \in Nat /\ orders[o].ordered - OrderedShare(o, call.part) \in Nat
        /\ call.part \in Nat /\ orders[o].amount - call.part \in Nat
    BY <1>1, <2>1, <2>2, SplitType
  <2>4. WriteOK(EditedLine(call))
    BY <1>1, <1>3, <2>3 DEF WriteOK, Write, EditedLine
  <2>5. WriteOK(PartLine(call))
    BY <1>1, <2>3 DEF WriteOK, Write, PartLine, OrderLine
  <2>6. LinesOK(PartLines(call, n))
    BY <2>4, <2>5 DEF LinesOK, PartLines
  <2>7. QED
    BY <2>1, <2>6, Zenon
<1>4. QED
  BY <1>2, <1>3

\* Whatever is worked out is kept, at the time.
LEMMA AllKept ==
  ASSUME TypeOK, NEW call \in Call \cup Edit, NEW pending, NEW w \in WritesOf(call, pending)
  PROVE  Kept(call, w)
<1>1. call.op \in {"create", "release", "consume", "arrive", "edit"}
  BY LocksList
<1>2. call.op = "edit" <=> call \in Edit
  BY LocksList
<1>3. CASE call.op = "create"
  BY <1>2, <1>3, CreateKeeps DEF WritesOf, Kept
<1>4. CASE call.op = "release"
  BY <1>4 DEF WritesOf, Kept
<1>5. CASE call.op = "consume"
  BY <1>5 DEF WritesOf, Kept
<1>6. CASE call.op = "arrive"
  BY <1>2, <1>6, ArriveKeeps DEF WritesOf, Kept
<1>7. CASE call.op = "edit"
  BY <1>2, <1>7, EditKeeps DEF WritesOf, Kept
<1>8. QED
  BY <1>1, <1>3, <1>4, <1>5, <1>6, <1>7

\* A statement changes a line into a line, whatever it was.
LEMMA LinesTyped ==
  ASSUME TypeOK, NEW w, LinesOK(w.orders), Apply(w)
  PROVE  orders' \in [Order -> OrderLine]
<1>1. ASSUME NEW o \in Order, o \in DOMAIN w.orders
      PROVE  Written(orders[o], w.orders[o]) \in OrderLine
  <2>1. WriteOK(w.orders[o]) /\ orders[o] \in OrderLine
    BY <1>1 DEF LinesOK, TypeOK
  <2>2. \A write, line : WriteOK(write) /\ line \in OrderLine => Written(line, write) \in OrderLine
    BY DEF WriteOK, Written, OrderLine
  <2>3. QED
    BY <2>1, <2>2
<1>2. orders' = [o \in Order |-> IF o \in DOMAIN w.orders
                                THEN Written(orders[o], w.orders[o]) ELSE orders[o]]
  BY DEF Apply
<1>3. \A o \in Order : orders[o] \in OrderLine
  BY DEF TypeOK
<1>4. QED
  BY <1>1, <1>2, <1>3

\* Nothing backs a number no reservation has yet.
LEMMA UnusedHasNothing ==
  ASSUME TypeOK, BackingMatchesQuantity, NEW r \in Reservation, reservations[r].status = "Unused"
  PROVE  \A l \in Location : allocated[r][l] = 0
<1>1. allocated[r] \in [Location -> Nat] /\ Total(allocated[r]) = 0
  BY DEF TypeOK, BackingMatchesQuantity
<1>2. QED
  BY <1>1, Finite, TotalZero

LEMMA CreateSafe ==
  ASSUME TypeOK, BackingMatchesQuantity, StockCoversAllocations,
         NEW call \in Call, call.op = "create", NEW w, CreateKept(call, w), Apply(w)
  PROVE  TypeOK' /\ BackingMatchesQuantity' /\ StockCoversAllocations'
<1> DEFINE row == [status |-> "ACTIVE", quantity |-> call.quantity, project |-> call.project]
<1>1. PICK r \in Reservation, stock \in [Location -> Nat], open \in [Source -> Nat] :
        /\ reservations[r].status = "Unused"
        /\ \A l \in Location : stock[l] <= Monus(onHand[l], AllocatedAt(l))
        /\ Total(stock) + Total(open) = call.quantity
        /\ w = RowWrites(r, row, stock, open)
  <2> HIDE DEF row
  <2> QED BY DEF CreateKept, row
<1>2. row \in ReservationRow /\ row.status = "ACTIVE" /\ row.quantity = call.quantity
  BY ConstantsAssumption DEF ReservationRow, Call
<1> HIDE DEF row
<1>3. /\ w.onHand = NoRows /\ w.orders = NoRows /\ w.received = NoRows
      /\ w.reservations = Only(r, row) /\ w.allocated = Only(r, stock)
      /\ w.incoming = Only(r, open)
  BY <1>1 DEF RowWrites, NoWrites
<1>4. /\ onHand' = onHand /\ orders' = orders
      /\ reservations' = [reservations EXCEPT ![r] = row]
      /\ allocated' = [allocated EXCEPT ![r] = stock]
      /\ incoming' = [incoming EXCEPT ![r] = open]
  BY <1>3, Applied
<1>5. /\ reservations'[r] = row /\ allocated'[r] = stock /\ incoming'[r] = open
      /\ \A k \in Reservation : k # r => /\ reservations'[k] = reservations[k]
                                        /\ allocated'[k] = allocated[k]
                                        /\ incoming'[k] = incoming[k]
  BY <1>4 DEF TypeOK
<1>6. TypeOK'
  BY <1>1, <1>2, <1>4 DEF TypeOK
<1>7. BackingMatchesQuantity'
  <2>1. reservations'[r].quantity = Total(allocated'[r]) + Total(incoming'[r])
    BY <1>1, <1>2, <1>5
  <2>2. QED
    BY <1>2, <1>5, <2>1 DEF BackingMatchesQuantity
<1>8. ASSUME NEW l \in Location PROVE AllocatedAt(l)' <= onHand'[l]
  <2>1. AllocatedAt(l)' + allocated[r][l] = AllocatedAt(l) + allocated'[r][l]
    BY <1>5, <1>6, AllocatedAtChange
  <2>2. allocated[r][l] = 0 /\ allocated'[r][l] <= Monus(onHand[l], AllocatedAt(l))
    BY <1>1, <1>5, UnusedHasNothing
  <2>3. /\ AllocatedAt(l) \in Nat /\ onHand[l] \in Nat /\ AllocatedAt(l) <= onHand[l]
        /\ allocated'[r][l] \in Nat
    BY <1>6, ReadsType DEF TypeOK, StockCoversAllocations
  <2>4. AllocatedAt(l)' \in Nat
    <3>1. [k \in Reservation |-> allocated'[k][l]] \in [Reservation -> Nat]
      BY <1>6 DEF TypeOK
    <3>2. QED
      BY <3>1, Finite, TotalType DEF AllocatedAt
  <2>5. onHand'[l] = onHand[l]
    BY <1>4
  <2>6. QED
    BY <2>1, <2>2, <2>3, <2>4, <2>5 DEF Monus
<1>9. QED
  BY <1>6, <1>7, <1>8 DEF StockCoversAllocations

LEMMA ArriveSafe ==
  ASSUME TypeOK, BackingMatchesQuantity, StockCoversAllocations,
         NEW call \in Call, call.op = "arrive", NEW w, ArriveKept(call, w), Apply(w)
  PROVE  TypeOK' /\ BackingMatchesQuantity' /\ StockCoversAllocations'
<1> DEFINE at == call.location
<1>1. at \in Location /\ call.quantity \in Nat
  BY RequestsAssumption, ConstantsAssumption DEF Call
<1>2. PICK lines : \E rows \in [Reservation -> [Source -> Nat]], conversion \in [Reservation -> Nat] :
        /\ LinesOK(lines)
        /\ \A r \in Reservation : Total(rows[r]) + conversion[r] = Total(incoming[r])
        /\ Total(conversion) <= call.quantity
        /\ w = ArrivalWrites(call, lines, rows, conversion)
  BY Zenon DEF ArriveKept
<1>3. PICK rows \in [Reservation -> [Source -> Nat]], c \in [Reservation -> Nat] :
        /\ LinesOK(lines)
        /\ \A r \in Reservation : Total(rows[r]) + c[r] = Total(incoming[r])
        /\ Total(c) <= call.quantity
        /\ w = ArrivalWrites(call, lines, rows, c)
  BY <1>2, Zenon
<1>4. DOMAIN rows = Reservation /\ rows = [r \in Reservation |-> rows[r]]
  OBVIOUS
<1>5. Apply(ArrivalWrites(call, lines, rows, c))
  BY <1>3
<1>6. /\ onHand' = [onHand EXCEPT ![at] = @ + call.quantity]
      /\ allocated' = [r \in Reservation |-> [allocated[r] EXCEPT ![at] = @ + c[r]]]
      /\ incoming' = rows
  BY <1>1, <1>4, <1>5, ArrivalApplied
<1>7. reservations' = reservations
  <2>1. w.reservations = NoRows
    BY <1>3 DEF ArrivalWrites, NoWrites
  <2>2. QED
    BY <2>1, Applied
<1>8. orders' \in [Order -> OrderLine]
  <2>1. w.orders = lines
    BY <1>3 DEF ArrivalWrites, NoWrites
  <2>2. QED
    BY <1>3, <2>1, LinesTyped
<1>9. /\ allocated' \in [Reservation -> [Location -> Nat]]
      /\ \A r \in Reservation : Total(allocated'[r]) = Total(allocated[r]) + c[r]
      /\ AllocatedAt(at)' = AllocatedAt(at) + Total(c)
      /\ \A k \in Location : k # at => AllocatedAt(k)' = AllocatedAt(k)
  BY <1>1, <1>6, ConvertedStock
<1>10. /\ onHand' \in [Location -> Nat] /\ onHand'[at] = onHand[at] + call.quantity
       /\ \A k \in Location : k # at => onHand'[k] = onHand[k]
  BY <1>1, <1>6 DEF TypeOK
<1>11. TypeOK'
  BY <1>6, <1>7, <1>8, <1>9, <1>10 DEF TypeOK
<1>12. ASSUME NEW r \in Reservation
       PROVE  Total(allocated'[r]) + Total(incoming'[r]) = Total(allocated[r]) + Total(incoming[r])
              /\ c[r] \in Nat /\ Total(allocated[r]) \in Nat /\ Total(incoming'[r]) \in Nat
  <2>1. Total(allocated'[r]) = Total(allocated[r]) + c[r]
    BY <1>9
  <2>2. Total(incoming'[r]) + c[r] = Total(incoming[r])
    BY <1>3, <1>6
  <2>3. allocated[r] \in [Location -> Nat] /\ incoming'[r] \in [Source -> Nat]
    BY <1>11 DEF TypeOK
  <2>4. Total(allocated[r]) \in Nat /\ Total(incoming'[r]) \in Nat /\ c[r] \in Nat
    BY <2>3, Finite, TotalType
  <2>5. QED
    BY <2>1, <2>2, <2>4
<1>13. BackingMatchesQuantity'
  <2> SUFFICES ASSUME NEW r \in Reservation
               PROVE  IF reservations'[r].status = "ACTIVE"
                      THEN reservations'[r].quantity = Total(allocated'[r]) + Total(incoming'[r])
                      ELSE Total(allocated'[r]) = 0 /\ Total(incoming'[r]) = 0
    BY DEF BackingMatchesQuantity
  <2>1. Total(allocated'[r]) = Total(allocated[r]) + c[r]
    BY <1>9
  <2>2. /\ Total(allocated'[r]) + Total(incoming'[r]) = Total(allocated[r]) + Total(incoming[r])
        /\ c[r] \in Nat /\ Total(allocated[r]) \in Nat /\ Total(incoming'[r]) \in Nat
    BY <1>12
  <2>3. IF reservations[r].status = "ACTIVE"
        THEN reservations[r].quantity = Total(allocated[r]) + Total(incoming[r])
        ELSE Total(allocated[r]) = 0 /\ Total(incoming[r]) = 0
    BY DEF BackingMatchesQuantity
  <2>4. QED
    BY <1>7, <2>1, <2>2, <2>3
<1>14. ASSUME NEW l \in Location PROVE AllocatedAt(l)' <= onHand'[l]
  <2>1. AllocatedAt(l) \in Nat /\ onHand[l] \in Nat /\ AllocatedAt(l) <= onHand[l]
    BY ReadsType DEF TypeOK, StockCoversAllocations
  <2>2. Total(c) \in Nat /\ Total(c) <= call.quantity
    BY <1>3, Finite, TotalType
  <2>3. CASE l = at
    BY <1>1, <1>9, <1>10, <2>1, <2>2, <2>3
  <2>4. CASE l # at
    BY <1>9, <1>10, <2>1, <2>4
  <2>5. QED
    BY <2>3, <2>4
<1>15. QED
  BY <1>11, <1>13, <1>14 DEF StockCoversAllocations

\* An edit changes order lines, and nothing a reservation rests on.
LEMMA EditSafe ==
  ASSUME TypeOK, BackingMatchesQuantity, StockCoversAllocations,
         NEW lines, LinesOK(lines), Apply(LineWrites(lines))
  PROVE  /\ TypeOK' /\ BackingMatchesQuantity' /\ StockCoversAllocations'
         /\ UNCHANGED <<onHand, reservations, allocated, incoming>>
<1> DEFINE w == LineWrites(lines)
<1>1. /\ w.orders = lines /\ w.onHand = NoRows /\ w.reservations = NoRows
      /\ w.incoming = NoRows /\ w.allocated = NoRows /\ w.received = NoRows
  BY DEF LineWrites, NoWrites
<1> HIDE DEF w
<1>2. Apply(w)
  BY DEF w
<1>3. onHand' = onHand /\ reservations' = reservations /\ incoming' = incoming
  BY <1>1, <1>2, Applied
<1>4. allocated' = allocated
  BY <1>1, <1>2 DEF Apply, NoRows, TypeOK
<1>5. orders' \in [Order -> OrderLine]
  BY <1>1, <1>2, LinesTyped
<1>6. TypeOK'
  BY <1>3, <1>4, <1>5 DEF TypeOK
<1>7. BackingMatchesQuantity'
  BY <1>3, <1>4 DEF BackingMatchesQuantity
<1>8. StockCoversAllocations'
  BY <1>3, <1>4 DEF StockCoversAllocations, AllocatedAt
<1>9. QED
  BY <1>3, <1>4, <1>6, <1>7, <1>8

LEMMA CommitSafe ==
  ASSUME EditInv, NEW c \in Client, NEW call \in Call \cup Edit, request[c].call = call,
         NEW w \in request[c].writes, Apply(w)
  PROVE  /\ TypeOK' /\ BackingMatchesQuantity' /\ StockCoversAllocations'
         /\ call \in Edit => UNCHANGED <<onHand, reservations, allocated, incoming>>
<1>1. Kept(call, w) /\ TypeOK /\ BackingMatchesQuantity /\ StockCoversAllocations
  BY DEF EditInv
<1>2. /\ call.op \in {"create", "release", "consume", "arrive", "edit"}
      /\ call.op = "edit" <=> call \in Edit
  BY LocksList DEF Call, Edit
<1>3. CASE call.op = "create"
  BY <1>1, <1>2, <1>3, CreateSafe DEF Kept
<1>4. ASSUME Next, call \in Call
      PROVE  TypeOK' /\ BackingMatchesQuantity' /\ StockCoversAllocations'
  BY <1>1, <1>4, TypeStep, BackingStep, StockStep
<1>5. CASE call.op = "release"
  <2>1. w \in WritesOf(call, {}) /\ call \in Call
    BY <1>1, <1>2, <1>5 DEF Kept, WritesOf
  <2>2. QED
    BY <1>1, <1>2, <1>4, <1>5, <2>1, ReleaseCommits
<1>6. CASE call.op = "consume"
  <2>1. w \in WritesOf(call, {}) /\ call \in Call
    BY <1>1, <1>2, <1>6 DEF Kept, WritesOf
  <2>2. QED
    BY <1>1, <1>2, <1>4, <1>6, <2>1, ConsumeCommits
<1>7. CASE call.op = "arrive"
  BY <1>1, <1>2, <1>7, ArriveSafe DEF Kept
<1>8. CASE call.op = "edit"
  <2>1. PICK lines : LinesOK(lines) /\ w = LineWrites(lines)
    BY <1>1, <1>8 DEF Kept
  <2>2. Apply(LineWrites(lines))
    BY <2>1
  <2>3. QED
    BY <1>1, <2>1, <2>2, EditSafe
<1>9. QED
  BY <1>2, <1>3, <1>5, <1>6, <1>7, <1>8

\* What an edit has worked out can be written whatever the others do.
LEMMA EditKeptAlways ==
  ASSUME NEW call, call.op = "edit", NEW w
  PROVE  Kept(call, w)' <=> Kept(call, w)
BY DEF Kept, LinesOK, WriteOK, LineWrites

LEMMA EditStep ==
  ASSUME EditInv, [RequestNext]_requestVars
  PROVE  EditInv'
<1>1. LockInv'
  BY LockStep DEF EditInv
<1>2. ASSUME UNCHANGED vars,
             \A c \in Client, call \in Call \cup Edit :
               request'[c].call = call => \A w \in request'[c].writes : Kept(call, w)
      PROVE  EditInv'
  <2>1. UNCHANGED <<onHand, orders, reservations, allocated, incoming>>
    BY <1>2 DEF vars
  <2>2. TypeOK' /\ BackingMatchesQuantity' /\ StockCoversAllocations'
    <3>1. [Next]_vars
      BY <1>2
    <3>2. QED
      BY <3>1, TypeStep, BackingStep, StockStep DEF EditInv
  <2>3. ASSUME NEW c \in Client, NEW call \in Call \cup Edit, request'[c].call = call,
               NEW w \in request'[c].writes
        PROVE  Kept(call, w)'
    BY <1>2, <2>1, <2>3, KeptStays
  <2>4. QED
    BY <1>1, <2>2, <2>3 DEF EditInv
<1>3. ASSUME NEW c \in Client, Acquire(c) PROVE EditInv'
  <2>1. /\ request'[c].call = request[c].call /\ request'[c].writes = request[c].writes
        /\ \A d \in Client : d # c => request'[d] = request[d]
    BY <1>3 DEF Acquire, EditInv, LockInv, RowOK
  <2>2. QED
    BY <1>2, <1>3, <2>1 DEF Acquire, EditInv
<1>4. ASSUME NEW c \in Client, Prepare(c) PROVE EditInv'
  <2>1. PICK w \in WritesOf(request[c].call, Pending) : request' = [request EXCEPT ![c].writes = {w}]
    BY <1>4 DEF Prepare
  <2>2. /\ request'[c].call = request[c].call /\ request'[c].writes = {w}
        /\ \A d \in Client : d # c => request'[d] = request[d]
    BY <2>1 DEF EditInv, LockInv, RowOK
  <2>3. \A call \in Call \cup Edit : request[c].call = call => Kept(call, w)
    BY <2>1, AllKept DEF EditInv
  <2>4. QED
    BY <1>2, <1>4, <2>2, <2>3 DEF Prepare, EditInv
<1>5. ASSUME NEW c \in Client, UNCHANGED vars, request' = [request EXCEPT ![c] = Idle]
      PROVE  EditInv'
  <2>1. request'[c] = Idle /\ \A d \in Client : d # c => request'[d] = request[d]
    BY <1>5 DEF EditInv, LockInv
  <2>2. Idle.writes = {}
    BY DEF Idle
  <2>3. QED
    BY <1>2, <1>5, <2>1, <2>2 DEF EditInv
<1>6. ASSUME NEW c \in Client, Commit(c) PROVE EditInv'
  <2>1. PICK w \in request[c].writes : Apply(w) /\ request' = [request EXCEPT ![c] = Idle]
    BY <1>6 DEF Commit
  <2>2. /\ request'[c].writes = {} /\ \A d \in Client : d # c => request'[d] = request[d]
    BY <2>1 DEF EditInv, LockInv, Idle
  <2>3. RowOK(request[c]) /\ request[c].writes # {}
    BY <2>1 DEF EditInv, LockInv
  <2>4. request[c].call \in Call \cup Edit /\ request[c].todo = <<>>
    BY <2>3 DEF RowOK, Idle
  <2>5. /\ TypeOK' /\ BackingMatchesQuantity' /\ StockCoversAllocations'
        /\ request[c].call \in Edit => UNCHANGED <<onHand, reservations, allocated, incoming>>
    BY <2>1, <2>4, CommitSafe
  <2>6. ASSUME NEW d \in Client, NEW call \in Call \cup Edit, request'[d].call = call,
               NEW v \in request'[d].writes
        PROVE  Kept(call, v)'
    <3>1. d # c /\ request'[d] = request[d]
      BY <2>2, <2>6
    <3>2. Kept(call, v) /\ request[d].call = call /\ request[d].writes # {}
      BY <2>6, <3>1 DEF EditInv
    <3>3. CASE call \in Edit
      <4>1. call.op = "edit"
        BY <3>3 DEF Edit
      <4>2. QED
        BY <3>2, <4>1, EditKeptAlways
    <3>4. CASE call \in Call
      <4>1. RowOK(request[d]) /\ request[d].call # NoCall
        BY <3>2, <3>4, RequestsAssumption DEF EditInv, LockInv
      <4>2. request[d].todo = <<>>
        BY <3>2, <4>1 DEF RowOK
      <4>3. request[c].call \in Edit
        BY <2>3, <2>4, <3>1, <3>2, <3>4, <4>2, WriterHoldsItem DEF EditInv
      <4>4. QED
        BY <2>5, <3>2, <4>3, KeptStays
    <3>5. QED
      BY <3>3, <3>4
  <2>7. QED
    BY <1>1, <2>5, <2>6 DEF EditInv
<1>7. ASSUME NEW c \in Client, NEW call \in Call \cup Edit, Begin(c, call) PROVE EditInv'
  <2>1. /\ request'[c].writes = {} /\ \A d \in Client : d # c => request'[d] = request[d]
    BY <1>7 DEF Begin, Idle, EditInv, LockInv
  <2>2. QED
    BY <1>2, <1>7, <2>1 DEF Begin, EditInv
<1>8. CASE UNCHANGED requestVars
  BY <1>2, <1>8 DEF requestVars, EditInv
<1>9. QED
  BY <1>3, <1>4, <1>5, <1>6, <1>7, <1>8
     DEF RequestNext, LockedNext, Work, Step, Reject, Abort, Close

LEMMA EditInit == RequestInit => EditInv
<1> SUFFICES ASSUME RequestInit PROVE EditInv
  OBVIOUS
<1>1. TypeOK /\ BackingMatchesQuantity /\ StockCoversAllocations /\ LockInv
  BY TypeInit, BackingInit, StockInit, LockInit DEF RequestInit
<1>2. \A c \in Client : request[c].writes = {}
  BY DEF RequestInit, Idle
<1>3. QED
  BY <1>1, <1>2 DEF EditInv

\* An edit between the reads and the commit of another request, or two edits
\* of one line, leave every reservation backed by what it asks for.
THEOREM EditsKeepBacking == RequestSpec => []BackingMatchesQuantity
<1>1. EditInv => BackingMatchesQuantity
  BY DEF EditInv
<1>2. QED
  BY <1>1, EditInit, EditStep, PTL DEF RequestSpec

\* And the stock of every location covers what is allocated from it.
THEOREM EditsKeepStock == RequestSpec => []StockCoversAllocations
<1>1. EditInv => StockCoversAllocations
  BY DEF EditInv
<1>2. QED
  BY <1>1, EditInit, EditStep, PTL DEF RequestSpec

\* Types, with edits or without; locks are those of the call and nobody else's.
THEOREM RequestTypeCorrect == RequestSpec => []RequestTypeOK
<1>1. EditInv => RequestTypeOK
  BY RequestTypes DEF EditInv
<1>2. QED
  BY <1>1, EditInit, EditStep, PTL DEF RequestSpec

\* The same of the requests that lock, on their own.
THEOREM LockedTypeCorrect == LockedSpec => []RequestTypeOK
<1>1. SerialInv => RequestTypeOK
  BY RequestTypes DEF SerialInv
<1>2. QED
  BY <1>1, SerialInit, SerialStep, PTL DEF LockedSpec
=============================================================================
