------------------------ MODULE TransactionUndoProofs ------------------------
(***************************************************************************)
(* What undos leave true: every history of calls and undos keeps the types *)
(* of the rows, backs no reservation with more than it asks for, leaves    *)
(* one that ended with nothing, and leaves it at most one active row on an *)
(* order line.                                                             *)
(*                                                                         *)
(* None of these is inductive alone.  UndoInv adds what ties the log to    *)
(* the rows: a converted row knows its arrival, two rows that one arrival  *)
(* converted are of different reservations, and the stock row that came of *)
(* a converted row is of its reservation.  An undone arrival then takes    *)
(* from each stock row what one incoming row gets back.                    *)
(* ArrivalsStand ties the log to the order lines: an arrival that is not   *)
(* undone has its line to itself, so what leaves stock is on order again.  *)
(* MarkersInv ties it to the rows that the calls ended: those that a call  *)
(* marked add up to its entry, and an entry names the locations its call   *)
(* moved stock between, so an undo gives back what was taken and no more.  *)
(* SnapshotInv says the same of the entries of undos, and that the ledgers *)
(* there were, one after each entry, lead to the present one: the replay   *)
(* of a past snapshot goes back through them.                              *)
(***************************************************************************)
EXTENDS AllocationRowsProofs, InventorySnapshot

-----------------------------------------------------------------------------
(* The invariant.                                                          *)

\* Every incoming row is of an order line that exists.
LinesUsed(rows, lines) ==
  \A i \in DOMAIN rows : rows[i].place \in Order /\ lines[rows[i].place].status # "Unused"

\* OneActiveRowPerLine, of any rows.
OnePerLine(rows) ==
  \A i, j \in DOMAIN rows :
    /\ i # j /\ rows[i].status = "ACTIVE" /\ rows[j].status = "ACTIVE"
    /\ rows[i].reservation = rows[j].reservation
    => rows[i].place # rows[j].place

ConvertedRows(rows) == { i \in DOMAIN rows : rows[i].status = "CONVERTED" }

\* What the arrival markers of the first n log entries say.
Linked(stock, rows, n) ==
  /\ \A i \in ConvertedRows(rows) : rows[i].arrival[1] \in 1 .. n
  /\ \A i, j \in ConvertedRows(rows) :
       i # j /\ rows[i].arrival[1] = rows[j].arrival[1]
       => /\ rows[i].reservation # rows[j].reservation
          /\ rows[i].arrival # rows[j].arrival
  /\ \A i \in ConvertedRows(rows), j \in DOMAIN stock :
       stock[j].arrival = rows[i].arrival => stock[j].reservation = rows[i].reservation
  /\ \A j \in DOMAIN stock : stock[j].arrival[1] \in 0 .. n

\* What an undo reads of an entry is there.
EntryOK(e, lines) ==
  /\ e.op = "MOVE" => e.from \in Location /\ e.to \in Location
  /\ e.op = "ADJUST" => e.from \in Location \/ e.to \in Location
  /\ e.op = "ARRIVAL" => e.to \in Location
  /\ e.op = "ARRIVAL" /\ e.order # NoOrder => lines[e.order].status # "Unused"
  /\ e.context \in {"create", "release", "consume"} => e.reservation \in Reservation

EntriesOK(entries, lines) == \A k \in DOMAIN entries : EntryOK(entries[k], lines)

\* NeverOverbacked and EndedHoldsNothing in one.
HeldBy(r) ==
  IF reservations[r].status = "ACTIVE"
  THEN Backing(r) <= reservations[r].quantity
  ELSE Backing(r) = 0

Held == \A r \in Reservation : HeldBy(r)

UndoInv ==
  /\ RowsBase
  /\ LinesUsed(incomingRows, orders) /\ OnePerLine(incomingRows)
  /\ Linked(stockRows, incomingRows, Len(log))
  /\ EntriesOK(log, orders)
  /\ Held

-----------------------------------------------------------------------------
(* Calls that keep its parts.                                              *)

\* A stock row of after has no arrival, or that of a row there was, of the
\* same reservation.
StockTraces(before, after) ==
  \A j \in DOMAIN after :
    \/ after[j].arrival = NoArrival
    \/ \E i \in DOMAIN before : /\ after[j].arrival = before[i].arrival
                                /\ after[j].reservation = before[i].reservation

\* No row of after is converted that was not.
SameConverted(before, after) ==
  \A j \in ConvertedRows(after) : /\ j \in ConvertedRows(before)
                                  /\ after[j].arrival = before[j].arrival
                                  /\ after[j].reservation = before[j].reservation

\* Each row of after is on a line of more, or where a row was.
Placed(before, after, more) ==
  \A j \in DOMAIN after :
    after[j].place \in more \/ \E i \in DOMAIN before : after[j].place = before[i].place

\* What is active in after was, there.
StaysPut(before, after) ==
  \A j \in DOMAIN after :
    after[j].status = "ACTIVE" => /\ j \in DOMAIN before /\ before[j].status = "ACTIVE"
                                  /\ after[j].reservation = before[j].reservation
                                  /\ after[j].place = before[j].place

LinesKept(before, after) ==
  \A o \in Order : before[o].status # "Unused" => after[o].status # "Unused"

\* g is f but for its value at x.
DiffersAt(g, f, S, x) ==
  /\ f \in [S -> Nat] /\ g \in [S -> Nat] /\ x \in S
  /\ \A y \in S : y # x => g[y] = f[y]

\* A total changes as its one changed part does.
LEMMA TotalDiffers ==
  ASSUME NEW S, IsFiniteSet(S), NEW f, NEW g, NEW x, DiffersAt(g, f, S, x)
  PROVE  Total(g) + f[x] = Total(f) + g[x]
<1>1. f \in [S -> Nat] /\ g \in [S -> Nat] /\ x \in S
  BY DEF DiffersAt
<1>2. \A y \in S : y # x => g[y] = f[y]
  BY DEF DiffersAt
<1> QED
  BY <1>1, <1>2, TotalChange

\* A call that converts nothing keeps what the markers say.
LEMMA LinksKept ==
  ASSUME NEW stock, NEW rows, NEW n, n \in Nat, NEW stock2, NEW rows2, NEW n2, n2 \in Nat,
         Linked(stock, rows, n), n <= n2,
         StockTraces(stock, stock2), SameConverted(rows, rows2)
  PROVE  Linked(stock2, rows2, n2)
<1>1. \A i \in ConvertedRows(rows2) :
        /\ i \in ConvertedRows(rows)
        /\ rows2[i].arrival = rows[i].arrival /\ rows2[i].reservation = rows[i].reservation
  BY DEF SameConverted
<1>2. /\ \A i \in ConvertedRows(rows) : rows[i].arrival[1] \in 1 .. n
      /\ \A i, j \in ConvertedRows(rows) :
           i # j /\ rows[i].arrival[1] = rows[j].arrival[1]
           => /\ rows[i].reservation # rows[j].reservation
              /\ rows[i].arrival # rows[j].arrival
      /\ \A i \in ConvertedRows(rows), j \in DOMAIN stock :
           stock[j].arrival = rows[i].arrival => stock[j].reservation = rows[i].reservation
      /\ \A j \in DOMAIN stock : stock[j].arrival[1] \in 0 .. n
  BY DEF Linked
<1>3. \A i \in ConvertedRows(rows2) : rows2[i].arrival[1] \in 1 .. n2
  BY <1>1, <1>2
<1>4. ASSUME NEW i \in ConvertedRows(rows2), NEW j \in DOMAIN stock2,
             stock2[j].arrival = rows2[i].arrival
      PROVE  stock2[j].reservation = rows2[i].reservation
  <2>1. rows2[i].arrival # NoArrival
    BY <1>3 DEF NoArrival
  <2>2. PICK m \in DOMAIN stock : /\ stock2[j].arrival = stock[m].arrival
                                  /\ stock2[j].reservation = stock[m].reservation
    BY <1>4, <2>1 DEF StockTraces
  <2>3. /\ i \in ConvertedRows(rows)
        /\ rows2[i].arrival = rows[i].arrival /\ rows2[i].reservation = rows[i].reservation
    BY <1>1
  <2>4. stock[m].arrival = rows[i].arrival
    BY <1>4, <2>2, <2>3
  <2>5. stock[m].reservation = rows[i].reservation
    BY <1>2, <2>3, <2>4
  <2>6. QED
    BY <2>2, <2>3, <2>5
<1>5. \A j \in DOMAIN stock2 : stock2[j].arrival[1] \in 0 .. n2
  <2>1. NoArrival[1] = 0
    BY DEF NoArrival
  <2>2. QED
    BY <1>2, <2>1 DEF StockTraces
<1>6. QED
  BY <1>1, <1>2, <1>3, <1>4, <1>5 DEF Linked

\* Rows that stay on their lines, or go to others that exist, are on lines
\* that exist.
LEMMA LinesUsedKept ==
  ASSUME NEW rows, NEW rows2, NEW lines, NEW lines2, NEW more,
         LinesUsed(rows, lines), LinesKept(lines, lines2), Placed(rows, rows2, more),
         \A o \in more : o \in Order /\ lines2[o].status # "Unused"
  PROVE  LinesUsed(rows2, lines2)
BY DEF LinesUsed, LinesKept, Placed

\* A call that makes no row active, and moves none, leaves no second one.
LEMMA OnePerLineKept ==
  ASSUME NEW rows, NEW rows2, OnePerLine(rows), StaysPut(rows, rows2)
  PROVE  OnePerLine(rows2)
BY DEF OnePerLine, StaysPut

\* What a call does not touch stays.
LEMMA RowsUntouched ==
  ASSUME NEW rows
  PROVE  StockTraces(rows, rows) /\ SameConverted(rows, rows) /\ Placed(rows, rows, {})
         /\ StaysPut(rows, rows)
BY DEF StockTraces, SameConverted, Placed, StaysPut

\* A call that concerns r alone.
LEMMA HeldStep ==
  ASSUME Held, NEW r \in Reservation, HeldBy(r)',
         \A x \in Reservation : x # r => Backing(x)' = Backing(x) /\ reservations'[x] = reservations[x]
  PROVE  Held'
BY DEF Held, HeldBy

\* What backs a reservation, by rows.
RowBacking(rows, r) == Total(ActiveQuantities(rows, r))

\* The sums by place add up to the active rows.
LEMMA SumsBacking ==
  ASSUME NEW P, IsFiniteSet(P), NEW T, NEW rows, rows \in Seq(Row(P, T)), NEW r \in Reservation
  PROVE  /\ Total(Sums(rows, P)[r]) = RowBacking(rows, r)
         /\ RowBacking(rows, r) \in Nat
         /\ ActiveQuantities(rows, r) \in [DOMAIN rows -> Nat] /\ IsFiniteSet(DOMAIN rows)
<1>1. /\ ActiveQuantities(rows, r) \in [DOMAIN rows -> Nat]
      /\ Total(ActiveQuantities(rows, r)) = Total([p \in P |-> ActiveQuantity(rows, r, p)])
  BY ActiveByPlace
<1>2. IsFiniteSet(DOMAIN rows)
  BY RowFields
<1>3. Total(ActiveQuantities(rows, r)) \in Nat
  BY <1>1, <1>2, TotalType
<1>4. Sums(rows, P)[r] = [p \in P |-> ActiveQuantity(rows, r, p)]
  BY DEF Sums
<1>5. QED
  BY <1>1, <1>2, <1>3, <1>4 DEF RowBacking

\* So the backing of r is what its active rows hold, before a call and after.
LEMMA BackingRows ==
  ASSUME NEW r \in Reservation
  PROVE  /\ RowsTypeOK => /\ Backing(r) = RowBacking(stockRows, r) + RowBacking(incomingRows, r)
                          /\ RowBacking(stockRows, r) \in Nat /\ RowBacking(incomingRows, r) \in Nat
         /\ RowsTypeOK' => /\ Backing(r)' = RowBacking(stockRows', r) + RowBacking(incomingRows', r)
                           /\ RowBacking(stockRows', r) \in Nat /\ RowBacking(incomingRows', r) \in Nat
<1>1. IsFiniteSet(Location) /\ IsFiniteSet(Source)
  BY Sets
<1>2. ASSUME RowsTypeOK
      PROVE  /\ Backing(r) = RowBacking(stockRows, r) + RowBacking(incomingRows, r)
             /\ RowBacking(stockRows, r) \in Nat /\ RowBacking(incomingRows, r) \in Nat
  <2>1. /\ stockRows \in Seq(Row(Location, StockStatus))
        /\ incomingRows \in Seq(Row(Source, IncomingStatus))
    BY <1>2 DEF RowsTypeOK
  <2>2. /\ Total(Sums(stockRows, Location)[r]) = RowBacking(stockRows, r)
        /\ RowBacking(stockRows, r) \in Nat
    BY <1>1, <2>1, SumsBacking
  <2>3. /\ Total(Sums(incomingRows, Source)[r]) = RowBacking(incomingRows, r)
        /\ RowBacking(incomingRows, r) \in Nat
    BY <1>1, <2>1, SumsBacking
  <2>4. QED
    BY <2>2, <2>3, SumsOf DEF Backing
<1>3. ASSUME RowsTypeOK'
      PROVE  /\ Backing(r)' = RowBacking(stockRows', r) + RowBacking(incomingRows', r)
             /\ RowBacking(stockRows', r) \in Nat /\ RowBacking(incomingRows', r) \in Nat
  <2>1. /\ stockRows' \in Seq(Row(Location, StockStatus))
        /\ incomingRows' \in Seq(Row(Source, IncomingStatus))
    BY <1>3 DEF RowsTypeOK
  <2>2. /\ Total(Sums(stockRows', Location)[r]) = RowBacking(stockRows', r)
        /\ RowBacking(stockRows', r) \in Nat
    BY <1>1, <2>1, SumsBacking
  <2>3. /\ Total(Sums(incomingRows', Source)[r]) = RowBacking(incomingRows', r)
        /\ RowBacking(incomingRows', r) \in Nat
    BY <1>1, <2>1, SumsBacking
  <2>4. QED
    BY <2>2, <2>3, SumsOf DEF Backing
<1>4. QED
  BY <1>2, <1>3

\* A nonempty set of ids has a least one.
LEMMA LeastFacts ==
  ASSUME NEW n, n \in Nat, NEW ids, ids \subseteq 1 .. n, ids # {}
  PROVE  Least(ids) \in ids /\ \A j \in ids : Least(ids) <= j
<1> DEFINE before == { p \in (1 .. n) \X (1 .. n) : p[1] < p[2] }
<1>1. IsFiniteSet(ids)
  <2>1. IsFiniteSet(1 .. n)
    BY FS_Interval
  <2>2. QED
    BY <2>1, FS_Subset
<1>2. StrictlyOrders(before, ids)
  <2>1. \A x, y \in ids : <<x, y>> \in before <=> x < y
    OBVIOUS
  <2>2. \A x \in ids : x \in Int
    OBVIOUS
  <2> HIDE DEF before
  <2>3. QED
    BY <2>1, <2>2 DEF StrictlyOrders
<1>3. PICK x \in ids : \A y \in ids : y # x => <<x, y>> \in before
  <2> HIDE DEF before
  <2> QED BY <1>1, <1>2, FirstInOrder
<1>4. \A y \in ids : x <= y
  <2>1. \A y \in ids : y # x => x < y
    BY <1>3
  <2>2. \A y \in ids : y \in Int
    OBVIOUS
  <2>3. QED
    BY <2>1, <2>2
<1>5. QED
  BY <1>4 DEF Least

\* A row of another size is otherwise the same.
LEMMA SizedSame ==
  ASSUME NEW P, NEW T, NEW row, row \in Row(P, T), NEW n
  PROVE  /\ Sized(row, n).status = row.status /\ Sized(row, n).reservation = row.reservation
         /\ Sized(row, n).place = row.place /\ Sized(row, n).arrival = row.arrival
         /\ Sized(row, n).tx = row.tx
BY DEF Sized, Row

\* A row that a drain leaves or writes is the row it comes of, or ends it.
LEMMA LeftFields ==
  ASSUME NEW P, NEW T, NEW rows, NEW d, NEW ended, Drainable(P, T, rows, d, ended),
         NEW i \in DOMAIN rows
  PROVE  /\ \/ /\ Left(rows, d, ended, i).status = rows[i].status
               /\ Left(rows, d, ended, i).reservation = rows[i].reservation
               /\ Left(rows, d, ended, i).place = rows[i].place
               /\ Left(rows, d, ended, i).arrival = rows[i].arrival
               /\ Left(rows, d, ended, i).tx = rows[i].tx
               /\ Left(rows, d, ended, i).quantity = rows[i].quantity - d[i]
               /\ d[i] = 0 \/ d[i] < rows[i].quantity
            \/ /\ Left(rows, d, ended, i) = Sized(ended[i], d[i])
               /\ d[i] = rows[i].quantity /\ d[i] > 0
         /\ Sized(ended[i], d[i]).status = ended[i].status
         /\ Sized(ended[i], d[i]).reservation = ended[i].reservation
         /\ Sized(ended[i], d[i]).place = ended[i].place
         /\ Sized(ended[i], d[i]).arrival = ended[i].arrival
         /\ Sized(ended[i], d[i]).tx = ended[i].tx
         /\ Sized(ended[i], d[i]).quantity = d[i]
         /\ d[i] \in Nat /\ rows[i].quantity \in Nat /\ d[i] <= rows[i].quantity
<1>1. /\ ended[i] \in Row(P, T) /\ rows[i] \in Row(P, T)
      /\ d[i] \in Nat /\ rows[i].quantity \in Nat /\ d[i] <= rows[i].quantity
  BY RowFields DEF Drainable
<1>2. /\ Sized(ended[i], d[i]).status = ended[i].status
      /\ Sized(ended[i], d[i]).reservation = ended[i].reservation
      /\ Sized(ended[i], d[i]).place = ended[i].place
      /\ Sized(ended[i], d[i]).arrival = ended[i].arrival
      /\ Sized(ended[i], d[i]).tx = ended[i].tx
  BY <1>1, SizedSame
<1>3. Sized(ended[i], d[i]).quantity = d[i]
  BY <1>1, SizedFields
<1> DEFINE less == Sized(rows[i], rows[i].quantity - d[i])
<1>4. /\ less.status = rows[i].status /\ less.reservation = rows[i].reservation
      /\ less.place = rows[i].place /\ less.arrival = rows[i].arrival /\ less.tx = rows[i].tx
  BY <1>1, SizedSame
<1>5. less.quantity = rows[i].quantity - d[i]
  <2>1. rows[i].quantity - d[i] \in Nat
    BY <1>1
  <2>2. QED
    BY <1>1, <2>1, SizedFields
<1>6. Left(rows, d, ended, i) = IF d[i] = 0 THEN rows[i]
                                ELSE IF d[i] = rows[i].quantity THEN Sized(ended[i], d[i])
                                ELSE less
  BY DEF Left
<1> HIDE DEF less
<1>7. CASE d[i] = 0
  BY <1>1, <1>2, <1>3, <1>6, <1>7
<1>8. CASE d[i] # 0 /\ d[i] = rows[i].quantity
  BY <1>1, <1>2, <1>3, <1>6, <1>8
<1>9. CASE d[i] # 0 /\ d[i] # rows[i].quantity
  BY <1>1, <1>2, <1>3, <1>4, <1>5, <1>6, <1>9
<1>10. QED
  BY <1>7, <1>8, <1>9

\* What a drain ends keeps its reservation and place, and gains no arrival.
EndsPlainly(rows, ended) ==
  \A i \in DOMAIN rows :
    /\ ended[i].reservation = rows[i].reservation /\ ended[i].place = rows[i].place
    /\ ended[i].arrival \in {rows[i].arrival, NoArrival}
    /\ ended[i].status # "CONVERTED"

\* A drain that converts nothing.
LEMMA DrainFollows ==
  ASSUME NEW P, NEW T, NEW rows, NEW d, NEW ended, NEW after,
         Drainable(P, T, rows, d, ended), Drained(P, T, rows, d, ended, after),
         EndsPlainly(rows, ended)
  PROVE  /\ StockTraces(rows, after) /\ SameConverted(rows, after) /\ Placed(rows, after, {})
         /\ StaysPut(rows, after)
<1>1. /\ DOMAIN rows \subseteq DOMAIN after
      /\ \A i \in DOMAIN rows : after[i] = Left(rows, d, ended, i)
      /\ \A j \in DOMAIN after \ DOMAIN rows :
           \E i \in DOMAIN rows : d[i] > 0 /\ after[j] = Sized(ended[i], d[i])
  BY DEF Drained
<1>2. ASSUME NEW i \in DOMAIN rows
      PROVE  /\ ended[i].status # "ACTIVE" /\ ended[i].status # "CONVERTED"
             /\ ended[i].reservation = rows[i].reservation /\ ended[i].place = rows[i].place
             /\ ended[i].arrival \in {rows[i].arrival, NoArrival}
  BY DEF Drainable, EndsPlainly
<1>3. ASSUME NEW j \in DOMAIN after
      PROVE  \E i \in DOMAIN rows :
               /\ after[j].reservation = rows[i].reservation /\ after[j].place = rows[i].place
               /\ after[j].arrival \in {rows[i].arrival, NoArrival}
               /\ after[j].status \in {"ACTIVE", "CONVERTED"} =>
                    j = i /\ after[j].status = rows[i].status /\ after[j].arrival = rows[i].arrival
  <2>1. CASE j \in DOMAIN rows
    BY <1>1, <1>2, <2>1, LeftFields
  <2>2. CASE j \notin DOMAIN rows
    <3>1. PICK i \in DOMAIN rows : after[j] = Sized(ended[i], d[i])
      BY <1>1, <2>2
    <3>2. QED
      BY <1>2, <3>1, LeftFields
  <2>3. QED
    BY <2>1, <2>2
<1>4. QED
  BY <1>3 DEF StockTraces, SameConverted, Placed, StaysPut, ConvertedRows

-----------------------------------------------------------------------------
(* The log.                                                                *)

\* What an undo reads of an entry stays.
SameCall(e, f) ==
  /\ e.op = f.op /\ e.quantity = f.quantity /\ e.from = f.from /\ e.to = f.to
  /\ e.context = f.context /\ e.reservation = f.reservation /\ e.order = f.order

\* A call appends its entry; the others record the calls they did.
LogGrows(entry) ==
  /\ log' \in Seq(LogEntry) /\ Len(log') = Len(log) + 1
  /\ \A k \in DOMAIN log : k \in DOMAIN log' /\ SameCall(log'[k], log[k])
  /\ Len(log') \in DOMAIN log' /\ SameCall(log'[Len(log')], entry)

\* A call that is logged.
LEMMA LoggedGrows ==
  ASSUME log \in Seq(LogEntry), onHand \in [Location -> Nat], onHand' \in [Location -> Nat],
         NEW entry, entry \in LogEntry, Logged(entry)
  PROVE  LogGrows(entry)
<1>1. /\ log' \in Seq(LogEntry) /\ Len(log') = Len(log) + 1
      /\ log'[Len(log) + 1]
           = [entry EXCEPT !.moved = [l \in Location |-> onHand'[l] - onHand[l]]]
      /\ \A k \in DOMAIN log : k \in DOMAIN log' /\ log'[k] = log[k]
  BY LoggedType
<1>2. Len(log') \in DOMAIN log'
  <2>1. Len(log) \in Nat /\ DOMAIN log' = 1 .. Len(log')
    BY <1>1, LenProperties
  <2>2. QED
    BY <1>1, <2>1
<1>3. SameCall(log'[Len(log')], entry)
  <2> DEFINE m == [l \in Location |-> onHand'[l] - onHand[l]]
  <2>1. log'[Len(log')] = [entry EXCEPT !.moved = m]
    BY <1>1
  <2> HIDE DEF m
  <2>2. SameCall([entry EXCEPT !.moved = m], entry)
    BY DEF SameCall, LogEntry
  <2>3. QED
    BY <2>1, <2>2
<1>4. \A k \in DOMAIN log : SameCall(log'[k], log[k])
  BY <1>1 DEF SameCall
<1>5. QED
  BY <1>1, <1>2, <1>3, <1>4 DEF LogGrows

\* An undo is logged, and marks what it undid.
LEMMA CompensatedGrows ==
  ASSUME log \in Seq(LogEntry), onHand \in [Location -> Nat], onHand' \in [Location -> Nat],
         NEW k, NEW op, Undoable(k, op), NEW entry, entry \in LogEntry, Compensated(k, entry)
  PROVE  /\ LogGrows(entry)
         /\ \A j \in DOMAIN log : log'[j] = IF j = k THEN [log[k] EXCEPT !.undone = TRUE] ELSE log[j]
         /\ log'[Len(log')] = [entry EXCEPT !.undoOf = k,
                                 !.moved = [l \in Location |-> onHand'[l] - onHand[l]]]
<1> DEFINE delta  == [l \in Location |-> onHand'[l] - onHand[l]]
           marked == [log EXCEPT ![k].undone = TRUE]
           new    == [entry EXCEPT !.undoOf = k, !.moved = delta]
<1>1. /\ k \in DOMAIN log /\ Len(log) < MaxLog /\ log' = Append(marked, new)
      /\ DOMAIN log = 1 .. Len(log) /\ Len(log) \in Nat /\ MaxLog \in Nat
  BY LenProperties, Sets DEF Undoable, MayLog, Compensated
<1>2. delta \in Delta
  BY DEF Delta
<1> HIDE DEF delta
<1>3. new \in LogEntry /\ SameCall(new, entry)
  <2>1. k \in 0 .. MaxLog
    BY <1>1
  <2>2. QED
    BY <1>2, <2>1 DEF LogEntry, SameCall
<1>4. /\ log[k] \in LogEntry /\ [log[k] EXCEPT !.undone = TRUE] \in LogEntry
      /\ SameCall([log[k] EXCEPT !.undone = TRUE], log[k])
  <2>1. log[k] \in LogEntry
    BY <1>1
  <2>2. QED
    BY <2>1 DEF LogEntry, SameCall
<1>5. /\ marked \in Seq(LogEntry) /\ Len(marked) = Len(log)
      /\ \A j \in DOMAIN log : marked[j] = IF j = k THEN [log[k] EXCEPT !.undone = TRUE] ELSE log[j]
  <2>1. \A j \in DOMAIN log : marked[j] = IF j = k THEN [log[k] EXCEPT !.undone = TRUE] ELSE log[j]
    BY <1>1
  <2>2. \A j \in 1 .. Len(log) : marked[j] \in LogEntry
    BY <1>1, <1>4, <2>1
  <2>3. marked = [j \in 1 .. Len(log) |-> marked[j]]
    BY <1>1
  <2> HIDE DEF marked
  <2>4. marked \in Seq(LogEntry)
    BY <1>1, <2>2, <2>3, FunctionIsSeq
  <2>5. DOMAIN marked = 1 .. Len(log)
    BY <2>3
  <2>6. QED
    BY <1>1, <2>1, <2>4, <2>5, LenProperties
<1> HIDE DEF marked, new
<1>6. /\ log' \in Seq(LogEntry) /\ Len(log') = Len(log) + 1
      /\ \A j \in 1 .. Len(log) : log'[j] = marked[j]
      /\ log'[Len(log) + 1] = new
  BY <1>1, <1>3, <1>5, AppendProperties
<1>7. Len(log') \in DOMAIN log' /\ DOMAIN log \subseteq DOMAIN log'
  <2>1. DOMAIN log' = 1 .. Len(log')
    BY <1>6, LenProperties
  <2>2. QED
    BY <1>1, <1>6, <2>1
<1>8. \A j \in DOMAIN log : SameCall(log'[j], log[j])
  <2>1. \A j \in DOMAIN log : SameCall(log[j], log[j])
    BY DEF SameCall
  <2>2. QED
    BY <1>1, <1>4, <1>5, <1>6, <2>1
<1>9. LogGrows(entry)
  BY <1>3, <1>6, <1>7, <1>8 DEF LogGrows
<1>10. QED
  BY <1>1, <1>5, <1>6, <1>9 DEF new, delta

\* Every entry can still be undone as it could be.
LEMMA EntriesKept ==
  ASSUME log \in Seq(LogEntry), EntriesOK(log, orders), LinesKept(orders, orders'),
         NEW entry, LogGrows(entry), EntryOK(entry, orders')
  PROVE  EntriesOK(log', orders')
<1>1. \A e, f, lines : SameCall(e, f) /\ EntryOK(f, lines) => EntryOK(e, lines)
  BY DEF SameCall, EntryOK
<1>2. ASSUME NEW k \in DOMAIN log
      PROVE  EntryOK(log[k], orders')
  <2>1. log[k] \in LogEntry
    OBVIOUS
  <2>2. log[k].order \in {0} \cup Order
    BY <2>1 DEF LogEntry
  <2>3. EntryOK(log[k], orders)
    BY DEF EntriesOK
  <2>4. QED
    BY <2>2, <2>3 DEF EntryOK, LinesKept, NoOrder
<1>3. ASSUME NEW k \in DOMAIN log'
      PROVE  k \in DOMAIN log \/ k = Len(log')
  <2>1. /\ DOMAIN log' = 1 .. Len(log') /\ DOMAIN log = 1 .. Len(log)
        /\ Len(log) \in Nat /\ Len(log') = Len(log) + 1
    BY LenProperties DEF LogGrows
  <2>2. QED
    BY <2>1
<1>4. QED
  BY <1>1, <1>2, <1>3 DEF EntriesOK, LogGrows

-----------------------------------------------------------------------------
(* Rows put after others.                                                  *)

\* No two active rows, one of each, are of one reservation and place.
Apart(rows, added) ==
  \A i \in DOMAIN rows, n \in DOMAIN added :
    /\ rows[i].status = "ACTIVE" /\ added[n].status = "ACTIVE"
    /\ rows[i].reservation = added[n].reservation
    => rows[i].place # added[n].place

\* An element of two sequences put together is one of either.
LEMMA ConcatElements ==
  ASSUME NEW X, NEW a, a \in Seq(X), NEW b, b \in Seq(X)
  PROVE  /\ a \o b \in Seq(X) /\ DOMAIN a \subseteq DOMAIN (a \o b) /\ Len(a) \in Nat
         /\ \A i \in DOMAIN a : (a \o b)[i] = a[i]
         /\ \A i \in DOMAIN (a \o b) \ DOMAIN a :
              i \in Nat /\ i - Len(a) \in DOMAIN b /\ (a \o b)[i] = b[i - Len(a)]
         /\ \A n \in DOMAIN b : /\ n + Len(a) \in DOMAIN (a \o b) \ DOMAIN a
                                /\ (a \o b)[n + Len(a)] = b[n]
<1>1. /\ a \o b \in Seq(X) /\ Len(a \o b) = Len(a) + Len(b)
      /\ \A i \in 1 .. Len(a) + Len(b) : (a \o b)[i] = IF i <= Len(a) THEN a[i] ELSE b[i - Len(a)]
  BY ConcatProperties
<1>2. /\ Len(a) \in Nat /\ Len(b) \in Nat /\ DOMAIN a = 1 .. Len(a) /\ DOMAIN b = 1 .. Len(b)
      /\ DOMAIN (a \o b) = 1 .. (Len(a) + Len(b))
  BY <1>1, LenProperties
<1>3. \A i \in DOMAIN a : i \in DOMAIN (a \o b) /\ (a \o b)[i] = a[i]
  BY <1>1, <1>2
<1>4. ASSUME NEW i \in DOMAIN (a \o b) \ DOMAIN a
      PROVE  i \in Nat /\ i - Len(a) \in DOMAIN b /\ (a \o b)[i] = b[i - Len(a)]
  <2>1. i \in 1 .. (Len(a) + Len(b)) /\ i > Len(a)
    BY <1>2
  <2>2. QED
    BY <1>1, <1>2, <2>1
<1>5. ASSUME NEW n \in DOMAIN b
      PROVE  n + Len(a) \in DOMAIN (a \o b) \ DOMAIN a /\ (a \o b)[n + Len(a)] = b[n]
  <2>1. n \in 1 .. Len(b) /\ n + Len(a) \in 1 .. (Len(a) + Len(b)) /\ n + Len(a) > Len(a)
        /\ (n + Len(a)) - Len(a) = n
    BY <1>2
  <2>2. QED
    BY <1>1, <1>2, <2>1
<1>6. QED
  BY <1>1, <1>2, <1>3, <1>4, <1>5

\* What rows put after others keep.
LEMMA AppendKeeps ==
  ASSUME NEW X, NEW rows, rows \in Seq(X), NEW added, added \in Seq(X)
  PROVE  /\ (\A n \in DOMAIN added : added[n].arrival = NoArrival)
            => StockTraces(rows, rows \o added)
         /\ (\A n \in DOMAIN added : added[n].status # "CONVERTED")
            => SameConverted(rows, rows \o added)
         /\ \A more : (\A n \in DOMAIN added : added[n].place \in more)
                      => Placed(rows, rows \o added, more)
         /\ OnePerLine(rows) /\ OnePerLine(added) /\ Apart(rows, added)
            => OnePerLine(rows \o added)
<1> DEFINE after == rows \o added
<1>1. /\ DOMAIN rows \subseteq DOMAIN after /\ Len(rows) \in Nat
      /\ \A i \in DOMAIN rows : after[i] = rows[i]
      /\ \A i \in DOMAIN after \ DOMAIN rows :
           i \in Nat /\ i - Len(rows) \in DOMAIN added /\ after[i] = added[i - Len(rows)]
  BY ConcatElements
<1> HIDE DEF after
<1>2. ASSUME NEW i \in DOMAIN after, i \notin DOMAIN rows
      PROVE  \E n \in DOMAIN added : after[i] = added[n] /\ n = i - Len(rows) /\ i \in Nat
  BY <1>1, <1>2
<1>3. ASSUME \A n \in DOMAIN added : added[n].arrival = NoArrival
      PROVE  StockTraces(rows, after)
  BY <1>1, <1>2, <1>3 DEF StockTraces
<1>4. ASSUME \A n \in DOMAIN added : added[n].status # "CONVERTED"
      PROVE  SameConverted(rows, after)
  BY <1>1, <1>2, <1>4 DEF SameConverted, ConvertedRows
<1>5. ASSUME NEW more, \A n \in DOMAIN added : added[n].place \in more
      PROVE  Placed(rows, after, more)
  BY <1>1, <1>2, <1>5 DEF Placed
<1>6. ASSUME OnePerLine(rows), OnePerLine(added), Apart(rows, added)
      PROVE  OnePerLine(after)
  <2> SUFFICES ASSUME NEW i \in DOMAIN after, NEW j \in DOMAIN after, i # j,
                      after[i].status = "ACTIVE", after[j].status = "ACTIVE",
                      after[i].reservation = after[j].reservation
               PROVE  after[i].place # after[j].place
    BY DEF OnePerLine
  <2>1. CASE i \in DOMAIN rows /\ j \in DOMAIN rows
    BY <1>1, <1>6, <2>1 DEF OnePerLine
  <2>2. CASE i \in DOMAIN rows /\ j \notin DOMAIN rows
    BY <1>1, <1>2, <1>6, <2>2 DEF Apart
  <2>3. CASE i \notin DOMAIN rows /\ j \in DOMAIN rows
    BY <1>1, <1>2, <1>6, <2>3 DEF Apart
  <2>4. CASE i \notin DOMAIN rows /\ j \notin DOMAIN rows
    <3>1. PICK m \in DOMAIN added : after[i] = added[m] /\ m = i - Len(rows) /\ i \in Nat
      BY <1>2, <2>4
    <3>2. PICK n \in DOMAIN added : after[j] = added[n] /\ n = j - Len(rows) /\ j \in Nat
      BY <1>2, <2>4
    <3>3. m # n
      BY <1>1, <3>1, <3>2
    <3>4. QED
      BY <1>6, <3>1, <3>2, <3>3 DEF OnePerLine
  <2>5. QED
    BY <2>1, <2>2, <2>3, <2>4
<1>7. QED
  BY <1>3, <1>4, <1>5, <1>6 DEF after

\* New rows are active, have no arrival, and are at different places where
\* there is something.
LEMMA NewRowsPlaces ==
  ASSUME NEW P, IsFiniteSet(P), NEW q, q \in [P -> Nat], NEW r,
         NEW before, StrictlyOrders(before, { p \in P : q[p] > 0 })
  PROVE  /\ \A n \in DOMAIN NewRows(r, q, before) :
              LET row == NewRows(r, q, before)[n]
              IN  /\ row.place \in P /\ q[row.place] > 0 /\ row.reservation = r
                  /\ row.status = "ACTIVE" /\ row.arrival = NoArrival /\ row.tx = 0
         /\ OnePerLine(NewRows(r, q, before))
<1> DEFINE S    == { p \in P : q[p] > 0 }
           N    == Cardinality(S)
           s    == InSequence(S, before)
           rows == NewRows(r, q, before)
<1>1. IsFiniteSet(S)
  BY FS_Subset
<1>2. N \in Nat /\ s \in Bijection(1 .. N, S)
  BY <1>1, InSequenceBijection
<1>3. /\ s \in [1 .. N -> S]
      /\ \A i, j \in 1 .. N : s[i] = s[j] => i = j
      /\ \A p \in S : \E i \in 1 .. N : s[i] = p
  <2> HIDE DEF s, N, S
  <2> QED BY <1>2, Fun_BijectionProperties
<1>4. rows = [n \in DOMAIN s |-> NewRow(r, s[n], q[s[n]])]
  <2>1. DOMAIN q = P
    OBVIOUS
  <2>2. QED
    BY <2>1 DEF NewRows
<1> HIDE DEF s, N
<1>5. rows = [n \in 1 .. N |-> NewRow(r, s[n], q[s[n]])]
  BY <1>3, <1>4
<1>6. ASSUME NEW n \in 1 .. N
      PROVE  /\ rows[n].place = s[n] /\ rows[n].reservation = r /\ rows[n].status = "ACTIVE"
             /\ rows[n].arrival = NoArrival /\ rows[n].tx = 0
  <2>1. rows[n] = NewRow(r, s[n], q[s[n]])
    BY <1>5
  <2>2. QED
    BY <2>1 DEF NewRow
<1>7. DOMAIN rows = 1 .. N
  BY <1>5
<1> HIDE DEF rows
<1>8. \A n \in 1 .. N : s[n] \in P /\ q[s[n]] > 0
  BY <1>3
<1>9. OnePerLine(rows)
  BY <1>3, <1>6, <1>7 DEF OnePerLine
<1>10. QED
  BY <1>6, <1>7, <1>8, <1>9 DEF rows

-----------------------------------------------------------------------------
(* Reservation calls keep the invariant.                                   *)

\* What a creation holds is at most what is asked for.
LEMMA CreateHeld ==
  ASSUME RowsBase, Held, NEW r \in Reservation, NEW quantity \in 1 .. MaxQuantity,
         NEW project, NEW preferred \in Source,
         Summed!CreateReservation(r, quantity, project, preferred)
  PROVE  Held'
<1> DEFINE pq     == Summed!PreferredQuantity(preferred, quantity)
           sq     == Smaller(Total(Summed!Available), quantity - pq)
           short  == quantity - pq - sq
           supply == Summed!OpenSupply(project, preferred)
           line   == [status |-> "ACTIVE", quantity |-> quantity, project |-> project]
<1>1. StateTypeOK /\ RowsTypeOK /\ quantity \in Nat
  BY RowsAssumption DEF RowsBase
<1>2. /\ ActiveStock \in [Reservation -> [Location -> Nat]]
      /\ ActiveIncoming \in [Reservation -> [Source -> Nat]]
      /\ Summed!Available \in [Location -> Nat] /\ supply \in [Source -> Nat]
  BY <1>1, SupplyTypes, OpenSupplyFacts
<1>3. PICK stock \in Draws(Summed!Available, sq), open \in Draws(supply, short) :
        /\ ActiveStock' = [ActiveStock EXCEPT ![r] = stock]
        /\ ActiveIncoming' = [ActiveIncoming EXCEPT ![r] = [open EXCEPT ![preferred] = pq]]
  <2> DEFINE sq0 == Summed!Smaller(Summed!Total(Summed!Available), quantity - pq)
  <2>1. \E stock \in Summed!Draws(Summed!Available, sq0),
           open \in Summed!Draws(supply, quantity - pq - sq0) :
          /\ ActiveStock' = [ActiveStock EXCEPT ![r] = stock]
          /\ ActiveIncoming' = [ActiveIncoming EXCEPT ![r] = [open EXCEPT ![preferred] = pq]]
    BY Zenon DEF Summed!CreateReservation, Summed!Reserve
  <2>2. sq0 = sq
    BY SameTotal, SameQuantities
  <2> HIDE DEF pq, sq, sq0, supply
  <2>3. QED
    BY <2>1, <2>2, SameQuantities
<1>4. reservations' = [reservations EXCEPT ![r] = line]
  BY DEF Summed!CreateReservation, Summed!Reserve
<1>5. pq \in 0 .. quantity
  BY <1>1, PreferredFacts
<1>6. sq \in 0 .. quantity - pq /\ short \in Nat
  <2>1. Total(Summed!Available) \in Nat
    BY <1>2, Sets, TotalType
  <2> HIDE DEF pq
  <2>2. QED
    BY <1>1, <1>5, <2>1 DEF Smaller
<1> HIDE DEF pq, sq, supply
<1>7. Total(stock) = sq
  BY <1>2, <1>6, DrawType
<1>8. Total([open EXCEPT ![preferred] = pq]) <= short + pq
      /\ Total([open EXCEPT ![preferred] = pq]) \in Nat
  <2> DEFINE g == [open EXCEPT ![preferred] = pq]
  <2>1. open \in [Source -> Nat] /\ Total(open) = short
    BY <1>2, <1>6, DrawType
  <2>2. g \in [Source -> Nat] /\ g[preferred] = pq /\ \A y \in Source : y # preferred => g[y] = open[y]
    BY <1>5, <2>1
  <2> HIDE DEF g
  <2>3. Total(g) + open[preferred] = Total(open) + g[preferred]
    BY <2>1, <2>2, Sets, TotalChange
  <2>4. Total(g) \in Nat
    BY <2>2, Sets, TotalType
  <2>5. open[preferred] \in Nat /\ pq \in Nat /\ short \in Nat
    BY <1>5, <1>6, <2>1
  <2>6. QED
    BY <2>1, <2>2, <2>3, <2>4, <2>5 DEF g
<1>9. HeldBy(r)'
  <2>1. Backing(r)' = Total(stock) + Total([open EXCEPT ![preferred] = pq])
    BY <1>2, <1>3 DEF Backing
  <2>2. reservations'[r] = line
    BY <1>1, <1>4 DEF StateTypeOK
  <2>3. Backing(r)' <= quantity
    BY <1>1, <1>5, <1>6, <1>7, <1>8, <2>1
  <2>4. QED
    BY <2>2, <2>3 DEF HeldBy
<1>10. ASSUME NEW x \in Reservation, x # r
       PROVE  Backing(x)' = Backing(x) /\ reservations'[x] = reservations[x]
  BY <1>1, <1>2, <1>3, <1>4, <1>10 DEF Backing, StateTypeOK
<1>11. QED
  BY <1>9, <1>10, HeldStep

\* A call that releases or consumes takes as much from what r holds as from
\* what it asks for, and ends it when that is all.
LEMMA ReducedHeld ==
  ASSUME RowsBase, RowsBase', Held, NEW r \in Reservation, NEW quantity \in Nat, NEW final,
         final \in {"RELEASED", "CONSUMED"},
         reservations[r].status = "ACTIVE", quantity <= reservations[r].quantity,
         reservations' = Summed!Reduced(r, quantity, final),
         Backing(r)' = Backing(r) - quantity, quantity <= Backing(r),
         \A x \in Reservation : x # r => Backing(x)' = Backing(x)
  PROVE  Held'
<1> DEFINE left == reservations[r].quantity - quantity
<1>1. reservations \in [Reservation -> Summed!ReservationRow]
  BY DEF RowsBase, StateTypeOK
<1>2. reservations[r].quantity \in Nat
  BY <1>1 DEF Summed!ReservationRow
<1>3. /\ reservations'[r].status = IF left = 0 THEN final ELSE "ACTIVE"
      /\ reservations'[r].quantity = IF left = 0 THEN quantity ELSE left
      /\ \A x \in Reservation : x # r => reservations'[x] = reservations[x]
  BY <1>1 DEF Summed!Reduced
<1>4. Backing(r) \in Nat /\ Backing(r) <= reservations[r].quantity
  <2>1. RowsTypeOK
    BY DEF RowsBase
  <2>2. Backing(r) \in Nat
    BY <2>1, BackingRows
  <2>3. HeldBy(r)
    BY DEF Held
  <2>4. QED
    BY <2>2, <2>3 DEF HeldBy
<1>5. HeldBy(r)'
  <2>1. CASE left = 0
    <3>1. Backing(r)' = 0
      BY <1>2, <1>4, <2>1
    <3>2. reservations'[r].status # "ACTIVE"
      BY <1>3, <2>1
    <3>3. QED
      BY <3>1, <3>2 DEF HeldBy
  <2>2. CASE left # 0
    <3>1. Backing(r)' <= left
      BY <1>2, <1>4, <2>2
    <3>2. QED
      BY <1>3, <2>2, <3>1 DEF HeldBy
  <2>3. QED
    BY <2>1, <2>2
<1>6. QED
  BY <1>3, <1>5, HeldStep

\* Where a creation puts its incoming rows.
OpenLines == { o \in Order : orders[o].status = "Ordered" }

\* Open supply is on open lines, other than the preferred one.
LEMMA OpenSupplyLines ==
  ASSUME StateTypeOK, RowsTypeOK, NEW project, NEW preferred, NEW short, short \in Nat,
         NEW open,
         open = InOrder(Summed!OpenSupply(project, preferred), short, Summed!SupplyOrder)
  PROVE  /\ open \in [Source -> Nat]
         /\ \A s \in Source : open[s] > 0 => s \in OpenLines /\ s # preferred
         /\ StrictlyOrders(Summed!SupplyOrder, { s \in Source : open[s] > 0 })
<1> DEFINE supply == Summed!OpenSupply(project, preferred)
<1>1. /\ supply \in [Source -> Nat]
      /\ \A s \in Source : supply[s] > 0 => s \in Order /\ s # preferred
  BY OpenSupplyFacts
<1>2. \A s \in Source : supply[s] > 0 => orders[s].status = "Ordered"
  <2>1. \A s \in Source : orders[s].status = "Ordered" \/ supply[s] = 0
    BY Sets DEF Summed!OpenSupply
  <2>2. QED
    BY <1>1, <2>1
<1>3. StrictlyOrders(Summed!SupplyOrder, { s \in Source : supply[s] > 0 })
  BY SupplyOrdered
<1> HIDE DEF supply
<1>4. open \in [Source -> Nat] /\ \A s \in Source : open[s] <= supply[s]
  <2>1. open = InOrder(supply, short, Summed!SupplyOrder)
    BY DEF supply
  <2>2. QED
    BY <1>1, <1>3, <2>1, Sets, InOrderDraw
<1>5. \A s \in Source : open[s] > 0 => supply[s] > 0
  BY <1>1, <1>4
<1>6. StrictlyOrders(Summed!SupplyOrder, { s \in Source : open[s] > 0 })
  BY <1>3, <1>5, OrdersPart
<1>7. QED
  BY <1>1, <1>2, <1>4, <1>5, <1>6 DEF OpenLines

\* What a creation does to the rows.
LEMMA CreateRows ==
  ASSUME UndoInv, NEW r \in Reservation, NEW quantity \in 1 .. MaxQuantity,
         NEW project, NEW preferred \in Source,
         CreateReservation(r, quantity, project, preferred)
  PROVE  /\ StockTraces(stockRows, stockRows') /\ SameConverted(incomingRows, incomingRows')
         /\ Placed(incomingRows, incomingRows', OpenLines) /\ OnePerLine(incomingRows')
<1> DEFINE pq     == Summed!PreferredQuantity(preferred, quantity)
           sq     == Smaller(Total(Summed!Available), quantity - pq)
           short  == quantity - pq - sq
           supply == Summed!OpenSupply(project, preferred)
           stock  == InOrder(Summed!Available, sq, ShelfOrder)
           open   == InOrder(supply, short, Summed!SupplyOrder)
           added  == NewRows(r, stock, ShelfOrder)
           first  == IF pq = 0 THEN <<>> ELSE <<NewRow(r, preferred, pq)>>
           more   == NewRows(r, open, Summed!SupplyOrder)
<1>1. /\ Summed!NextUnused(reservations, r)
      /\ preferred # NoOrder => Summed!PreferredEligible(preferred, project)
      /\ stockRows' = stockRows \o added
      /\ incomingRows' = (incomingRows \o first) \o more
      /\ Total(open) = short
  BY DEF CreateReservation
<1>2. /\ RowsBase /\ StateTypeOK /\ RowsTypeOK /\ quantity \in Nat
      /\ OfUsed(incomingRows, reservations) /\ OnePerLine(incomingRows)
      /\ stockRows \in Seq(Row(Location, StockStatus))
      /\ incomingRows \in Seq(Row(Source, IncomingStatus))
  BY RowsAssumption DEF UndoInv, RowsBase, RowsTypeOK
<1>3. pq \in 0 .. quantity /\ (pq # 0 => preferred # NoOrder)
  BY <1>2, PreferredFacts
<1> HIDE DEF pq
<1>4. sq \in 0 .. quantity - pq /\ stock \in [Location -> Nat] /\ added \in Seq(Row(Location, StockStatus))
  BY <1>2, <1>3, CreateStock
<1>5. StrictlyOrders(ShelfOrder, { l \in Location : stock[l] > 0 })
  BY RowsAssumption, OrdersPart
<1>6. \A n \in DOMAIN added : added[n].arrival = NoArrival
  <2> HIDE DEF stock
  <2> QED BY <1>4, <1>5, Sets, NewRowsPlaces
<1>7. short \in Nat
  BY <1>2, <1>3, <1>4
<1> HIDE DEF sq, stock, added
<1>8. /\ first \in Seq(Row(Source, IncomingStatus)) /\ more \in Seq(Row(Source, IncomingStatus))
  <2>1. pq \in Nat
    BY <1>2, <1>3
  <2> HIDE DEF short
  <2>2. QED
    BY <1>1, <1>2, <1>3, <1>7, <2>1, CreateIncoming
<1>9. /\ open \in [Source -> Nat]
      /\ \A s \in Source : open[s] > 0 => s \in OpenLines /\ s # preferred
      /\ StrictlyOrders(Summed!SupplyOrder, { s \in Source : open[s] > 0 })
  <2>1. open = InOrder(Summed!OpenSupply(project, preferred), short, Summed!SupplyOrder)
    OBVIOUS
  <2> HIDE DEF short, supply, open
  <2>2. QED
    BY <1>2, <1>7, <2>1, OpenSupplyLines
<1> HIDE DEF short, supply, open
<1>10. /\ \A n \in DOMAIN more : /\ more[n].place \in Source /\ open[more[n].place] > 0
                                 /\ more[n].reservation = r /\ more[n].status = "ACTIVE"
       /\ OnePerLine(more)
  BY <1>9, Sets, NewRowsPlaces
<1>11. \A n \in DOMAIN first : /\ first[n].place = preferred /\ preferred \in OpenLines
                               /\ first[n].reservation = r /\ first[n].status = "ACTIVE" /\ n = 1
  <2>1. CASE pq = 0
    BY <2>1
  <2>2. CASE pq # 0
    <3>1. DOMAIN first = {1} /\ first[1] = NewRow(r, preferred, pq)
      BY <2>2
    <3>2. preferred \in OpenLines
      BY <1>1, <1>3, <2>2 DEF Summed!PreferredEligible, OpenLines, Source
    <3>3. QED
      BY <3>1, <3>2 DEF NewRow
  <2>3. QED
    BY <2>1, <2>2
<1> HIDE DEF first, more
<1>12. \A i \in DOMAIN incomingRows : incomingRows[i].reservation # r
  BY <1>1, <1>2 DEF OfUsed, Summed!NextUnused
<1> DEFINE some == incomingRows \o first
<1>13. /\ SameConverted(incomingRows, some) /\ Placed(incomingRows, some, OpenLines)
       /\ OnePerLine(some) /\ some \in Seq(Row(Source, IncomingStatus))
  <2>1. OnePerLine(first) /\ Apart(incomingRows, first)
    <3>1. OnePerLine(first)
      BY <1>11 DEF OnePerLine
    <3>2. Apart(incomingRows, first)
      BY <1>11, <1>12 DEF Apart
    <3>3. QED
      BY <3>1, <3>2
  <2>2. /\ \A n \in DOMAIN first : first[n].status # "CONVERTED"
        /\ \A n \in DOMAIN first : first[n].place \in OpenLines
    BY <1>11
  <2>3. some \in Seq(Row(Source, IncomingStatus))
    BY <1>2, <1>8, ConcatProperties
  <2>4. QED
    BY <1>2, <1>8, <2>1, <2>2, <2>3, AppendKeeps
<1>14. \A i \in DOMAIN some : some[i].reservation = r => some[i].place = preferred
  BY <1>2, <1>8, <1>11, <1>12, ConcatElements
<1> HIDE DEF some
<1>15. /\ SameConverted(some, incomingRows') /\ Placed(some, incomingRows', OpenLines)
       /\ OnePerLine(incomingRows')
  <2>1. Apart(some, more)
    BY <1>9, <1>10, <1>14 DEF Apart
  <2>2. /\ \A n \in DOMAIN more : more[n].status # "CONVERTED"
        /\ \A n \in DOMAIN more : more[n].place \in OpenLines
    BY <1>9, <1>10
  <2>3. incomingRows' = some \o more
    BY <1>1 DEF some
  <2>4. QED
    BY <1>8, <1>10, <1>13, <2>1, <2>2, <2>3, AppendKeeps
<1>16. SameConverted(incomingRows, incomingRows') /\ Placed(incomingRows, incomingRows', OpenLines)
  <2>1. SameConverted(incomingRows, incomingRows')
    BY <1>13, <1>15 DEF SameConverted
  <2>2. Placed(incomingRows, incomingRows', OpenLines)
    BY <1>13, <1>15 DEF Placed
  <2>3. QED
    BY <2>1, <2>2
<1>17. StockTraces(stockRows, stockRows')
  BY <1>1, <1>2, <1>4, <1>6, AppendKeeps
<1>18. QED
  BY <1>15, <1>16, <1>17

\* What has to be shown of a call for the invariant to hold after it.
LEMMA InvMet ==
  ASSUME UndoInv, RowsBase', Held', Linked(stockRows', incomingRows', Len(log) + 1),
         OnePerLine(incomingRows'), NEW more, Placed(incomingRows, incomingRows', more),
         \A o \in more : o \in Order /\ orders'[o].status # "Unused",
         LinesKept(orders, orders'),
         NEW entry, LogGrows(entry), EntryOK(entry, orders')
  PROVE  UndoInv'
<1>1. LinesUsed(incomingRows, orders) /\ EntriesOK(log, orders) /\ log \in Seq(LogEntry)
  BY DEF UndoInv, RowsBase
<1>2. Len(log') = Len(log) + 1
  BY DEF LogGrows
<1>3. LinesUsed(incomingRows', orders')
  BY <1>1, LinesUsedKept
<1>4. EntriesOK(log', orders')
  BY <1>1, EntriesKept
<1>5. QED
  BY <1>2, <1>3, <1>4 DEF UndoInv

\* The same of one that converts nothing.
LEMMA InvKept ==
  ASSUME UndoInv, RowsBase', Held', StockTraces(stockRows, stockRows'),
         SameConverted(incomingRows, incomingRows'), OnePerLine(incomingRows'),
         NEW more, Placed(incomingRows, incomingRows', more),
         \A o \in more : o \in Order /\ orders'[o].status # "Unused",
         LinesKept(orders, orders'),
         NEW entry, LogGrows(entry), EntryOK(entry, orders')
  PROVE  UndoInv'
<1>1. Linked(stockRows, incomingRows, Len(log)) /\ log \in Seq(LogEntry)
  BY DEF UndoInv, RowsBase
<1>2. Len(log) \in Nat /\ Len(log) + 1 \in Nat /\ Len(log) <= Len(log) + 1
  BY <1>1, LenProperties
<1>3. Linked(stockRows', incomingRows', Len(log) + 1)
  BY <1>1, <1>2, LinksKept
<1>4. QED
  BY <1>3, InvMet

\* An entry of no reservation and no line, and one of a reservation.
LEMMA PlainEntry ==
  ASSUME NEW op, op \in {"RESERVE", "CONSUME", "ARRIVAL", "MOVE", "ADJUST"},
         NEW q, q \in Nat \ {0},
         NEW from, from \in Location \cup {NoLocation}, NEW to, to \in Location \cup {NoLocation},
         op = "MOVE" => from \in Location /\ to \in Location,
         op = "ADJUST" => from \in Location \/ to \in Location,
         op = "ARRIVAL" => to \in Location,
         NEW lines
  PROVE  Entry(op, q, from, to) \in LogEntry /\ EntryOK(Entry(op, q, from, to), lines)
<1>1. Entry(op, q, from, to) \in LogEntry
  BY EntryType
<1>2. EntryOK(Entry(op, q, from, to), lines)
  BY DEF EntryOK, Entry, NoOrder
<1>3. QED
  BY <1>1, <1>2

\* What a reservation call logs.
LEMMA ReservationEntryOK ==
  ASSUME NEW op \in {"RESERVE", "CONSUME"}, NEW q \in Nat \ {0},
         NEW context \in {"create", "release", "consume"}, NEW r \in Reservation, NEW lines
  PROVE  /\ ReservationEntry(op, q, context, r) \in LogEntry
         /\ EntryOK(ReservationEntry(op, q, context, r), lines)
<1>1. ReservationEntry(op, q, context, r) \in LogEntry
  BY ReservationEntryType
<1>2. EntryOK(ReservationEntry(op, q, context, r), lines)
  BY DEF EntryOK, ReservationEntry, Entry, NoOrder
<1>3. QED
  BY <1>1, <1>2

\* A reservation call has logged its entry.
LEMMA ReservationLogged ==
  ASSUME RowsBase, RowsBase', NEW op \in {"RESERVE", "CONSUME"}, NEW q \in Nat \ {0},
         NEW context \in {"create", "release", "consume"}, NEW r \in Reservation,
         Logged(ReservationEntry(op, q, context, r))
  PROVE  /\ LogGrows(ReservationEntry(op, q, context, r))
         /\ EntryOK(ReservationEntry(op, q, context, r), orders')
<1>1. /\ log \in Seq(LogEntry) /\ onHand \in [Location -> Nat] /\ onHand' \in [Location -> Nat]
  BY DEF RowsBase, StateTypeOK
<1>2. /\ ReservationEntry(op, q, context, r) \in LogEntry
      /\ EntryOK(ReservationEntry(op, q, context, r), orders')
  BY ReservationEntryOK
<1>3. QED
  BY <1>1, <1>2, LoggedGrows

\* Creating a reservation.
LEMMA CreateKeeps ==
  ASSUME UndoInv, NEW r \in Reservation, NEW quantity \in 1 .. MaxQuantity,
         NEW project \in Project \cup {NoProject}, NEW preferred \in Source,
         CreateReservation(r, quantity, project, preferred)
  PROVE  UndoInv'
<1>1. RowsBase /\ Held /\ quantity \in Nat \ {0}
  BY RowsAssumption DEF UndoInv
<1>2. RowsBase' /\ Summed!CreateReservation(r, quantity, project, preferred)
  BY <1>1, CreateStep
<1>3. Held'
  BY <1>1, <1>2, CreateHeld
<1>4. /\ StockTraces(stockRows, stockRows') /\ SameConverted(incomingRows, incomingRows')
      /\ Placed(incomingRows, incomingRows', OpenLines) /\ OnePerLine(incomingRows')
  BY CreateRows
<1>5. /\ orders' = orders
      /\ Logged(ReservationEntry("RESERVE", quantity, "create", r))
  BY DEF CreateReservation
<1>6. /\ LogGrows(ReservationEntry("RESERVE", quantity, "create", r))
      /\ EntryOK(ReservationEntry("RESERVE", quantity, "create", r), orders')
  BY <1>1, <1>2, <1>5, ReservationLogged
<1>7. /\ \A o \in OpenLines : o \in Order /\ orders'[o].status # "Unused"
      /\ LinesKept(orders, orders')
  BY <1>5 DEF OpenLines, LinesKept
<1>8. QED
  BY <1>2, <1>3, <1>4, <1>6, <1>7, InvKept

\* after is rows with n taken from the active rows of r, which end with that
\* status.
TakenAndEnded(P, T, rows, r, n, status, id, noted, after) ==
  /\ rows \in Seq(Row(P, T)) /\ n \in Nat
  /\ status \in T /\ status # "ACTIVE" /\ status # "CONVERTED"
  /\ id \in 0 .. MaxLog /\ noted \in BOOLEAN
  /\ after = Drain(rows, DrawnRows(rows, n, ActiveOf(rows, r)), Ended(rows, status, id, noted))

\* Rows that a release or a consumption ends convert nothing.
LEMMA EndedFollows ==
  ASSUME NEW P, NEW T, NEW rows, NEW r, NEW n, NEW status, NEW id, NEW noted, NEW after,
         TakenAndEnded(P, T, rows, r, n, status, id, noted, after)
  PROVE  /\ StockTraces(rows, after) /\ SameConverted(rows, after) /\ Placed(rows, after, {})
         /\ StaysPut(rows, after)
<1> DEFINE ids   == ActiveOf(rows, r)
           d     == DrawnRows(rows, n, ids)
           ended == Ended(rows, status, id, noted)
<1>0. /\ rows \in Seq(Row(P, T)) /\ n \in Nat
      /\ status \in T /\ status # "ACTIVE" /\ status # "CONVERTED"
      /\ id \in 0 .. MaxLog /\ noted \in BOOLEAN
      /\ after = Drain(rows, d, ended)
  BY DEF TakenAndEnded
<1>1. ids \in SUBSET (DOMAIN rows) /\ \A i \in ids : rows[i].status = "ACTIVE"
  BY DEF ActiveOf
<1> HIDE DEF ids
<1>2. /\ d \in [DOMAIN rows -> Nat]
      /\ \A i \in DOMAIN rows : d[i] <= rows[i].quantity /\ (d[i] > 0 => i \in ids)
  BY <1>0, <1>1, DrawnRowsFacts
<1>3. /\ ended \in [DOMAIN rows -> Row(P, T)]
      /\ \A i \in DOMAIN rows : /\ ended[i].status = status
                                /\ ended[i].reservation = rows[i].reservation
                                /\ ended[i].place = rows[i].place
  BY <1>0, EndedType
<1>4. ASSUME NEW i \in DOMAIN rows
      PROVE  ended[i].arrival \in {rows[i].arrival, NoArrival}
  <2>1. rows[i] \in Row(P, T)
    BY <1>0, RowFields
  <2>2. ended[i] = [rows[i] EXCEPT !.status = status, !.tx = id,
                                   !.arrival = IF noted THEN NoArrival ELSE @]
    BY DEF Ended
  <2>3. QED
    BY <2>1, <2>2 DEF Row
<1> HIDE DEF d, ended
<1>5. Drainable(P, T, rows, d, ended)
  BY <1>0, <1>1, <1>2, <1>3 DEF Drainable
<1>6. Drained(P, T, rows, d, ended, after)
  BY <1>0, <1>5, DrainDrains
<1>7. EndsPlainly(rows, ended)
  BY <1>0, <1>3, <1>4 DEF EndsPlainly
<1>8. QED
  BY <1>5, <1>6, <1>7, DrainFollows

\* What is left after a draw.
LEMMA DrawnTotal ==
  ASSUME NEW S, IsFiniteSet(S), NEW f, f \in [S -> Nat], NEW n, n \in Nat, NEW d, d \in Draws(f, n)
  PROVE  Total(Minus(f, d)) = Total(f) - n /\ Total(f) \in Nat
<1>1. d \in [S -> Nat] /\ (\A x \in S : d[x] <= f[x]) /\ Total(d) = n
  BY DrawType
<1>2. /\ Minus(f, d) \in [S -> Nat]
      /\ Total(Minus(f, d)) + Total(d) = Total(f)
  BY <1>1, TotalMinus
<1>3. Total(f) \in Nat /\ Total(Minus(f, d)) \in Nat
  BY <1>2, TotalType
<1>4. QED
  BY <1>1, <1>2, <1>3

\* A release takes from what r holds what it releases.
LEMMA ReleaseHeld ==
  ASSUME RowsBase, RowsBase', Held, NEW r \in Reservation, NEW quantity \in 1 .. MaxQuantity,
         Summed!ReleaseReservation(r, quantity)
  PROVE  Held'
<1> DEFINE sq  == Smaller(quantity, Total(ActiveStock[r]))
           sq0 == Summed!Smaller(quantity, Summed!Total(ActiveStock[r]))
<1>1. /\ ActiveStock \in [Reservation -> [Location -> Nat]]
      /\ ActiveIncoming \in [Reservation -> [Source -> Nat]] /\ quantity \in Nat
  BY RowsAssumption, SupplyTypes DEF RowsBase
<1>2. \E stock \in Draws(ActiveStock[r], sq), open \in Draws(ActiveIncoming[r], quantity - sq) :
        /\ ActiveStock' = [ActiveStock EXCEPT ![r] = Minus(@, stock)]
        /\ ActiveIncoming' = [ActiveIncoming EXCEPT ![r] = Minus(@, open)]
  <2>1. \E stock \in Summed!Draws(ActiveStock[r], sq0),
           open \in Summed!Draws(ActiveIncoming[r], quantity - sq0) :
          /\ ActiveStock' = [ActiveStock EXCEPT ![r] = Summed!Minus(@, stock)]
          /\ ActiveIncoming' = [ActiveIncoming EXCEPT ![r] = Summed!Minus(@, open)]
    BY Zenon DEF Summed!ReleaseReservation
  <2>2. sq0 = sq
    BY SameTotal, SameQuantities
  <2> HIDE DEF sq, sq0
  <2>3. QED
    BY <2>1, <2>2, SameQuantities
<1>3. PICK stock \in Draws(ActiveStock[r], sq), open \in Draws(ActiveIncoming[r], quantity - sq) :
        /\ ActiveStock' = [ActiveStock EXCEPT ![r] = Minus(@, stock)]
        /\ ActiveIncoming' = [ActiveIncoming EXCEPT ![r] = Minus(@, open)]
  BY <1>2
<1>4. /\ reservations[r].status = "ACTIVE" /\ quantity <= reservations[r].quantity
      /\ quantity <= Total(ActiveStock[r]) + Total(ActiveIncoming[r])
      /\ reservations' = Summed!Reduced(r, quantity, "RELEASED")
  BY SameTotal DEF Summed!ReleaseReservation
<1>5. sq \in Nat /\ quantity - sq \in Nat
  <2>1. Total(ActiveStock[r]) \in Nat
    BY <1>1, Sets, TotalType
  <2>2. QED
    BY <1>1, <2>1 DEF Smaller
<1> HIDE DEF sq, sq0
<1>6. Total(Minus(ActiveStock[r], stock)) = Total(ActiveStock[r]) - sq /\ Total(ActiveStock[r]) \in Nat
  BY <1>1, <1>5, Sets, DrawnTotal
<1>7. /\ Total(Minus(ActiveIncoming[r], open)) = Total(ActiveIncoming[r]) - (quantity - sq)
      /\ Total(ActiveIncoming[r]) \in Nat
  BY <1>1, <1>5, Sets, DrawnTotal
<1>8. /\ ActiveStock'[r] = Minus(ActiveStock[r], stock)
      /\ ActiveIncoming'[r] = Minus(ActiveIncoming[r], open)
  BY <1>1, <1>3
<1>9. Backing(r)' = Backing(r) - quantity /\ quantity <= Backing(r)
  BY <1>1, <1>4, <1>5, <1>6, <1>7, <1>8 DEF Backing
<1>10. \A x \in Reservation : x # r => Backing(x)' = Backing(x)
  BY <1>1, <1>3 DEF Backing
<1>11. QED
  BY <1>1, <1>4, <1>9, <1>10, ReducedHeld

\* A consumption takes from what r holds what it consumes.
LEMMA ConsumeHeld ==
  ASSUME RowsBase, RowsBase', Held, NEW r \in Reservation, NEW quantity \in 1 .. MaxQuantity,
         Summed!ConsumeReservation(r, quantity)
  PROVE  Held'
<1>1. /\ ActiveStock \in [Reservation -> [Location -> Nat]]
      /\ ActiveIncoming \in [Reservation -> [Source -> Nat]] /\ quantity \in Nat
  BY RowsAssumption, SupplyTypes DEF RowsBase
<1>2. \E stock \in Draws(ActiveStock[r], quantity) :
        ActiveStock' = [ActiveStock EXCEPT ![r] = Minus(@, stock)]
  <2>1. \E stock \in Summed!Draws(ActiveStock[r], quantity) :
          ActiveStock' = [ActiveStock EXCEPT ![r] = Summed!Minus(@, stock)]
    BY Zenon DEF Summed!ConsumeReservation
  <2>2. QED
    BY <2>1, SameQuantities
<1>3. PICK stock \in Draws(ActiveStock[r], quantity) :
        ActiveStock' = [ActiveStock EXCEPT ![r] = Minus(@, stock)]
  BY <1>2
<1>4. /\ reservations[r].status = "ACTIVE" /\ quantity <= reservations[r].quantity
      /\ reservations' = Summed!Reduced(r, quantity, "CONSUMED")
      /\ ActiveIncoming' = ActiveIncoming
  BY DEF Summed!ConsumeReservation
<1>5. Total(Minus(ActiveStock[r], stock)) = Total(ActiveStock[r]) - quantity
      /\ Total(ActiveStock[r]) \in Nat /\ Total(ActiveIncoming[r]) \in Nat
  BY <1>1, Sets, DrawnTotal, TotalType
<1>6. quantity <= Total(ActiveStock[r])
  <2>1. /\ stock \in [Location -> Nat] /\ \A l \in Location : stock[l] <= ActiveStock[r][l]
        /\ Total(stock) = quantity
    BY <1>1, DrawType
  <2>2. QED
    BY <1>1, <2>1, Sets, TotalMonotone
<1>7. ActiveStock'[r] = Minus(ActiveStock[r], stock)
  BY <1>1, <1>3
<1>8. Backing(r)' = Backing(r) - quantity /\ quantity <= Backing(r)
  BY <1>1, <1>4, <1>5, <1>6, <1>7 DEF Backing
<1>9. \A x \in Reservation : x # r => Backing(x)' = Backing(x)
  BY <1>1, <1>3, <1>4 DEF Backing
<1>10. QED
  BY <1>1, <1>4, <1>8, <1>9, ReducedHeld

\* Releasing.
LEMMA ReleaseKeeps ==
  ASSUME UndoInv, NEW r \in Reservation, NEW quantity \in 1 .. MaxQuantity, NEW noted \in BOOLEAN,
         ReleaseReservation(r, quantity, noted)
  PROVE  UndoInv'
<1> DEFINE id == Len(log) + 1
           sq == Smaller(quantity, Total(ActiveStock[r]))
<1>1. /\ RowsBase /\ Held /\ OnePerLine(incomingRows) /\ quantity \in Nat \ {0}
      /\ stockRows \in Seq(Row(Location, StockStatus))
      /\ incomingRows \in Seq(Row(Source, IncomingStatus))
  BY RowsAssumption DEF UndoInv, RowsBase, RowsTypeOK
<1>2. RowsBase' /\ Summed!ReleaseReservation(r, quantity)
  BY <1>1, ReleaseStep
<1>3. Held'
  BY <1>1, <1>2, ReleaseHeld
<1>4. /\ MayLog /\ orders' = orders
      /\ stockRows' = Drain(stockRows, DrawnRows(stockRows, quantity, ActiveOf(stockRows, r)),
                            Ended(stockRows, "RELEASED", id, noted))
      /\ incomingRows' =
           Drain(incomingRows, DrawnRows(incomingRows, quantity - sq, ActiveOf(incomingRows, r)),
                 Ended(incomingRows, "RELEASED", id, noted))
      /\ Logged(ReservationEntry("RESERVE", quantity, "release", r))
  BY DEF ReleaseReservation
<1>5. id \in 0 .. MaxLog
  <2>1. Len(log) \in Nat
    BY <1>1, LenProperties DEF RowsBase
  <2>2. QED
    BY <1>4, <2>1, Sets DEF MayLog
<1>6. quantity - sq \in Nat
  <2>1. Total(ActiveStock[r]) \in Nat
    BY <1>1, Sets, SupplyTypes, TotalType DEF RowsBase
  <2>2. QED
    BY <1>1, <2>1 DEF Smaller
<1> HIDE DEF id, sq
<1>7. StockTraces(stockRows, stockRows')
  <2>1. TakenAndEnded(Location, StockStatus, stockRows, r, quantity, "RELEASED", id, noted,
                      stockRows')
    BY <1>1, <1>4, <1>5 DEF TakenAndEnded, StockStatus
  <2>2. QED
    BY <2>1, EndedFollows
<1>8. /\ SameConverted(incomingRows, incomingRows') /\ Placed(incomingRows, incomingRows', {})
      /\ StaysPut(incomingRows, incomingRows')
  <2>1. TakenAndEnded(Source, IncomingStatus, incomingRows, r, quantity - sq, "RELEASED", id,
                      noted, incomingRows')
    BY <1>1, <1>4, <1>5, <1>6 DEF TakenAndEnded, IncomingStatus
  <2>2. QED
    BY <2>1, EndedFollows
<1>9. OnePerLine(incomingRows')
  BY <1>1, <1>8, OnePerLineKept
<1>10. /\ LogGrows(ReservationEntry("RESERVE", quantity, "release", r))
       /\ EntryOK(ReservationEntry("RESERVE", quantity, "release", r), orders')
  BY <1>1, <1>2, <1>4, ReservationLogged
<1>11. LinesKept(orders, orders')
  BY <1>4 DEF LinesKept
<1>12. QED
  BY <1>2, <1>3, <1>7, <1>8, <1>9, <1>10, <1>11, InvKept

\* Consuming.
LEMMA ConsumeKeeps ==
  ASSUME UndoInv, NEW r \in Reservation, NEW quantity \in 1 .. MaxQuantity, NEW noted \in BOOLEAN,
         ConsumeReservation(r, quantity, noted)
  PROVE  UndoInv'
<1> DEFINE id == Len(log) + 1
<1>1. /\ RowsBase /\ Held /\ OnePerLine(incomingRows) /\ quantity \in Nat \ {0}
      /\ stockRows \in Seq(Row(Location, StockStatus))
  BY RowsAssumption DEF UndoInv, RowsBase, RowsTypeOK
<1>2. RowsBase' /\ Summed!ConsumeReservation(r, quantity)
  BY <1>1, ConsumeStep
<1>3. Held'
  BY <1>1, <1>2, ConsumeHeld
<1>4. /\ MayLog /\ orders' = orders /\ incomingRows' = incomingRows
      /\ stockRows' = Drain(stockRows, DrawnRows(stockRows, quantity, ActiveOf(stockRows, r)),
                            Ended(stockRows, "CONSUMED", id, noted))
      /\ Logged(ReservationEntry("CONSUME", quantity, "consume", r))
  BY DEF ConsumeReservation
<1>5. id \in 0 .. MaxLog
  <2>1. Len(log) \in Nat
    BY <1>1, LenProperties DEF RowsBase
  <2>2. QED
    BY <1>4, <2>1, Sets DEF MayLog
<1> HIDE DEF id
<1>6. StockTraces(stockRows, stockRows')
  <2>1. TakenAndEnded(Location, StockStatus, stockRows, r, quantity, "CONSUMED", id, noted,
                      stockRows')
    BY <1>1, <1>4, <1>5 DEF TakenAndEnded, StockStatus
  <2>2. QED
    BY <2>1, EndedFollows
<1>7. /\ SameConverted(incomingRows, incomingRows') /\ Placed(incomingRows, incomingRows', {})
      /\ OnePerLine(incomingRows')
  BY <1>1, <1>4, RowsUntouched
<1>8. /\ LogGrows(ReservationEntry("CONSUME", quantity, "consume", r))
      /\ EntryOK(ReservationEntry("CONSUME", quantity, "consume", r), orders')
  BY <1>1, <1>2, <1>4, ReservationLogged
<1>9. LinesKept(orders, orders')
  BY <1>4 DEF LinesKept
<1>10. QED
  BY <1>2, <1>3, <1>6, <1>7, <1>8, <1>9, InvKept

-----------------------------------------------------------------------------
(* Arrivals keep the invariant.                                            *)

\* The rows that a drain puts at the end are of rows drawn in part, one each.
SplitFrom(rows, d, ended, after, f) ==
  /\ f \in [DOMAIN after \ DOMAIN rows -> DOMAIN rows]
  /\ \A j \in DOMAIN after \ DOMAIN rows :
       /\ 0 < d[f[j]] /\ d[f[j]] < rows[f[j]].quantity
       /\ after[j] = Sized(ended[f[j]], d[f[j]])
  /\ \A j, m \in DOMAIN after \ DOMAIN rows : f[j] = f[m] => j = m
  /\ \A i \in DOMAIN rows : 0 < d[i] /\ d[i] < rows[i].quantity
                            => \E j \in DOMAIN after \ DOMAIN rows : f[j] = i

\* Drain puts the parts that ended at the end.
LEMMA DrainSplit ==
  ASSUME NEW P, NEW T, NEW rows, NEW d, NEW ended, Drainable(P, T, rows, d, ended)
  PROVE  \E f : SplitFrom(rows, d, ended, Drain(rows, d, ended), f)
<1> DEFINE D     == DOMAIN rows
           after == Drain(rows, d, ended)
           S     == { i \in D : 0 < d[i] /\ d[i] < rows[i].quantity }
           N     == Cardinality(S)
           split == InSequence(S, IdOrder(rows))
           head  == [i \in D |-> IF d[i] = 0 THEN rows[i]
                                 ELSE IF d[i] = rows[i].quantity
                                 THEN [ended[i] EXCEPT !.quantity = d[i]]
                                 ELSE [rows[i] EXCEPT !.quantity = @ - d[i]]]
           tail  == [n \in DOMAIN split |-> [ended[split[n]] EXCEPT !.quantity = d[split[n]]]]
           X     == { head[i] : i \in D } \cup { tail[n] : n \in 1 .. N }
           f     == [j \in DOMAIN after \ D |-> split[j - Len(rows)]]
<1>1. rows \in Seq(Row(P, T))
  BY DEF Drainable
<1>2. D = 1 .. Len(rows) /\ Len(rows) \in Nat /\ IsFiniteSet(D)
  BY <1>1, RowFields
<1>3. N \in Nat /\ split \in Bijection(1 .. N, S)
  <2>1. IsFiniteSet(S) /\ StrictlyOrders(IdOrder(rows), S)
    BY <1>1, <1>2, FS_Subset, IdsInOrder
  <2>2. QED
    BY <2>1, InSequenceBijection
<1>4. /\ split \in [1 .. N -> S]
      /\ \A i, j \in 1 .. N : split[i] = split[j] => i = j
      /\ \A i \in S : \E n \in 1 .. N : split[n] = i
  <2> HIDE DEF split, N, S
  <2> QED BY <1>3, Fun_BijectionProperties
<1>5. after = head \o tail
  BY DEF Drain
<1> HIDE DEF split, N, after
<1>6. DOMAIN split = 1 .. N
  BY <1>4
<1>7. head \in Seq(X) /\ Len(head) = Len(rows) /\ DOMAIN head = D
  <2>1. \A i \in 1 .. Len(rows) : head[i] \in X
    BY <1>2
  <2>2. head = [i \in 1 .. Len(rows) |-> head[i]]
    BY <1>2
  <2> HIDE DEF head, X
  <2>3. head \in Seq(X)
    BY <1>2, <2>1, <2>2, FunctionIsSeq
  <2>4. DOMAIN head = 1 .. Len(rows)
    BY <2>2
  <2>5. QED
    BY <1>2, <2>3, <2>4, LenProperties
<1>8. tail \in Seq(X) /\ DOMAIN tail = 1 .. N
  <2>1. tail = [n \in 1 .. N |-> tail[n]]
    BY <1>6
  <2>2. \A n \in 1 .. N : tail[n] \in X
    OBVIOUS
  <2> HIDE DEF tail, X
  <2>3. QED
    BY <1>3, <2>1, <2>2, FunctionIsSeq
<1>9. \A n \in 1 .. N : tail[n] = Sized(ended[split[n]], d[split[n]])
  BY <1>6 DEF Sized
<1> HIDE DEF head, tail, X
<1>10. /\ \A j \in DOMAIN after \ D :
            j \in Nat /\ j - Len(rows) \in 1 .. N /\ after[j] = tail[j - Len(rows)]
       /\ \A n \in 1 .. N : n + Len(rows) \in DOMAIN after \ D
  <2>1. /\ \A i \in DOMAIN (head \o tail) \ DOMAIN head :
             /\ i \in Nat /\ i - Len(head) \in DOMAIN tail
             /\ (head \o tail)[i] = tail[i - Len(head)]
        /\ \A n \in DOMAIN tail : n + Len(head) \in DOMAIN (head \o tail) \ DOMAIN head
    BY <1>7, <1>8, ConcatElements
  <2>2. QED
    BY <1>5, <1>7, <1>8, <2>1
<1>11. f \in [DOMAIN after \ D -> D]
  <2>1. \A n \in 1 .. N : split[n] \in D
    BY <1>4
  <2>2. QED
    BY <1>10, <2>1
<1>12. ASSUME NEW j \in DOMAIN after \ D
       PROVE  /\ 0 < d[f[j]] /\ d[f[j]] < rows[f[j]].quantity
              /\ after[j] = Sized(ended[f[j]], d[f[j]])
  <2>1. j - Len(rows) \in 1 .. N /\ f[j] = split[j - Len(rows)]
    BY <1>10
  <2>2. f[j] \in S
    BY <1>4, <2>1
  <2>3. QED
    BY <1>9, <1>10, <2>1, <2>2
<1>13. ASSUME NEW j \in DOMAIN after \ D, NEW m \in DOMAIN after \ D, f[j] = f[m]
       PROVE  j = m
  <2>1. /\ j - Len(rows) \in 1 .. N /\ f[j] = split[j - Len(rows)] /\ j \in Nat
        /\ m - Len(rows) \in 1 .. N /\ f[m] = split[m - Len(rows)] /\ m \in Nat
    BY <1>10
  <2>2. j - Len(rows) = m - Len(rows)
    BY <1>4, <1>13, <2>1
  <2>3. QED
    BY <1>2, <2>1, <2>2
<1>14. ASSUME NEW i \in D, 0 < d[i], d[i] < rows[i].quantity
       PROVE  \E j \in DOMAIN after \ D : f[j] = i
  <2>1. PICK n \in 1 .. N : split[n] = i
    BY <1>4, <1>14
  <2>2. n + Len(rows) \in DOMAIN after \ D /\ (n + Len(rows)) - Len(rows) = n
    BY <1>2, <1>3, <1>10
  <2>3. f[n + Len(rows)] = i
    BY <2>1, <2>2
  <2>4. QED
    BY <2>2, <2>3
<1> HIDE DEF f, S
<1>15. SplitFrom(rows, d, ended, after, f)
  BY <1>11, <1>12, <1>13, <1>14 DEF SplitFrom
<1>16. QED
  BY <1>15 DEF after

\* What an arrival that is logged as number id makes of the rows it draws
\* from: each row it converts knows where it comes from, and no two come from
\* the same.
Converts(stock, rows, id, drawn, o, src, stock2, rows2) ==
  /\ \A i \in drawn : i \in DOMAIN rows /\ rows[i].status = "ACTIVE" /\ rows[i].place = o
  /\ \A j \in ConvertedRows(rows2) :
       \/ /\ j \in ConvertedRows(rows) /\ rows2[j].arrival = rows[j].arrival
          /\ rows2[j].reservation = rows[j].reservation
       \/ /\ src[j] \in drawn /\ rows2[j].arrival = <<id, src[j]>>
          /\ rows2[j].reservation = rows[src[j]].reservation
  /\ \A j, m \in ConvertedRows(rows2) :
       /\ src[j] \in drawn /\ rows2[j].arrival = <<id, src[j]>>
       /\ src[m] \in drawn /\ rows2[m].arrival = <<id, src[m]>>
       /\ src[j] = src[m]
       => j = m
  /\ \A j \in DOMAIN stock2 :
       \/ \E i \in DOMAIN stock : /\ stock2[j].arrival = stock[i].arrival
                                  /\ stock2[j].reservation = stock[i].reservation
       \/ \E i \in drawn : /\ stock2[j].arrival = <<id, i>>
                           /\ stock2[j].reservation = rows[i].reservation

\* The rows an arrival converts are of different reservations, since they were
\* on one line.
LEMMA ArrivalLinks ==
  ASSUME NEW stock, NEW rows, NEW n, n \in Nat, NEW drawn, NEW o, NEW src, NEW stock2, NEW rows2,
         Linked(stock, rows, n), OnePerLine(rows),
         Converts(stock, rows, n + 1, drawn, o, src, stock2, rows2)
  PROVE  Linked(stock2, rows2, n + 1)
<1> DEFINE id == n + 1
           Old(j) == /\ j \in ConvertedRows(rows) /\ rows2[j].arrival = rows[j].arrival
                     /\ rows2[j].reservation = rows[j].reservation
           New(j) == /\ src[j] \in drawn /\ rows2[j].arrival = <<id, src[j]>>
                     /\ rows2[j].reservation = rows[src[j]].reservation
<1>1. /\ \A i \in drawn : i \in DOMAIN rows /\ rows[i].status = "ACTIVE" /\ rows[i].place = o
      /\ \A j \in ConvertedRows(rows2) : Old(j) \/ New(j)
      /\ \A j, m \in ConvertedRows(rows2) : New(j) /\ New(m) /\ src[j] = src[m] => j = m
      /\ \A j \in DOMAIN stock2 :
           \/ \E i \in DOMAIN stock : /\ stock2[j].arrival = stock[i].arrival
                                      /\ stock2[j].reservation = stock[i].reservation
           \/ \E i \in drawn : /\ stock2[j].arrival = <<id, i>>
                               /\ stock2[j].reservation = rows[i].reservation
  BY DEF Converts
<1>2. /\ \A i \in ConvertedRows(rows) : rows[i].arrival[1] \in 1 .. n
      /\ \A i, j \in ConvertedRows(rows) :
           i # j /\ rows[i].arrival[1] = rows[j].arrival[1]
           => /\ rows[i].reservation # rows[j].reservation
              /\ rows[i].arrival # rows[j].arrival
      /\ \A i \in ConvertedRows(rows), j \in DOMAIN stock :
           stock[j].arrival = rows[i].arrival => stock[j].reservation = rows[i].reservation
      /\ \A j \in DOMAIN stock : stock[j].arrival[1] \in 0 .. n
  BY DEF Linked
<1>3. \A j \in ConvertedRows(rows2) : /\ Old(j) => rows2[j].arrival[1] \in 1 .. n
                                      /\ New(j) => rows2[j].arrival[1] = id
  BY <1>2
<1>4. id \in 1 .. id /\ id \notin 0 .. n /\ 1 .. n \subseteq 1 .. id /\ 0 .. n \subseteq 0 .. id
      /\ 1 .. n \subseteq 0 .. n
  OBVIOUS
<1> HIDE DEF id
<1>5. \A j \in ConvertedRows(rows2) : rows2[j].arrival[1] \in 1 .. id
  BY <1>1, <1>3, <1>4
<1>6. ASSUME NEW j \in ConvertedRows(rows2), NEW m \in ConvertedRows(rows2),
             j # m, rows2[j].arrival[1] = rows2[m].arrival[1]
      PROVE  rows2[j].reservation # rows2[m].reservation /\ rows2[j].arrival # rows2[m].arrival
  <2>1. CASE Old(j) /\ Old(m)
    BY <1>2, <1>6, <2>1
  <2>2. CASE New(j) /\ New(m)
    <3>1. src[j] # src[m]
      BY <1>1, <1>6, <2>2
    <3>2. /\ rows[src[j]].status = "ACTIVE" /\ rows[src[j]].place = o /\ src[j] \in DOMAIN rows
          /\ rows[src[m]].status = "ACTIVE" /\ rows[src[m]].place = o /\ src[m] \in DOMAIN rows
      BY <1>1, <2>2
    <3>3. rows[src[j]].reservation # rows[src[m]].reservation
      BY <3>1, <3>2 DEF OnePerLine
    <3>4. <<id, src[j]>> # <<id, src[m]>>
      BY <3>1
    <3>5. QED
      BY <2>2, <3>3, <3>4
  <2>3. CASE (Old(j) /\ New(m)) \/ (New(j) /\ Old(m))
    BY <1>3, <1>4, <1>6, <2>3
  <2>4. QED
    BY <1>1, <2>1, <2>2, <2>3
<1>7. ASSUME NEW j \in DOMAIN stock2
      PROVE  stock2[j].arrival[1] \in 0 .. id
  BY <1>1, <1>2, <1>4
<1>8. ASSUME NEW i \in ConvertedRows(rows2), NEW j \in DOMAIN stock2,
             stock2[j].arrival = rows2[i].arrival
      PROVE  stock2[j].reservation = rows2[i].reservation
  <2>1. CASE \E m \in DOMAIN stock : /\ stock2[j].arrival = stock[m].arrival
                                     /\ stock2[j].reservation = stock[m].reservation
    <3>1. PICK m \in DOMAIN stock : /\ stock2[j].arrival = stock[m].arrival
                                    /\ stock2[j].reservation = stock[m].reservation
      BY <2>1
    <3>2. rows2[i].arrival[1] \in 0 .. n
      BY <1>2, <1>8, <3>1
    <3>3. Old(i)
      BY <1>1, <1>3, <1>4, <3>2
    <3>4. QED
      BY <1>2, <1>8, <3>1, <3>3
  <2>2. CASE \E m \in drawn : /\ stock2[j].arrival = <<id, m>>
                              /\ stock2[j].reservation = rows[m].reservation
    <3>1. PICK m \in drawn : /\ stock2[j].arrival = <<id, m>>
                             /\ stock2[j].reservation = rows[m].reservation
      BY <2>2
    <3>2. rows2[i].arrival[1] = id /\ rows2[i].arrival = <<id, m>>
      BY <1>8, <3>1
    <3>3. New(i)
      BY <1>1, <1>3, <1>4, <3>2
    <3>4. src[i] = m
      BY <3>2, <3>3
    <3>5. QED
      BY <3>1, <3>3, <3>4
  <2>3. QED
    BY <1>1, <2>1, <2>2
<1>9. QED
  BY <1>5, <1>6, <1>7, <1>8 DEF Linked, id

\* Where a row that a drain leaves or writes comes from.
Origin(rows, f) == [j \in DOMAIN rows \cup DOMAIN f |-> IF j \in DOMAIN rows THEN j ELSE f[j]]

\* The row of an incoming allocation that arrives, ended.
ArrivalEnded(rows, id) ==
  [i \in DOMAIN rows |-> [rows[i] EXCEPT !.status = "CONVERTED", !.arrival = <<id, i>>]]

\* Its fields.
LEMMA ArrivalEndedFields ==
  ASSUME NEW rows, rows \in Seq(Row(Source, IncomingStatus)), NEW id, id \in 0 .. MaxLog,
         NEW i \in DOMAIN rows
  PROVE  LET e == ArrivalEnded(rows, id)[i]
         IN  /\ e \in Row(Source, IncomingStatus)
             /\ e.status = "CONVERTED" /\ e.arrival = <<id, i>>
             /\ e.reservation = rows[i].reservation /\ e.place = rows[i].place /\ e.tx = rows[i].tx
<1>1. rows[i] \in Row(Source, IncomingStatus) /\ i \in Nat
  BY RowFields
<1>2. ArrivalEnded(rows, id)[i] = [rows[i] EXCEPT !.status = "CONVERTED", !.arrival = <<id, i>>]
  BY DEF ArrivalEnded
<1>3. <<id, i>> \in (0 .. MaxLog) \X Nat /\ "CONVERTED" \in IncomingStatus
  BY <1>1 DEF IncomingStatus
<1>4. /\ rows[i].reservation \in Reservation /\ rows[i].place \in Source
      /\ rows[i].quantity \in Nat /\ rows[i].tx \in 0 .. MaxLog
      /\ rows[i] = [reservation |-> rows[i].reservation, place |-> rows[i].place,
                    quantity |-> rows[i].quantity, status |-> rows[i].status,
                    tx |-> rows[i].tx, arrival |-> rows[i].arrival]
  BY <1>1 DEF Row
<1>5. ArrivalEnded(rows, id)[i]
        = [reservation |-> rows[i].reservation, place |-> rows[i].place,
           quantity |-> rows[i].quantity, status |-> "CONVERTED",
           tx |-> rows[i].tx, arrival |-> <<id, i>>]
  BY <1>2, <1>4
<1>6. QED
  BY <1>3, <1>4, <1>5 DEF Row

\* The rows after the conversion of an arrival, by origin.
LEMMA ArrivalOrigins ==
  ASSUME NEW rows, NEW d, NEW id, id \in 0 .. MaxLog, NEW after, NEW f,
         Drainable(Source, IncomingStatus, rows, d, ArrivalEnded(rows, id)),
         Drained(Source, IncomingStatus, rows, d, ArrivalEnded(rows, id), after),
         SplitFrom(rows, d, ArrivalEnded(rows, id), after, f)
  PROVE  /\ \A j \in DOMAIN after :
              LET i == Origin(rows, f)[j]
              IN  /\ i \in DOMAIN rows
                  /\ after[j].reservation = rows[i].reservation
                  /\ after[j].place = rows[i].place
                  /\ \/ /\ after[j].status = rows[i].status
                        /\ after[j].arrival = rows[i].arrival /\ i = j
                     \/ /\ after[j].status = "CONVERTED"
                        /\ after[j].arrival = <<id, i>> /\ d[i] > 0
         /\ \A j, m \in DOMAIN after :
              /\ after[j].status = "CONVERTED" /\ after[m].status = "CONVERTED"
              /\ Origin(rows, f)[j] = Origin(rows, f)[m] /\ d[Origin(rows, f)[j]] > 0
              => j = m
<1> DEFINE ended == ArrivalEnded(rows, id)
           src   == Origin(rows, f)
<1>1. rows \in Seq(Row(Source, IncomingStatus))
      /\ \A i \in DOMAIN rows : d[i] > 0 => rows[i].status = "ACTIVE"
  BY DEF Drainable
<1>2. /\ DOMAIN rows \subseteq DOMAIN after
      /\ \A i \in DOMAIN rows : after[i] = Left(rows, d, ended, i)
  BY DEF Drained
<1>3. /\ f \in [DOMAIN after \ DOMAIN rows -> DOMAIN rows]
      /\ \A j \in DOMAIN after \ DOMAIN rows :
           /\ 0 < d[f[j]] /\ d[f[j]] < rows[f[j]].quantity
           /\ after[j] = Sized(ended[f[j]], d[f[j]])
      /\ \A j, m \in DOMAIN after \ DOMAIN rows : f[j] = f[m] => j = m
  BY DEF SplitFrom
<1>4. /\ \A j \in DOMAIN rows : src[j] = j
      /\ \A j \in DOMAIN after \ DOMAIN rows : src[j] = f[j]
  BY <1>3 DEF Origin
<1> HIDE DEF src
<1>5. \A i \in DOMAIN rows : /\ ended[i].status = "CONVERTED" /\ ended[i].arrival = <<id, i>>
                             /\ ended[i].reservation = rows[i].reservation
                             /\ ended[i].place = rows[i].place
  BY <1>1, ArrivalEndedFields
<1>6. ASSUME NEW i \in DOMAIN rows
      PROVE  /\ d[i] \in Nat /\ rows[i].quantity \in Nat
             /\ Sized(ended[i], d[i]).status = "CONVERTED"
             /\ Sized(ended[i], d[i]).arrival = <<id, i>>
             /\ Sized(ended[i], d[i]).reservation = rows[i].reservation
             /\ Sized(ended[i], d[i]).place = rows[i].place
             /\ \/ /\ after[i].status = rows[i].status /\ after[i].arrival = rows[i].arrival
                   /\ after[i].reservation = rows[i].reservation /\ after[i].place = rows[i].place
                   /\ d[i] = 0 \/ d[i] < rows[i].quantity
                \/ /\ after[i] = Sized(ended[i], d[i]) /\ d[i] = rows[i].quantity /\ d[i] > 0
  BY <1>2, <1>5, LeftFields
<1> HIDE DEF ended
<1>7. ASSUME NEW j \in DOMAIN after
      PROVE  LET i == src[j]
             IN  /\ i \in DOMAIN rows
                 /\ after[j].reservation = rows[i].reservation
                 /\ after[j].place = rows[i].place
                 /\ \/ /\ after[j].status = rows[i].status
                       /\ after[j].arrival = rows[i].arrival /\ i = j
                    \/ /\ after[j].status = "CONVERTED"
                       /\ after[j].arrival = <<id, i>> /\ d[i] > 0
  <2>1. CASE j \in DOMAIN rows
    BY <1>4, <1>6, <2>1
  <2>2. CASE j \notin DOMAIN rows
    <3>1. /\ f[j] \in DOMAIN rows /\ src[j] = f[j] /\ 0 < d[f[j]]
          /\ after[j] = Sized(ended[f[j]], d[f[j]])
      BY <1>3, <1>4, <2>2
    <3>2. QED
      BY <1>6, <3>1
  <2>3. QED
    BY <2>1, <2>2
<1>8. ASSUME NEW j \in DOMAIN rows, after[j].status = "CONVERTED", d[j] > 0
      PROVE  d[j] = rows[j].quantity
  <2>1. rows[j].status = "ACTIVE"
    BY <1>1, <1>8
  <2>2. QED
    BY <1>6, <1>8, <2>1
<1>9. ASSUME NEW j \in DOMAIN after, NEW m \in DOMAIN after,
             after[j].status = "CONVERTED", after[m].status = "CONVERTED",
             src[j] = src[m], d[src[j]] > 0
      PROVE  j = m
  <2>1. CASE j \in DOMAIN rows /\ m \in DOMAIN rows
    BY <1>4, <1>9, <2>1
  <2>2. CASE j \in DOMAIN rows /\ m \notin DOMAIN rows
    <3>1. f[m] = j /\ d[j] < rows[j].quantity
      BY <1>3, <1>4, <1>9, <2>2
    <3>2. d[j] = rows[j].quantity
      BY <1>4, <1>8, <1>9, <2>2
    <3>3. QED
      BY <1>6, <2>2, <3>1, <3>2
  <2>3. CASE j \notin DOMAIN rows /\ m \in DOMAIN rows
    <3>1. f[j] = m /\ d[m] < rows[m].quantity
      BY <1>3, <1>4, <1>9, <2>3
    <3>2. d[m] = rows[m].quantity
      BY <1>4, <1>8, <1>9, <2>3
    <3>3. QED
      BY <1>6, <2>3, <3>1, <3>2
  <2>4. CASE j \notin DOMAIN rows /\ m \notin DOMAIN rows
    BY <1>3, <1>4, <1>9, <2>4
  <2>5. QED
    BY <2>1, <2>2, <2>3, <2>4
<1>10. QED
  BY <1>7, <1>9 DEF src

\* Rows that go to another line keep their arrival.
LEMMA RepointedArrival ==
  ASSUME NEW P, NEW T, NEW rows, rows \in Seq(Row(P, T)), NEW o, NEW rest, NEW i \in DOMAIN rows
  PROVE  Repointed(rows, o, rest)[i].arrival = rows[i].arrival
<1>1. rows[i] \in Row(P, T)
  BY RowFields
<1>2. [rows[i] EXCEPT !.place = rest].arrival = rows[i].arrival
  BY <1>1 DEF Row
<1>3. QED
  BY <1>2 DEF Repointed

\* What a stock row of an arrival says.
LEMMA ArrivedRowFields ==
  ASSUME NEW rows, NEW d, NEW id, NEW l, NEW i
  PROVE  /\ ArrivedRow(rows, d, id, l, i).arrival = <<id, i>>
         /\ ArrivedRow(rows, d, id, l, i).reservation = rows[i].reservation
BY DEF ArrivedRow, NewRow

\* What an arrival does to the rows: the line rest, to which what is not
\* converted goes, is o itself or has no rows.
LEMMA ArrivalRows ==
  ASSUME UndoInv, MayLog, NEW o \in Order, NEW quantity \in Nat \ {0}, NEW l \in Location,
         NEW rest \in Order, ReceiveStock(o, quantity, l, rest),
         rest = o \/ \A i \in DOMAIN incomingRows : incomingRows[i].place # rest
  PROVE  /\ Linked(stockRows', incomingRows', Len(log) + 1) /\ OnePerLine(incomingRows')
         /\ Placed(incomingRows, incomingRows', {rest})
<1> DEFINE n     == Len(log)
           id    == n + 1
           rows  == incomingRows
           D     == DOMAIN rows
           d     == DrawnRows(rows, quantity, ActiveOn(rows, o))
           ended == ArrivalEnded(rows, id)
           after == Drain(rows, d, ended)
           new   == ArrivedRows(rows, d, id, l)
           drawn == { i \in D : d[i] > 0 }
<1>1. /\ stockRows \in Seq(Row(Location, StockStatus)) /\ rows \in Seq(Row(Source, IncomingStatus))
      /\ OnePerLine(rows) /\ Linked(stockRows, rows, n) /\ n \in Nat
  BY LenProperties DEF UndoInv, RowsBase, RowsTypeOK
<1>2. id \in 0 .. MaxLog /\ o \in Source /\ rest \in Source
  BY <1>1, Sets DEF MayLog, Source
<1>3. /\ d \in [D -> Nat]
      /\ \A i \in D : d[i] <= rows[i].quantity /\ (d[i] > 0 => i \in ActiveOn(rows, o))
  BY <1>1, <1>2, ArrivalDraw
<1>4. stockRows' = stockRows \o new /\ incomingRows' = Repointed(after, o, rest)
  <2>1. DOMAIN d = D
    BY <1>3
  <2>2. new = [m \in DOMAIN InSequence({ i \in DOMAIN d : d[i] > 0 }, IdOrder(rows)) |->
                 ArrivedRow(rows, d, id, l,
                            InSequence({ i \in DOMAIN d : d[i] > 0 }, IdOrder(rows))[m])]
    BY DEF ArrivedRows
  <2>3. QED
    BY <2>2 DEF ReceiveStock, ArrivedRow, Repointed, ArrivalEnded
<1>5. \A i \in D : ended[i] \in Row(Source, IncomingStatus) /\ ended[i].status = "CONVERTED"
  BY <1>1, <1>2, ArrivalEndedFields
<1>6. ended = [i \in D |-> ended[i]]
  BY DEF ArrivalEnded
<1> HIDE DEF d, ended, after, new, n, id
<1>7. Drainable(Source, IncomingStatus, rows, d, ended)
  <2>1. \A i \in ActiveOn(rows, o) : rows[i].status = "ACTIVE"
    BY DEF ActiveOn
  <2>2. ended \in [D -> Row(Source, IncomingStatus)]
    BY <1>5, <1>6
  <2>3. QED
    BY <1>1, <1>3, <1>5, <2>1, <2>2 DEF Drainable
<1>8. Drained(Source, IncomingStatus, rows, d, ended, after)
  BY <1>7, DrainDrains DEF after
<1>9. PICK f : SplitFrom(rows, d, ended, after, f)
  BY <1>7, DrainSplit DEF after
<1> DEFINE src == Origin(rows, f)
<1>10. /\ \A j \in DOMAIN after :
            /\ src[j] \in D
            /\ after[j].reservation = rows[src[j]].reservation
            /\ after[j].place = rows[src[j]].place
            /\ \/ /\ after[j].status = rows[src[j]].status
                  /\ after[j].arrival = rows[src[j]].arrival /\ src[j] = j
               \/ /\ after[j].status = "CONVERTED"
                  /\ after[j].arrival = <<id, src[j]>> /\ d[src[j]] > 0
       /\ \A j, m \in DOMAIN after :
            /\ after[j].status = "CONVERTED" /\ after[m].status = "CONVERTED"
            /\ src[j] = src[m] /\ d[src[j]] > 0
            => j = m
  BY <1>2, <1>7, <1>8, <1>9, ArrivalOrigins DEF ended
<1> HIDE DEF src
<1>11. after \in Seq(Row(Source, IncomingStatus))
  BY <1>8 DEF Drained
<1>12. /\ DOMAIN incomingRows' = DOMAIN after
       /\ \A j \in DOMAIN after :
            /\ incomingRows'[j].status = after[j].status
            /\ incomingRows'[j].reservation = after[j].reservation
            /\ incomingRows'[j].arrival = after[j].arrival
            /\ incomingRows'[j].place
                 = IF after[j].status = "ACTIVE" /\ after[j].place = o THEN rest ELSE after[j].place
  BY <1>2, <1>4, <1>11, RepointedRows, RepointedArrival
<1>13. Placed(rows, incomingRows', {rest})
  BY <1>10, <1>12 DEF Placed
<1>14. OnePerLine(incomingRows')
  <2>1. ASSUME NEW j \in DOMAIN after, incomingRows'[j].status = "ACTIVE"
        PROVE  /\ j \in D /\ rows[j].status = "ACTIVE"
               /\ incomingRows'[j].reservation = rows[j].reservation
               /\ incomingRows'[j].place = IF rows[j].place = o THEN rest ELSE rows[j].place
    BY <1>10, <1>12, <2>1
  <2>2. QED
    BY <1>1, <1>12, <2>1 DEF OnePerLine
<1>15. /\ new \in Seq(Row(Location, StockStatus))
       /\ \A m \in DOMAIN new : \E i \in D : d[i] > 0 /\ new[m] = ArrivedRow(rows, d, id, l, i)
  <2>1. d \in [DOMAIN rows -> Nat] /\ rows \in Seq(Row(Source, IncomingStatus))
    BY <1>1, <1>3
  <2>2. QED
    BY <1>2, <2>1, ArrivedRowsActive DEF new
<1>16. ASSUME NEW j \in DOMAIN stockRows'
       PROVE  \/ \E i \in DOMAIN stockRows : /\ stockRows'[j].arrival = stockRows[i].arrival
                                             /\ stockRows'[j].reservation = stockRows[i].reservation
              \/ \E i \in drawn : /\ stockRows'[j].arrival = <<id, i>>
                                  /\ stockRows'[j].reservation = rows[i].reservation
  <2>1. /\ \A i \in DOMAIN stockRows : (stockRows \o new)[i] = stockRows[i]
        /\ \A i \in DOMAIN (stockRows \o new) \ DOMAIN stockRows :
             i - Len(stockRows) \in DOMAIN new /\ (stockRows \o new)[i] = new[i - Len(stockRows)]
    BY <1>1, <1>15, ConcatElements
  <2>2. CASE j \in DOMAIN stockRows
    BY <1>4, <2>1, <2>2
  <2>3. CASE j \notin DOMAIN stockRows
    <3>1. PICK i \in D : d[i] > 0 /\ stockRows'[j] = ArrivedRow(rows, d, id, l, i)
      BY <1>4, <1>15, <1>16, <2>1, <2>3
    <3>2. i \in drawn /\ stockRows'[j].arrival = <<id, i>>
          /\ stockRows'[j].reservation = rows[i].reservation
      BY <3>1, ArrivedRowFields
    <3>3. QED
      BY <3>2
  <2>4. QED
    BY <2>2, <2>3
<1>17. \A i \in drawn : i \in D /\ rows[i].status = "ACTIVE" /\ rows[i].place = o
  BY <1>3 DEF ActiveOn
<1>18. Converts(stockRows, rows, n + 1, drawn, o, src, stockRows', incomingRows')
  <2>1. \A j \in ConvertedRows(incomingRows') :
          \/ /\ j \in ConvertedRows(rows) /\ incomingRows'[j].arrival = rows[j].arrival
             /\ incomingRows'[j].reservation = rows[j].reservation
          \/ /\ src[j] \in drawn /\ incomingRows'[j].arrival = <<id, src[j]>>
             /\ incomingRows'[j].reservation = rows[src[j]].reservation
    BY <1>10, <1>12 DEF ConvertedRows
  <2>2. \A j, m \in ConvertedRows(incomingRows') :
          /\ src[j] \in drawn /\ src[j] = src[m]
          => j = m
    BY <1>10, <1>12 DEF ConvertedRows
  <2>3. id = n + 1
    BY DEF id
  <2> HIDE DEF drawn
  <2>4. QED
    BY <1>16, <1>17, <2>1, <2>2, <2>3 DEF Converts
<1>19. Linked(stockRows', incomingRows', n + 1)
  <2> HIDE DEF drawn
  <2> QED BY <1>1, <1>18, ArrivalLinks
<1>20. QED
  BY <1>13, <1>14, <1>19 DEF n

\* An arrival leaves every reservation what backs it: what was incoming is
\* stock.
LEMMA ArrivalHeld ==
  ASSUME RowsBase, RowsBase', Held, NEW o \in Order, NEW quantity, NEW l \in Location,
         NEW rest \in Order, Receives(o, quantity, l, rest)
  PROVE  Held'
<1> DEFINE conv == Converted(o, quantity)
<1>1. /\ ActiveStock \in [Reservation -> [Location -> Nat]]
      /\ ActiveIncoming \in [Reservation -> [Source -> Nat]]
  BY SupplyTypes DEF RowsBase
<1>2. ActiveIncoming' \in [Reservation -> [Source -> Nat]]
  BY SumsType DEF RowsBase, RowsTypeOK, ActiveIncoming
<1>3. /\ conv \in [Reservation -> Nat]
      /\ \A x \in Reservation : conv[x] <= ActiveIncoming[x][o]
      /\ ActiveStock' = [x \in Reservation |-> [ActiveStock[x] EXCEPT ![l] = @ + conv[x]]]
      /\ \A x \in Reservation, p \in Source :
           ActiveIncoming'[x][p] = Moved([ActiveIncoming[x] EXCEPT ![o] = @ - conv[x]], o, rest, p)
      /\ reservations' = reservations
  BY DEF Receives
<1> HIDE DEF conv
<1>4. o \in Source /\ rest \in Source /\ IsFiniteSet(Source) /\ IsFiniteSet(Location)
  BY Sets DEF Source
<1>5. ASSUME NEW x \in Reservation
      PROVE  Backing(x)' = Backing(x)
  <2> DEFINE s == ActiveStock[x]   a == ActiveIncoming[x]
             c == conv[x]
             s2 == ActiveStock'[x] a2 == [a EXCEPT ![o] = @ - c]   b == ActiveIncoming'[x]
  <2>1. /\ s \in [Location -> Nat] /\ a \in [Source -> Nat] /\ c \in Nat /\ c <= a[o]
        /\ b \in [Source -> Nat]
    BY <1>1, <1>2, <1>3
  <2>2. s2 = [s EXCEPT ![l] = @ + c]
    BY <1>3
  <2>3. \A p \in Source : b[p] = Moved(a2, o, rest, p)
    BY <1>3
  <2> HIDE DEF s, a, c, s2, b
  <2>4. s2 \in [Location -> Nat] /\ s2[l] = s[l] + c /\ \A p \in Location : p # l => s2[p] = s[p]
    BY <2>1, <2>2
  <2>5. Total(s2) = Total(s) + c
    <3>1. Total(s2) + s[l] = Total(s) + s2[l]
      BY <1>4, <2>1, <2>4, TotalChange
    <3>2. Total(s2) \in Nat /\ Total(s) \in Nat /\ s[l] \in Nat
      BY <1>4, <2>1, <2>4, TotalType
    <3>3. QED
      BY <2>1, <2>4, <3>1, <3>2
  <2>6. a2 \in [Source -> Nat] /\ a2[o] = a[o] - c /\ \A p \in Source : p # o => a2[p] = a[p]
    BY <1>4, <2>1
  <2> HIDE DEF a2
  <2>7. Total(a2) = Total(a) - c
    <3>1. Total(a2) + a[o] = Total(a) + a2[o]
      BY <1>4, <2>1, <2>6, TotalChange
    <3>2. Total(a2) \in Nat /\ Total(a) \in Nat /\ a[o] \in Nat
      BY <1>4, <2>1, <2>6, TotalType
    <3>3. QED
      BY <2>1, <2>6, <3>1, <3>2
  <2>8. Total(b) = Total(a2)
    <3>1. CASE o = rest
      <4>1. \A p \in Source : b[p] = a2[p]
        BY <2>3, <3>1 DEF Moved
      <4>2. b = a2
        BY <2>1, <2>6, <4>1
      <4>3. QED
        BY <4>2
    <3>2. CASE o # rest
      <4>1. /\ b[o] = 0 /\ b[rest] = a2[rest] + a2[o]
            /\ \A p \in Source : p # o /\ p # rest => b[p] = a2[p]
        BY <1>4, <2>3, <3>2 DEF Moved
      <4>2. b[o] + b[rest] = a2[o] + a2[rest]
        BY <1>4, <2>6, <4>1
      <4>3. QED
        BY <1>4, <2>1, <2>6, <3>2, <4>1, <4>2, TotalMoved
    <3>3. QED
      BY <3>1, <3>2
  <2>9. Total(s) \in Nat /\ Total(a) \in Nat
    BY <1>4, <2>1, TotalType
  <2>10. Backing(x) = Total(s) + Total(a) /\ Backing(x)' = Total(s2) + Total(b)
    BY DEF Backing, s, a, s2, b
  <2>11. QED
    BY <2>1, <2>5, <2>7, <2>8, <2>9, <2>10
<1>6. QED
  BY <1>3, <1>5 DEF Held, HeldBy

\* What an arrival logs.
LEMMA ArrivalEntryOK ==
  ASSUME NEW q \in Nat \ {0}, NEW l \in Location, NEW o \in Order, NEW lines,
         lines[o].status # "Unused"
  PROVE  LET e == [Entry("ARRIVAL", q, NoLocation, l) EXCEPT !.context = "arrival", !.order = o]
         IN  e \in LogEntry /\ EntryOK(e, lines)
<1> DEFINE f == Entry("ARRIVAL", q, NoLocation, l)
           e == [f EXCEPT !.context = "arrival", !.order = o]
<1>1. f \in LogEntry /\ f.op = "ARRIVAL" /\ f.to = l
  BY EntryType DEF Entry
<1> HIDE DEF f
<1>2. e \in LogEntry /\ e.op = "ARRIVAL" /\ e.to = l /\ e.order = o /\ e.context = "arrival"
  BY <1>1 DEF LogEntry
<1> HIDE DEF e
<1>3. EntryOK(e, lines)
  BY <1>2 DEF EntryOK
<1>4. QED
  BY <1>2, <1>3 DEF e, f

\* An arrival, with what is not converted going to a line without rows.
LEMMA ArrivalKeeps ==
  ASSUME UndoInv, RowsBase', MayLog, NEW o \in Order, NEW quantity \in Nat \ {0},
         NEW l \in Location, NEW rest \in Order, ReceiveStock(o, quantity, l, rest),
         Receives(o, quantity, l, rest),
         rest = o \/ \A i \in DOMAIN incomingRows : incomingRows[i].place # rest,
         LinesKept(orders, orders'), orders'[o].status # "Unused", orders'[rest].status # "Unused"
  PROVE  UndoInv'
<1> DEFINE entry == [Entry("ARRIVAL", quantity, NoLocation, l)
                       EXCEPT !.context = "arrival", !.order = o]
<1>1. RowsBase /\ Held
  BY DEF UndoInv
<1>2. Held'
  BY <1>1, ArrivalHeld
<1>3. /\ Linked(stockRows', incomingRows', Len(log) + 1) /\ OnePerLine(incomingRows')
      /\ Placed(incomingRows, incomingRows', {rest})
  BY ArrivalRows
<1>4. entry \in LogEntry /\ EntryOK(entry, orders') /\ Logged(entry)
  BY ArrivalEntryOK DEF ReceiveStock
<1> HIDE DEF entry
<1>5. /\ log \in Seq(LogEntry) /\ onHand \in [Location -> Nat] /\ onHand' \in [Location -> Nat]
  BY <1>1 DEF RowsBase, StateTypeOK
<1>6. LogGrows(entry)
  BY <1>4, <1>5, LoggedGrows
<1>7. \A p \in {rest} : p \in Order /\ orders'[p].status # "Unused"
  OBVIOUS
<1>8. QED
  BY <1>2, <1>3, <1>4, <1>6, <1>7, InvMet

\* The arrival of a whole line.
LEMMA FullArrivalKeeps ==
  ASSUME UndoInv, NEW o \in Order, NEW l \in Location, FullArrival(o, l)
  PROVE  UndoInv'
<1>1. RowsBase /\ orders \in [Order -> Summed!OrderLine]
  BY DEF UndoInv, RowsBase, StateTypeOK
<1>2. RowsBase' /\ Receives(o, orders[o].amount, l, o)
  BY <1>1, FullArrivalStep
<1>3. /\ MayLog /\ orders[o].status = "Ordered" /\ orders[o].amount > 0
      /\ orders' = [orders EXCEPT ![o] = Summed!LineOf(o, "Arrived", orders[o].amount, orders[o].ordered)]
      /\ ReceiveStock(o, orders[o].amount, l, o)
  BY DEF FullArrival
<1>4. orders[o].amount \in Nat \ {0}
  BY <1>1, <1>3 DEF Summed!OrderLine
<1>5. LinesKept(orders, orders') /\ orders'[o].status # "Unused"
  BY <1>1, <1>3 DEF LinesKept, Summed!LineOf
<1>6. QED
  BY <1>2, <1>3, <1>4, <1>5, ArrivalKeeps

\* The arrival of a part of a line: no row is of the new line before.
LEMMA PartialArrivalKeeps ==
  ASSUME UndoInv, NEW o \in Order, NEW child \in Order, NEW quantity \in 1 .. MaxQuantity,
         NEW l \in Location, PartialArrival(o, child, quantity, l)
  PROVE  UndoInv'
<1>1. /\ RowsBase /\ orders \in [Order -> Summed!OrderLine] /\ LinesUsed(incomingRows, orders)
      /\ quantity \in Nat \ {0}
  BY RowsAssumption DEF UndoInv, RowsBase, StateTypeOK
<1>2. RowsBase' /\ Receives(o, quantity, l, child)
  BY <1>1, PartialArrivalStep
<1> DEFINE share == Summed!OrderedShare(o, quantity)
<1>3. /\ MayLog /\ orders[child].status = "Unused"
      /\ orders' = [orders EXCEPT
           ![o] = Summed!LineOf(o, "Arrived", quantity, share),
           ![child] = Summed!LineOf(o, "Ordered", orders[o].amount - quantity,
                                    orders[o].ordered - share)]
      /\ ReceiveStock(o, quantity, l, child)
  BY DEF PartialArrival, Summed!NextUnused
<1> HIDE DEF share
<1>4. /\ \A x \in Order : orders'[x].status # "Unused" \/ orders'[x] = orders[x]
      /\ orders'[o].status # "Unused" /\ orders'[child].status # "Unused"
  BY <1>1, <1>3 DEF Summed!LineOf
<1>5. LinesKept(orders, orders')
  BY <1>4 DEF LinesKept
<1>6. \A i \in DOMAIN incomingRows : incomingRows[i].place # child
  BY <1>1, <1>3 DEF LinesUsed
<1>7. QED
  BY <1>1, <1>2, <1>3, <1>4, <1>5, <1>6, ArrivalKeeps

-----------------------------------------------------------------------------
(* Calls on the ledger, and what undoes them, leave the rows alone.        *)

\* A call that changes the ledger and the log.
LEMMA LedgerKeeps ==
  ASSUME UndoInv, ReservationStateUnchanged, onHand' \in [Location -> Nat],
         NEW entry, LogGrows(entry), EntryOK(entry, orders)
  PROVE  UndoInv'
<1>1. /\ orders' = orders /\ reservations' = reservations /\ splitRoot' = splitRoot
      /\ stockRows' = stockRows /\ incomingRows' = incomingRows
  BY DEF ReservationStateUnchanged
<1>2. RowsBase'
  <2>1. log' \in Seq(LogEntry)
    BY DEF LogGrows
  <2>2. RowsBase
    BY DEF UndoInv
  <2>3. QED
    BY <1>1, <2>1, <2>2 DEF RowsBase, StateTypeOK, RowsTypeOK
<1>3. Held'
  <2>1. Held /\ ActiveStock' = ActiveStock /\ ActiveIncoming' = ActiveIncoming
    BY <1>1, SumsOf DEF UndoInv
  <2>2. QED
    BY <1>1, <2>1 DEF Held, HeldBy, Backing
<1>4. /\ StockTraces(stockRows, stockRows') /\ SameConverted(incomingRows, incomingRows')
      /\ Placed(incomingRows, incomingRows', {}) /\ OnePerLine(incomingRows')
      /\ LinesKept(orders, orders')
  BY <1>1, RowsUntouched DEF UndoInv, LinesKept
<1>5. QED
  BY <1>1, <1>2, <1>3, <1>4, InvKept

\* Such a call that is logged with an entry of its own.
LEMMA LedgerCallKeeps ==
  ASSUME UndoInv, ReservationStateUnchanged, onHand' \in [Location -> Nat],
         NEW op, op \in {"RESERVE", "CONSUME", "ARRIVAL", "MOVE", "ADJUST"},
         NEW q, q \in Nat \ {0},
         NEW from, from \in Location \cup {NoLocation}, NEW to, to \in Location \cup {NoLocation},
         op = "MOVE" => from \in Location /\ to \in Location,
         op = "ADJUST" => from \in Location \/ to \in Location,
         op = "ARRIVAL" => to \in Location,
         Logged(Entry(op, q, from, to)) \/ \E k : /\ Undoable(k, log[k].op)
                                                  /\ Compensated(k, Entry(op, q, from, to))
  PROVE  UndoInv'
<1> DEFINE entry == Entry(op, q, from, to)
<1>1. /\ log \in Seq(LogEntry) /\ onHand \in [Location -> Nat]
  BY DEF UndoInv, RowsBase, StateTypeOK
<1>2. entry \in LogEntry /\ EntryOK(entry, orders)
  BY PlainEntry
<1>3. LogGrows(entry)
  <2>1. CASE Logged(entry)
    <3> HIDE DEF entry
    <3> QED BY <1>1, <1>2, <2>1, LoggedGrows
  <2>2. CASE \E k : Undoable(k, log[k].op) /\ Compensated(k, entry)
    <3> HIDE DEF entry
    <3> QED BY <1>1, <1>2, <2>2, CompensatedGrows
  <2>3. QED
    BY <2>1, <2>2
<1> HIDE DEF entry
<1>4. QED
  BY <1>2, <1>3, LedgerKeeps

\* The direct calls.
LEMMA InventoryKeeps ==
  ASSUME UndoInv, InventoryNext
  PROVE  UndoInv'
<1>1. onHand \in [Location -> Nat] /\ NoLocation \notin Location
  BY RowsAssumption DEF UndoInv, RowsBase, StateTypeOK
<1>2. \A q \in 1 .. MaxQuantity : q \in Nat \ {0}
  BY RowsAssumption
<1>3. ASSUME NEW q \in 1 .. MaxQuantity, NEW a \in Location, NEW b \in Location,
             NEW op \in {"MOVE", "RESERVE"}, MoveInventory(q, a, b, op)
      PROVE  UndoInv'
  <2>1. /\ a # b /\ q <= onHand[a]
        /\ onHand' = [onHand EXCEPT ![a] = @ - q, ![b] = @ + q]
        /\ ReservationStateUnchanged /\ Logged(Entry(op, q, a, b))
    BY <1>3 DEF MoveInventory
  <2>2. onHand' \in [Location -> Nat]
    BY <1>1, <1>2, <2>1
  <2>3. QED
    BY <1>2, <2>1, <2>2, LedgerCallKeeps
<1>4. ASSUME NEW q \in 1 .. MaxQuantity, NEW l \in Location, ConsumeInventory(q, l)
      PROVE  UndoInv'
  <2>1. /\ q <= onHand[l] /\ onHand' = [onHand EXCEPT ![l] = @ - q]
        /\ ReservationStateUnchanged /\ Logged(Entry("CONSUME", q, l, NoLocation))
    BY <1>4 DEF ConsumeInventory
  <2>2. onHand' \in [Location -> Nat]
    BY <1>1, <1>2, <2>1
  <2>3. QED
    BY <1>2, <2>1, <2>2, LedgerCallKeeps
<1>5. ASSUME NEW q \in 1 .. MaxQuantity, NEW l \in Location, IncreaseInventory(q, l)
      PROVE  UndoInv'
  <2>1. /\ onHand' = [onHand EXCEPT ![l] = @ + q]
        /\ ReservationStateUnchanged /\ Logged(Entry("ADJUST", q, NoLocation, l))
    BY <1>5 DEF IncreaseInventory
  <2>2. onHand' \in [Location -> Nat]
    BY <1>1, <1>2, <2>1
  <2>3. QED
    BY <1>2, <2>1, <2>2, LedgerCallKeeps
<1>6. ASSUME NEW q \in 1 .. MaxQuantity, NEW l \in Location, DecreaseInventory(q, l)
      PROVE  UndoInv'
  <2>1. /\ q <= onHand[l] /\ onHand' = [onHand EXCEPT ![l] = @ - q]
        /\ ReservationStateUnchanged /\ Logged(Entry("ADJUST", q, l, NoLocation))
    BY <1>6 DEF DecreaseInventory
  <2>2. onHand' \in [Location -> Nat]
    BY <1>1, <1>2, <2>1
  <2>3. QED
    BY <1>2, <2>1, <2>2, LedgerCallKeeps
<1>7. ASSUME NEW q \in 1 .. MaxQuantity, NEW l \in Location, BatchArrival(q, l)
      PROVE  UndoInv'
  <2>1. /\ onHand' = [onHand EXCEPT ![l] = @ + q]
        /\ ReservationStateUnchanged /\ Logged(Entry("ARRIVAL", q, NoLocation, l))
    BY <1>7 DEF BatchArrival
  <2>2. onHand' \in [Location -> Nat]
    BY <1>1, <1>2, <2>1
  <2>3. QED
    BY <1>2, <2>1, <2>2, LedgerCallKeeps
<1>8. QED
  BY <1>3, <1>4, <1>5, <1>6, <1>7 DEF InventoryNext

\* What an undo knows of the entry it undoes.
LEMMA UndoneEntry ==
  ASSUME UndoInv, NEW k, NEW op, Undoable(k, op)
  PROVE  /\ log[k] \in LogEntry /\ log[k].op = op /\ EntryOK(log[k], orders)
         /\ log[k].quantity \in Nat \ {0}
         /\ k \in 1 .. Len(log) /\ Len(log) < MaxLog /\ Len(log) \in Nat
         /\ Undoable(k, log[k].op)
<1>1. log \in Seq(LogEntry) /\ EntriesOK(log, orders)
  BY DEF UndoInv, RowsBase
<1>2. k \in DOMAIN log /\ log[k].op = op /\ MayLog
  BY DEF Undoable
<1>3. log[k] \in LogEntry /\ DOMAIN log = 1 .. Len(log) /\ Len(log) \in Nat
  BY <1>1, <1>2, LenProperties
<1>4. EntryOK(log[k], orders)
  BY <1>1, <1>2 DEF EntriesOK
<1>5. log[k].quantity \in Nat \ {0}
  BY <1>3 DEF LogEntry
<1>6. QED
  BY <1>2, <1>3, <1>4, <1>5 DEF MayLog

\* Of stock that is there, no more is returned than there is.
LEMMA ReturnableFacts ==
  ASSUME UndoInv, NEW k, NEW op, Undoable(k, op), log[k].to \in Location, Returnable(k) > 0
  PROVE  /\ Returnable(k) \in Nat \ {0}
         /\ Returnable(k) <= onHand[log[k].to] /\ Returnable(k) <= log[k].quantity
<1>1. log[k].quantity \in Nat \ {0}
  BY UndoneEntry
<1>2. onHand[log[k].to] \in Nat
  BY DEF UndoInv, RowsBase, StateTypeOK
<1>3. QED
  BY <1>1, <1>2 DEF Returnable, Smaller

\* The undos of those calls.
LEMMA LedgerUndoKeeps ==
  ASSUME UndoInv, NEW k,
         UndoMove(k) \/ UndoIncrease(k) \/ UndoDecrease(k) \/ UndoConsumption(k)
  PROVE  UndoInv'
<1>1. onHand \in [Location -> Nat] /\ NoLocation \notin Location /\ STOCK \in Location
  BY RowsAssumption DEF UndoInv, RowsBase, StateTypeOK
<1>2. CASE UndoMove(k)
  <2> DEFINE n == Returnable(k)
             a == log[k].to
             b == log[k].from
  <2>1. /\ Undoable(k, "MOVE") /\ n > 0
        /\ onHand' = [onHand EXCEPT ![a] = @ - n, ![b] = @ + n]
        /\ ReservationStateUnchanged /\ Compensated(k, Entry("MOVE", n, a, b))
    BY <1>2 DEF UndoMove
  <2>2. a \in Location /\ b \in Location /\ Undoable(k, log[k].op)
    BY <2>1, UndoneEntry DEF EntryOK
  <2>3. n \in Nat \ {0} /\ n <= onHand[a]
    BY <2>1, <2>2, ReturnableFacts
  <2> HIDE DEF n, a, b
  <2>4. onHand' \in [Location -> Nat]
    BY <1>1, <2>1, <2>2, <2>3
  <2>5. QED
    BY <2>1, <2>2, <2>3, <2>4, LedgerCallKeeps
<1>3. CASE UndoIncrease(k)
  <2> DEFINE n == Returnable(k)
             a == log[k].to
  <2>1. /\ Undoable(k, "ADJUST") /\ a # NoLocation /\ n > 0
        /\ onHand' = [onHand EXCEPT ![a] = @ - n]
        /\ ReservationStateUnchanged /\ Compensated(k, Entry("ADJUST", n, a, NoLocation))
    BY <1>3 DEF UndoIncrease
  <2>2. a \in Location /\ Undoable(k, log[k].op)
    BY <2>1, UndoneEntry DEF LogEntry
  <2>3. n \in Nat \ {0} /\ n <= onHand[a]
    BY <2>1, <2>2, ReturnableFacts
  <2> HIDE DEF n, a
  <2>4. onHand' \in [Location -> Nat]
    BY <1>1, <2>1, <2>2, <2>3
  <2>5. QED
    BY <2>1, <2>2, <2>3, <2>4, LedgerCallKeeps
<1>4. CASE UndoDecrease(k)
  <2> DEFINE n == log[k].quantity
             a == log[k].from
  <2>1. /\ Undoable(k, "ADJUST") /\ log[k].to = NoLocation
        /\ onHand' = [onHand EXCEPT ![a] = @ + n]
        /\ ReservationStateUnchanged /\ Compensated(k, Entry("ADJUST", n, NoLocation, a))
    BY <1>4 DEF UndoDecrease
  <2>2. a \in Location /\ n \in Nat \ {0} /\ Undoable(k, log[k].op)
    BY <1>1, <2>1, UndoneEntry DEF EntryOK
  <2> HIDE DEF n, a
  <2>3. onHand' \in [Location -> Nat]
    BY <1>1, <2>1, <2>2
  <2>4. QED
    BY <2>1, <2>2, <2>3, LedgerCallKeeps
<1>5. CASE UndoConsumption(k)
  <2> DEFINE n == log[k].quantity
             a == Shelf(k)
  <2>1. /\ Undoable(k, "CONSUME")
        /\ onHand' = [onHand EXCEPT ![a] = @ + n]
        /\ ReservationStateUnchanged /\ Compensated(k, Entry("ADJUST", n, NoLocation, a))
    BY <1>5 DEF UndoConsumption
  <2>2. n \in Nat \ {0} /\ Undoable(k, log[k].op) /\ log[k] \in LogEntry
    BY <2>1, UndoneEntry
  <2>3. a \in Location
    BY <1>1, <2>2 DEF Shelf, LogEntry
  <2> HIDE DEF n, a
  <2>4. onHand' \in [Location -> Nat]
    BY <1>1, <2>1, <2>2, <2>3
  <2>5. QED
    BY <2>1, <2>2, <2>3, <2>4, LedgerCallKeeps
<1>6. QED
  BY <1>2, <1>3, <1>4, <1>5

-----------------------------------------------------------------------------
(* Undos that give rows back to their reservation.                         *)

\* The rows with these ids have ended, and are of r.
EndedRows(P, T, rows, r, ids) ==
  /\ rows \in Seq(Row(P, T)) /\ "ACTIVE" \in T /\ "DELETED" \in T
  /\ ids \subseteq DOMAIN rows
  /\ \A i \in ids : rows[i].reservation = r /\ rows[i].status # "ACTIVE"

\* Of those, the ones at a place; the active rows of r there; and the row that
\* gets what comes back.
IdsAt(rows, ids, p) == { i \in ids : rows[i].place = p }

ActiveAt(rows, r, p) == { i \in ActiveOf(rows, r) : rows[i].place = p }

HomeAt(rows, r, ids, p) ==
  Least(IF ActiveAt(rows, r, p) = {} THEN IdsAt(rows, ids, p) ELSE ActiveAt(rows, r, p))

IsHome(rows, r, ids, i) ==
  /\ rows[i].reservation = r /\ IdsAt(rows, ids, rows[i].place) # {}
  /\ HomeAt(rows, r, ids, rows[i].place) = i

\* What comes back to a place goes to the active row there, or to one of the
\* rows that ended.
LEMMA HomeFacts ==
  ASSUME NEW P, NEW T, NEW rows, NEW r, NEW ids, EndedRows(P, T, rows, r, ids),
         NEW p, IdsAt(rows, ids, p) # {}
  PROVE  LET h == HomeAt(rows, r, ids, p)
         IN  /\ h \in DOMAIN rows /\ rows[h].place = p /\ IsHome(rows, r, ids, h)
             /\ \/ h \in ids /\ ActiveAt(rows, r, p) = {}
                \/ h \notin ids /\ h \in ActiveAt(rows, r, p)
<1> DEFINE from == IF ActiveAt(rows, r, p) = {} THEN IdsAt(rows, ids, p) ELSE ActiveAt(rows, r, p)
           h    == Least(from)
<1>1. /\ rows \in Seq(Row(P, T)) /\ ids \subseteq DOMAIN rows
      /\ \A i \in ids : rows[i].reservation = r /\ rows[i].status # "ACTIVE"
  BY DEF EndedRows
<1>2. DOMAIN rows = 1 .. Len(rows) /\ Len(rows) \in Nat
  BY <1>1, RowFields
<1>3. /\ \A i \in IdsAt(rows, ids, p) : i \in ids /\ rows[i].place = p
      /\ \A i \in ActiveAt(rows, r, p) :
           /\ i \in DOMAIN rows /\ rows[i].place = p
           /\ rows[i].reservation = r /\ rows[i].status = "ACTIVE"
  BY DEF IdsAt, ActiveAt, ActiveOf
<1>4. from # {} /\ from \subseteq 1 .. Len(rows)
  BY <1>1, <1>2, <1>3
<1>5. h \in from
  <2> HIDE DEF from
  <2> QED BY <1>2, <1>4, LeastFacts
<1>6. h = HomeAt(rows, r, ids, p)
  BY DEF HomeAt
<1> HIDE DEF h
<1>7. /\ h \in DOMAIN rows /\ rows[h].place = p /\ rows[h].reservation = r
      /\ \/ h \in ids /\ ActiveAt(rows, r, p) = {}
         \/ h \notin ids /\ h \in ActiveAt(rows, r, p)
  BY <1>1, <1>3, <1>5
<1>8. QED
  BY <1>6, <1>7 DEF IsHome

\* What rows that ended had together is a natural number.
LEMMA QuantityFacts ==
  ASSUME NEW P, NEW T, NEW rows, rows \in Seq(Row(P, T)), NEW ids, ids \subseteq DOMAIN rows
  PROVE  LET q == [i \in DOMAIN rows |-> rows[i].quantity]
         IN  /\ q \in [DOMAIN rows -> Nat] /\ IsFiniteSet(DOMAIN rows)
             /\ QuantityOf(rows, ids) = Total(Part(q, ids))
             /\ QuantityOf(rows, ids) \in Nat
<1> DEFINE q == [i \in DOMAIN rows |-> rows[i].quantity]
<1>1. q \in [DOMAIN rows -> Nat] /\ IsFiniteSet(DOMAIN rows)
  BY RowFields
<1>2. QuantityOf(rows, ids) = Total([i \in ids |-> q[i]])
  <2>1. [i \in ids |-> rows[i].quantity] = [i \in ids |-> q[i]]
    OBVIOUS
  <2>2. QED
    BY <2>1 DEF QuantityOf
<1>3. q = [i \in DOMAIN rows |-> rows[i].quantity]
  OBVIOUS
<1> HIDE DEF q
<1>4. Total([i \in ids |-> q[i]]) = Total(Part(q, ids))
  <2> DEFINE S == DOMAIN rows
  <2>1. q \in [S -> Nat] /\ ids \in SUBSET S
    BY <1>1
  <2> HIDE DEF S
  <2> QED
    BY <2>1, TotalOfPart
<1>5. Part(q, ids) \in [DOMAIN rows -> Nat]
  BY <1>1, PartType
<1>6. Total(Part(q, ids)) \in Nat
  BY <1>1, <1>5, TotalType
<1>7. QED
  BY <1>1, <1>2, <1>3, <1>4, <1>6

\* A row that is gone.
LEMMA GoneRow ==
  ASSUME NEW P, NEW T, NEW row, row \in Row(P, T), "DELETED" \in T
  PROVE  /\ Gone(row) \in Row(P, T) /\ Gone(row).status = "DELETED" /\ Gone(row).quantity = 0
         /\ Gone(row).reservation = row.reservation /\ Gone(row).place = row.place
         /\ Gone(row).arrival = row.arrival
BY DEF Row, Gone

\* What becomes of each row.
LEMMA RestoredFields ==
  ASSUME NEW P, NEW T, NEW rows, NEW r, NEW ids, EndedRows(P, T, rows, r, ids),
         NEW i \in DOMAIN rows
  PROVE  LET after == Restored(rows, r, ids)
             back  == QuantityOf(rows, IdsAt(rows, ids, rows[i].place))
         IN  /\ DOMAIN after = DOMAIN rows
             /\ after[i] \in Row(P, T)
             /\ after[i].reservation = rows[i].reservation /\ after[i].place = rows[i].place
             /\ after[i].arrival = rows[i].arrival
             /\ IsHome(rows, r, ids, i)
                => /\ after[i].status = "ACTIVE"
                   /\ after[i].quantity = (IF i \in ids THEN 0 ELSE rows[i].quantity) + back
             /\ ~IsHome(rows, r, ids, i)
                => IF i \in ids THEN after[i].status = "DELETED" ELSE after[i] = rows[i]
<1> DEFINE after == Restored(rows, r, ids)
           back  == QuantityOf(rows, IdsAt(rows, ids, rows[i].place))
           tx    == IF i \in ids THEN 0 ELSE rows[i].tx
           q     == (IF i \in ids THEN 0 ELSE rows[i].quantity) + back
           e     == [rows[i] EXCEPT !.status = "ACTIVE", !.tx = tx, !.quantity = q]
<1>1. /\ rows \in Seq(Row(P, T)) /\ ids \subseteq DOMAIN rows
      /\ "ACTIVE" \in T /\ "DELETED" \in T
  BY DEF EndedRows
<1>2. rows[i] \in Row(P, T)
  BY <1>1, RowFields
<1>3. after = [j \in DOMAIN rows |->
                 IF IsHome(rows, r, ids, j)
                 THEN [rows[j] EXCEPT
                         !.status   = "ACTIVE",
                         !.tx       = IF j \in ids THEN 0 ELSE @,
                         !.quantity = (IF j \in ids THEN 0 ELSE @)
                                        + QuantityOf(rows, IdsAt(rows, ids, rows[j].place))]
                 ELSE IF j \in ids THEN Gone(rows[j]) ELSE rows[j]]
  BY DEF Restored, IsHome, HomeAt, IdsAt, ActiveAt
<1>4. back \in Nat
  <2>1. IdsAt(rows, ids, rows[i].place) \subseteq DOMAIN rows
    BY <1>1 DEF IdsAt
  <2>2. QED
    BY <1>1, <2>1, QuantityFacts
<1>5. MaxLog \in Nat /\ rows[i].tx \in 0 .. MaxLog /\ rows[i].quantity \in Nat
  BY <1>2, Sets DEF Row
<1>6. tx \in 0 .. MaxLog /\ q \in Nat
  <2> HIDE DEF back
  <2> QED BY <1>4, <1>5
<1>7. DOMAIN after = DOMAIN rows
  BY <1>3
<1>8. after[i] = IF IsHome(rows, r, ids, i) THEN e
                 ELSE IF i \in ids THEN Gone(rows[i]) ELSE rows[i]
  BY <1>2, <1>3 DEF Row
<1> HIDE DEF after, back, tx
<1>9. CASE IsHome(rows, r, ids, i)
  <2>1. after[i] = e
    BY <1>8, <1>9
  <2>2. /\ e \in Row(P, T) /\ e.status = "ACTIVE" /\ e.quantity = q
        /\ e.reservation = rows[i].reservation /\ e.place = rows[i].place
        /\ e.arrival = rows[i].arrival
    <3> HIDE DEF q
    <3> QED BY <1>1, <1>2, <1>6 DEF Row
  <2> HIDE DEF e
  <2>3. QED
    BY <1>7, <1>9, <2>1, <2>2 DEF after, back, q
<1>10. CASE ~IsHome(rows, r, ids, i)
  <2>1. after[i] = IF i \in ids THEN Gone(rows[i]) ELSE rows[i]
    BY <1>8, <1>10
  <2>2. /\ Gone(rows[i]) \in Row(P, T) /\ Gone(rows[i]).status = "DELETED"
        /\ Gone(rows[i]).reservation = rows[i].reservation /\ Gone(rows[i]).place = rows[i].place
        /\ Gone(rows[i]).arrival = rows[i].arrival
    BY <1>1, <1>2, GoneRow
  <2> HIDE DEF e
  <2>3. QED
    BY <1>2, <1>7, <1>10, <2>1, <2>2 DEF after
<1>11. QED
  BY <1>9, <1>10

\* Rows given back stay of their reservation and on their line, and the
\* reservation has one active row there.
LEMMA RestoredRows ==
  ASSUME NEW P, NEW T, NEW rows, NEW r, NEW ids, EndedRows(P, T, rows, r, ids)
  PROVE  LET after == Restored(rows, r, ids)
         IN  /\ after \in Seq(Row(P, T))
             /\ StockTraces(rows, after) /\ SameConverted(rows, after) /\ Placed(rows, after, {})
             /\ OnePerLine(rows) => OnePerLine(after)
             /\ \A table : OfUsed(rows, table) => OfUsed(after, table)
<1> DEFINE after == Restored(rows, r, ids)
           home(i) == IsHome(rows, r, ids, i)
<1>1. /\ rows \in Seq(Row(P, T)) /\ ids \subseteq DOMAIN rows
      /\ \A i \in ids : rows[i].reservation = r /\ rows[i].status # "ACTIVE"
  BY DEF EndedRows
<1>2. DOMAIN rows = 1 .. Len(rows) /\ Len(rows) \in Nat
  BY <1>1, RowFields
<1>3. after = [i \in DOMAIN rows |-> after[i]]
  BY DEF Restored
<1>4. \A i \in DOMAIN rows :
        /\ after[i] \in Row(P, T)
        /\ after[i].reservation = rows[i].reservation /\ after[i].place = rows[i].place
        /\ after[i].arrival = rows[i].arrival
        /\ home(i) => after[i].status = "ACTIVE"
        /\ ~home(i) => IF i \in ids THEN after[i].status = "DELETED" ELSE after[i] = rows[i]
  BY RestoredFields
<1>5. \A i \in DOMAIN rows : home(i) =>
        /\ rows[i].reservation = r /\ HomeAt(rows, r, ids, rows[i].place) = i
        /\ ActiveAt(rows, r, rows[i].place) = {} \/ rows[i].status = "ACTIVE"
  <2> SUFFICES ASSUME NEW i \in DOMAIN rows, home(i)
               PROVE  /\ rows[i].reservation = r /\ HomeAt(rows, r, ids, rows[i].place) = i
                      /\ ActiveAt(rows, r, rows[i].place) = {} \/ rows[i].status = "ACTIVE"
    OBVIOUS
  <2>1. /\ rows[i].reservation = r /\ HomeAt(rows, r, ids, rows[i].place) = i
        /\ IdsAt(rows, ids, rows[i].place) # {}
    BY DEF IsHome
  <2>2. ActiveAt(rows, r, rows[i].place) = {} \/ i \in ActiveAt(rows, r, rows[i].place)
    BY <2>1, HomeFacts
  <2>3. QED
    BY <2>1, <2>2 DEF ActiveAt, ActiveOf
<1> HIDE DEF after, home
<1>6. after \in Seq(Row(P, T)) /\ DOMAIN after = DOMAIN rows
  BY <1>2, <1>3, <1>4, FunctionIsSeq
<1>7. StockTraces(rows, after) /\ Placed(rows, after, {})
  BY <1>4, <1>6 DEF StockTraces, Placed
<1>8. SameConverted(rows, after)
  BY <1>4, <1>6 DEF SameConverted, ConvertedRows
<1>9. ASSUME OnePerLine(rows) PROVE OnePerLine(after)
  <2> SUFFICES ASSUME NEW i \in DOMAIN rows, NEW j \in DOMAIN rows,
                      i # j, after[i].status = "ACTIVE", after[j].status = "ACTIVE",
                      rows[i].reservation = rows[j].reservation, rows[i].place = rows[j].place
               PROVE  FALSE
    BY <1>4, <1>6 DEF OnePerLine
  <2>1. \A m \in DOMAIN rows : after[m].status = "ACTIVE" /\ ~home(m) => rows[m].status = "ACTIVE"
    BY <1>4
  <2>2. ASSUME NEW m \in DOMAIN rows, rows[m].status = "ACTIVE", rows[m].reservation = r
        PROVE  m \in ActiveAt(rows, r, rows[m].place)
    BY <2>2 DEF ActiveAt, ActiveOf
  <2>3. CASE home(i) /\ home(j)
    BY <1>5, <2>3
  <2>4. CASE home(i) /\ ~home(j)
    <3>1. rows[j].status = "ACTIVE" /\ rows[j].reservation = r
      BY <1>5, <2>1, <2>4
    <3>2. rows[i].status = "ACTIVE"
      BY <1>5, <2>2, <2>4, <3>1
    <3>3. QED
      BY <1>9, <3>1, <3>2 DEF OnePerLine
  <2>5. CASE ~home(i) /\ home(j)
    <3>1. rows[i].status = "ACTIVE" /\ rows[i].reservation = r
      BY <1>5, <2>1, <2>5
    <3>2. rows[j].status = "ACTIVE"
      BY <1>5, <2>2, <2>5, <3>1
    <3>3. QED
      BY <1>9, <3>1, <3>2 DEF OnePerLine
  <2>6. CASE ~home(i) /\ ~home(j)
    BY <1>9, <2>1, <2>6 DEF OnePerLine
  <2>7. QED
    BY <2>3, <2>4, <2>5, <2>6
<1>10. \A table : OfUsed(rows, table) => OfUsed(after, table)
  BY <1>4, <1>6 DEF OfUsed
<1>11. QED
  BY <1>6, <1>7, <1>8, <1>9, <1>10 DEF after

\* At each place r gets what its ended rows had there.
LEMMA RestoredAt ==
  ASSUME NEW P, NEW T, NEW rows, NEW r, NEW ids, EndedRows(P, T, rows, r, ids), NEW x, NEW p
  PROVE  ActiveQuantity(Restored(rows, r, ids), x, p)
           = ActiveQuantity(rows, x, p) + (IF x = r THEN QuantityOf(rows, IdsAt(rows, ids, p)) ELSE 0)
<1> DEFINE after == Restored(rows, r, ids)
           D     == DOMAIN rows
           v     == Weights(rows, x, p)
           w     == Weights(after, x, p)
           back  == QuantityOf(rows, IdsAt(rows, ids, p))
<1>1. /\ rows \in Seq(Row(P, T)) /\ ids \subseteq D
      /\ \A i \in ids : rows[i].reservation = r /\ rows[i].status # "ACTIVE"
  BY DEF EndedRows
<1>2. after \in Seq(Row(P, T))
  BY RestoredRows
<1>3. \A i \in D :
        /\ after[i].reservation = rows[i].reservation /\ after[i].place = rows[i].place
        /\ IsHome(rows, r, ids, i)
           => /\ after[i].status = "ACTIVE"
              /\ after[i].quantity = (IF i \in ids THEN 0 ELSE rows[i].quantity)
                                     + QuantityOf(rows, IdsAt(rows, ids, rows[i].place))
        /\ ~IsHome(rows, r, ids, i)
           => IF i \in ids THEN after[i].status = "DELETED" ELSE after[i] = rows[i]
  BY RestoredFields
<1>4. DOMAIN after = D
  BY DEF Restored
<1>5. /\ v \in [D -> Nat] /\ IsFiniteSet(D) /\ ActiveQuantity(rows, x, p) = Total(v)
      /\ ActiveQuantity(rows, x, p) \in Nat
  BY <1>1, WeightsType, ActiveIsWeights
<1>6. w \in [D -> Nat] /\ ActiveQuantity(after, x, p) = Total(w)
  BY <1>2, <1>4, WeightsType, ActiveIsWeights
<1>7. IdsAt(rows, ids, p) \subseteq D /\ \A i \in IdsAt(rows, ids, p) : i \in ids /\ rows[i].place = p
  BY <1>1 DEF IdsAt
<1>8. back \in Nat
  BY <1>1, <1>7, QuantityFacts
<1>9. /\ \A i \in D : v[i] = IF /\ rows[i].status = "ACTIVE" /\ rows[i].reservation = x
                                /\ rows[i].place = p
                             THEN rows[i].quantity ELSE 0
      /\ \A i \in D : w[i] = IF /\ after[i].status = "ACTIVE" /\ after[i].reservation = x
                                /\ after[i].place = p
                             THEN after[i].quantity ELSE 0
  BY <1>4 DEF Weights
<1> HIDE DEF after, v, w, back, D
<1>10. ASSUME NEW i \in D,
              ~IsHome(rows, r, ids, i) \/ x # r \/ rows[i].place # p
       PROVE  w[i] = v[i]
  <2>1. CASE IsHome(rows, r, ids, i)
    <3>1. rows[i].reservation = r
      BY <2>1 DEF IsHome
    <3>2. QED
      BY <1>3, <1>9, <1>10, <2>1, <3>1
  <2>2. CASE ~IsHome(rows, r, ids, i)
    <3>1. CASE i \in ids
      BY <1>1, <1>3, <1>9, <2>2, <3>1
    <3>2. CASE i \notin ids
      BY <1>3, <1>9, <2>2, <3>2
    <3>3. QED
      BY <3>1, <3>2
  <2>3. QED
    BY <2>1, <2>2
<1>11. CASE x # r \/ IdsAt(rows, ids, p) = {}
  <2>1. \A i \in D : rows[i].place = p /\ x = r => ~IsHome(rows, r, ids, i)
    BY <1>11 DEF IsHome
  <2>2. \A i \in D : w[i] = v[i]
    BY <1>10, <2>1
  <2>3. w = v
    BY <1>5, <1>6, <2>2
  <2>4. x = r => back = 0
    <3> SUFFICES ASSUME IdsAt(rows, ids, p) = {} PROVE back = 0
      BY <1>11
    <3> DEFINE q == [i \in DOMAIN rows |-> rows[i].quantity]
    <3>1. /\ q \in [DOMAIN rows -> Nat] /\ IsFiniteSet(DOMAIN rows)
          /\ back = Total(Part(q, IdsAt(rows, ids, p)))
      BY <1>1, <1>7, QuantityFacts DEF back, D
    <3> HIDE DEF q
    <3>2. QED
      BY <3>1, PartNothing
  <2>5. QED
    BY <1>5, <1>6, <2>3, <2>4 DEF after, back
<1>12. CASE x = r /\ IdsAt(rows, ids, p) # {}
  <2> DEFINE h == HomeAt(rows, r, ids, p)
  <2>1. /\ h \in D /\ rows[h].place = p /\ IsHome(rows, r, ids, h)
        /\ \/ h \in ids /\ ActiveAt(rows, r, p) = {}
           \/ h \notin ids /\ h \in ActiveAt(rows, r, p)
    BY <1>12, HomeFacts DEF D
  <2>2. \A i \in D : rows[i].place = p /\ IsHome(rows, r, ids, i) => i = h
    BY DEF IsHome
  <2>3. rows[h].reservation = r
    BY <2>1 DEF IsHome
  <2> HIDE DEF h
  <2>4. h \in ids => v[h] = 0
    BY <1>1, <1>9, <2>1
  <2>5. h \notin ids => v[h] = rows[h].quantity
    <3>1. h \notin ids => rows[h].status = "ACTIVE"
      BY <2>1 DEF ActiveAt, ActiveOf
    <3>2. QED
      BY <1>9, <1>12, <2>1, <2>3, <3>1
  <2>6. w[h] = (IF h \in ids THEN 0 ELSE rows[h].quantity) + back
    BY <1>3, <1>9, <1>12, <2>1, <2>3 DEF back
  <2>7. w[h] = v[h] + back
    BY <2>4, <2>5, <2>6
  <2>8. \A i \in D : i # h => w[i] = v[i]
    BY <1>10, <2>2
  <2>9. Total(w) + v[h] = Total(v) + w[h]
    <3>1. DiffersAt(w, v, D, h)
      BY <1>5, <1>6, <2>1, <2>8 DEF DiffersAt
    <3> QED
      BY <3>1, <1>5, <1>6, TotalDiffers
  <2>10. Total(w) \in Nat /\ v[h] \in Nat
    BY <1>5, <1>6, <2>1, TotalType
  <2>11. QED
    BY <1>5, <1>6, <1>8, <1>12, <2>7, <2>9, <2>10 DEF after, back
<1>13. QED
  BY <1>11, <1>12

\* What backs r grows by what its ended rows had, and nothing else changes.
LEMMA RestoredBacking ==
  ASSUME NEW P, IsFiniteSet(P), NEW T, NEW rows, NEW r \in Reservation, NEW ids,
         EndedRows(P, T, rows, r, ids)
  PROVE  LET after == Restored(rows, r, ids)
         IN  /\ RowBacking(after, r) = RowBacking(rows, r) + QuantityOf(rows, ids)
             /\ \A x \in Reservation : x # r => RowBacking(after, x) = RowBacking(rows, x)
             /\ QuantityOf(rows, ids) \in Nat
             /\ QuantityOf(rows, ids) > 0 => ids # {}
<1> DEFINE after == Restored(rows, r, ids)
           D     == DOMAIN rows
           q     == [i \in D |-> rows[i].quantity]
           d     == Part(q, ids)
           where == [i \in D |-> rows[i].place]
           g     == Grouped(d, where, P)
           a     == Sums(rows, P)[r]
           b     == Sums(after, P)[r]
<1>1. rows \in Seq(Row(P, T)) /\ ids \subseteq D
  BY DEF EndedRows
<1>2. after \in Seq(Row(P, T))
  BY RestoredRows
<1>3. /\ q \in [D -> Nat] /\ IsFiniteSet(D) /\ where \in [D -> P]
      /\ QuantityOf(rows, ids) = Total(d) /\ QuantityOf(rows, ids) \in Nat
  BY <1>1, QuantityFacts, RowFields
<1>4. d \in [D -> Nat]
  <2> HIDE DEF q
  <2> QED BY <1>3, PartType
<1>5. g \in [P -> Nat] /\ Total(g) = Total(d)
  <2> HIDE DEF d, where
  <2> QED BY <1>3, <1>4, TotalGrouped
<1>6. ASSUME NEW p \in P PROVE g[p] = QuantityOf(rows, IdsAt(rows, ids, p))
  <2>1. Part(d, Where(where, p)) = Part(q, IdsAt(rows, ids, p))
    BY <1>1 DEF Part, Where, IdsAt
  <2>2. IdsAt(rows, ids, p) \subseteq D
    BY <1>1 DEF IdsAt
  <2>3. QuantityOf(rows, IdsAt(rows, ids, p)) = Total(Part(q, IdsAt(rows, ids, p)))
    BY <1>1, <2>2, QuantityFacts
  <2>4. g[p] = Total(Part(d, Where(where, p)))
    BY DEF Grouped
  <2>5. QED
    BY <2>1, <2>3, <2>4
<1> HIDE DEF g
<1>7. /\ Total(a) = RowBacking(rows, r) /\ Total(b) = RowBacking(after, r)
      /\ a \in [P -> Nat] /\ b \in [P -> Nat]
  <2> HIDE DEF after
  <2> QED BY <1>1, <1>2, SumsBacking, SumsType DEF Sums
<1>8. b = Plus(a, g)
  <2>1. \A p \in P : b[p] = a[p] + g[p]
    <3> SUFFICES ASSUME NEW p \in P PROVE b[p] = a[p] + g[p]
      OBVIOUS
    <3>1. ActiveQuantity(after, r, p)
            = ActiveQuantity(rows, r, p) + QuantityOf(rows, IdsAt(rows, ids, p))
      BY RestoredAt
    <3>2. a[p] = ActiveQuantity(rows, r, p) /\ b[p] = ActiveQuantity(after, r, p)
      BY DEF Sums
    <3>3. QED
      BY <1>6, <3>1, <3>2
  <2> HIDE DEF a, b
  <2>2. QED
    BY <1>7, <2>1 DEF Plus
<1>9. Total(b) = Total(a) + Total(g)
  <2> HIDE DEF a, b
  <2> QED BY <1>5, <1>7, <1>8, TotalPlus
<1>10. ASSUME NEW x \in Reservation, x # r
       PROVE  RowBacking(after, x) = RowBacking(rows, x)
  <2>1. \A p \in P : ActiveQuantity(after, x, p) = ActiveQuantity(rows, x, p)
    <3> SUFFICES ASSUME NEW p \in P
                 PROVE  ActiveQuantity(after, x, p) = ActiveQuantity(rows, x, p)
      OBVIOUS
    <3>1. ActiveQuantity(after, x, p) = ActiveQuantity(rows, x, p) + 0
      BY <1>10, RestoredAt
    <3>2. ActiveQuantity(rows, x, p) \in Nat
      BY <1>1, ActiveIsWeights
    <3>3. QED
      BY <3>1, <3>2
  <2> HIDE DEF after
  <2>2. Sums(after, P)[x] = Sums(rows, P)[x]
    BY <2>1 DEF Sums
  <2>3. QED
    BY <1>1, <1>2, <2>2, SumsBacking
<1>11. QuantityOf(rows, ids) > 0 => ids # {}
  <2> SUFFICES ASSUME ids = {} PROVE QuantityOf(rows, ids) = 0
    BY <1>3
  <2> HIDE DEF q
  <2>1. Total(Part(q, ids)) = 0
    BY <1>3, PartNothing
  <2>2. QED
    BY <1>3, <2>1
<1>12. QED
  <2> HIDE DEF after, a, b
  <2> QED BY <1>3, <1>5, <1>7, <1>9, <1>10, <1>11 DEF after

\* Giving nothing back changes nothing.
LEMMA RestoredNone ==
  ASSUME NEW P, NEW T, NEW rows, rows \in Seq(Row(P, T)), NEW r
  PROVE  Restored(rows, r, {}) = rows /\ QuantityOf(rows, {}) = 0
<1>1. Restored(rows, r, {}) = [i \in DOMAIN rows |-> rows[i]]
  BY DEF Restored
<1>2. rows = [i \in DOMAIN rows |-> rows[i]]
  OBVIOUS
<1> DEFINE q == [i \in DOMAIN rows |-> rows[i].quantity]
<1>3. q \in [DOMAIN rows -> Nat] /\ IsFiniteSet(DOMAIN rows) /\ QuantityOf(rows, {}) = Total(Part(q, {}))
  BY QuantityFacts
<1> HIDE DEF q
<1>4. Total(Part(q, {})) = 0
  BY <1>3, PartNothing
<1>5. QED
  BY <1>1, <1>2, <1>3, <1>4

\* The reservation that gets a quantity back.
LEMMA ReactivatedFacts ==
  ASSUME reservations \in [Reservation -> Summed!ReservationRow], NEW r \in Reservation,
         NEW n \in Nat, UsedInOrder(reservations), reservations[r].status # "Unused"
  PROVE  /\ Reactivated(r, n) \in [Reservation -> Summed!ReservationRow]
         /\ Reactivated(r, n)[r].status = "ACTIVE"
         /\ Reactivated(r, n)[r].quantity = reservations[r].quantity + n
         /\ reservations[r].quantity \in Nat
         /\ \A x \in Reservation : x # r => Reactivated(r, n)[x] = reservations[x]
         /\ \A x \in Reservation : reservations[x].status # "Unused"
                                   => Reactivated(r, n)[x].status # "Unused"
         /\ UsedInOrder(Reactivated(r, n))
<1> DEFINE row == reservations[r]
           e   == [row EXCEPT !.quantity = @ + n, !.status = "ACTIVE"]
<1>1. row \in Summed!ReservationRow
  OBVIOUS
<1>2. /\ e \in Summed!ReservationRow /\ e.status = "ACTIVE" /\ e.quantity = row.quantity + n
      /\ row.quantity \in Nat
  <2> DEFINE q  == row.quantity + n
             e1 == [row EXCEPT !.quantity = q]
  <2>1. row.quantity \in Nat /\ q \in Nat
    BY <1>1 DEF Summed!ReservationRow
  <2> HIDE DEF row, q
  <2>2. e1 \in Summed!ReservationRow /\ e1.quantity = q
    BY <1>1, <2>1 DEF Summed!ReservationRow
  <2>3. e = [e1 EXCEPT !.status = "ACTIVE"]
    BY DEF q
  <2> HIDE DEF e1, e
  <2>4. e \in Summed!ReservationRow /\ e.status = "ACTIVE" /\ e.quantity = e1.quantity
    BY <2>2, <2>3 DEF Summed!ReservationRow
  <2>5. QED
    BY <2>1, <2>2, <2>4 DEF q
<1>3. Reactivated(r, n) = [reservations EXCEPT ![r] = e]
  BY DEF Reactivated
<1> HIDE DEF e
<1>4. /\ Reactivated(r, n) \in [Reservation -> Summed!ReservationRow]
      /\ Reactivated(r, n)[r] = e
      /\ \A x \in Reservation : x # r => Reactivated(r, n)[x] = reservations[x]
  BY <1>2, <1>3
<1>5. \A x \in Reservation : Reactivated(r, n)[x].status # "Unused"
                             <=> reservations[x].status # "Unused"
  BY <1>2, <1>4
<1>6. UsedInOrder(Reactivated(r, n))
  BY <1>5 DEF UsedInOrder
<1>7. QED
  BY <1>2, <1>4, <1>5, <1>6

\* Rows are given back, and the quantity with them: a reservation that had
\* ended held nothing, one that is active held at most its quantity.
LEMMA RestoredKeeps ==
  ASSUME UndoInv, NEW k, NEW op \in {"RESERVE", "CONSUME"}, Undoable(k, op),
         NEW r \in Reservation, NEW sIds, NEW iIds,
         EndedRows(Location, StockStatus, stockRows, r, sIds),
         EndedRows(Source, IncomingStatus, incomingRows, r, iIds),
         QuantityOf(stockRows, sIds) + QuantityOf(incomingRows, iIds) = log[k].quantity,
         stockRows' = Restored(stockRows, r, sIds),
         incomingRows' = Restored(incomingRows, r, iIds),
         reservations' = Reactivated(r, log[k].quantity),
         orders' = orders, splitRoot' = splitRoot, onHand' \in [Location -> Nat],
         Compensated(k, Entry(op, log[k].quantity, NoLocation, NoLocation))
  PROVE  UndoInv'
<1> DEFINE n     == log[k].quantity
           entry == Entry(op, n, NoLocation, NoLocation)
           after == Reactivated(r, n)
<1>1. /\ RowsBase /\ Held /\ OnePerLine(incomingRows)
      /\ StateTypeOK /\ RowsTypeOK /\ log \in Seq(LogEntry)
      /\ OfUsed(stockRows, reservations) /\ OfUsed(incomingRows, reservations)
      /\ UsedInOrder(reservations)
  BY DEF UndoInv, RowsBase
<1>2. n \in Nat \ {0}
  BY UndoneEntry
<1>3. /\ IsFiniteSet(Location) /\ IsFiniteSet(Source)
  BY Sets
<1>4. /\ RowBacking(stockRows', r) = RowBacking(stockRows, r) + QuantityOf(stockRows, sIds)
      /\ \A x \in Reservation : x # r => RowBacking(stockRows', x) = RowBacking(stockRows, x)
      /\ QuantityOf(stockRows, sIds) \in Nat
      /\ QuantityOf(stockRows, sIds) > 0 => sIds # {}
  BY <1>3, RestoredBacking
<1>5. /\ RowBacking(incomingRows', r) = RowBacking(incomingRows, r) + QuantityOf(incomingRows, iIds)
      /\ \A x \in Reservation : x # r => RowBacking(incomingRows', x) = RowBacking(incomingRows, x)
      /\ QuantityOf(incomingRows, iIds) \in Nat
      /\ QuantityOf(incomingRows, iIds) > 0 => iIds # {}
  BY <1>3, RestoredBacking
<1>6. reservations[r].status # "Unused"
  <2>1. sIds # {} \/ iIds # {}
    BY <1>2, <1>4, <1>5
  <2>2. /\ \A i \in sIds : i \in DOMAIN stockRows /\ stockRows[i].reservation = r
        /\ \A i \in iIds : i \in DOMAIN incomingRows /\ incomingRows[i].reservation = r
    BY DEF EndedRows
  <2>3. QED
    BY <1>1, <2>1, <2>2 DEF OfUsed
<1>7. /\ after \in [Reservation -> Summed!ReservationRow]
      /\ after[r].status = "ACTIVE" /\ after[r].quantity = reservations[r].quantity + n
      /\ reservations[r].quantity \in Nat
      /\ \A x \in Reservation : x # r => after[x] = reservations[x]
      /\ \A x \in Reservation : reservations[x].status # "Unused" => after[x].status # "Unused"
      /\ UsedInOrder(after)
  <2> HIDE DEF n
  <2> QED BY <1>1, <1>2, <1>6, ReactivatedFacts DEF StateTypeOK
<1>8. reservations' = after
  OBVIOUS
<1> HIDE DEF after
<1>9. /\ stockRows' \in Seq(Row(Location, StockStatus))
      /\ StockTraces(stockRows, stockRows')
      /\ \A table : OfUsed(stockRows, table) => OfUsed(stockRows', table)
  BY RestoredRows
<1>10. /\ incomingRows' \in Seq(Row(Source, IncomingStatus))
       /\ SameConverted(incomingRows, incomingRows') /\ Placed(incomingRows, incomingRows', {})
       /\ OnePerLine(incomingRows')
       /\ \A table : OfUsed(incomingRows, table) => OfUsed(incomingRows', table)
  BY <1>1, RestoredRows
<1>11. LogGrows(entry) /\ EntryOK(entry, orders')
  <2>1. onHand \in [Location -> Nat]
    BY <1>1 DEF StateTypeOK
  <2>2. entry \in LogEntry /\ EntryOK(entry, orders')
    <3> HIDE DEF n
    <3> QED BY <1>2, PlainEntry
  <2>3. Compensated(k, entry)
    OBVIOUS
  <2> HIDE DEF entry
  <2>4. QED
    BY <1>1, <2>1, <2>2, <2>3, CompensatedGrows
<1>12. RowsBase'
  <2>1. StateTypeOK'
    BY <1>1, <1>7, <1>8 DEF StateTypeOK
  <2>2. RowsTypeOK'
    BY <1>9, <1>10 DEF RowsTypeOK
  <2>3. \A i \in DOMAIN stockRows : stockRows[i].reservation \in Reservation
    BY <1>1, RowFields DEF RowsTypeOK
  <2>4. \A i \in DOMAIN incomingRows : incomingRows[i].reservation \in Reservation
    BY <1>1, RowFields DEF RowsTypeOK
  <2>5. OfUsed(stockRows, after) /\ OfUsed(incomingRows, after)
    BY <1>1, <1>7, <2>3, <2>4 DEF OfUsed
  <2>6. OfUsed(stockRows', reservations') /\ OfUsed(incomingRows', reservations')
    BY <1>8, <1>9, <1>10, <2>5
  <2>7. log' \in Seq(LogEntry)
    BY <1>11 DEF LogGrows
  <2>8. UsedInOrder(reservations')
    BY <1>7, <1>8
  <2>9. QED
    BY <2>1, <2>2, <2>6, <2>7, <2>8 DEF RowsBase
<1>13. \A x \in Reservation :
         /\ Backing(x) = RowBacking(stockRows, x) + RowBacking(incomingRows, x)
         /\ RowBacking(stockRows, x) \in Nat /\ RowBacking(incomingRows, x) \in Nat
         /\ Backing(x)' = RowBacking(stockRows', x) + RowBacking(incomingRows', x)
  BY <1>1, <1>12, BackingRows DEF RowsBase
<1>14. Held'
  <2>1. Backing(r)' = Backing(r) + n
    BY <1>4, <1>5, <1>13
  <2>2. HeldBy(r) /\ Backing(r) \in Nat
    BY <1>1, <1>13 DEF Held
  <2>3. Backing(r) <= reservations[r].quantity
    BY <1>7, <2>2 DEF HeldBy
  <2> HIDE DEF n
  <2>4. HeldBy(r)'
    BY <1>2, <1>7, <1>8, <2>1, <2>2, <2>3 DEF HeldBy
  <2>5. \A x \in Reservation : x # r => Backing(x)' = Backing(x) /\ reservations'[x] = reservations[x]
    BY <1>4, <1>5, <1>7, <1>8, <1>13
  <2>6. QED
    BY <1>1, <2>4, <2>5, HeldStep
<1>15. LinesKept(orders, orders')
  BY DEF LinesKept
<1> HIDE DEF entry
<1>16. QED
  BY <1>9, <1>10, <1>11, <1>12, <1>14, <1>15, InvKept

\* The rows that a call marked have ended.
LEMMA MarkedEnded ==
  ASSUME NEW P, NEW T, NEW rows, rows \in Seq(Row(P, T)), "ACTIVE" \in T, "DELETED" \in T,
         NEW r, NEW status, status # "ACTIVE", NEW k
  PROVE  EndedRows(P, T, rows, r, MarkedRows(rows, r, status, k))
BY DEF EndedRows, MarkedRows

\* Undoing a release.
LEMMA UndoReleaseKeeps ==
  ASSUME UndoInv, NEW k, UndoRelease(k)
  PROVE  UndoInv'
<1> DEFINE r    == log[k].reservation
           sIds == MarkedRows(stockRows, r, "RELEASED", k)
           iIds == MarkedRows(incomingRows, r, "RELEASED", k)
<1>1. /\ Undoable(k, "RESERVE") /\ log[k].context = "release"
      /\ QuantityOf(stockRows, sIds) + QuantityOf(incomingRows, iIds) = log[k].quantity
      /\ stockRows' = Restored(stockRows, r, sIds)
      /\ incomingRows' = Restored(incomingRows, r, iIds)
      /\ reservations' = Reactivated(r, log[k].quantity)
      /\ onHand' = onHand /\ orders' = orders /\ splitRoot' = splitRoot
      /\ Compensated(k, Entry("RESERVE", log[k].quantity, NoLocation, NoLocation))
  BY DEF UndoRelease
<1>2. r \in Reservation
  BY <1>1, UndoneEntry DEF EntryOK
<1>3. /\ stockRows \in Seq(Row(Location, StockStatus))
      /\ incomingRows \in Seq(Row(Source, IncomingStatus)) /\ onHand \in [Location -> Nat]
      /\ "ACTIVE" \in StockStatus /\ "DELETED" \in StockStatus
      /\ "ACTIVE" \in IncomingStatus /\ "DELETED" \in IncomingStatus
  BY DEF UndoInv, RowsBase, RowsTypeOK, StateTypeOK, StockStatus, IncomingStatus
<1> HIDE DEF r
<1>4. /\ EndedRows(Location, StockStatus, stockRows, r, sIds)
      /\ EndedRows(Source, IncomingStatus, incomingRows, r, iIds)
  BY <1>3, MarkedEnded
<1> HIDE DEF sIds, iIds
<1>5. QED
  BY <1>1, <1>2, <1>3, <1>4, RestoredKeeps

\* Undoing a consumption of a reservation.
LEMMA UndoReservationConsumeKeeps ==
  ASSUME UndoInv, NEW k, UndoReservationConsume(k)
  PROVE  UndoInv'
<1> DEFINE r   == log[k].reservation
           ids == MarkedRows(stockRows, r, "CONSUMED", k)
           at(l) == { i \in ids : stockRows[i].place = l }
<1>1. /\ Undoable(k, "CONSUME") /\ log[k].context = "consume"
      /\ QuantityOf(stockRows, ids) = log[k].quantity
      /\ onHand' = [l \in Location |-> onHand[l] + QuantityOf(stockRows, at(l))]
      /\ stockRows' = Restored(stockRows, r, ids)
      /\ reservations' = Reactivated(r, log[k].quantity)
      /\ orders' = orders /\ splitRoot' = splitRoot /\ incomingRows' = incomingRows
      /\ Compensated(k, Entry("CONSUME", log[k].quantity, NoLocation, NoLocation))
  BY DEF UndoReservationConsume
<1>2. r \in Reservation /\ log[k].quantity \in Nat
  BY <1>1, UndoneEntry DEF EntryOK
<1>3. /\ stockRows \in Seq(Row(Location, StockStatus))
      /\ incomingRows \in Seq(Row(Source, IncomingStatus)) /\ onHand \in [Location -> Nat]
      /\ "ACTIVE" \in StockStatus /\ "DELETED" \in StockStatus
      /\ "ACTIVE" \in IncomingStatus /\ "DELETED" \in IncomingStatus
  BY DEF UndoInv, RowsBase, RowsTypeOK, StateTypeOK, StockStatus, IncomingStatus
<1> HIDE DEF r
<1>4. EndedRows(Location, StockStatus, stockRows, r, ids)
  BY <1>3, MarkedEnded
<1>5. ids \subseteq DOMAIN stockRows
  BY <1>4 DEF EndedRows
<1>6. \A l \in Location : QuantityOf(stockRows, at(l)) \in Nat
  <2> SUFFICES ASSUME NEW l \in Location PROVE QuantityOf(stockRows, at(l)) \in Nat
    OBVIOUS
  <2>1. at(l) \subseteq DOMAIN stockRows
    BY <1>5
  <2> HIDE DEF at
  <2>2. QED
    BY <1>3, <2>1, QuantityFacts
<1> HIDE DEF at
<1>7. onHand' \in [Location -> Nat]
  BY <1>1, <1>3, <1>6
<1>8. Restored(incomingRows, r, {}) = incomingRows /\ QuantityOf(incomingRows, {}) = 0
  BY <1>3, RestoredNone
<1>9. EndedRows(Source, IncomingStatus, incomingRows, r, {})
  BY <1>3 DEF EndedRows
<1> HIDE DEF ids
<1>10. /\ QuantityOf(stockRows, ids) + QuantityOf(incomingRows, {}) = log[k].quantity
       /\ incomingRows' = Restored(incomingRows, r, {})
  BY <1>1, <1>2, <1>8
<1>11. QED
  BY <1>1, <1>2, <1>4, <1>7, <1>9, <1>10, RestoredKeeps

\* Releasing all of r leaves it nothing, and the others what they have.
LEMMA ReleasedFacts ==
  ASSUME NEW P, IsFiniteSet(P), NEW T, "RELEASED" \in T, NEW rows, rows \in Seq(Row(P, T)),
         NEW r \in Reservation
  PROVE  LET after == ReleasedRows(rows, r)
         IN  /\ after \in Seq(Row(P, T))
             /\ StockTraces(rows, after) /\ SameConverted(rows, after) /\ Placed(rows, after, {})
             /\ StaysPut(rows, after)
             /\ \A table : OfUsed(rows, table) => OfUsed(after, table)
             /\ RowBacking(after, r) = 0
             /\ \A x \in Reservation : x # r => RowBacking(after, x) = RowBacking(rows, x)
<1> DEFINE after == ReleasedRows(rows, r)
           D     == DOMAIN rows
<1>1. /\ D = 1 .. Len(rows) /\ Len(rows) \in Nat /\ IsFiniteSet(D)
      /\ \A i \in D : rows[i] \in Row(P, T)
  BY RowFields
<1>2. after = [i \in D |-> after[i]]
  BY DEF ReleasedRows
<1>3. ASSUME NEW i \in D
      PROVE  /\ after[i] \in Row(P, T)
             /\ after[i].reservation = rows[i].reservation /\ after[i].place = rows[i].place
             /\ \/ /\ i \in ActiveOf(rows, r) /\ after[i].status = "RELEASED"
                   /\ after[i].arrival = NoArrival
                \/ i \notin ActiveOf(rows, r) /\ after[i] = rows[i]
  <2> DEFINE row == rows[i]
             e   == [row EXCEPT !.status = "RELEASED", !.tx = 0, !.arrival = NoArrival]
  <2>1. after[i] = IF i \in ActiveOf(rows, r) THEN e ELSE rows[i]
    BY DEF ReleasedRows
  <2>2. row \in Row(P, T)
    BY <1>1
  <2>3. 0 \in 0 .. MaxLog /\ NoArrival \in (0 .. MaxLog) \X Nat
    BY Sets DEF NoArrival
  <2> HIDE DEF row, after
  <2>4. /\ e \in Row(P, T) /\ e.status = "RELEASED" /\ e.arrival = NoArrival
        /\ e.reservation = row.reservation /\ e.place = row.place
    BY <2>2, <2>3 DEF Row
  <2> HIDE DEF e
  <2>5. QED
    BY <1>1, <2>1, <2>4 DEF row
<1> HIDE DEF after
<1>4. after \in Seq(Row(P, T)) /\ DOMAIN after = D
  BY <1>1, <1>2, <1>3, FunctionIsSeq
<1>5. StockTraces(rows, after) /\ Placed(rows, after, {})
  BY <1>3, <1>4 DEF StockTraces, Placed
<1>6. SameConverted(rows, after)
  BY <1>3, <1>4 DEF SameConverted, ConvertedRows
<1>7. StaysPut(rows, after)
  BY <1>3, <1>4 DEF StaysPut
<1>8. \A table : OfUsed(rows, table) => OfUsed(after, table)
  BY <1>3, <1>4 DEF OfUsed
<1>9. \A i \in D : i \in ActiveOf(rows, r) <=> rows[i].status = "ACTIVE" /\ rows[i].reservation = r
  BY DEF ActiveOf
<1>10. \A x \in Reservation : ActiveQuantities(after, x) \in [D -> Nat]
  BY <1>4, SumsBacking
<1>11. \A x, i : i \in ActiveOf(after, x)
                 <=> i \in D /\ after[i].status = "ACTIVE" /\ after[i].reservation = x
  BY <1>4 DEF ActiveOf
<1>12. RowBacking(after, r) = 0
  <2>1. \A i \in D : i \notin ActiveOf(after, r)
    BY <1>3, <1>9, <1>11
  <2>2. \A i \in D : ActiveQuantities(after, r)[i] = 0
    BY <1>4, <2>1 DEF ActiveQuantities
  <2>3. QED
    BY <1>1, <1>10, <2>2, TotalZero DEF RowBacking
<1>13. ASSUME NEW x \in Reservation, x # r
       PROVE  RowBacking(after, x) = RowBacking(rows, x)
  <2>1. \A i \in D : /\ i \in ActiveOf(after, x) <=> i \in ActiveOf(rows, x)
                     /\ i \in ActiveOf(rows, x) => after[i] = rows[i]
    <3>1. \A i \in D : i \in ActiveOf(rows, x) <=> rows[i].status = "ACTIVE" /\ rows[i].reservation = x
      BY DEF ActiveOf
    <3>2. QED
      BY <1>3, <1>9, <1>11, <1>13, <3>1
  <2>2. ActiveQuantities(after, x) = ActiveQuantities(rows, x)
    BY <1>4, <2>1 DEF ActiveQuantities
  <2>3. QED
    BY <2>2 DEF RowBacking
<1>14. QED
  BY <1>4, <1>5, <1>6, <1>7, <1>8, <1>12, <1>13 DEF after

\* Undoing a creation.
LEMMA UndoCreateKeeps ==
  ASSUME UndoInv, NEW k, UndoCreate(k)
  PROVE  UndoInv'
<1>0. log[k].reservation \in Reservation /\ log[k].quantity \in Nat \ {0}
  BY UndoneEntry DEF EntryOK, UndoCreate
<1> PICK r \in Reservation : r = log[k].reservation
  BY <1>0
<1> DEFINE n     == log[k].quantity
           entry == Entry("RESERVE", n, NoLocation, NoLocation)
<1>1. /\ Undoable(k, "RESERVE") /\ log[k].context = "create"
      /\ reservations[r].status = "ACTIVE"
      /\ stockRows' = ReleasedRows(stockRows, r)
      /\ incomingRows' = ReleasedRows(incomingRows, r)
      /\ reservations' = [reservations EXCEPT ![r].status = "RELEASED"]
      /\ onHand' = onHand /\ orders' = orders /\ splitRoot' = splitRoot
      /\ Compensated(k, entry)
  BY DEF UndoCreate
<1>2. r \in Reservation /\ n \in Nat \ {0}
  BY <1>0
<1>3. /\ RowsBase /\ Held /\ OnePerLine(incomingRows)
      /\ StateTypeOK /\ RowsTypeOK /\ log \in Seq(LogEntry)
      /\ OfUsed(stockRows, reservations) /\ OfUsed(incomingRows, reservations)
      /\ UsedInOrder(reservations)
  BY DEF UndoInv, RowsBase
<1>4. /\ stockRows \in Seq(Row(Location, StockStatus))
      /\ incomingRows \in Seq(Row(Source, IncomingStatus)) /\ onHand \in [Location -> Nat]
      /\ "RELEASED" \in StockStatus /\ "RELEASED" \in IncomingStatus
      /\ reservations \in [Reservation -> Summed!ReservationRow]
      /\ IsFiniteSet(Location) /\ IsFiniteSet(Source)
  BY <1>3, Sets DEF RowsTypeOK, StateTypeOK, StockStatus, IncomingStatus
<1> HIDE DEF n
<1>5. LogGrows(entry) /\ EntryOK(entry, orders')
  <2>1. entry \in LogEntry /\ EntryOK(entry, orders')
    BY <1>2, PlainEntry
  <2> HIDE DEF entry
  <2>2. QED
    BY <1>1, <1>3, <1>4, <2>1, CompensatedGrows
<1> HIDE DEF entry
<1>6. /\ stockRows' \in Seq(Row(Location, StockStatus)) /\ StockTraces(stockRows, stockRows')
      /\ \A table : OfUsed(stockRows, table) => OfUsed(stockRows', table)
      /\ RowBacking(stockRows', r) = 0
      /\ \A x \in Reservation : x # r => RowBacking(stockRows', x) = RowBacking(stockRows, x)
  BY <1>1, <1>2, <1>4, ReleasedFacts
<1>7. /\ incomingRows' \in Seq(Row(Source, IncomingStatus))
      /\ SameConverted(incomingRows, incomingRows') /\ Placed(incomingRows, incomingRows', {})
      /\ StaysPut(incomingRows, incomingRows')
      /\ \A table : OfUsed(incomingRows, table) => OfUsed(incomingRows', table)
      /\ RowBacking(incomingRows', r) = 0
      /\ \A x \in Reservation : x # r => RowBacking(incomingRows', x) = RowBacking(incomingRows, x)
  BY <1>1, <1>2, <1>4, ReleasedFacts
<1>8. /\ reservations' \in [Reservation -> Summed!ReservationRow]
      /\ reservations'[r].status = "RELEASED"
      /\ \A x \in Reservation : x # r => reservations'[x] = reservations[x]
  <2> DEFINE e == [reservations[r] EXCEPT !.status = "RELEASED"]
  <2>1. e \in Summed!ReservationRow /\ e.status = "RELEASED"
    BY <1>2, <1>4 DEF Summed!ReservationRow
  <2>2. reservations' = [reservations EXCEPT ![r] = e]
    BY <1>1
  <2> HIDE DEF e
  <2>3. QED
    BY <1>2, <1>4, <2>1, <2>2
<1>9. \A x \in Reservation : reservations'[x].status # "Unused" <=> reservations[x].status # "Unused"
  BY <1>1, <1>8
<1>10. RowsBase'
  <2>1. StateTypeOK'
    BY <1>1, <1>3, <1>8 DEF StateTypeOK
  <2>2. RowsTypeOK'
    BY <1>6, <1>7 DEF RowsTypeOK
  <2>3. /\ \A i \in DOMAIN stockRows : stockRows[i].reservation \in Reservation
        /\ \A i \in DOMAIN incomingRows : incomingRows[i].reservation \in Reservation
    BY <1>4, RowFields
  <2>4. OfUsed(stockRows, reservations') /\ OfUsed(incomingRows, reservations')
    BY <1>3, <1>9, <2>3 DEF OfUsed
  <2>5. OfUsed(stockRows', reservations') /\ OfUsed(incomingRows', reservations')
    BY <1>6, <1>7, <2>4
  <2>6. log' \in Seq(LogEntry)
    BY <1>5 DEF LogGrows
  <2>7. UsedInOrder(reservations')
    BY <1>3, <1>9 DEF UsedInOrder
  <2>8. QED
    BY <2>1, <2>2, <2>5, <2>6, <2>7 DEF RowsBase
<1>11. Held'
  <2>1. \A x \in Reservation :
          /\ Backing(x) = RowBacking(stockRows, x) + RowBacking(incomingRows, x)
          /\ Backing(x)' = RowBacking(stockRows', x) + RowBacking(incomingRows', x)
    BY <1>3, <1>10, BackingRows DEF RowsBase
  <2>2. HeldBy(r)'
    BY <1>2, <1>6, <1>7, <1>8, <2>1 DEF HeldBy
  <2>3. \A x \in Reservation : x # r => Backing(x)' = Backing(x) /\ reservations'[x] = reservations[x]
    BY <1>6, <1>7, <1>8, <2>1
  <2>4. QED
    BY <1>2, <1>3, <2>2, <2>3, HeldStep
<1>12. OnePerLine(incomingRows') /\ LinesKept(orders, orders')
  BY <1>1, <1>3, <1>7, OnePerLineKept DEF LinesKept
<1>13. QED
  BY <1>5, <1>6, <1>7, <1>10, <1>11, <1>12, InvKept

-----------------------------------------------------------------------------
(* Undoing an arrival.                                                     *)

\* The names of RestoreBacking: the rows that arrival k converted, the active
\* stock rows that came of one of them, how much goes back to which, and the
\* active rows on target that take it.
ArrivalIds(rows, k) ==
  { i \in DOMAIN rows : rows[i].status = "CONVERTED" /\ rows[i].arrival[1] = k }

Holders(stock, rows, i) ==
  { j \in DOMAIN stock : stock[j].status = "ACTIVE" /\ stock[j].arrival = rows[i].arrival }

HeldIds(stock, rows, k) == { i \in ArrivalIds(rows, k) : Holders(stock, rows, i) # {} }

MayReturn(stock, rows, k) ==
  [i \in DOMAIN rows |->
     IF i \in HeldIds(stock, rows, k)
     THEN Smaller(rows[i].quantity, stock[Least(Holders(stock, rows, i))].quantity)
     ELSE 0]

Returned(stock, rows, k, n) == InOrder(MayReturn(stock, rows, k), n, IdOrder(rows))

MovedIds(stock, rows, k, n) ==
  { i \in HeldIds(stock, rows, k) : Returned(stock, rows, k, n)[i] > 0 }

From(stock, rows, k, n) == [i \in MovedIds(stock, rows, k, n) |-> Least(Holders(stock, rows, i))]

Homes(rows, target, i) == ActiveAt(rows, rows[i].reservation, target)

Less(row, x) == IF x = row.quantity THEN Gone(row) ELSE [row EXCEPT !.quantity = @ - x]

\* The rows after it: of stock, of what was incoming, and new ones.
StockLess(stock, moved, back, h) ==
  [j \in DOMAIN stock |-> Less(stock[j], Total([i \in { m \in moved : h[m] = j } |-> back[i]]))]

Reopened(rows, moved, back, target) ==
  [j \in DOMAIN rows |->
     IF j \in moved
     THEN IF Homes(rows, target, j) = {} /\ back[j] = rows[j].quantity
          THEN [rows[j] EXCEPT !.status = "ACTIVE", !.arrival = NoArrival, !.place = target]
          ELSE Less(rows[j], back[j])
     ELSE [rows[j] EXCEPT
             !.quantity = @ + Total([i \in { m \in moved : /\ Homes(rows, target, m) # {}
                                                           /\ Least(Homes(rows, target, m)) = j }
                                       |-> back[i]])]]

FreshIds(rows, moved, back, target) ==
  { i \in moved : Homes(rows, target, i) = {} /\ back[i] < rows[i].quantity }

FreshRows(rows, moved, back, target) ==
  LET fresh == InSequence(FreshIds(rows, moved, back, target), IdOrder(rows))
  IN  [n \in DOMAIN fresh |-> NewRow(rows[fresh[n]].reservation, target, back[fresh[n]])]

IncomingMore(rows, moved, back, target) ==
  Reopened(rows, moved, back, target) \o FreshRows(rows, moved, back, target)

\* RestoreBacking, by those names.
LEMMA RestoreBackingIs ==
  ASSUME NEW k, NEW n, NEW target, RestoreBacking(k, n, target)
  PROVE  LET moved == MovedIds(stockRows, incomingRows, k, n)
             back  == Returned(stockRows, incomingRows, k, n)
             h     == From(stockRows, incomingRows, k, n)
         IN  /\ stockRows' = StockLess(stockRows, moved, back, h)
             /\ incomingRows' = IncomingMore(incomingRows, moved, back, target)
<1> DEFINE moved == MovedIds(stockRows, incomingRows, k, n)
           back  == Returned(stockRows, incomingRows, k, n)
           h     == From(stockRows, incomingRows, k, n)
           hold(i) == Holders(stockRows, incomingRows, i)
           homes(i) == Homes(incomingRows, target, i)
           fresh == InSequence(FreshIds(incomingRows, moved, back, target), IdOrder(incomingRows))
<1>1. /\ stockRows' =
           [j \in DOMAIN stockRows |->
              Less(stockRows[j], Total([i \in { m \in moved : Least(hold(m)) = j } |-> back[i]]))]
      /\ incomingRows' =
           [j \in DOMAIN incomingRows |->
              IF j \in moved
              THEN IF homes(j) = {} /\ back[j] = incomingRows[j].quantity
                   THEN [incomingRows[j] EXCEPT !.status = "ACTIVE", !.arrival = NoArrival,
                                                !.place = target]
                   ELSE Less(incomingRows[j], back[j])
              ELSE [incomingRows[j] EXCEPT
                      !.quantity = @ + Total([i \in { m \in moved : /\ homes(m) # {}
                                                                    /\ Least(homes(m)) = j }
                                                |-> back[i]])]]
           \o [n2 \in DOMAIN fresh |->
                 NewRow(incomingRows[fresh[n2]].reservation, target, back[fresh[n2]])]
  BY DEF RestoreBacking, ArrivalIds, Holders, HeldIds, MayReturn, Returned, MovedIds, Homes,
         ActiveAt, Less, FreshIds
<1>2. \A j : { m \in moved : Least(hold(m)) = j } = { m \in moved : h[m] = j }
  <2> HIDE DEF hold
  <2>1. \A m \in moved : h[m] = Least(hold(m))
    BY DEF From, hold
  <2> HIDE DEF moved, h
  <2>2. QED
    BY <2>1
<1> HIDE DEF moved, back, h
<1>3. stockRows' = StockLess(stockRows, moved, back, h)
  BY <1>1, <1>2 DEF StockLess
<1>4. incomingRows' = IncomingMore(incomingRows, moved, back, target)
  BY <1>1 DEF IncomingMore, Reopened, FreshRows
<1>5. QED
  BY <1>3, <1>4 DEF moved, back, h

\* What goes back: back[i] to each row i of moved, out of the stock row h[i]
\* that came of it, of the same reservation; no two of one reservation, and no
\* two out of one row.
Returns(stock, rows, moved, back, h) ==
  /\ stock \in Seq(Row(Location, StockStatus)) /\ rows \in Seq(Row(Source, IncomingStatus))
  /\ moved \subseteq DOMAIN rows /\ back \in [DOMAIN rows -> Nat]
  /\ \A i \in moved :
       /\ rows[i].status = "CONVERTED"
       /\ 0 < back[i] /\ back[i] <= rows[i].quantity
       /\ h[i] \in DOMAIN stock /\ stock[h[i]].status = "ACTIVE"
       /\ stock[h[i]].reservation = rows[i].reservation /\ back[i] <= stock[h[i]].quantity
  /\ \A i, j \in moved : i # j => rows[i].reservation # rows[j].reservation /\ h[i] # h[j]

\* The markers make it so.
LEMMA MarkersReturn ==
  ASSUME NEW stock, stock \in Seq(Row(Location, StockStatus)),
         NEW rows, rows \in Seq(Row(Source, IncomingStatus)),
         NEW len, Linked(stock, rows, len), NEW k, NEW n, n \in Nat
  PROVE  Returns(stock, rows, MovedIds(stock, rows, k, n), Returned(stock, rows, k, n),
                 From(stock, rows, k, n))
<1> DEFINE D     == DOMAIN rows
           moved == MovedIds(stock, rows, k, n)
           back  == Returned(stock, rows, k, n)
           h     == From(stock, rows, k, n)
           f     == MayReturn(stock, rows, k)
<1>1. /\ IsFiniteSet(D) /\ \A i \in D : rows[i].quantity \in Nat
      /\ DOMAIN stock = 1 .. Len(stock) /\ Len(stock) \in Nat
      /\ \A j \in DOMAIN stock : stock[j].quantity \in Nat
  BY RowFields
<1>2. ASSUME NEW i \in HeldIds(stock, rows, k)
      PROVE  /\ i \in D /\ rows[i].status = "CONVERTED" /\ rows[i].arrival[1] = k
             /\ i \in ConvertedRows(rows)
             /\ LET j == Least(Holders(stock, rows, i))
                IN  /\ j \in DOMAIN stock /\ stock[j].status = "ACTIVE"
                    /\ stock[j].arrival = rows[i].arrival
                    /\ stock[j].reservation = rows[i].reservation
                    /\ stock[j].quantity \in Nat
  <2> DEFINE j == Least(Holders(stock, rows, i))
  <2>1. /\ i \in D /\ rows[i].status = "CONVERTED" /\ rows[i].arrival[1] = k
        /\ Holders(stock, rows, i) # {}
    BY DEF HeldIds, ArrivalIds
  <2>2. Holders(stock, rows, i) \subseteq 1 .. Len(stock)
    BY <1>1 DEF Holders
  <2>3. j \in Holders(stock, rows, i)
    BY <1>1, <2>1, <2>2, LeastFacts
  <2> HIDE DEF j
  <2>4. j \in DOMAIN stock /\ stock[j].status = "ACTIVE" /\ stock[j].arrival = rows[i].arrival
    BY <2>3 DEF Holders
  <2>5. i \in ConvertedRows(rows)
    BY <2>1 DEF ConvertedRows
  <2>6. stock[j].reservation = rows[i].reservation
    BY <2>4, <2>5 DEF Linked
  <2>7. QED
    BY <1>1, <2>1, <2>4, <2>5, <2>6 DEF j
<1>3. f \in [D -> Nat]
  <2>1. \A i \in HeldIds(stock, rows, k) :
          Smaller(rows[i].quantity, stock[Least(Holders(stock, rows, i))].quantity) \in Nat
    BY <1>1, <1>2 DEF Smaller
  <2>2. QED
    BY <2>1 DEF MayReturn
<1>4. StrictlyOrders(IdOrder(rows), { i \in D : f[i] > 0 })
  <2> HIDE DEF f
  <2> QED BY IdsInOrder
<1>5. back \in [D -> Nat] /\ \A i \in D : back[i] <= f[i]
  <2>1. back = InOrder(f, n, IdOrder(rows))
    BY DEF Returned
  <2> HIDE DEF f, back
  <2>2. QED
    BY <1>1, <1>3, <1>4, <2>1, InOrderDraw
<1>6. \A i \in moved : i \in HeldIds(stock, rows, k) /\ back[i] > 0
                       /\ h[i] = Least(Holders(stock, rows, i))
  BY DEF MovedIds, From
<1>7. \A i \in HeldIds(stock, rows, k) :
        f[i] = Smaller(rows[i].quantity, stock[Least(Holders(stock, rows, i))].quantity)
  BY <1>2 DEF MayReturn
<1> HIDE DEF moved, back, h, f
<1>8. ASSUME NEW i \in moved
      PROVE  /\ i \in D /\ rows[i].status = "CONVERTED" /\ i \in ConvertedRows(rows)
             /\ rows[i].arrival[1] = k
             /\ 0 < back[i] /\ back[i] <= rows[i].quantity
             /\ h[i] \in DOMAIN stock /\ stock[h[i]].status = "ACTIVE"
             /\ stock[h[i]].reservation = rows[i].reservation /\ back[i] <= stock[h[i]].quantity
             /\ stock[h[i]].arrival = rows[i].arrival
  <2>1. i \in HeldIds(stock, rows, k) /\ back[i] > 0 /\ h[i] = Least(Holders(stock, rows, i))
    BY <1>6
  <2>2. /\ i \in D /\ rows[i].status = "CONVERTED" /\ rows[i].arrival[1] = k
        /\ i \in ConvertedRows(rows) /\ rows[i].quantity \in Nat
        /\ h[i] \in DOMAIN stock /\ stock[h[i]].status = "ACTIVE"
        /\ stock[h[i]].arrival = rows[i].arrival
        /\ stock[h[i]].reservation = rows[i].reservation
        /\ stock[h[i]].quantity \in Nat
    BY <1>1, <1>2, <2>1
  <2>3. f[i] = Smaller(rows[i].quantity, stock[h[i]].quantity) /\ back[i] <= f[i] /\ back[i] \in Nat
    BY <1>5, <1>7, <2>1, <2>2
  <2>4. back[i] <= rows[i].quantity /\ back[i] <= stock[h[i]].quantity
    BY <2>2, <2>3 DEF Smaller
  <2>5. QED
    BY <2>1, <2>2, <2>4
<1>9. ASSUME NEW i \in moved, NEW j \in moved, i # j
      PROVE  rows[i].reservation # rows[j].reservation /\ h[i] # h[j]
  <2>1. rows[i].reservation # rows[j].reservation /\ rows[i].arrival # rows[j].arrival
    BY <1>8, <1>9 DEF Linked
  <2>2. QED
    BY <1>8, <2>1
<1>10. QED
  <2> HIDE DEF D
  <2>1. Returns(stock, rows, moved, back, h)
    BY <1>5, <1>8, <1>9 DEF Returns, D
  <2>2. QED
    BY <2>1 DEF moved, back, h

\* The total of at most one entry.
LEMMA TotalOfOne ==
  ASSUME NEW S, IsFiniteSet(S), NEW f, f \in [S -> Nat], NEW Y, Y \subseteq S
  PROVE  /\ Y = {} => Total([i \in Y |-> f[i]]) = 0
         /\ \A m \in S : Y = {m} => Total([i \in Y |-> f[i]]) = f[m]
         /\ Total([i \in Y |-> f[i]]) \in Nat
<1>1. Total([i \in Y |-> f[i]]) = Total(Part(f, Y)) /\ Part(f, Y) \in [S -> Nat]
  BY TotalOfPart, PartType
<1>2. Y = {} => Total(Part(f, Y)) = 0
  BY PartNothing
<1>3. ASSUME NEW m \in S, Y = {m} PROVE Total(Part(f, Y)) = f[m]
  <2>1. Part(f, Y)[m] = f[m] /\ \A y \in S : y # m => Part(f, Y)[y] = 0
    BY <1>3, PartType
  <2>2. QED
    BY <1>1, <2>1, TotalSingle
<1>4. Total(Part(f, Y)) \in Nat
  BY <1>1, TotalType
<1>5. QED
  BY <1>1, <1>2, <1>3, <1>4

\* What a row counts while it is active.
Counts(row) == IF row.status = "ACTIVE" THEN row.quantity ELSE 0

\* A row from which something is taken.
LEMMA LessFacts ==
  ASSUME NEW P, NEW T, "DELETED" \in T, NEW row, row \in Row(P, T), NEW x, x \in Nat,
         x <= row.quantity
  PROVE  /\ Less(row, x) \in Row(P, T)
         /\ Less(row, x).reservation = row.reservation /\ Less(row, x).place = row.place
         /\ Less(row, x).arrival = row.arrival
         /\ Less(row, x).status \in {row.status, "DELETED"}
         /\ row.status = "ACTIVE" => Counts(Less(row, x)) = row.quantity - x
         /\ row.status # "ACTIVE" => Counts(Less(row, x)) = 0
<1> DEFINE q == row.quantity - x
           e == [row EXCEPT !.quantity = q]
<1>1. row.quantity \in Nat /\ q \in Nat
  BY DEF Row
<1>2. Less(row, x) = IF x = row.quantity THEN Gone(row) ELSE e
  BY DEF Less
<1>3. x = row.quantity => q = 0
  BY <1>1
<1> HIDE DEF q
<1>4. /\ e \in Row(P, T) /\ e.status = row.status /\ e.quantity = q
      /\ e.reservation = row.reservation /\ e.place = row.place /\ e.arrival = row.arrival
  BY <1>1 DEF Row
<1>5. /\ Gone(row) \in Row(P, T) /\ Gone(row).status = "DELETED" /\ Gone(row).quantity = 0
      /\ Gone(row).reservation = row.reservation /\ Gone(row).place = row.place
      /\ Gone(row).arrival = row.arrival
  BY GoneRow
<1> HIDE DEF e
<1>6. CASE x = row.quantity
  BY <1>2, <1>3, <1>5, <1>6 DEF Counts, q
<1>7. CASE x # row.quantity
  BY <1>2, <1>4, <1>7 DEF Counts, q
<1>8. QED
  BY <1>6, <1>7

\* Rows that change in what they count for r at most at x.
SameCounts(rows, after, r, x) ==
  /\ DOMAIN after = DOMAIN rows
  /\ \A j \in DOMAIN rows : /\ after[j].reservation = rows[j].reservation
                            /\ rows[j].reservation = r /\ j # x => Counts(after[j]) = Counts(rows[j])

\* What backs r changes with them.
LEMMA BackingChange ==
  ASSUME NEW P, IsFiniteSet(P), NEW T, NEW rows, rows \in Seq(Row(P, T)),
         NEW after, after \in Seq(Row(P, T)), NEW r \in Reservation, NEW x,
         SameCounts(rows, after, r, x)
  PROVE  /\ x \notin DOMAIN rows \/ rows[x].reservation # r
            => RowBacking(after, r) = RowBacking(rows, r)
         /\ x \in DOMAIN rows /\ rows[x].reservation = r
            => RowBacking(after, r) + Counts(rows[x]) = RowBacking(rows, r) + Counts(after[x])
<1> DEFINE f == ActiveQuantities(rows, r)
           g == ActiveQuantities(after, r)
<1>1. /\ f \in [DOMAIN rows -> Nat] /\ IsFiniteSet(DOMAIN rows)
      /\ g \in [DOMAIN after -> Nat]
  BY SumsBacking
<1>2. DOMAIN after = DOMAIN rows
  BY DEF SameCounts
<1>3. g \in [DOMAIN rows -> Nat]
  BY <1>1, <1>2
<1>4. ASSUME NEW j \in DOMAIN rows
      PROVE  /\ f[j] = IF rows[j].reservation = r THEN Counts(rows[j]) ELSE 0
             /\ g[j] = IF rows[j].reservation = r THEN Counts(after[j]) ELSE 0
  BY <1>2 DEF ActiveQuantities, ActiveOf, Counts, SameCounts
<1>5. ASSUME NEW j \in DOMAIN rows, j # x \/ rows[j].reservation # r PROVE g[j] = f[j]
  BY <1>4, <1>5 DEF SameCounts
<1>6. RowBacking(rows, r) = Total(f) /\ RowBacking(after, r) = Total(g)
  BY DEF RowBacking
<1> HIDE DEF f, g
<1>7. CASE x \notin DOMAIN rows \/ rows[x].reservation # r
  <2>1. \A j \in DOMAIN rows : g[j] = f[j]
    BY <1>5, <1>7
  <2>2. g = f
    BY <2>1, <1>1, <1>3
  <2> QED
    BY <2>2, <1>6, <1>7
<1>8. CASE x \in DOMAIN rows /\ rows[x].reservation = r
  <2>1. \A j \in DOMAIN rows : j # x => g[j] = f[j]
    BY <1>5
  <2>2. Total(g) + f[x] = Total(f) + g[x]
    <3>1. DiffersAt(g, f, DOMAIN rows, x)
      BY <2>1, <1>1, <1>3, <1>8 DEF DiffersAt
    <3> QED
      BY <3>1, <1>1, TotalDiffers
  <2> QED
    BY <2>2, <1>4, <1>6, <1>8
<1> QED
  BY <1>7, <1>8

\* Each stock row gives at most one part back, and has it.
LEMMA PartsTaken ==
  ASSUME NEW stock, NEW rows, NEW moved, NEW back, NEW h, Returns(stock, rows, moved, back, h),
         NEW j \in DOMAIN stock
  PROVE  LET taken == Total([i \in { m \in moved : h[m] = j } |-> back[i]])
         IN  /\ taken \in Nat /\ taken <= stock[j].quantity
             /\ \A m \in moved : h[m] = j => taken = back[m]
             /\ (\A m \in moved : h[m] # j) => taken = 0
<1> DEFINE Y     == { m \in moved : h[m] = j }
           taken == Total([i \in Y |-> back[i]])
<1>1. IsFiniteSet(DOMAIN rows) /\ back \in [DOMAIN rows -> Nat] /\ Y \subseteq DOMAIN rows
  BY RowFields DEF Returns
<1>2. /\ Y = {} => taken = 0
      /\ \A m \in DOMAIN rows : Y = {m} => taken = back[m]
      /\ taken \in Nat
  BY <1>1, TotalOfOne
<1>3. ASSUME NEW m \in moved, h[m] = j PROVE Y = {m} /\ m \in DOMAIN rows /\ back[m] <= stock[j].quantity
  BY <1>3 DEF Returns
<1>4. (\A m \in moved : h[m] # j) => Y = {}
  OBVIOUS
<1>5. stock[j].quantity \in Nat
  BY RowFields DEF Returns
<1> HIDE DEF Y, taken
<1>6. \A m \in moved : h[m] = j => taken = back[m]
  BY <1>2, <1>3
<1>7. (\A m \in moved : h[m] # j) => taken = 0
  BY <1>2, <1>4
<1>8. taken <= stock[j].quantity
  <2>1. CASE \A m \in moved : h[m] # j
    BY <2>1, <1>7, <1>5
  <2>2. CASE \E m \in moved : h[m] = j
    BY <2>2, <1>6, <1>3
  <2> QED
    BY <2>1, <2>2
<1> QED
  BY <1>2, <1>6, <1>7, <1>8 DEF taken, Y

\* The stock rows after it: each reservation that gets something back has as
\* much less in stock.
LEMMA StockReturns ==
  ASSUME NEW stock, NEW rows, NEW moved, NEW back, NEW h, Returns(stock, rows, moved, back, h)
  PROVE  LET after == StockLess(stock, moved, back, h)
         IN  /\ after \in Seq(Row(Location, StockStatus))
             /\ StockTraces(stock, after)
             /\ \A table : OfUsed(stock, table) => OfUsed(after, table)
             /\ \A m \in moved : RowBacking(after, rows[m].reservation) + back[m]
                                   = RowBacking(stock, rows[m].reservation)
             /\ \A r \in Reservation : (\A m \in moved : rows[m].reservation # r)
                                       => RowBacking(after, r) = RowBacking(stock, r)
<1> DEFINE after == StockLess(stock, moved, back, h)
           taken(j) == Total([i \in { m \in moved : h[m] = j } |-> back[i]])
<1>1. /\ stock \in Seq(Row(Location, StockStatus)) /\ DOMAIN stock = 1 .. Len(stock)
      /\ Len(stock) \in Nat
  BY RowFields DEF Returns
<1>2. ASSUME NEW j \in DOMAIN stock
      PROVE  /\ taken(j) \in Nat /\ taken(j) <= stock[j].quantity
             /\ \A m \in moved : h[m] = j => taken(j) = back[m]
             /\ (\A m \in moved : h[m] # j) => taken(j) = 0
  BY PartsTaken
<1>3. DOMAIN after = DOMAIN stock /\ \A j \in DOMAIN stock : after[j] = Less(stock[j], taken(j))
  BY DEF StockLess
<1>0. after = [j \in 1 .. Len(stock) |-> after[j]]
  BY <1>1 DEF StockLess
<1> HIDE DEF taken, after
<1>4. ASSUME NEW j \in DOMAIN stock
      PROVE  /\ after[j] \in Row(Location, StockStatus)
             /\ after[j].reservation = stock[j].reservation /\ after[j].arrival = stock[j].arrival
             /\ stock[j].status = "ACTIVE" => Counts(after[j]) = stock[j].quantity - taken(j)
             /\ stock[j].status # "ACTIVE" => Counts(after[j]) = 0
  <2>1. stock[j] \in Row(Location, StockStatus) /\ "DELETED" \in StockStatus
    BY <1>1, RowFields DEF StockStatus
  <2> QED
    BY <2>1, <1>2, <1>3, LessFacts
<1>5. after \in Seq(Row(Location, StockStatus))
  BY <1>0, <1>1, <1>4, FunctionIsSeq
<1>6. StockTraces(stock, after)
  BY <1>3, <1>4 DEF StockTraces
<1>7. \A table : OfUsed(stock, table) => OfUsed(after, table)
  BY <1>3, <1>4 DEF OfUsed
<1>8. ASSUME NEW j \in DOMAIN stock, \A m \in moved : h[m] # j
      PROVE  Counts(after[j]) = Counts(stock[j])
  <2>1. taken(j) = 0 /\ stock[j].quantity \in Nat
    BY <1>1, <1>2, <1>8, RowFields
  <2> QED
    BY <2>1, <1>4 DEF Counts
<1>9. IsFiniteSet(Location)
  BY Sets
<1>10. ASSUME NEW m \in moved
       PROVE  RowBacking(after, rows[m].reservation) + back[m] = RowBacking(stock, rows[m].reservation)
  <2> DEFINE r == rows[m].reservation
  <2>1. /\ m \in DOMAIN rows /\ h[m] \in DOMAIN stock /\ stock[h[m]].status = "ACTIVE"
        /\ stock[h[m]].reservation = r /\ back[m] <= stock[h[m]].quantity /\ back[m] \in Nat
    BY DEF Returns
  <2>2. r \in Reservation
    BY <2>1, RowFields DEF Returns
  <2>3. ASSUME NEW j \in DOMAIN stock, stock[j].reservation = r, j # h[m]
        PROVE  \A x \in moved : h[x] # j
    BY <2>3 DEF Returns
  <2>4. SameCounts(stock, after, r, h[m])
    BY <2>3, <1>3, <1>4, <1>8 DEF SameCounts
  <2>5. RowBacking(after, r) + Counts(stock[h[m]]) = RowBacking(stock, r) + Counts(after[h[m]])
    BY <2>1, <2>2, <2>4, <1>1, <1>5, <1>9, BackingChange
  <2>6. Counts(stock[h[m]]) = stock[h[m]].quantity /\ Counts(after[h[m]]) = stock[h[m]].quantity - back[m]
    BY <2>1, <1>2, <1>4 DEF Counts
  <2>7. stock[h[m]].quantity \in Nat /\ RowBacking(after, r) \in Nat /\ RowBacking(stock, r) \in Nat
    BY <2>1, <2>2, <1>1, <1>5, <1>9, RowFields, SumsBacking
  <2> HIDE DEF r
  <2>8. RowBacking(after, r) + back[m] = RowBacking(stock, r)
    BY <2>1, <2>5, <2>6, <2>7
  <2> QED
    BY <2>8 DEF r
<1>11. ASSUME NEW r \in Reservation, \A m \in moved : rows[m].reservation # r
       PROVE  RowBacking(after, r) = RowBacking(stock, r)
  <2>1. ASSUME NEW j \in DOMAIN stock, stock[j].reservation = r PROVE \A m \in moved : h[m] # j
    BY <2>1, <1>11 DEF Returns
  <2>2. SameCounts(stock, after, r, 0)
    BY <2>1, <1>3, <1>4, <1>8 DEF SameCounts
  <2>3. 0 \notin DOMAIN stock
    BY <1>1
  <2> QED
    BY <2>2, <2>3, <1>1, <1>5, <1>9, BackingChange
<1> QED
  BY <1>5, <1>6, <1>7, <1>10, <1>11 DEF after

\* An active row on the line, if there is one, is of the same reservation.
LEMMA HomesFacts ==
  ASSUME NEW rows, rows \in Seq(Row(Source, IncomingStatus)), NEW target, NEW i
  PROVE  /\ Homes(rows, target, i) # {}
            => /\ Least(Homes(rows, target, i)) \in DOMAIN rows
               /\ rows[Least(Homes(rows, target, i))].status = "ACTIVE"
               /\ rows[Least(Homes(rows, target, i))].reservation = rows[i].reservation
         /\ \A j \in DOMAIN rows : /\ rows[j].status = "ACTIVE" /\ rows[j].place = target
                                   /\ rows[j].reservation = rows[i].reservation
                                   => Homes(rows, target, i) # {}
<1>1. DOMAIN rows = 1 .. Len(rows) /\ Len(rows) \in Nat
  BY RowFields
<1>2. Homes(rows, target, i) \subseteq 1 .. Len(rows)
  BY <1>1 DEF Homes, ActiveAt, ActiveOf
<1>3. Homes(rows, target, i) # {} => Least(Homes(rows, target, i)) \in Homes(rows, target, i)
  BY <1>1, <1>2, LeastFacts
<1> QED
  BY <1>3 DEF Homes, ActiveAt, ActiveOf

\* What row j takes of the rows that go back to it.
Takes(rows, moved, back, target, j) ==
  Total([i \in { m \in moved : /\ Homes(rows, target, m) # {}
                               /\ Least(Homes(rows, target, m)) = j } |-> back[i]])

\* That is what one of them gives, or nothing.
LEMMA TakesFacts ==
  ASSUME NEW stock, NEW rows, NEW moved, NEW back, NEW h, Returns(stock, rows, moved, back, h),
         NEW target, NEW j
  PROVE  /\ Takes(rows, moved, back, target, j) \in Nat
         /\ \A m \in moved : Homes(rows, target, m) # {} /\ Least(Homes(rows, target, m)) = j
                             => Takes(rows, moved, back, target, j) = back[m]
         /\ (\A m \in moved : Homes(rows, target, m) = {} \/ Least(Homes(rows, target, m)) # j)
            => Takes(rows, moved, back, target, j) = 0
<1> DEFINE Y     == { m \in moved : Homes(rows, target, m) # {} /\ Least(Homes(rows, target, m)) = j }
           taken == Total([i \in Y |-> back[i]])
<1>0. taken = Takes(rows, moved, back, target, j)
  BY DEF Takes
<1>1. IsFiniteSet(DOMAIN rows) /\ back \in [DOMAIN rows -> Nat] /\ Y \subseteq DOMAIN rows
  BY RowFields DEF Returns
<1>2. /\ Y = {} => taken = 0
      /\ \A m \in DOMAIN rows : Y = {m} => taken = back[m]
      /\ taken \in Nat
  BY <1>1, TotalOfOne
<1>3. ASSUME NEW m \in moved, m \in Y PROVE Y = {m} /\ m \in DOMAIN rows
  <2>1. moved \subseteq DOMAIN rows /\ rows \in Seq(Row(Source, IncomingStatus))
    BY DEF Returns
  <2>2. ASSUME NEW x \in Y PROVE rows[x].reservation = rows[j].reservation
    BY <2>1, <2>2, HomesFacts
  <2>3. ASSUME NEW x \in Y PROVE x = m
    <3>1. x \in moved /\ rows[x].reservation = rows[m].reservation
      BY <1>3, <2>2, <2>3
    <3> QED
      BY <3>1 DEF Returns
  <2> QED
    BY <1>3, <2>1, <2>3
<1>4. (\A m \in moved : Homes(rows, target, m) = {} \/ Least(Homes(rows, target, m)) # j) => Y = {}
  OBVIOUS
<1>5. \A m \in moved : Homes(rows, target, m) # {} /\ Least(Homes(rows, target, m)) = j => m \in Y
  OBVIOUS
<1> HIDE DEF Y, taken
<1> QED
  BY <1>0, <1>2, <1>3, <1>4, <1>5

\* What becomes of each row: it is open again; or it has nothing active; or it
\* takes what the one row that goes back to it gives.
LEMMA ReopenedFields ==
  ASSUME NEW stock, NEW rows, NEW moved, NEW back, NEW h, Returns(stock, rows, moved, back, h),
         NEW target, target \in Source, NEW j \in DOMAIN rows
  PROVE  LET row == Reopened(rows, moved, back, target)[j]
         IN  /\ row \in Row(Source, IncomingStatus) /\ row.reservation = rows[j].reservation
             /\ j \in moved /\ Homes(rows, target, j) = {} /\ back[j] = rows[j].quantity
                => row.status = "ACTIVE" /\ row.place = target /\ row.quantity = back[j]
             /\ j \in moved /\ ~(Homes(rows, target, j) = {} /\ back[j] = rows[j].quantity)
                => /\ row.status \in {"CONVERTED", "DELETED"} /\ row.place = rows[j].place
                   /\ row.arrival = rows[j].arrival
             /\ j \notin moved
                => /\ row.status = rows[j].status /\ row.place = rows[j].place
                   /\ row.arrival = rows[j].arrival
                   /\ row.quantity = rows[j].quantity + Takes(rows, moved, back, target, j)
<1> DEFINE row == Reopened(rows, moved, back, target)[j]
           n   == rows[j].quantity + Takes(rows, moved, back, target, j)
<1>1. /\ rows[j] \in Row(Source, IncomingStatus) /\ rows[j].quantity \in Nat
      /\ NoArrival \in (0 .. MaxLog) \X Nat /\ "ACTIVE" \in IncomingStatus
      /\ "DELETED" \in IncomingStatus
  <2>1. MaxLog \in Nat
    BY Sets
  <2> QED
    BY <2>1, RowFields DEF Returns, NoArrival, IncomingStatus
<1>2. n \in Nat
  BY <1>1, TakesFacts
<1>3. row = IF j \in moved
            THEN IF Homes(rows, target, j) = {} /\ back[j] = rows[j].quantity
                 THEN [rows[j] EXCEPT !.status = "ACTIVE", !.arrival = NoArrival, !.place = target]
                 ELSE Less(rows[j], back[j])
            ELSE [rows[j] EXCEPT !.quantity = n]
  BY Zenon DEF Reopened, Takes
<1> HIDE DEF row, n
<1>4. CASE j \in moved /\ Homes(rows, target, j) = {} /\ back[j] = rows[j].quantity
  <2>1. row = [rows[j] EXCEPT !.status = "ACTIVE", !.arrival = NoArrival, !.place = target]
    BY <1>3, <1>4
  <2>2. row \in Row(Source, IncomingStatus)
    BY <2>1, <1>1 DEF Row
  <2>3. /\ row.reservation = rows[j].reservation /\ row.status = "ACTIVE" /\ row.place = target
        /\ row.quantity = rows[j].quantity
    BY <2>1, <1>1 DEF Row
  <2> QED
    BY <2>2, <2>3, <1>4 DEF row
<1>5. CASE j \in moved /\ ~(Homes(rows, target, j) = {} /\ back[j] = rows[j].quantity)
  <2>1. row = Less(rows[j], back[j])
    BY <1>3, <1>5
  <2>2. back[j] \in Nat /\ back[j] <= rows[j].quantity /\ rows[j].status = "CONVERTED"
    BY <1>5 DEF Returns
  <2>3. /\ row \in Row(Source, IncomingStatus) /\ row.reservation = rows[j].reservation
        /\ row.place = rows[j].place /\ row.arrival = rows[j].arrival
        /\ row.status \in {"CONVERTED", "DELETED"}
    BY <2>1, <2>2, <1>1, LessFacts
  <2> QED
    BY <2>3, <1>5 DEF row
<1>6. CASE j \notin moved
  <2>1. row = [rows[j] EXCEPT !.quantity = n]
    BY <1>3, <1>6
  <2>2. row \in Row(Source, IncomingStatus)
    BY <2>1, <1>1, <1>2 DEF Row
  <2>3. /\ row.reservation = rows[j].reservation /\ row.status = rows[j].status
        /\ row.place = rows[j].place /\ row.arrival = rows[j].arrival /\ row.quantity = n
    BY <2>1, <1>1 DEF Row
  <2> QED
    BY <2>2, <2>3, <1>6 DEF row, n
<1> QED
  BY <1>4, <1>5, <1>6

\* An active row after it was active on its line, or is the converted row of
\* its reservation, which had none on target.
LEMMA ReopenedActive ==
  ASSUME NEW stock, NEW rows, NEW moved, NEW back, NEW h, Returns(stock, rows, moved, back, h),
         NEW target, target \in Source, NEW j \in DOMAIN rows,
         Reopened(rows, moved, back, target)[j].status = "ACTIVE"
  PROVE  LET row == Reopened(rows, moved, back, target)[j]
         IN  /\ row.reservation = rows[j].reservation
             /\ \/ /\ j \notin moved /\ rows[j].status = "ACTIVE" /\ row.place = rows[j].place
                \/ /\ j \in moved /\ row.place = target
                   /\ Homes(rows, target, j) = {} /\ back[j] = rows[j].quantity
BY ReopenedFields

\* The rows that were incoming: none is converted that was not, none is on
\* another line than before but target, and no two active ones are on one.
LEMMA ReopenedRows ==
  ASSUME NEW stock, NEW rows, NEW moved, NEW back, NEW h, Returns(stock, rows, moved, back, h),
         NEW target, target \in Source
  PROVE  LET after == Reopened(rows, moved, back, target)
         IN  /\ after \in Seq(Row(Source, IncomingStatus))
             /\ SameConverted(rows, after) /\ Placed(rows, after, {target})
             /\ OnePerLine(rows) => OnePerLine(after)
             /\ \A table : OfUsed(rows, table) => OfUsed(after, table)
<1> DEFINE after == Reopened(rows, moved, back, target)
<1>1. /\ rows \in Seq(Row(Source, IncomingStatus)) /\ DOMAIN rows = 1 .. Len(rows)
      /\ Len(rows) \in Nat
  BY RowFields DEF Returns
<1>2. DOMAIN after = DOMAIN rows /\ after = [j \in 1 .. Len(rows) |-> after[j]]
  BY <1>1 DEF Reopened
<1>3. ASSUME NEW j \in DOMAIN rows
      PROVE  /\ after[j] \in Row(Source, IncomingStatus) /\ after[j].reservation = rows[j].reservation
             /\ after[j].place \in {target, rows[j].place}
             /\ after[j].status = "CONVERTED"
                => rows[j].status = "CONVERTED" /\ after[j].arrival = rows[j].arrival
  <2>1. \A m \in moved : rows[m].status = "CONVERTED"
    BY DEF Returns
  <2>2. /\ after[j] \in Row(Source, IncomingStatus) /\ after[j].reservation = rows[j].reservation
        /\ j \in moved /\ Homes(rows, target, j) = {} /\ back[j] = rows[j].quantity
           => after[j].status = "ACTIVE" /\ after[j].place = target
        /\ j \in moved /\ ~(Homes(rows, target, j) = {} /\ back[j] = rows[j].quantity)
           => after[j].place = rows[j].place /\ after[j].arrival = rows[j].arrival
        /\ j \notin moved => /\ after[j].status = rows[j].status /\ after[j].place = rows[j].place
                             /\ after[j].arrival = rows[j].arrival
    BY ReopenedFields
  <2> HIDE DEF after
  <2> QED
    BY <2>1, <2>2
<1>4. ASSUME NEW j \in DOMAIN rows, after[j].status = "ACTIVE"
      PROVE  \/ j \notin moved /\ rows[j].status = "ACTIVE" /\ after[j].place = rows[j].place
             \/ j \in moved /\ after[j].place = target /\ Homes(rows, target, j) = {}
  BY <1>4, ReopenedActive
<1> HIDE DEF after
<1>5. after \in Seq(Row(Source, IncomingStatus))
  BY <1>1, <1>2, <1>3, FunctionIsSeq
<1>6. SameConverted(rows, after)
  BY <1>2, <1>3 DEF SameConverted, ConvertedRows
<1>7. Placed(rows, after, {target})
  BY <1>2, <1>3 DEF Placed
<1>8. \A table : OfUsed(rows, table) => OfUsed(after, table)
  BY <1>2, <1>3 DEF OfUsed
<1>9. ASSUME OnePerLine(rows) PROVE OnePerLine(after)
  <2> SUFFICES ASSUME NEW i \in DOMAIN rows, NEW j \in DOMAIN rows, i # j,
                      after[i].status = "ACTIVE", after[j].status = "ACTIVE",
                      after[i].reservation = after[j].reservation
               PROVE  after[i].place # after[j].place
    BY <1>2 DEF OnePerLine
  <2>1. rows[i].reservation = rows[j].reservation
    BY <1>3
  <2>2. CASE i \notin moved /\ j \notin moved
    BY <2>1, <2>2, <1>4, <1>9 DEF OnePerLine
  <2>3. CASE i \in moved /\ j \in moved
    BY <2>1, <2>3 DEF Returns
  <2>0. ASSUME NEW x \in DOMAIN rows, NEW y \in DOMAIN rows, rows[y].status = "ACTIVE",
               rows[y].place = target, rows[y].reservation = rows[x].reservation
        PROVE  Homes(rows, target, x) # {}
    <3>1. y \in Homes(rows, target, x)
      BY <2>0 DEF Homes, ActiveAt, ActiveOf
    <3> QED
      BY <3>1
  <2>4. CASE i \in moved /\ j \notin moved
    BY <2>0, <2>1, <2>4, <1>4
  <2>5. CASE i \notin moved /\ j \in moved
    BY <2>0, <2>1, <2>5, <1>4
  <2> QED
    BY <2>2, <2>3, <2>4, <2>5
<1> QED
  BY <1>5, <1>6, <1>7, <1>8, <1>9 DEF after

\* They hold more for the reservations that get something back, except for
\* what becomes a new row.
LEMMA ReopenedBacking ==
  ASSUME NEW stock, NEW rows, NEW moved, NEW back, NEW h, Returns(stock, rows, moved, back, h),
         NEW target, target \in Source, NEW r \in Reservation
  PROVE  LET after == Reopened(rows, moved, back, target)
         IN  /\ \A m \in moved :
                  rows[m].reservation = r
                  => RowBacking(after, r)
                       = RowBacking(rows, r)
                         + (IF m \in FreshIds(rows, moved, back, target) THEN 0 ELSE back[m])
             /\ (\A m \in moved : rows[m].reservation # r)
                => RowBacking(after, r) = RowBacking(rows, r)
<1> DEFINE after == Reopened(rows, moved, back, target)
<1>1. /\ rows \in Seq(Row(Source, IncomingStatus)) /\ after \in Seq(Row(Source, IncomingStatus))
      /\ DOMAIN after = DOMAIN rows /\ IsFiniteSet(Source) /\ 0 \notin DOMAIN rows
      /\ \A j \in DOMAIN rows : rows[j].quantity \in Nat
      /\ RowBacking(after, r) \in Nat /\ RowBacking(rows, r) \in Nat
  <2>0. after \in Seq(Row(Source, IncomingStatus))
    BY ReopenedRows
  <2>1. rows \in Seq(Row(Source, IncomingStatus)) /\ after \in Seq(Row(Source, IncomingStatus))
    BY <2>0 DEF Returns
  <2>2. DOMAIN after = DOMAIN rows
    BY DEF Reopened
  <2>3. IsFiniteSet(Source)
    BY Sets
  <2>4. 0 \notin DOMAIN rows /\ \A j \in DOMAIN rows : rows[j].quantity \in Nat
    BY <2>1, RowFields
  <2> QED
    BY <2>1, <2>2, <2>3, <2>4, SumsBacking
<1>2. ASSUME NEW j \in DOMAIN rows
      PROVE  /\ after[j].reservation = rows[j].reservation
             /\ j \in moved /\ Homes(rows, target, j) = {} /\ back[j] = rows[j].quantity
                => Counts(after[j]) = back[j]
             /\ j \in moved /\ ~(Homes(rows, target, j) = {} /\ back[j] = rows[j].quantity)
                => Counts(after[j]) = 0
             /\ j \notin moved /\ rows[j].status = "ACTIVE"
                => Counts(after[j]) = rows[j].quantity + Takes(rows, moved, back, target, j)
             /\ j \notin moved /\ Takes(rows, moved, back, target, j) = 0
                => Counts(after[j]) = Counts(rows[j])
  BY <1>1, ReopenedFields DEF Counts
<1>3. \A m \in moved : Counts(rows[m]) = 0 /\ m \in DOMAIN rows
  BY DEF Counts, Returns
<1> HIDE DEF after
<1>4. ASSUME \A m \in moved : rows[m].reservation # r
      PROVE  RowBacking(after, r) = RowBacking(rows, r)
  <2>1. ASSUME NEW j \in DOMAIN rows, rows[j].reservation = r
        PROVE  Counts(after[j]) = Counts(rows[j])
    <3>1. \A m \in moved : Homes(rows, target, m) = {} \/ Least(Homes(rows, target, m)) # j
      BY <1>1, <1>4, <2>1, HomesFacts
    <3>2. Takes(rows, moved, back, target, j) = 0
      BY <3>1, TakesFacts
    <3> QED
      BY <3>2, <2>1, <1>2, <1>4
  <2>2. SameCounts(rows, after, r, 0)
    BY <2>1, <1>1, <1>2 DEF SameCounts
  <2> QED
    BY <2>2, <1>1, BackingChange
<1>5. ASSUME NEW m \in moved, rows[m].reservation = r
      PROVE  RowBacking(after, r)
               = RowBacking(rows, r) + (IF m \in FreshIds(rows, moved, back, target) THEN 0 ELSE back[m])
  <2>0. m \in DOMAIN rows /\ back[m] \in Nat /\ back[m] <= rows[m].quantity
    BY DEF Returns
  <2>1. \A x \in moved : rows[x].reservation = r => x = m
    BY <1>5 DEF Returns
  <2>2. ASSUME NEW j \in DOMAIN rows, rows[j].reservation = r, j # m,
               Homes(rows, target, m) = {} \/ Least(Homes(rows, target, m)) # j
        PROVE  Counts(after[j]) = Counts(rows[j])
    <3>1. \A x \in moved : Homes(rows, target, x) = {} \/ Least(Homes(rows, target, x)) # j
      BY <1>1, <2>1, <2>2, HomesFacts
    <3>2. Takes(rows, moved, back, target, j) = 0
      BY <3>1, TakesFacts
    <3> QED
      BY <3>2, <2>1, <2>2, <1>2
  <2>3. CASE Homes(rows, target, m) = {}
    <3>1. SameCounts(rows, after, r, m)
      BY <2>2, <2>3, <1>1, <1>2 DEF SameCounts
    <3>2. RowBacking(after, r) + Counts(rows[m]) = RowBacking(rows, r) + Counts(after[m])
      BY <3>1, <2>0, <1>1, <1>5, BackingChange
    <3>3. CASE back[m] = rows[m].quantity
      <4>1. m \notin FreshIds(rows, moved, back, target)
        BY <3>3, <2>0, <1>1 DEF FreshIds
      <4>2. Counts(after[m]) = back[m] /\ Counts(rows[m]) = 0
        BY <3>3, <2>0, <2>3, <1>2, <1>3
      <4> QED
        BY <4>1, <4>2, <3>2, <2>0, <1>1
    <3>4. CASE back[m] # rows[m].quantity
      <4>1. m \in FreshIds(rows, moved, back, target)
        BY <3>4, <2>0, <2>3, <1>1 DEF FreshIds
      <4>2. Counts(after[m]) = 0 /\ Counts(rows[m]) = 0
        BY <3>4, <2>0, <2>3, <1>2, <1>3
      <4> QED
        BY <4>1, <4>2, <3>2, <1>1
    <3> QED
      BY <3>3, <3>4
  <2>4. CASE Homes(rows, target, m) # {}
    <3> DEFINE x == Least(Homes(rows, target, m))
    <3>1. x \in DOMAIN rows /\ rows[x].status = "ACTIVE" /\ rows[x].reservation = r
      BY <2>4, <1>1, <1>5, HomesFacts
    <3>2. x \notin moved
      BY <3>1 DEF Returns
    <3>3. Takes(rows, moved, back, target, x) = back[m]
      BY <2>4, TakesFacts
    <3>4. m \notin FreshIds(rows, moved, back, target)
      BY <2>4 DEF FreshIds
    <3>5. ASSUME NEW j \in DOMAIN rows, rows[j].reservation = r, j # x
          PROVE  Counts(after[j]) = Counts(rows[j])
      <4>1. CASE j = m
        BY <4>1, <2>4, <1>2, <1>3
      <4>2. CASE j # m
        BY <4>2, <3>5, <2>2
      <4> QED
        BY <4>1, <4>2
    <3> HIDE DEF x
    <3>6. SameCounts(rows, after, r, x)
      BY <3>5, <1>1, <1>2 DEF SameCounts
    <3>7. RowBacking(after, r) + Counts(rows[x]) = RowBacking(rows, r) + Counts(after[x])
      BY <3>1, <3>6, <1>1, BackingChange
    <3>8. Counts(rows[x]) = rows[x].quantity /\ Counts(after[x]) = rows[x].quantity + back[m]
      BY <3>1, <3>2, <3>3, <1>2 DEF Counts
    <3>9. rows[x].quantity \in Nat
      BY <3>1, <1>1
    <3>10. RowBacking(after, r) \in Nat /\ RowBacking(rows, r) \in Nat /\ back[m] \in Nat
      BY <2>0, <1>1
    <3>11. RowBacking(after, r) + rows[x].quantity
             = RowBacking(rows, r) + (rows[x].quantity + back[m])
      BY <3>7, <3>8
    <3>12. RowBacking(after, r) = RowBacking(rows, r) + back[m]
      BY <3>9, <3>10, <3>11
    <3> QED
      BY <3>4, <3>12
  <2> QED
    BY <2>3, <2>4
<1> QED
  BY <1>4, <1>5 DEF after

\* The new rows: one of each of its rows that is not open again whole.
LEMMA FreshFields ==
  ASSUME NEW stock, NEW rows, NEW moved, NEW back, NEW h, Returns(stock, rows, moved, back, h),
         NEW target, target \in Source
  PROVE  LET added == FreshRows(rows, moved, back, target)
             ids   == FreshIds(rows, moved, back, target)
         IN  /\ added \in Seq(Row(Source, IncomingStatus))
             /\ \A n \in DOMAIN added : \E m \in ids :
                  added[n] = NewRow(rows[m].reservation, target, back[m])
             /\ \A m \in ids : \E n \in DOMAIN added :
                  added[n] = NewRow(rows[m].reservation, target, back[m])
             /\ \A n1, n2 \in DOMAIN added :
                  n1 # n2 => added[n1].reservation # added[n2].reservation
<1> DEFINE added == FreshRows(rows, moved, back, target)
           S     == FreshIds(rows, moved, back, target)
           N     == Cardinality(S)
           s     == InSequence(S, IdOrder(rows))
<1>0. /\ rows \in Seq(Row(Source, IncomingStatus)) /\ IsFiniteSet(DOMAIN rows)
      /\ moved \subseteq DOMAIN rows
  BY RowFields DEF Returns
<1>1. S \subseteq moved /\ S \subseteq DOMAIN rows /\ IsFiniteSet(S)
  <2>1. S \subseteq moved /\ S \subseteq DOMAIN rows
    BY <1>0 DEF FreshIds
  <2> QED
    BY <2>1, <1>0, FS_Subset
<1>2. N \in Nat /\ s \in Bijection(1 .. N, S)
  <2> HIDE DEF S
  <2>1. StrictlyOrders(IdOrder(rows), S)
    BY <1>0, <1>1, IdsInOrder
  <2> QED
    BY <2>1, <1>1, InSequenceBijection
<1>3. /\ s \in [1 .. N -> S]
      /\ \A i, j \in 1 .. N : s[i] = s[j] => i = j
      /\ \A m \in S : \E i \in 1 .. N : s[i] = m
  <2> HIDE DEF s, N, S
  <2> QED BY <1>2, Fun_BijectionProperties
<1>4. added = [n \in DOMAIN s |-> NewRow(rows[s[n]].reservation, target, back[s[n]])]
  BY DEF FreshRows
<1> HIDE DEF s, N, added, S
<1>5. added = [n \in 1 .. N |-> NewRow(rows[s[n]].reservation, target, back[s[n]])]
  BY <1>3, <1>4
<1>6. \A n \in 1 .. N : added[n] = NewRow(rows[s[n]].reservation, target, back[s[n]]) /\ s[n] \in S
  BY <1>3, <1>5
<1>7. DOMAIN added = 1 .. N
  BY <1>5
<1>8. ASSUME NEW m \in S
      PROVE  NewRow(rows[m].reservation, target, back[m]) \in Row(Source, IncomingStatus)
  <2>1. rows[m].reservation \in Reservation /\ back[m] \in Nat
    BY <1>0, <1>1, RowFields DEF Returns
  <2>2. MaxLog \in Nat
    BY Sets
  <2> QED
    BY <2>1, <2>2 DEF NewRow, Row, NoArrival, IncomingStatus
<1>9. added \in Seq(Row(Source, IncomingStatus))
  <2>1. added = [n \in 1 .. N |-> added[n]]
    BY <1>5
  <2>2. \A n \in 1 .. N : added[n] \in Row(Source, IncomingStatus)
    BY <1>6, <1>8
  <2> QED
    BY <2>1, <2>2, <1>2, FunctionIsSeq
<1>10. \A n \in DOMAIN added : \E m \in S : added[n] = NewRow(rows[m].reservation, target, back[m])
  BY <1>6, <1>7
<1>11. \A m \in S : \E n \in DOMAIN added : added[n] = NewRow(rows[m].reservation, target, back[m])
  BY <1>3, <1>6, <1>7
<1>12. ASSUME NEW n1 \in DOMAIN added, NEW n2 \in DOMAIN added, n1 # n2
       PROVE  added[n1].reservation # added[n2].reservation
  <2>1. s[n1] \in moved /\ s[n2] \in moved /\ s[n1] # s[n2]
    BY <1>1, <1>3, <1>7, <1>12
  <2>2. rows[s[n1]].reservation # rows[s[n2]].reservation
    BY <2>1 DEF Returns
  <2>3. /\ added[n1].reservation = rows[s[n1]].reservation
        /\ added[n2].reservation = rows[s[n2]].reservation
    BY <1>6, <1>7 DEF NewRow
  <2> QED
    BY <2>2, <2>3
<1> QED
  BY <1>9, <1>10, <1>11, <1>12 DEF added, S

\* They hold what is left out of ReopenedBacking.
LEMMA FreshBacking ==
  ASSUME NEW stock, NEW rows, NEW moved, NEW back, NEW h, Returns(stock, rows, moved, back, h),
         NEW target, target \in Source, NEW r \in Reservation
  PROVE  LET added == FreshRows(rows, moved, back, target)
             ids   == FreshIds(rows, moved, back, target)
         IN  /\ \A m \in ids : rows[m].reservation = r => RowBacking(added, r) = back[m]
             /\ (\A m \in ids : rows[m].reservation # r) => RowBacking(added, r) = 0
<1> DEFINE added == FreshRows(rows, moved, back, target)
           S     == FreshIds(rows, moved, back, target)
           f     == ActiveQuantities(added, r)
<1>1. /\ added \in Seq(Row(Source, IncomingStatus))
      /\ \A n \in DOMAIN added : \E m \in S : added[n] = NewRow(rows[m].reservation, target, back[m])
      /\ \A m \in S : \E n \in DOMAIN added : added[n] = NewRow(rows[m].reservation, target, back[m])
      /\ \A n1, n2 \in DOMAIN added : n1 # n2 => added[n1].reservation # added[n2].reservation
  BY FreshFields
<1>2. f \in [DOMAIN added -> Nat] /\ IsFiniteSet(DOMAIN added) /\ RowBacking(added, r) = Total(f)
  <2>1. IsFiniteSet(Source)
    BY Sets
  <2> QED
    BY <2>1, <1>1, SumsBacking DEF RowBacking
<1>3. \A n \in DOMAIN added :
        f[n] = IF added[n].status = "ACTIVE" /\ added[n].reservation = r THEN added[n].quantity ELSE 0
  BY DEF ActiveQuantities, ActiveOf
<1> HIDE DEF added, S, f
<1>4. ASSUME NEW m \in S, rows[m].reservation = r
      PROVE  RowBacking(added, r) = back[m]
  <2>1. PICK n \in DOMAIN added : added[n] = NewRow(r, target, back[m])
    BY <1>1, <1>4
  <2>2. added[n].reservation = r /\ added[n].status = "ACTIVE" /\ added[n].quantity = back[m]
    BY <2>1 DEF NewRow
  <2>3. \A n2 \in DOMAIN added : n2 # n => f[n2] = 0
    BY <2>2, <1>1, <1>3
  <2>4. Total(f) = f[n]
    BY <2>3, <1>2, TotalSingle
  <2> QED
    BY <2>2, <2>4, <1>2, <1>3
<1>5. ASSUME \A m \in S : rows[m].reservation # r PROVE RowBacking(added, r) = 0
  <2>1. ASSUME NEW n \in DOMAIN added PROVE added[n].reservation # r
    <3>1. PICK m \in S : added[n] = NewRow(rows[m].reservation, target, back[m])
      BY <1>1
    <3>2. added[n].reservation = rows[m].reservation
      BY <3>1 DEF NewRow
    <3> QED
      BY <3>2, <1>5
  <2>2. \A n \in DOMAIN added : f[n] = 0
    BY <2>1, <1>3
  <2> QED
    BY <2>2, <1>2, TotalZero
<1> QED
  BY <1>4, <1>5 DEF added, S

\* What rows put after others hold is added.
LEMMA ConcatBacking ==
  ASSUME NEW P, IsFiniteSet(P), NEW T, NEW a, a \in Seq(Row(P, T)), NEW b, b \in Seq(Row(P, T)),
         NEW r \in Reservation
  PROVE  RowBacking(a \o b, r) = RowBacking(a, r) + RowBacking(b, r)
<1> DEFINE u == ActiveQuantities(a, r)
           v == ActiveQuantities(b, r)
           w == ActiveQuantities(a \o b, r)
<1>1. a \o b \in Seq(Row(P, T)) /\ Len(a \o b) = Len(a) + Len(b) /\ Len(a) \in Nat /\ Len(b) \in Nat
  BY ConcatProperties
<1>2. u \in Seq(Nat) /\ v \in Seq(Nat) /\ w \in Seq(Nat)
  <2>1. ASSUME NEW c, c \in Seq(Row(P, T)) PROVE ActiveQuantities(c, r) \in Seq(Nat)
    <3> DEFINE q == ActiveQuantities(c, r)
    <3>1. DOMAIN c = 1 .. Len(c) /\ Len(c) \in Nat
      BY <2>1, RowFields
    <3>2. q \in [DOMAIN c -> Nat]
      BY <2>1, SumsBacking
    <3> HIDE DEF q
    <3>3. q = [i \in 1 .. Len(c) |-> q[i]] /\ \A i \in 1 .. Len(c) : q[i] \in Nat
      BY <3>1, <3>2
    <3>4. q \in Seq(Nat)
      BY <3>1, <3>3, FunctionIsSeq
    <3> QED
      BY <3>4 DEF q
  <2> QED
    BY <2>1, <1>1
<1>3. Len(u) = Len(a) /\ Len(v) = Len(b) /\ Len(w) = Len(a) + Len(b)
  BY <1>1 DEF ActiveQuantities
<1>4. ASSUME NEW i \in 1 .. (Len(a) + Len(b))
      PROVE  w[i] = IF i <= Len(a) THEN u[i] ELSE v[i - Len(a)]
  BY DEF ActiveQuantities, ActiveOf
<1> HIDE DEF u, v, w
<1>5. w = u \o v
  <2>1. Len(w) = Len(u) + Len(v)
    BY <1>3
  <2>2. \A i \in 1 .. Len(w) : w[i] = IF i <= Len(u) THEN u[i] ELSE v[i - Len(u)]
    BY <1>3, <1>4
  <2> QED
    BY <2>1, <2>2, <1>2, IsConcat
<1>6. Total(u \o v) = Total(u) + Total(v)
  BY <1>2, TotalConcat
<1> QED
  BY <1>5, <1>6 DEF RowBacking, u, v, w

\* Each reservation that gets something back has as much more in after.
BacksMore(rows, after, moved, back) ==
  /\ \A m \in moved : RowBacking(after, rows[m].reservation)
                        = RowBacking(rows, rows[m].reservation) + back[m]
  /\ \A r \in Reservation : (\A m \in moved : rows[m].reservation # r)
                            => RowBacking(after, r) = RowBacking(rows, r)

\* The incoming rows after it.
LEMMA IncomingReturns ==
  ASSUME NEW stock, NEW rows, NEW moved, NEW back, NEW h, Returns(stock, rows, moved, back, h),
         NEW target, target \in Source
  PROVE  LET after == IncomingMore(rows, moved, back, target)
         IN  /\ after \in Seq(Row(Source, IncomingStatus))
             /\ SameConverted(rows, after) /\ Placed(rows, after, {target})
             /\ OnePerLine(rows) => OnePerLine(after)
             /\ \A table : OfUsed(rows, table) => OfUsed(after, table)
             /\ BacksMore(rows, after, moved, back)
<1> DEFINE kept  == Reopened(rows, moved, back, target)
           added == FreshRows(rows, moved, back, target)
           after == kept \o added
           ids   == FreshIds(rows, moved, back, target)
           X     == Row(Source, IncomingStatus)
<1>1. /\ kept \in Seq(X) /\ SameConverted(rows, kept) /\ Placed(rows, kept, {target})
      /\ OnePerLine(rows) => OnePerLine(kept)
      /\ \A table : OfUsed(rows, table) => OfUsed(kept, table)
  BY ReopenedRows
<1>2. /\ added \in Seq(X)
      /\ \A n \in DOMAIN added : \E m \in ids : added[n] = NewRow(rows[m].reservation, target, back[m])
      /\ \A n1, n2 \in DOMAIN added : n1 # n2 => added[n1].reservation # added[n2].reservation
  BY FreshFields
<1>3. /\ \A m \in ids : m \in moved /\ Homes(rows, target, m) = {} /\ back[m] < rows[m].quantity
      /\ \A m \in moved : m \in DOMAIN rows /\ rows[m].reservation \in Reservation
                          /\ back[m] \in Nat /\ rows[m].quantity \in Nat
  <2>1. \A m \in ids : m \in moved /\ Homes(rows, target, m) = {} /\ back[m] < rows[m].quantity
    BY DEF FreshIds
  <2>2. /\ rows \in Seq(Row(Source, IncomingStatus)) /\ moved \subseteq DOMAIN rows
        /\ back \in [DOMAIN rows -> Nat]
    BY DEF Returns
  <2> QED
    BY <2>1, <2>2, RowFields
<1>4. ASSUME NEW n \in DOMAIN added
      PROVE  /\ added[n].arrival = NoArrival /\ added[n].status = "ACTIVE" /\ added[n].place = target
             /\ \E m \in ids : added[n].reservation = rows[m].reservation
  <2>1. PICK m \in ids : added[n] = NewRow(rows[m].reservation, target, back[m])
    BY <1>2
  <2> QED
    BY <2>1 DEF NewRow
<1>5. ASSUME NEW j \in DOMAIN kept, kept[j].status = "ACTIVE"
      PROVE  /\ j \in DOMAIN rows /\ kept[j].reservation = rows[j].reservation
             /\ \/ j \notin moved /\ rows[j].status = "ACTIVE" /\ kept[j].place = rows[j].place
                \/ j \in moved /\ back[j] = rows[j].quantity
  <2>1. j \in DOMAIN rows
    BY DEF Reopened
  <2> QED
    BY <2>1, <1>5, ReopenedActive
<1>6. \A r \in Reservation : /\ RowBacking(after, r) = RowBacking(kept, r) + RowBacking(added, r)
                             /\ RowBacking(kept, r) \in Nat /\ RowBacking(rows, r) \in Nat
  <2>1. IsFiniteSet(Source) /\ rows \in Seq(X)
    BY Sets DEF Returns
  <2> HIDE DEF kept, added
  <2> QED
    BY <2>1, <1>1, <1>2, ConcatBacking, SumsBacking
<1>7. ASSUME NEW m \in moved
      PROVE  RowBacking(after, rows[m].reservation) = RowBacking(rows, rows[m].reservation) + back[m]
  <2> DEFINE r == rows[m].reservation
  <2>1. r \in Reservation
    BY <1>3
  <2>2. RowBacking(kept, r) = RowBacking(rows, r) + (IF m \in ids THEN 0 ELSE back[m])
    BY <2>1, ReopenedBacking
  <2>3. RowBacking(added, r) = IF m \in ids THEN back[m] ELSE 0
    <3>1. \A x \in ids : rows[x].reservation = r => x = m
      BY <1>3 DEF Returns
    <3>2. /\ \A x \in ids : rows[x].reservation = r => RowBacking(added, r) = back[x]
          /\ (\A x \in ids : rows[x].reservation # r) => RowBacking(added, r) = 0
      BY <2>1, FreshBacking
    <3> QED
      BY <3>1, <3>2
  <2>4. RowBacking(after, r) = RowBacking(kept, r) + RowBacking(added, r)
    BY <2>1, <1>6
  <2>5. RowBacking(rows, r) \in Nat /\ back[m] \in Nat
    BY <2>1, <1>3, <1>6
  <2> HIDE DEF r, after, kept, added, ids
  <2>6. RowBacking(after, r) = RowBacking(rows, r) + back[m]
    BY <2>2, <2>3, <2>4, <2>5
  <2> QED
    BY <2>6 DEF r
<1>8. ASSUME NEW r \in Reservation, \A m \in moved : rows[m].reservation # r
      PROVE  RowBacking(after, r) = RowBacking(rows, r)
  <2>1. RowBacking(kept, r) = RowBacking(rows, r)
    BY <1>8, ReopenedBacking
  <2>2. RowBacking(added, r) = 0
    BY <1>3, <1>8, FreshBacking
  <2>3. RowBacking(after, r) = RowBacking(kept, r) + RowBacking(added, r) /\ RowBacking(rows, r) \in Nat
    BY <1>6
  <2> HIDE DEF after, kept, added
  <2> QED
    BY <2>1, <2>2, <2>3
<1>9. ASSUME OnePerLine(rows) PROVE OnePerLine(after)
  <2>1. OnePerLine(added)
    BY <1>2 DEF OnePerLine
  <2>2. ASSUME NEW j \in DOMAIN kept, NEW n \in DOMAIN added, kept[j].status = "ACTIVE",
               kept[j].reservation = added[n].reservation, kept[j].place = added[n].place
        PROVE  FALSE
    <3>1. PICK m \in ids : added[n].reservation = rows[m].reservation
      BY <1>4
    <3>2. added[n].place = target /\ m \in moved /\ Homes(rows, target, m) = {}
          /\ back[m] < rows[m].quantity /\ m \in DOMAIN rows
          /\ back[m] \in Nat /\ rows[m].quantity \in Nat
      BY <1>3, <1>4
    <3>3. j \in DOMAIN rows /\ rows[j].reservation = rows[m].reservation
      BY <3>1, <2>2, <1>5
    <3>4. CASE j \notin moved
      <4>1. j \in Homes(rows, target, m)
        BY <3>2, <3>3, <3>4, <2>2, <1>5 DEF Homes, ActiveAt, ActiveOf
      <4> QED
        BY <4>1, <3>2
    <3>5. CASE j \in moved
      <4>1. j = m
        BY <3>2, <3>3, <3>5 DEF Returns
      <4>2. back[j] = rows[j].quantity
        BY <3>5, <2>2, <1>5
      <4> QED
        BY <4>1, <4>2, <3>2
    <3> QED
      BY <3>4, <3>5
  <2>3. Apart(kept, added)
    BY <2>2 DEF Apart
  <2>4. OnePerLine(kept)
    BY <1>1, <1>9
  <2> HIDE DEF kept, added
  <2> QED
    BY <2>1, <2>3, <2>4, <1>1, <1>2, AppendKeeps
<1>10. /\ SameConverted(kept, after) /\ Placed(kept, after, {target}) /\ after \in Seq(X)
  <2>1. /\ \A n \in DOMAIN added : added[n].status # "CONVERTED"
        /\ \A n \in DOMAIN added : added[n].place \in {target}
    BY <1>4
  <2> HIDE DEF kept, added, X
  <2> QED
    BY <2>1, <1>1, <1>2, AppendKeeps, ConcatElements
<1>11. \A table : OfUsed(rows, table) => OfUsed(after, table)
  <2>1. ASSUME NEW table, OfUsed(rows, table) PROVE OfUsed(after, table)
    <3>1. OfUsed(kept, table)
      BY <2>1, <1>1
    <3>2. OfUsed(added, table)
      BY <2>1, <1>3, <1>4 DEF OfUsed
    <3> HIDE DEF kept, added, X
    <3>3. /\ \A i \in DOMAIN kept : after[i] = kept[i]
          /\ \A i \in DOMAIN after \ DOMAIN kept :
               i - Len(kept) \in DOMAIN added /\ after[i] = added[i - Len(kept)]
      BY <1>1, <1>2, ConcatElements
    <3> HIDE DEF after
    <3> QED
      BY <3>1, <3>2, <3>3 DEF OfUsed
  <2> QED
    BY <2>1
<1> HIDE DEF after, kept
<1>12. BacksMore(rows, after, moved, back)
  BY <1>7, <1>8 DEF BacksMore
<1>13. SameConverted(rows, after)
  BY <1>1, <1>10 DEF SameConverted
<1>14. Placed(rows, after, {target})
  BY <1>1, <1>10 DEF Placed
<1> QED
  BY <1>9, <1>10, <1>11, <1>12, <1>13, <1>14 DEF IncomingMore, after, kept

-----------------------------------------------------------------------------
(* The line that is open again.                                            *)

\* The share of a part is no more than the whole.
LEMMA ShareBound ==
  ASSUME NEW a, a \in Nat, NEW b, b \in Nat, NEW c, c \in Nat, c < a
  PROVE  (b * c) \div a \in Nat /\ (b * c) \div a <= b
<1> DEFINE x == b * c
           q == x \div a
<1>1. x \in Nat /\ a > 0
  OBVIOUS
<1>2. x <= b * a
  <2>1. b * a - b * c = b * (a - c)
    OBVIOUS
  <2>2. b * (a - c) \in Nat
    OBVIOUS
  <2>3. b * a \in Nat
    OBVIOUS
  <2> QED
    BY <1>1, <2>1, <2>2, <2>3
<1>3. q \in Int /\ a * q <= x /\ x < a * q + a
  <2> HIDE DEF x
  <2> QED
    BY <1>1
<1> HIDE DEF q, x
<1>4. q >= 0
  <2>1. SUFFICES ASSUME q <= -1 PROVE FALSE
    BY <1>3
  <2>2. a * (-1 - q) >= 0
    BY <1>3, <2>1
  <2>3. a * (-1 - q) = - a - a * q
    BY <1>3
  <2> QED
    BY <1>1, <1>3, <2>2, <2>3
<1>5. q <= b
  <2>1. SUFFICES ASSUME q >= b + 1 PROVE FALSE
    BY <1>3
  <2>2. a * (q - b - 1) >= 0
    BY <1>3, <2>1
  <2>3. a * (q - b - 1) = a * q - b * a - a /\ b * a \in Nat /\ a * q \in Int
    BY <1>3
  <2> QED
    BY <1>1, <1>2, <1>3, <2>2, <2>3
<1> QED
  BY <1>3, <1>4, <1>5 DEF q, x

\* Lines keep their types, those in use stay in use, and what is taken back
\* goes to one of them.
LEMMA ReopenFacts ==
  ASSUME orders \in [Order -> Summed!OrderLine], splitRoot \in [Order -> {0} \cup Order],
         NEW o \in Order, orders[o].status # "Unused", NEW n, n \in Nat, NEW target \in Order,
         ReopenLine(o, n, target)
  PROVE  /\ orders' \in [Order -> Summed!OrderLine] /\ splitRoot' \in [Order -> {0} \cup Order]
         /\ LinesKept(orders, orders') /\ orders'[target].status # "Unused"
<1> DEFINE restored == Smaller(n, orders[o].amount)
           share    == Summed!OrderedShare(o, restored)
           rest     == [orders[o] EXCEPT !.amount = @ - restored, !.ordered = @ - share]
           new      == Summed!LineOf(o, "Ordered", restored, share)
           more     == [orders[target] EXCEPT !.amount = @ + restored, !.ordered = @ + share]
<1>1. \/ target = o /\ orders' = orders /\ splitRoot' = splitRoot
      \/ /\ target = o
         /\ orders' = [orders EXCEPT ![o].status = "Ordered"]
         /\ splitRoot' = splitRoot
      \/ /\ restored < orders[o].amount
         /\ OpenSiblings(o) # {} /\ target = Least(OpenSiblings(o))
         /\ orders' = [orders EXCEPT ![o] = rest, ![target].amount = @ + restored,
                                                  ![target].ordered = @ + share]
         /\ splitRoot' = splitRoot
      \/ /\ restored < orders[o].amount
         /\ OpenSiblings(o) = {} /\ Summed!NextUnused(orders, target)
         /\ orders' = [orders EXCEPT ![o] = rest, ![target] = new]
         /\ splitRoot' = [splitRoot EXCEPT ![target] = RootOf(o)]
  BY DEF ReopenLine
<1>2. /\ orders[o] \in Summed!OrderLine /\ orders[target] \in Summed!OrderLine
      /\ orders[o].amount \in Nat /\ orders[o].ordered \in Nat
      /\ orders[target].amount \in Nat /\ orders[target].ordered \in Nat
  BY DEF Summed!OrderLine
<1>3. restored \in Nat /\ restored <= orders[o].amount
  BY <1>2 DEF Smaller
<1>4. ASSUME restored < orders[o].amount
      PROVE  /\ share \in Nat /\ orders[o].amount - restored \in Nat
             /\ orders[o].ordered - share \in Nat
  <2> HIDE DEF restored
  <2>1. share \in Nat /\ share <= orders[o].ordered
    BY <1>2, <1>3, <1>4, ShareBound DEF Summed!OrderedShare
  <2> HIDE DEF share
  <2> QED
    BY <2>1, <1>2, <1>3, <1>4
<1> HIDE DEF restored, share
<1>5. ASSUME restored < orders[o].amount
      PROVE  /\ rest \in Summed!OrderLine /\ new \in Summed!OrderLine /\ more \in Summed!OrderLine
             /\ rest.status = orders[o].status /\ new.status = "Ordered"
             /\ more.status = orders[target].status
  <2>1. /\ share \in Nat /\ orders[o].amount - restored \in Nat /\ restored \in Nat
        /\ orders[o].ordered - share \in Nat
        /\ orders[target].amount + restored \in Nat /\ orders[target].ordered + share \in Nat
    BY <1>2, <1>3, <1>4, <1>5
  <2>2. rest \in Summed!OrderLine /\ rest.status = orders[o].status
    BY <2>1, <1>2 DEF Summed!OrderLine
  <2>3. new \in Summed!OrderLine /\ new.status = "Ordered"
    BY <2>1, <1>2 DEF Summed!OrderLine, Summed!LineOf
  <2>4. more \in Summed!OrderLine /\ more.status = orders[target].status
    BY <2>1, <1>2 DEF Summed!OrderLine
  <2> QED
    BY <2>2, <2>3, <2>4
<1>6. CASE target = o /\ orders' = orders /\ splitRoot' = splitRoot
  BY <1>6 DEF LinesKept
<1>7. CASE target = o /\ orders' = [orders EXCEPT ![o].status = "Ordered"] /\ splitRoot' = splitRoot
  <2> DEFINE open == [orders[o] EXCEPT !.status = "Ordered"]
  <2>1. open \in Summed!OrderLine /\ open.status = "Ordered"
    BY <1>2 DEF Summed!OrderLine
  <2>2. orders' = [orders EXCEPT ![o] = open]
    BY <1>7
  <2> HIDE DEF open
  <2> QED
    BY <2>1, <2>2, <1>7 DEF LinesKept
<1>8. CASE /\ restored < orders[o].amount
           /\ OpenSiblings(o) # {} /\ target = Least(OpenSiblings(o))
           /\ orders' = [orders EXCEPT ![o] = rest, ![target].amount = @ + restored,
                                                    ![target].ordered = @ + share]
           /\ splitRoot' = splitRoot
  <2>1. target \in OpenSiblings(o)
    <3>1. OpenSiblings(o) \subseteq 1 .. MaxOrder /\ MaxOrder \in Nat
      BY RowsAssumption DEF OpenSiblings, Order
    <3> QED
      BY <3>1, <1>8, LeastFacts
  <2>2. target # o /\ orders[target].status = "Ordered"
    BY <2>1 DEF OpenSiblings
  <2>3. orders' = [orders EXCEPT ![o] = rest, ![target] = more]
    BY <1>8, <2>2
  <2>4. /\ rest \in Summed!OrderLine /\ more \in Summed!OrderLine
        /\ rest.status = orders[o].status /\ more.status = orders[target].status
    BY <1>5, <1>8
  <2> HIDE DEF rest, more
  <2>5. orders' \in [Order -> Summed!OrderLine]
    BY <2>3, <2>4
  <2>6. orders'[target] = more /\ orders'[o] = rest
        /\ \A x \in Order : x # o /\ x # target => orders'[x] = orders[x]
    BY <2>2, <2>3
  <2> QED
    BY <2>2, <2>4, <2>5, <2>6, <1>8 DEF LinesKept
<1>9. CASE /\ restored < orders[o].amount
           /\ OpenSiblings(o) = {} /\ Summed!NextUnused(orders, target)
           /\ orders' = [orders EXCEPT ![o] = rest, ![target] = new]
           /\ splitRoot' = [splitRoot EXCEPT ![target] = RootOf(o)]
  <2>1. target # o
    BY <1>9 DEF Summed!NextUnused
  <2>2. /\ rest \in Summed!OrderLine /\ new \in Summed!OrderLine
        /\ rest.status = orders[o].status /\ new.status = "Ordered"
    BY <1>5, <1>9
  <2>3. RootOf(o) \in {0} \cup Order
    BY DEF RootOf
  <2>4. splitRoot' \in [Order -> {0} \cup Order]
    BY <2>3, <1>9
  <2> HIDE DEF rest, new
  <2>5. orders' \in [Order -> Summed!OrderLine]
    BY <2>2, <1>9
  <2>6. orders'[target] = new /\ orders'[o] = rest
        /\ \A x \in Order : x # o /\ x # target => orders'[x] = orders[x]
    BY <2>1, <1>9
  <2> QED
    BY <2>2, <2>4, <2>5, <2>6 DEF LinesKept
<1> QED
  BY <1>1, <1>6, <1>7, <1>8, <1>9

\* What goes back from stock to order leaves every backing as it was.
LEMMA ReturnsBacking ==
  ASSUME RowsTypeOK, RowsTypeOK', NEW moved, NEW back, NEW h,
         Returns(stockRows, incomingRows, moved, back, h), NEW target, target \in Source,
         stockRows' = StockLess(stockRows, moved, back, h),
         incomingRows' = IncomingMore(incomingRows, moved, back, target)
  PROVE  \A x \in Reservation : Backing(x)' = Backing(x)
<1>1. /\ \A m \in moved :
           /\ RowBacking(stockRows', incomingRows[m].reservation) + back[m]
                = RowBacking(stockRows, incomingRows[m].reservation)
           /\ RowBacking(incomingRows', incomingRows[m].reservation)
                = RowBacking(incomingRows, incomingRows[m].reservation) + back[m]
           /\ back[m] \in Nat
      /\ \A r \in Reservation :
           (\A m \in moved : incomingRows[m].reservation # r)
           => /\ RowBacking(stockRows', r) = RowBacking(stockRows, r)
              /\ RowBacking(incomingRows', r) = RowBacking(incomingRows, r)
  <2>1. \A m \in moved : back[m] \in Nat
    BY DEF Returns
  <2>2. /\ \A m \in moved : RowBacking(stockRows', incomingRows[m].reservation) + back[m]
                              = RowBacking(stockRows, incomingRows[m].reservation)
        /\ \A r \in Reservation : (\A m \in moved : incomingRows[m].reservation # r)
                                  => RowBacking(stockRows', r) = RowBacking(stockRows, r)
    BY StockReturns
  <2>3. BacksMore(incomingRows, incomingRows', moved, back)
    BY IncomingReturns
  <2> QED
    BY <2>1, <2>2, <2>3 DEF BacksMore
<1>2. ASSUME NEW x \in Reservation PROVE Backing(x)' = Backing(x)
  <2>1. /\ Backing(x) = RowBacking(stockRows, x) + RowBacking(incomingRows, x)
        /\ Backing(x)' = RowBacking(stockRows', x) + RowBacking(incomingRows', x)
        /\ RowBacking(stockRows, x) \in Nat /\ RowBacking(incomingRows, x) \in Nat
        /\ RowBacking(stockRows', x) \in Nat /\ RowBacking(incomingRows', x) \in Nat
    BY BackingRows
  <2>2. CASE \A m \in moved : incomingRows[m].reservation # x
    BY <1>1, <2>1, <2>2
  <2>3. CASE \E m \in moved : incomingRows[m].reservation = x
    <3>1. PICK m \in moved : incomingRows[m].reservation = x
      BY <2>3
    <3>2. /\ RowBacking(stockRows', x) + back[m] = RowBacking(stockRows, x)
          /\ RowBacking(incomingRows', x) = RowBacking(incomingRows, x) + back[m]
          /\ back[m] \in Nat
      BY <1>1, <3>1
    <3> QED
      BY <2>1, <3>2
  <2> QED
    BY <2>2, <2>3
<1> QED
  BY <1>2

\* Undoing the arrival of an order line.
LEMMA UndoLineArrivalKeeps ==
  ASSUME UndoInv, NEW k, Undoable(k, "ARRIVAL"), Returnable(k) > 0, log[k].order # NoOrder,
         onHand' = [onHand EXCEPT ![log[k].to] = @ - Returnable(k)],
         NEW target \in Order,
         ReopenLine(log[k].order, Returnable(k), target),
         RestoreBacking(k, Returnable(k), target),
         reservations' = reservations,
         Compensated(k, Entry("CONSUME", Returnable(k), log[k].to, NoLocation))
  PROVE  UndoInv'
<1> DEFINE n     == Returnable(k)
           to    == log[k].to
           o     == log[k].order
           entry == Entry("CONSUME", n, to, NoLocation)
           moved == MovedIds(stockRows, incomingRows, k, n)
           back  == Returned(stockRows, incomingRows, k, n)
           h     == From(stockRows, incomingRows, k, n)
<1>1. /\ RowsBase /\ Held /\ OnePerLine(incomingRows)
      /\ Linked(stockRows, incomingRows, Len(log))
      /\ StateTypeOK /\ RowsTypeOK /\ log \in Seq(LogEntry)
      /\ OfUsed(stockRows, reservations) /\ OfUsed(incomingRows, reservations)
      /\ UsedInOrder(reservations)
  BY DEF UndoInv, RowsBase
<1>2. /\ stockRows \in Seq(Row(Location, StockStatus))
      /\ incomingRows \in Seq(Row(Source, IncomingStatus)) /\ onHand \in [Location -> Nat]
      /\ orders \in [Order -> Summed!OrderLine] /\ splitRoot \in [Order -> {0} \cup Order]
      /\ target \in Source
  BY <1>1 DEF RowsTypeOK, StateTypeOK, Source
<1>3. to \in Location /\ o \in Order /\ orders[o].status # "Unused"
  BY UndoneEntry DEF EntryOK, LogEntry, NoOrder
<1>4. n \in Nat \ {0} /\ n <= onHand[to]
  BY <1>3, ReturnableFacts
<1>5. Returns(stockRows, incomingRows, moved, back, h)
  BY <1>1, <1>2, <1>4, MarkersReturn
<1>6. /\ stockRows' = StockLess(stockRows, moved, back, h)
      /\ incomingRows' = IncomingMore(incomingRows, moved, back, target)
  BY RestoreBackingIs
<1>7. /\ ReopenLine(o, n, target) /\ onHand' = [onHand EXCEPT ![to] = @ - n]
      /\ Compensated(k, entry)
  OBVIOUS
<1> HIDE DEF n, to, o, moved, back, h
<1>8. /\ orders' \in [Order -> Summed!OrderLine] /\ splitRoot' \in [Order -> {0} \cup Order]
      /\ LinesKept(orders, orders') /\ orders'[target].status # "Unused"
  BY <1>2, <1>3, <1>4, <1>7, ReopenFacts
<1>9. onHand' \in [Location -> Nat]
  BY <1>2, <1>3, <1>4, <1>7
<1>10. LogGrows(entry) /\ EntryOK(entry, orders')
  <2>1. entry \in LogEntry /\ EntryOK(entry, orders')
    BY <1>3, <1>4, PlainEntry
  <2> HIDE DEF entry
  <2> QED
    BY <1>1, <1>2, <1>7, <1>9, <2>1, CompensatedGrows
<1> HIDE DEF entry
<1>11. /\ stockRows' \in Seq(Row(Location, StockStatus)) /\ StockTraces(stockRows, stockRows')
       /\ \A table : OfUsed(stockRows, table) => OfUsed(stockRows', table)
  BY <1>5, <1>6, StockReturns
<1>12. /\ incomingRows' \in Seq(Row(Source, IncomingStatus))
       /\ SameConverted(incomingRows, incomingRows')
       /\ Placed(incomingRows, incomingRows', {target})
       /\ OnePerLine(incomingRows')
       /\ \A table : OfUsed(incomingRows, table) => OfUsed(incomingRows', table)
  BY <1>1, <1>2, <1>5, <1>6, IncomingReturns
<1>13. RowsBase'
  <2>1. StateTypeOK'
    BY <1>1, <1>8, <1>9 DEF StateTypeOK
  <2>2. RowsTypeOK'
    BY <1>11, <1>12 DEF RowsTypeOK
  <2>3. OfUsed(stockRows', reservations') /\ OfUsed(incomingRows', reservations')
    BY <1>1, <1>11, <1>12
  <2>4. log' \in Seq(LogEntry)
    BY <1>10 DEF LogGrows
  <2>5. UsedInOrder(reservations')
    BY <1>1
  <2> QED
    BY <2>1, <2>2, <2>3, <2>4, <2>5 DEF RowsBase
<1>14. \A x \in Reservation : Backing(x)' = Backing(x)
  <2>1. RowsTypeOK /\ RowsTypeOK'
    BY <1>1, <1>13 DEF RowsBase
  <2> QED
    BY <2>1, <1>2, <1>5, <1>6, ReturnsBacking
<1>15. Held'
  BY <1>1, <1>14 DEF Held, HeldBy
<1> QED
  BY <1>8, <1>10, <1>11, <1>12, <1>13, <1>15, InvKept

\* Undoing an arrival.
LEMMA UndoArrivalKeeps ==
  ASSUME UndoInv, NEW k, UndoArrival(k)
  PROVE  UndoInv'
<1> DEFINE n  == Returnable(k)
           to == log[k].to
<1>1. /\ Undoable(k, "ARRIVAL") /\ n > 0
      /\ onHand' = [onHand EXCEPT ![to] = @ - n]
      /\ reservations' = reservations
      /\ Compensated(k, Entry("CONSUME", n, to, NoLocation))
  BY DEF UndoArrival
<1>2. CASE log[k].order # NoOrder
  <2>1. PICK target \in Order : /\ ReopenLine(log[k].order, n, target)
                                /\ RestoreBacking(k, n, target)
    BY <1>2 DEF UndoArrival
  <2> QED
    BY <1>1, <1>2, <2>1, UndoLineArrivalKeeps
<1>3. CASE log[k].order = NoOrder
  <2>1. ReservationStateUnchanged
    BY <1>1, <1>3 DEF UndoArrival, ReservationStateUnchanged
  <2>2. to \in Location /\ Undoable(k, log[k].op)
    BY <1>1, UndoneEntry DEF EntryOK
  <2>3. n \in Nat \ {0} /\ n <= onHand[to] /\ onHand \in [Location -> Nat]
    BY <1>1, <2>2, ReturnableFacts DEF UndoInv, RowsBase, StateTypeOK
  <2> HIDE DEF n, to
  <2>4. onHand' \in [Location -> Nat]
    BY <1>1, <2>2, <2>3
  <2> QED
    BY <1>1, <2>1, <2>2, <2>3, <2>4, LedgerCallKeeps
<1> QED
  BY <1>2, <1>3

-----------------------------------------------------------------------------
(* The theorems.                                                           *)

\* The invariant holds initially.
LEMMA UndoInit ==
  ASSUME Init
  PROVE  UndoInv
<1>1. RowsBase
  BY RowsInit DEF RowsInv
<1>2. /\ stockRows = <<>> /\ incomingRows = <<>> /\ log = <<>>
      /\ reservations = [r \in Reservation |-> [status |-> "Unused", quantity |-> 0, project |-> NoProject]]
  BY DEF Init
<1>3. DOMAIN stockRows = {} /\ DOMAIN incomingRows = {} /\ DOMAIN log = {}
  BY <1>2
<1>4. LinesUsed(incomingRows, orders) /\ OnePerLine(incomingRows) /\ EntriesOK(log, orders)
  BY <1>3 DEF LinesUsed, OnePerLine, EntriesOK
<1>5. Linked(stockRows, incomingRows, Len(log))
  BY <1>3 DEF Linked, ConvertedRows
<1>6. Held
  <2>1. ASSUME NEW r \in Reservation PROVE HeldBy(r)
    <3>1. ActiveQuantities(stockRows, r) = [i \in {} |-> 0] /\ ActiveQuantities(incomingRows, r) = [i \in {} |-> 0]
      BY <1>3 DEF ActiveQuantities
    <3>2. Total([i \in {} |-> 0]) = 0
      <4>1. IsFiniteSet({}) /\ [i \in {} |-> 0] \in [{} -> Nat]
        BY FS_EmptySet
      <4> QED
        BY <4>1, TotalZero
    <3>3. RowBacking(stockRows, r) = 0 /\ RowBacking(incomingRows, r) = 0
      BY <3>1, <3>2 DEF RowBacking
    <3>4. Backing(r) = RowBacking(stockRows, r) + RowBacking(incomingRows, r)
      BY <1>1, BackingRows DEF RowsBase
    <3>5. reservations[r].status # "ACTIVE"
      BY <1>2
    <3> QED
      BY <3>3, <3>4, <3>5 DEF HeldBy
  <2> QED
    BY <2>1 DEF Held
<1> QED
  BY <1>1, <1>4, <1>5, <1>6 DEF UndoInv

\* Every call and every undo keeps it.
LEMMA UndoStep ==
  ASSUME UndoInv, [ReservationNext \/ ArrivalNext \/ DirectNext \/ UndoNext]_vars
  PROVE  UndoInv'
<1>1. CASE UNCHANGED vars
  <2>1. /\ onHand' = onHand /\ orders' = orders /\ reservations' = reservations
        /\ splitRoot' = splitRoot /\ stockRows' = stockRows /\ incomingRows' = incomingRows
        /\ log' = log
    BY <1>1 DEF vars
  <2>2. StateTypeOK' /\ RowsTypeOK'
    BY <2>1 DEF UndoInv, RowsBase, StateTypeOK, RowsTypeOK
  <2>3. RowsBase'
    BY <2>1, <2>2 DEF UndoInv, RowsBase
  <2>4. \A r \in Reservation : Backing(r)' = Backing(r)
    <3>1. \A r \in Reservation :
            /\ Backing(r) = RowBacking(stockRows, r) + RowBacking(incomingRows, r)
            /\ Backing(r)' = RowBacking(stockRows', r) + RowBacking(incomingRows', r)
      BY <2>2, BackingRows DEF UndoInv, RowsBase
    <3> QED
      BY <2>1, <3>1
  <2>5. Held'
    BY <2>1, <2>4 DEF UndoInv, Held, HeldBy
  <2> QED
    BY <2>1, <2>3, <2>5 DEF UndoInv
<1>2. CASE ReservationNext
  <2>1. NoteGiven \subseteq BOOLEAN
    BY RowsAssumption
  <2> QED
    BY <1>2, <2>1, CreateKeeps, ReleaseKeeps, ConsumeKeeps DEF ReservationNext
<1>3. CASE ArrivalNext
  BY <1>3, FullArrivalKeeps, PartialArrivalKeeps DEF ArrivalNext
<1>4. CASE DirectNext
  BY <1>4, InventoryKeeps DEF DirectNext
<1>5. CASE UndoNext
  <2>1. PICK k : \/ UndoMove(k) \/ UndoIncrease(k) \/ UndoDecrease(k) \/ UndoConsumption(k)
                 \/ UndoRelease(k) \/ UndoReservationConsume(k) \/ UndoCreate(k)
                 \/ UndoArrival(k)
    BY <1>5 DEF UndoNext
  <2> QED
    BY <2>1, LedgerUndoKeeps, UndoReleaseKeeps, UndoReservationConsumeKeeps, UndoCreateKeeps,
       UndoArrivalKeeps
<1> QED
  BY <1>1, <1>2, <1>3, <1>4, <1>5

\* So it holds of every history of calls and undos.
LEMMA UndoInvariant == UndoSpec => []UndoInv
<1>1. Init => UndoInv
  BY UndoInit
<1>2. UndoInv /\ [ReservationNext \/ ArrivalNext \/ DirectNext \/ UndoNext]_vars => UndoInv'
  BY UndoStep
<1> QED
  BY <1>1, <1>2, PTL DEF UndoSpec

\* Whatever is undone, in whatever order, rows, reservations, order lines and
\* log entries keep their types; no quantity becomes negative.
THEOREM UndoTypeCorrect == UndoSpec => []TypeOK
<1>1. UndoInv => TypeOK
  BY TypeParts DEF UndoInv, RowsBase
<1> QED
  BY <1>1, UndoInvariant, PTL

\* A reservation that was released or consumed holds no supply, whatever was
\* undone since, undos included.
THEOREM UndoneEndedHoldsNothing == UndoSpec => []EndedHoldsNothing
<1>1. UndoInv => EndedHoldsNothing
  BY DEF UndoInv, Held, HeldBy, EndedHoldsNothing
<1> QED
  BY <1>1, UndoInvariant, PTL

\* No sequence of calls and undos backs a reservation with more than it asks
\* for.
THEOREM UndoNeverOverbacks == UndoSpec => []NeverOverbacked
<1>1. UndoInv => NeverOverbacked
  <2>1. UndoInv => reservations \in [Reservation -> Summed!ReservationRow]
    BY DEF UndoInv, RowsBase, StateTypeOK
  <2>2. UndoInv => \A r \in Reservation : reservations[r].quantity \in Nat
    BY <2>1 DEF Summed!ReservationRow
  <2> QED
    BY <2>2 DEF UndoInv, Held, HeldBy, NeverOverbacked
<1> QED
  BY <1>1, UndoInvariant, PTL

\* The undos leave a reservation one active row on an order line, the one the
\* next undo finds.
THEOREM UndoOneActiveRowPerLine == UndoSpec => []OneActiveRowPerLine
<1>1. UndoInv => OneActiveRowPerLine
  BY DEF UndoInv, OnePerLine, OneActiveRowPerLine, ActiveOf
<1> QED
  BY <1>1, UndoInvariant, PTL

-----------------------------------------------------------------------------
(* What an undone arrival takes from stock is on order again.  For that an *)
(* arrival that stands has its line to itself.                             *)

\* An entry of an arrival on an order line names it; no other names one.
NamesLine(e) ==
  IF e.context = "arrival" THEN e.op = "ARRIVAL" /\ e.order \in Order ELSE e.order = NoOrder

Standing(entries) == { k \in DOMAIN entries : entries[k].context = "arrival" /\ ~entries[k].undone }

\* The line of an arrival that stands has arrived, in the quantity logged, and
\* is the line of no other.
ArrivalsStand(entries, lines) ==
  /\ \A k \in DOMAIN entries : NamesLine(entries[k])
  /\ \A k \in Standing(entries) : /\ lines[entries[k].order].status = "Arrived"
                                  /\ lines[entries[k].order].amount = entries[k].quantity
  /\ \A j, k \in Standing(entries) : j # k => entries[j].order # entries[k].order

\* The log has one more entry, and the entries ids are undone.
Appends(new, ids) ==
  /\ Len(log) + 1 \notin DOMAIN log /\ DOMAIN log' = DOMAIN log \cup {Len(log) + 1}
  /\ log'[Len(log) + 1] = new
  /\ \A j \in DOMAIN log : /\ SameCall(log'[j], log[j])
                           /\ log'[j].undoOf = log[j].undoOf /\ log'[j].moved = log[j].moved
                           /\ log'[j].undone <=> (log[j].undone \/ j \in ids)

\* What the step does to the ledger.
Change == [l \in Location |-> onHand'[l] - onHand[l]]

\* Appending, whatever is appended.
LEMMA AppendElements ==
  ASSUME NEW n, n \in Nat, NEW s, s = [i \in 1 .. n |-> s[i]], NEW e
  PROVE  /\ DOMAIN Append(s, e) = 1 .. (n + 1)
         /\ \A i \in 1 .. n : Append(s, e)[i] = s[i]
         /\ Append(s, e)[n + 1] = e
<1> DEFINE X == { s[i] : i \in 1 .. n } \cup {e}
<1>1. \A i \in 1 .. n : s[i] \in X
  OBVIOUS
<1>2. e \in X
  OBVIOUS
<1> HIDE DEF X
<1>3. s \in Seq(X)
  BY <1>1, FunctionIsSeq
<1>4. Len(s) = n
  <2>1. DOMAIN s = 1 .. n /\ DOMAIN s = 1 .. Len(s) /\ Len(s) \in Nat
    BY <1>3, LenProperties
  <2> QED
    BY <2>1
<1>5. /\ Append(s, e) \in Seq(X) /\ Len(Append(s, e)) = n + 1
      /\ \A i \in 1 .. n : Append(s, e)[i] = s[i]
      /\ Append(s, e)[n + 1] = e
  BY <1>2, <1>3, <1>4, AppendProperties
<1>6. DOMAIN Append(s, e) = 1 .. Len(Append(s, e))
  BY <1>5, LenProperties
<1> QED
  BY <1>5, <1>6

\* A call that is logged appends.
LEMMA LoggedAppends ==
  ASSUME log \in Seq(LogEntry), NEW entry, Logged(entry)
  PROVE  Appends([entry EXCEPT !.moved = Change], {})
<1> DEFINE new == [entry EXCEPT !.moved = Change]
<1>1. log' = Append(log, new)
  BY DEF Logged, Change
<1> HIDE DEF new
<1>2. Len(log) \in Nat /\ DOMAIN log = 1 .. Len(log) /\ log = [i \in 1 .. Len(log) |-> log[i]]
  BY LenProperties
<1>3. /\ DOMAIN log' = 1 .. (Len(log) + 1)
      /\ \A i \in 1 .. Len(log) : log'[i] = log[i]
      /\ log'[Len(log) + 1] = new
  BY <1>1, <1>2, AppendElements
<1>4. Appends(new, {})
  BY <1>2, <1>3 DEF Appends, SameCall
<1> QED
  BY <1>4 DEF new

\* So does an undo.
LEMMA CompensatedAppends ==
  ASSUME log \in Seq(LogEntry), NEW entry, NEW k, k \in DOMAIN log, Compensated(k, entry)
  PROVE  Appends([entry EXCEPT !.undoOf = k, !.moved = Change], {k})
<1> DEFINE new    == [entry EXCEPT !.undoOf = k, !.moved = Change]
           marked == [log EXCEPT ![k].undone = TRUE]
<1>1. log' = Append(marked, new)
  BY DEF Compensated, Change
<1>2. Len(log) \in Nat /\ DOMAIN log = 1 .. Len(log) /\ log = [i \in 1 .. Len(log) |-> log[i]]
  BY LenProperties
<1>3. marked = [i \in 1 .. Len(log) |-> marked[i]]
  BY <1>2
<1>4. \A i \in 1 .. Len(log) : marked[i] = IF i = k THEN [log[k] EXCEPT !.undone = TRUE] ELSE log[i]
  BY <1>2
<1>5. /\ SameCall([log[k] EXCEPT !.undone = TRUE], log[k])
      /\ [log[k] EXCEPT !.undone = TRUE].undone = TRUE
      /\ [log[k] EXCEPT !.undone = TRUE].undoOf = log[k].undoOf
      /\ [log[k] EXCEPT !.undone = TRUE].moved = log[k].moved
  <2>1. log[k] \in LogEntry
    OBVIOUS
  <2> QED
    BY <2>1 DEF LogEntry, SameCall
<1> HIDE DEF new, marked
<1>6. /\ DOMAIN log' = 1 .. (Len(log) + 1)
      /\ \A i \in 1 .. Len(log) : log'[i] = marked[i]
      /\ log'[Len(log) + 1] = new
  BY <1>1, <1>2, <1>3, AppendElements
<1>7. ASSUME NEW j \in DOMAIN log
      PROVE  /\ SameCall(log'[j], log[j]) /\ (log'[j].undone <=> (log[j].undone \/ j \in {k}))
             /\ log'[j].undoOf = log[j].undoOf /\ log'[j].moved = log[j].moved
  <2>1. CASE j = k
    BY <1>2, <1>4, <1>5, <1>6, <2>1
  <2>2. CASE j # k
    BY <1>2, <1>4, <1>6, <2>2 DEF SameCall
  <2> QED
    BY <2>1, <2>2
<1>8. Appends(new, {k})
  BY <1>2, <1>6, <1>7 DEF Appends
<1> QED
  BY <1>8 DEF new

\* A step that leaves the order lines alone, appends an entry that names none,
\* and undoes no arrival on one.
PlainStep ==
  /\ orders' = orders
  /\ \E new, ids : /\ Appends(new, ids) /\ new.context # "arrival" /\ new.order = NoOrder
                   /\ \A j \in ids : log[j].op # "ARRIVAL"

LEMMA PlainStands ==
  ASSUME ArrivalsStand(log, orders), PlainStep
  PROVE  /\ ArrivalsStand(log', orders')
         /\ \A k \in DOMAIN log : Undone(k) => log[k].context # "arrival"
<1>1. PICK new, ids : /\ Appends(new, ids) /\ new.context # "arrival" /\ new.order = NoOrder
                      /\ \A j \in ids : log[j].op # "ARRIVAL"
  BY DEF PlainStep
<1> DEFINE last == Len(log) + 1
<1> HIDE DEF last
<1>2. /\ DOMAIN log' = DOMAIN log \cup {last} /\ last \notin DOMAIN log /\ log'[last] = new
      /\ \A j \in DOMAIN log : /\ log'[j].op = log[j].op /\ log'[j].quantity = log[j].quantity
                               /\ log'[j].context = log[j].context /\ log'[j].order = log[j].order
                               /\ (log'[j].undone <=> (log[j].undone \/ j \in ids))
  BY <1>1 DEF Appends, SameCall, last
<1>3. Standing(log') \subseteq Standing(log)
  BY <1>1, <1>2 DEF Standing
<1>4. \A k \in DOMAIN log' : NamesLine(log'[k])
  BY <1>1, <1>2 DEF NamesLine, ArrivalsStand
<1>5. \A k \in Standing(log') : k \in DOMAIN log
  BY <1>3 DEF Standing
<1>6. ArrivalsStand(log', orders')
  BY <1>2, <1>3, <1>4, <1>5 DEF ArrivalsStand, PlainStep
<1>7. ASSUME NEW k \in DOMAIN log, Undone(k) PROVE log[k].context # "arrival"
  <2>1. k \in ids
    BY <1>2, <1>7 DEF Undone
  <2>2. log[k].op # "ARRIVAL" /\ NamesLine(log[k])
    BY <1>1, <2>1 DEF ArrivalsStand
  <2> QED
    BY <2>2 DEF NamesLine
<1> QED
  BY <1>6, <1>7

\* A call that is logged without naming a line.
LEMMA PlainLogged ==
  ASSUME log \in Seq(LogEntry), orders' = orders, NEW entry, Logged(entry),
         \A m : /\ [entry EXCEPT !.moved = m].context # "arrival"
                /\ [entry EXCEPT !.moved = m].order = NoOrder
  PROVE  PlainStep
<1>1. PICK m : Appends([entry EXCEPT !.moved = m], {})
  BY LoggedAppends
<1> DEFINE new == [entry EXCEPT !.moved = m]
<1>2. Appends(new, {}) /\ new.context # "arrival" /\ new.order = NoOrder
  BY <1>1
<1> HIDE DEF new
<1>3. \A j \in {} : log[j].op # "ARRIVAL"
  OBVIOUS
<1> QED
  BY <1>2, <1>3 DEF PlainStep

\* Direct calls log so,
LEMMA PlainDirect ==
  ASSUME log \in Seq(LogEntry), orders' = orders, NEW op, NEW q, NEW from, NEW to,
         Logged(Entry(op, q, from, to))
  PROVE  PlainStep
<1> DEFINE e == Entry(op, q, from, to)
<1>1. \A m : [e EXCEPT !.moved = m].context # "arrival" /\ [e EXCEPT !.moved = m].order = NoOrder
  BY DEF Entry, NoOrder
<1>2. Logged(e)
  OBVIOUS
<1> HIDE DEF e
<1> QED
  BY <1>1, <1>2, PlainLogged

\* reservation calls do,
LEMMA PlainReservation ==
  ASSUME log \in Seq(LogEntry), orders' = orders, NEW op, NEW q, NEW context, NEW r,
         context # "arrival", Logged(ReservationEntry(op, q, context, r))
  PROVE  PlainStep
<1> DEFINE e == ReservationEntry(op, q, context, r)
<1>1. \A m : [e EXCEPT !.moved = m].context # "arrival" /\ [e EXCEPT !.moved = m].order = NoOrder
  BY DEF ReservationEntry, Entry, NoOrder
<1>2. Logged(e)
  OBVIOUS
<1> HIDE DEF e
<1> QED
  BY <1>1, <1>2, PlainLogged

\* and so do the undos of both.
LEMMA PlainUndo ==
  ASSUME log \in Seq(LogEntry), orders' = orders,
         NEW k, NEW undone, Undoable(k, undone), undone # "ARRIVAL",
         NEW op, NEW q, NEW from, NEW to, Compensated(k, Entry(op, q, from, to))
  PROVE  PlainStep
<1> DEFINE e == Entry(op, q, from, to)
<1>1. k \in DOMAIN log /\ log[k].op # "ARRIVAL" /\ Compensated(k, e)
  BY DEF Undoable
<1>2. \A m : /\ [e EXCEPT !.undoOf = k, !.moved = m].context # "arrival"
             /\ [e EXCEPT !.undoOf = k, !.moved = m].order = NoOrder
  BY DEF Entry, NoOrder
<1> HIDE DEF e
<1>3. PICK m : Appends([e EXCEPT !.undoOf = k, !.moved = m], {k})
  BY <1>1, CompensatedAppends
<1> DEFINE new == [e EXCEPT !.undoOf = k, !.moved = m]
<1>4. Appends(new, {k}) /\ new.context # "arrival" /\ new.order = NoOrder
  BY <1>2, <1>3
<1> HIDE DEF new
<1>5. \A j \in {k} : log[j].op # "ARRIVAL"
  BY <1>1
<1> QED
  BY <1>4, <1>5 DEF PlainStep

\* Reservation calls, direct calls and the undos of both are plain.
LEMMA PlainSteps ==
  ASSUME log \in Seq(LogEntry)
  PROVE  /\ ReservationNext => PlainStep
         /\ DirectNext => PlainStep
         /\ \A k : \/ UndoMove(k) \/ UndoIncrease(k) \/ UndoDecrease(k) \/ UndoConsumption(k)
                   \/ UndoRelease(k) \/ UndoReservationConsume(k) \/ UndoCreate(k)
                   => PlainStep
<1>1. ASSUME NEW r, NEW q, NEW p, NEW o, CreateReservation(r, q, p, o) PROVE PlainStep
  <2>1. orders' = orders /\ Logged(ReservationEntry("RESERVE", q, "create", r))
    BY <1>1 DEF CreateReservation
  <2> QED
    BY <2>1, PlainReservation
<1>2. ASSUME NEW r, NEW q, NEW noted, ReleaseReservation(r, q, noted) PROVE PlainStep
  <2>1. orders' = orders /\ Logged(ReservationEntry("RESERVE", q, "release", r))
    BY <1>2 DEF ReleaseReservation
  <2> QED
    BY <2>1, PlainReservation
<1>3. ASSUME NEW r, NEW q, NEW noted, ConsumeReservation(r, q, noted) PROVE PlainStep
  <2>1. orders' = orders /\ Logged(ReservationEntry("CONSUME", q, "consume", r))
    BY <1>3 DEF ConsumeReservation
  <2> QED
    BY <2>1, PlainReservation
<1>4. ReservationNext => PlainStep
  BY <1>1, <1>2, <1>3 DEF ReservationNext
<1>5. ASSUME InventoryNext PROVE PlainStep
  <2>1. /\ ReservationStateUnchanged
        /\ \E op, q, from, to : Logged(Entry(op, q, from, to))
    <3>1. CASE \E q \in 1 .. MaxQuantity, a \in Location, b \in Location, op \in {"MOVE", "RESERVE"} :
                 MoveInventory(q, a, b, op)
      BY <3>1 DEF MoveInventory
    <3>2. CASE \E q \in 1 .. MaxQuantity, l \in Location : ConsumeInventory(q, l)
      BY <3>2 DEF ConsumeInventory
    <3>3. CASE \E q \in 1 .. MaxQuantity, l \in Location : IncreaseInventory(q, l)
      BY <3>3 DEF IncreaseInventory
    <3>4. CASE \E q \in 1 .. MaxQuantity, l \in Location : DecreaseInventory(q, l)
      BY <3>4 DEF DecreaseInventory
    <3>5. CASE \E q \in 1 .. MaxQuantity, l \in Location : BatchArrival(q, l)
      BY <3>5 DEF BatchArrival
    <3> QED
      BY <1>5, <3>1, <3>2, <3>3, <3>4, <3>5 DEF InventoryNext
  <2>2. orders' = orders
    BY <2>1 DEF ReservationStateUnchanged
  <2> QED
    BY <2>1, <2>2, PlainDirect
<1>6. DirectNext => PlainStep
  BY <1>5 DEF DirectNext
<1>7. ASSUME NEW k,
             \/ UndoMove(k) \/ UndoIncrease(k) \/ UndoDecrease(k) \/ UndoConsumption(k)
             \/ UndoRelease(k) \/ UndoReservationConsume(k) \/ UndoCreate(k)
      PROVE  PlainStep
  <2>1. /\ orders' = orders
        /\ \E undone, op, q, from, to : /\ Undoable(k, undone) /\ undone # "ARRIVAL"
                                        /\ Compensated(k, Entry(op, q, from, to))
    <3>1. CASE UndoMove(k)
      BY <3>1 DEF UndoMove, ReservationStateUnchanged
    <3>2. CASE UndoIncrease(k)
      BY <3>2 DEF UndoIncrease, ReservationStateUnchanged
    <3>3. CASE UndoDecrease(k)
      BY <3>3 DEF UndoDecrease, ReservationStateUnchanged
    <3>4. CASE UndoConsumption(k)
      BY <3>4 DEF UndoConsumption, ReservationStateUnchanged
    <3>5. CASE UndoRelease(k)
      BY <3>5 DEF UndoRelease
    <3>6. CASE UndoReservationConsume(k)
      BY <3>6 DEF UndoReservationConsume
    <3>7. CASE UndoCreate(k)
      BY <3>7 DEF UndoCreate
    <3> QED
      BY <1>7, <3>1, <3>2, <3>3, <3>4, <3>5, <3>6, <3>7
  <2> QED
    BY <2>1, PlainUndo
<1> QED
  BY <1>4, <1>6, <1>7


\* An arrival stands on the line it closed, which no other stood on.
LEMMA ArrivalStands ==
  ASSUME log \in Seq(LogEntry), ArrivalsStand(log, orders),
         NEW o \in Order, orders[o].status # "Arrived",
         NEW quantity, NEW l, NEW rest, ReceiveStock(o, quantity, l, rest),
         orders'[o].status = "Arrived", orders'[o].amount = quantity,
         \A x \in Order : orders[x].status = "Arrived" => orders'[x] = orders[x]
  PROVE  ArrivalsStand(log', orders') /\ \A k \in DOMAIN log : ~Undone(k)
<1> DEFINE e == [Entry("ARRIVAL", quantity, NoLocation, l)
                   EXCEPT !.context = "arrival", !.order = o]
<1>1. \A m : LET f == [e EXCEPT !.moved = m]
             IN  /\ f.context = "arrival" /\ f.op = "ARRIVAL" /\ f.order = o
                 /\ f.quantity = quantity
  BY DEF Entry
<1>2. Logged(e)
  BY DEF ReceiveStock
<1> HIDE DEF e
<1>3. PICK m : Appends([e EXCEPT !.moved = m], {})
  BY <1>2, LoggedAppends
<1> DEFINE new  == [e EXCEPT !.moved = m]
           last == Len(log) + 1
<1>4. /\ Appends(new, {})
      /\ new.context = "arrival" /\ new.op = "ARRIVAL" /\ new.order = o /\ new.quantity = quantity
  BY <1>1, <1>3
<1> HIDE DEF new, last
<1>5. /\ DOMAIN log' = DOMAIN log \cup {last} /\ last \notin DOMAIN log /\ log'[last] = new
      /\ \A j \in DOMAIN log : /\ log'[j].op = log[j].op /\ log'[j].quantity = log[j].quantity
                               /\ log'[j].context = log[j].context /\ log'[j].order = log[j].order
                               /\ (log'[j].undone <=> log[j].undone)
  BY <1>4 DEF Appends, SameCall, last
<1>6. \A k \in DOMAIN log' : NamesLine(log'[k])
  BY <1>4, <1>5 DEF NamesLine, ArrivalsStand
<1>7. \A k \in Standing(log') : k = last \/ k \in Standing(log)
  BY <1>5 DEF Standing
<1>8. ASSUME NEW k \in Standing(log)
      PROVE  /\ k \in DOMAIN log /\ log[k].order \in Order /\ log[k].order # o
             /\ log'[k].order = log[k].order /\ log'[k].quantity = log[k].quantity
             /\ orders'[log[k].order] = orders[log[k].order]
             /\ orders[log[k].order].status = "Arrived"
             /\ orders[log[k].order].amount = log[k].quantity
  <2>1. k \in DOMAIN log /\ log[k].context = "arrival" /\ NamesLine(log[k])
    BY DEF Standing, ArrivalsStand
  <2>2. log[k].order \in Order
    BY <2>1 DEF NamesLine
  <2>3. orders[log[k].order].status = "Arrived" /\ orders[log[k].order].amount = log[k].quantity
    BY DEF ArrivalsStand
  <2> QED
    BY <1>5, <2>1, <2>2, <2>3
<1>9. \A k \in Standing(log') : /\ orders'[log'[k].order].status = "Arrived"
                                /\ orders'[log'[k].order].amount = log'[k].quantity
  BY <1>4, <1>5, <1>7, <1>8
<1>10. \A j, k \in Standing(log') : j # k => log'[j].order # log'[k].order
  <2>1. \A j, k \in Standing(log) : j # k => log[j].order # log[k].order
    BY DEF ArrivalsStand
  <2> QED
    BY <1>4, <1>5, <1>7, <1>8, <2>1
<1>11. ArrivalsStand(log', orders')
  BY <1>6, <1>9, <1>10 DEF ArrivalsStand
<1> QED
  BY <1>5, <1>11 DEF Undone

\* Undoing an arrival leaves the others their lines.
LEMMA UndoneArrivalStands ==
  ASSUME log \in Seq(LogEntry), ArrivalsStand(log, orders),
         NEW k, Undoable(k, "ARRIVAL"), NEW n, NEW to,
         Compensated(k, Entry("CONSUME", n, to, NoLocation)),
         \A x \in Order : /\ orders[x].status = "Arrived"
                          /\ log[k].context = "arrival" => x # log[k].order
                          => orders'[x] = orders[x]
  PROVE  ArrivalsStand(log', orders') /\ \A j \in DOMAIN log : Undone(j) => j = k
<1> DEFINE e == Entry("CONSUME", n, to, NoLocation)
<1>1. /\ \A m : /\ [e EXCEPT !.undoOf = k, !.moved = m].context # "arrival"
                /\ [e EXCEPT !.undoOf = k, !.moved = m].order = NoOrder
      /\ Compensated(k, e) /\ k \in DOMAIN log /\ ~log[k].undone
  BY DEF Entry, NoOrder, Undoable
<1> HIDE DEF e
<1>2. PICK m : Appends([e EXCEPT !.undoOf = k, !.moved = m], {k})
  BY <1>1, CompensatedAppends
<1> DEFINE new  == [e EXCEPT !.undoOf = k, !.moved = m]
           last == Len(log) + 1
<1>3. Appends(new, {k}) /\ new.context # "arrival" /\ new.order = NoOrder
  BY <1>1, <1>2
<1> HIDE DEF new, last
<1>4. /\ DOMAIN log' = DOMAIN log \cup {last} /\ last \notin DOMAIN log /\ log'[last] = new
      /\ \A j \in DOMAIN log : /\ log'[j].op = log[j].op /\ log'[j].quantity = log[j].quantity
                               /\ log'[j].context = log[j].context /\ log'[j].order = log[j].order
                               /\ (log'[j].undone <=> (log[j].undone \/ j = k))
  BY <1>3 DEF Appends, SameCall, last
<1>5. \A j \in DOMAIN log' : NamesLine(log'[j])
  BY <1>3, <1>4 DEF NamesLine, ArrivalsStand
<1>6. \A j \in Standing(log') : j \in Standing(log) /\ j # k
  BY <1>3, <1>4 DEF Standing
<1>7. ASSUME NEW j \in Standing(log), j # k
      PROVE  /\ log'[j].order = log[j].order /\ log'[j].quantity = log[j].quantity
             /\ orders'[log[j].order] = orders[log[j].order]
  <2>1. j \in DOMAIN log /\ log[j].context = "arrival" /\ NamesLine(log[j])
    BY DEF Standing, ArrivalsStand
  <2>2. log[j].order \in Order /\ orders[log[j].order].status = "Arrived"
    BY <2>1 DEF NamesLine, ArrivalsStand
  <2>3. ASSUME log[k].context = "arrival" PROVE log[j].order # log[k].order
    BY <1>1, <1>7, <2>3 DEF Standing, ArrivalsStand
  <2> QED
    BY <1>4, <2>1, <2>2, <2>3
<1>8. /\ \A j \in Standing(log) : /\ orders[log[j].order].status = "Arrived"
                                  /\ orders[log[j].order].amount = log[j].quantity
      /\ \A i, j \in Standing(log) : i # j => log[i].order # log[j].order
  BY DEF ArrivalsStand
<1>9. ArrivalsStand(log', orders')
  BY <1>5, <1>6, <1>7, <1>8 DEF ArrivalsStand
<1> QED
  BY <1>4, <1>9 DEF Undone

-----------------------------------------------------------------------------
(* The quantity on order.                                                  *)

OpenAmounts(lines) ==
  [o \in Order |-> IF lines[o].status = "Ordered" THEN lines[o].amount ELSE 0]

\* A line that gets more on order, and the only one that does.
LEMMA OnOrderGrows ==
  ASSUME orders \in [Order -> Summed!OrderLine], orders' \in [Order -> Summed!OrderLine],
         NEW target \in Order, NEW n, n \in Nat,
         OpenAmounts(orders')[target] = OpenAmounts(orders)[target] + n,
         \A x \in Order : x # target => OpenAmounts(orders')[x] = OpenAmounts(orders)[x]
  PROVE  OnOrder' = OnOrder + n /\ OnOrder \in Nat
<1>1. /\ OpenAmounts(orders) \in [Order -> Nat] /\ OpenAmounts(orders') \in [Order -> Nat]
  BY DEF OpenAmounts, Summed!OrderLine
<1>2. IsFiniteSet(Order)
  BY Sets
<1>3. OnOrder = Total(OpenAmounts(orders)) /\ OnOrder' = Total(OpenAmounts(orders'))
  BY DEF OnOrder, OpenAmounts
<1>4. Total(OpenAmounts(orders)) \in Nat /\ Total(OpenAmounts(orders')) \in Nat
  BY <1>1, <1>2, TotalType
<1>5. Total(OpenAmounts(orders')) + OpenAmounts(orders)[target]
        = Total(OpenAmounts(orders)) + OpenAmounts(orders')[target]
  <2> DEFINE f == OpenAmounts(orders)
             g == OpenAmounts(orders')
  <2>1. f \in [Order -> Nat] /\ g \in [Order -> Nat] /\ \A y \in Order : y # target => g[y] = f[y]
    BY <1>1
  <2> HIDE DEF f, g
  <2>2. Total(g) + f[target] = Total(f) + g[target]
    BY <1>2, <2>1, TotalChange
  <2> QED
    BY <2>2 DEF f, g
<1>6. OpenAmounts(orders)[target] \in Nat
  BY <1>1
<1> QED
  BY <1>3, <1>4, <1>5, <1>6

\* Reopening n of a line that has arrived puts n on order, and changes no
\* other line that has arrived.
LEMMA ReopenOpens ==
  ASSUME orders \in [Order -> Summed!OrderLine], splitRoot \in [Order -> {0} \cup Order],
         NEW o \in Order, orders[o].status = "Arrived",
         NEW n, n \in Nat \ {0}, n <= orders[o].amount,
         NEW target \in Order, ReopenLine(o, n, target)
  PROVE  /\ OnOrder' = OnOrder + n /\ OnOrder \in Nat
         /\ \A x \in Order : orders[x].status = "Arrived" /\ x # o => orders'[x] = orders[x]
<1> DEFINE share == Summed!OrderedShare(o, n)
           rest  == [orders[o] EXCEPT !.amount = @ - n, !.ordered = @ - share]
           new   == Summed!LineOf(o, "Ordered", n, share)
           more  == [orders[target] EXCEPT !.amount = @ + n, !.ordered = @ + share]
           open  == [orders[o] EXCEPT !.status = "Ordered"]
<1>1. /\ orders[o] \in Summed!OrderLine /\ orders[target] \in Summed!OrderLine
      /\ orders[o].amount \in Nat /\ orders[target].amount \in Nat /\ n \in Nat
  BY DEF Summed!OrderLine
<1>2. Smaller(n, orders[o].amount) = n
  BY <1>1 DEF Smaller
<1>3. \/ n = orders[o].amount /\ target = o /\ orders' = [orders EXCEPT ![o] = open]
      \/ /\ OpenSiblings(o) # {} /\ target = Least(OpenSiblings(o))
         /\ orders' = [orders EXCEPT ![o] = rest, ![target].amount = @ + n,
                                                  ![target].ordered = @ + share]
      \/ /\ Summed!NextUnused(orders, target)
         /\ orders' = [orders EXCEPT ![o] = rest, ![target] = new]
  BY <1>2 DEF ReopenLine
<1>4. /\ rest.status = "Arrived" /\ new.status = "Ordered" /\ new.amount = n
      /\ more.status = orders[target].status /\ more.amount = orders[target].amount + n
      /\ open.status = "Ordered" /\ open.amount = orders[o].amount
  BY <1>1 DEF Summed!OrderLine, Summed!LineOf
<1>5. /\ orders' \in [Order -> Summed!OrderLine]
  BY ReopenFacts
<1> HIDE DEF rest, new, share, open
<1>6. ASSUME n = orders[o].amount, target = o, orders' = [orders EXCEPT ![o] = open]
      PROVE  /\ OpenAmounts(orders')[target] = OpenAmounts(orders)[target] + n
             /\ \A x \in Order : x # target => orders'[x] = orders[x]
  <2>1. /\ OpenAmounts(orders)[target] = 0 /\ OpenAmounts(orders')[target] = n
        /\ \A x \in Order : x # target => orders'[x] = orders[x]
    BY <1>4, <1>6 DEF OpenAmounts
  <2> QED
    BY <1>1, <2>1
<1>7. ASSUME OpenSiblings(o) # {}, target = Least(OpenSiblings(o)),
             orders' = [orders EXCEPT ![o] = rest, ![target].amount = @ + n,
                                                   ![target].ordered = @ + share]
      PROVE  /\ target # o /\ orders[target].status = "Ordered" /\ orders'[o] = rest
             /\ OpenAmounts(orders')[target] = OpenAmounts(orders)[target] + n
             /\ \A x \in Order : x # o /\ x # target => orders'[x] = orders[x]
  <2>1. target \in OpenSiblings(o)
    <3>1. OpenSiblings(o) \subseteq 1 .. MaxOrder /\ MaxOrder \in Nat
      BY RowsAssumption DEF OpenSiblings, Order
    <3> QED
      BY <3>1, <1>7, LeastFacts
  <2>2. target # o /\ orders[target].status = "Ordered"
    BY <2>1 DEF OpenSiblings
  <2>3. orders' = [orders EXCEPT ![o] = rest, ![target] = more]
    BY <1>7, <2>2
  <2> HIDE DEF more
  <2>4. orders'[target] = more /\ orders'[o] = rest
        /\ \A x \in Order : x # o /\ x # target => orders'[x] = orders[x]
    BY <2>2, <2>3
  <2> QED
    BY <1>4, <2>2, <2>4 DEF OpenAmounts
<1>8. ASSUME Summed!NextUnused(orders, target),
             orders' = [orders EXCEPT ![o] = rest, ![target] = new]
      PROVE  /\ target # o /\ orders[target].status = "Unused" /\ orders'[o] = rest
             /\ OpenAmounts(orders')[target] = OpenAmounts(orders)[target] + n
             /\ \A x \in Order : x # o /\ x # target => orders'[x] = orders[x]
  <2>1. orders[target].status = "Unused"
    BY <1>8 DEF Summed!NextUnused
  <2>2. target # o /\ orders'[target] = new /\ orders'[o] = rest
        /\ \A x \in Order : x # o /\ x # target => orders'[x] = orders[x]
    BY <1>8, <2>1
  <2>3. OpenAmounts(orders)[target] = 0 /\ OpenAmounts(orders')[target] = n
    BY <1>4, <2>1, <2>2 DEF OpenAmounts
  <2> QED
    BY <1>1, <2>1, <2>2, <2>3
<1>9. /\ OpenAmounts(orders')[target] = OpenAmounts(orders)[target] + n
      /\ \A x \in Order : x # target => OpenAmounts(orders')[x] = OpenAmounts(orders)[x]
      /\ \A x \in Order : orders[x].status = "Arrived" /\ x # o => orders'[x] = orders[x]
  <2>1. CASE n = orders[o].amount /\ target = o /\ orders' = [orders EXCEPT ![o] = open]
    BY <1>6, <2>1 DEF OpenAmounts
  <2>2. ASSUME target # o, orders[target].status # "Arrived", orders'[o] = rest,
               \A x \in Order : x # o /\ x # target => orders'[x] = orders[x]
        PROVE  /\ \A x \in Order : x # target => OpenAmounts(orders')[x] = OpenAmounts(orders)[x]
               /\ \A x \in Order : orders[x].status = "Arrived" /\ x # o => orders'[x] = orders[x]
    BY <1>4, <2>2 DEF OpenAmounts
  <2>3. CASE /\ OpenSiblings(o) # {} /\ target = Least(OpenSiblings(o))
             /\ orders' = [orders EXCEPT ![o] = rest, ![target].amount = @ + n,
                                                      ![target].ordered = @ + share]
    BY <1>7, <2>2, <2>3
  <2>4. CASE /\ Summed!NextUnused(orders, target)
             /\ orders' = [orders EXCEPT ![o] = rest, ![target] = new]
    BY <1>8, <2>2, <2>4
  <2> QED
    BY <1>3, <2>1, <2>3, <2>4
<1> QED
  BY <1>1, <1>5, <1>9, OnOrderGrows

\* UndoneArrivalIsOnOrder, of one step.
ReturnsToOrder ==
  \A k \in DOMAIN log :
    Undone(k) /\ log[k].context = "arrival" => Total(onHand') + OnOrder' = Total(onHand) + OnOrder

LEMMA UndoArrivalReturns ==
  ASSUME UndoInv, ArrivalsStand(log, orders), NEW k, UndoArrival(k)
  PROVE  ArrivalsStand(log', orders') /\ ReturnsToOrder
<1> DEFINE n  == Returnable(k)
           to == log[k].to
           o  == log[k].order
<1>1. /\ Undoable(k, "ARRIVAL") /\ n > 0
      /\ onHand' = [onHand EXCEPT ![to] = @ - n]
      /\ Compensated(k, Entry("CONSUME", n, to, NoLocation))
  BY DEF UndoArrival
<1>2. /\ log \in Seq(LogEntry) /\ onHand \in [Location -> Nat]
      /\ orders \in [Order -> Summed!OrderLine] /\ splitRoot \in [Order -> {0} \cup Order]
      /\ k \in DOMAIN log /\ ~log[k].undone /\ log[k].op = "ARRIVAL" /\ NamesLine(log[k])
  BY <1>1 DEF UndoInv, RowsBase, StateTypeOK, Undoable, ArrivalsStand
<1>3. to \in Location
  BY <1>1, UndoneEntry DEF EntryOK
<1>4. n \in Nat \ {0} /\ n <= onHand[to] /\ n <= log[k].quantity
  BY <1>1, <1>3, ReturnableFacts
<1>5. CASE o # NoOrder
  <2>1. log[k].context = "arrival" /\ o \in Order
    BY <1>2, <1>5 DEF NamesLine
  <2>2. orders[o].status = "Arrived" /\ orders[o].amount = log[k].quantity
    BY <1>2, <2>1 DEF ArrivalsStand, Standing
  <2>3. PICK target \in Order : ReopenLine(o, n, target)
    BY <1>5 DEF UndoArrival
  <2>4. /\ OnOrder' = OnOrder + n /\ OnOrder \in Nat
        /\ \A x \in Order : orders[x].status = "Arrived" /\ x # o => orders'[x] = orders[x]
    <3> HIDE DEF n, o
    <3> QED
      BY <1>2, <1>4, <2>1, <2>2, <2>3, ReopenOpens DEF o
  <2>5. Total(onHand') + n = Total(onHand) /\ Total(onHand') \in Nat
    <3> HIDE DEF n, to
    <3>1. onHand' \in [Location -> Nat] /\ \A l \in Location : l # to => onHand'[l] = onHand[l]
      BY <1>1, <1>2, <1>3, <1>4
    <3>2. onHand'[to] = onHand[to] - n /\ onHand[to] \in Nat
      BY <1>1, <1>2, <1>3
    <3>3. IsFiniteSet(Location)
      BY RowsAssumption
    <3>4. Total(onHand') + onHand[to] = Total(onHand) + onHand'[to]
      <4>1. DiffersAt(onHand', onHand, Location, to)
        BY <1>2, <1>3, <3>1 DEF DiffersAt
      <4> QED
        BY <4>1, <3>3, TotalDiffers
    <3>5. Total(onHand') \in Nat /\ Total(onHand) \in Nat
      BY <1>2, <3>1, <3>3, TotalType
    <3> QED
      BY <1>4, <3>2, <3>4, <3>5
  <2>6. ArrivalsStand(log', orders')
    <3>1. \A x \in Order : /\ orders[x].status = "Arrived"
                           /\ log[k].context = "arrival" => x # log[k].order
                           => orders'[x] = orders[x]
      BY <2>1, <2>4
    <3> HIDE DEF n, to, o
    <3> QED
      BY <1>1, <1>2, <3>1, UndoneArrivalStands
  <2>7. Total(onHand') + OnOrder' = Total(onHand) + OnOrder
    <3> HIDE DEF n
    <3> QED
      BY <1>4, <2>4, <2>5
  <2> QED
    BY <2>6, <2>7 DEF ReturnsToOrder
<1>6. CASE o = NoOrder
  <2>1. orders' = orders /\ log[k].context # "arrival"
    BY <1>2, <1>6 DEF UndoArrival, NamesLine, NoOrder, Order
  <2>2. ArrivalsStand(log', orders') /\ \A j \in DOMAIN log : Undone(j) => j = k
    <3> HIDE DEF n, to
    <3> QED
      BY <1>1, <1>2, <2>1, UndoneArrivalStands
  <2> QED
    BY <2>1, <2>2 DEF ReturnsToOrder
<1> QED
  BY <1>5, <1>6

\* Every step keeps the lines of the arrivals, and an arrival undone in it is
\* on order again.
LEMMA ArrivalsStep ==
  ASSUME UndoInv, ArrivalsStand(log, orders),
         [ReservationNext \/ ArrivalNext \/ DirectNext \/ UndoNext]_vars
  PROVE  ArrivalsStand(log', orders') /\ ReturnsToOrder
<1>1. log \in Seq(LogEntry) /\ orders \in [Order -> Summed!OrderLine]
  BY DEF UndoInv, RowsBase, StateTypeOK
<1>2. CASE UNCHANGED vars
  BY <1>2 DEF vars, ReturnsToOrder, Undone
<1>3. CASE PlainStep
  BY <1>3, PlainStands DEF ReturnsToOrder
<1>4. CASE ReservationNext \/ DirectNext
  BY <1>1, <1>3, <1>4, PlainSteps
<1>5. ASSUME NEW o \in Order, NEW l \in Location, FullArrival(o, l)
      PROVE  ArrivalsStand(log', orders') /\ ReturnsToOrder
  <2>1. /\ orders[o].status = "Ordered"
        /\ orders' = [orders EXCEPT ![o] = Summed!LineOf(o, "Arrived", orders[o].amount, orders[o].ordered)]
        /\ ReceiveStock(o, orders[o].amount, l, o)
    BY <1>5 DEF FullArrival
  <2>2. /\ orders'[o].status = "Arrived" /\ orders'[o].amount = orders[o].amount
        /\ \A x \in Order : orders[x].status = "Arrived" => orders'[x] = orders[x]
    BY <1>1, <2>1 DEF Summed!LineOf
  <2> QED
    BY <1>1, <2>1, <2>2, ArrivalStands DEF ReturnsToOrder
<1>6. ASSUME NEW o \in Order, NEW c \in Order, NEW q \in 1 .. MaxQuantity, NEW l \in Location,
             PartialArrival(o, c, q, l)
      PROVE  ArrivalsStand(log', orders') /\ ReturnsToOrder
  <2> DEFINE share == Summed!OrderedShare(o, q)
  <2>1. /\ orders[o].status = "Ordered" /\ orders[c].status = "Unused"
        /\ orders' = [orders EXCEPT
             ![o] = Summed!LineOf(o, "Arrived", q, share),
             ![c] = Summed!LineOf(o, "Ordered", orders[o].amount - q, orders[o].ordered - share)]
        /\ ReceiveStock(o, q, l, c)
    BY <1>6 DEF PartialArrival, Summed!NextUnused
  <2> HIDE DEF share
  <2>2. /\ orders'[o].status = "Arrived" /\ orders'[o].amount = q
        /\ \A x \in Order : orders[x].status = "Arrived" => orders'[x] = orders[x]
    BY <1>1, <2>1 DEF Summed!LineOf
  <2> QED
    BY <1>1, <2>1, <2>2, ArrivalStands DEF ReturnsToOrder
<1>7. CASE ArrivalNext
  BY <1>5, <1>6, <1>7 DEF ArrivalNext
<1>8. CASE UndoNext
  <2>1. PICK k : \/ UndoMove(k) \/ UndoIncrease(k) \/ UndoDecrease(k) \/ UndoConsumption(k)
                 \/ UndoRelease(k) \/ UndoReservationConsume(k) \/ UndoCreate(k)
                 \/ UndoArrival(k)
    BY <1>8 DEF UndoNext
  <2>2. CASE UndoArrival(k)
    BY <2>2, UndoArrivalReturns
  <2>3. CASE ~UndoArrival(k)
    BY <1>1, <1>3, <2>1, <2>3, PlainSteps
  <2> QED
    BY <2>2, <2>3
<1> QED
  BY <1>2, <1>4, <1>7, <1>8

\* An arrival that is undone is on order again: what leaves stock is what
\* becomes open, all of it and no more, whatever was called and undone before.
THEOREM UndoneArrivalReturns == UndoSpec => UndoneArrivalIsOnOrder
<1> DEFINE Stands == ArrivalsStand(log, orders)
<1>1. Init => Stands
  <2>1. Init => DOMAIN log = {}
    BY DEF Init
  <2> QED
    BY <2>1 DEF ArrivalsStand, Standing
<1>2. UndoInv /\ Stands /\ [ReservationNext \/ ArrivalNext \/ DirectNext \/ UndoNext]_vars
      => Stands' /\ ReturnsToOrder
  BY ArrivalsStep
<1> HIDE DEF Stands
<1>3. UndoSpec => [](UndoInv /\ Stands)
  BY <1>1, <1>2, UndoInvariant, PTL DEF UndoSpec
<1>4. ReturnsToOrder <=> (\A k \in DOMAIN log :
        Undone(k) /\ log[k].context = "arrival"
        => Total(onHand') + OnOrder' = Total(onHand) + OnOrder)
  BY DEF ReturnsToOrder
<1> QED
  BY <1>2, <1>3, <1>4, PTL DEF UndoSpec, UndoneArrivalIsOnOrder

-----------------------------------------------------------------------------
(* The rows that a call marked are those it ended, for as long as the call *)
(* is not undone.                                                          *)

\* A row that the release or the consumption logged as number k ended.
Marks(row, k) == row.status \in {"RELEASED", "CONSUMED"} /\ row.tx = k /\ row.quantity # 0

Unmarked(rows, k) == \A i \in DOMAIN rows : ~Marks(rows[i], k)

SameMark(row, other) ==
  /\ other.status = row.status /\ other.tx = row.tx /\ other.quantity = row.quantity
  /\ other.reservation = row.reservation /\ other.place = row.place

\* The rows with mark k are the same before and after, and as they were.
KeepsMarks(rows, after, k) ==
  /\ DOMAIN rows \subseteq DOMAIN after
  /\ \A i \in DOMAIN rows : Marks(rows[i], k) \/ Marks(after[i], k) => SameMark(rows[i], after[i])
  /\ \A i \in DOMAIN after \ DOMAIN rows : ~Marks(after[i], k)

\* What call k ended of r at the places W: the rows, one by one, and in sum.
MarkedIds(rows, r, status, k, W) ==
  { i \in MarkedRows(rows, r, status, k) : rows[i].place \in W }

MarkedParts(rows, r, status, k, W) ==
  [i \in DOMAIN rows |-> IF i \in MarkedIds(rows, r, status, k, W) THEN rows[i].quantity ELSE 0]

\* The sum is that of the rows one by one.
LEMMA MarkedTotal ==
  ASSUME NEW P, NEW T, NEW rows, rows \in Seq(Row(P, T)), NEW r, NEW status, NEW k, NEW W
  PROVE  /\ MarkedParts(rows, r, status, k, W) \in [DOMAIN rows -> Nat]
         /\ IsFiniteSet(DOMAIN rows)
         /\ QuantityOf(rows, MarkedIds(rows, r, status, k, W))
              = Total(MarkedParts(rows, r, status, k, W))
<1> DEFINE ids == MarkedIds(rows, r, status, k, W)
           q   == [i \in DOMAIN rows |-> rows[i].quantity]
<1>1. ids \subseteq DOMAIN rows
  BY DEF MarkedIds, MarkedRows
<1>2. MarkedParts(rows, r, status, k, W)
        = [i \in DOMAIN rows |-> IF i \in ids THEN rows[i].quantity ELSE 0]
  BY DEF MarkedParts
<1> HIDE DEF ids
<1>3. /\ q \in [DOMAIN rows -> Nat] /\ IsFiniteSet(DOMAIN rows)
      /\ QuantityOf(rows, ids) = Total(Part(q, ids))
  BY <1>1, QuantityFacts
<1>4. Part(q, ids) = MarkedParts(rows, r, status, k, W)
  BY <1>2 DEF Part
<1>5. Part(q, ids) \in [DOMAIN rows -> Nat]
  BY <1>3, PartType
<1> QED
  BY <1>3, <1>4, <1>5 DEF ids

\* What keeps the marks of a call keeps the sum.
LEMMA MarkedKept ==
  ASSUME NEW P, NEW T, NEW rows, rows \in Seq(Row(P, T)), NEW after, after \in Seq(Row(P, T)),
         NEW k, KeepsMarks(rows, after, k), NEW r, NEW status, status \in {"RELEASED", "CONSUMED"},
         NEW W
  PROVE  QuantityOf(after, MarkedIds(after, r, status, k, W))
           = QuantityOf(rows, MarkedIds(rows, r, status, k, W))
<1> DEFINE f == MarkedParts(rows, r, status, k, W)
           g == MarkedParts(after, r, status, k, W)
           D == DOMAIN rows
           E == DOMAIN after
<1>1. f \in [D -> Nat] /\ g \in [E -> Nat] /\ D \subseteq E
  BY MarkedTotal DEF KeepsMarks
<1>2. ASSUME NEW i \in E
      PROVE  g[i] = IF i \in MarkedIds(after, r, status, k, W) THEN after[i].quantity ELSE 0
  BY DEF MarkedParts
<1>3. ASSUME NEW i \in D
      PROVE  f[i] = IF i \in MarkedIds(rows, r, status, k, W) THEN rows[i].quantity ELSE 0
  BY DEF MarkedParts
<1>4. ASSUME NEW i \in E
      PROVE  i \in MarkedIds(after, r, status, k, W)
               <=> /\ after[i].reservation = r /\ after[i].status = status /\ after[i].tx = k
                   /\ after[i].place \in W
  BY DEF MarkedIds, MarkedRows
<1>5. ASSUME NEW i \in D
      PROVE  i \in MarkedIds(rows, r, status, k, W)
               <=> /\ rows[i].reservation = r /\ rows[i].status = status /\ rows[i].tx = k
                   /\ rows[i].place \in W
  BY DEF MarkedIds, MarkedRows
<1> HIDE DEF f, g
<1>6. ASSUME NEW i \in D PROVE g[i] = f[i]
  <2>1. i \in E /\ (Marks(rows[i], k) \/ Marks(after[i], k) => SameMark(rows[i], after[i]))
    BY <1>1 DEF KeepsMarks
  <2>2. CASE Marks(rows[i], k) \/ Marks(after[i], k)
    BY <1>2, <1>3, <1>4, <1>5, <2>1, <2>2 DEF SameMark
  <2>3. CASE ~Marks(rows[i], k) /\ ~Marks(after[i], k)
    <3>1. f[i] = 0
      BY <1>3, <1>5, <2>3 DEF Marks
    <3>2. g[i] = 0
      BY <1>2, <1>4, <2>1, <2>3 DEF Marks
    <3> QED
      BY <3>1, <3>2
  <2> QED
    BY <2>2, <2>3
<1>7. ASSUME NEW i \in E \ D PROVE g[i] = 0
  <2>1. ~Marks(after[i], k)
    BY DEF KeepsMarks
  <2> QED
    BY <2>1, <1>2, <1>4 DEF Marks
<1>8. Total([i \in D |-> g[i]]) = Total(g)
  BY <1>1, <1>7, TotalRestricted
<1>9. [i \in D |-> g[i]] = f
  BY <1>1, <1>6
<1> QED
  BY <1>8, <1>9, MarkedTotal DEF f, g

\* Nothing marked stays so, and what is not marked at all has no sum.
LEMMA StaysUnmarked ==
  ASSUME NEW rows, NEW after, NEW k, KeepsMarks(rows, after, k), Unmarked(rows, k)
  PROVE  Unmarked(after, k)
<1>1. ASSUME NEW i \in DOMAIN after, Marks(after[i], k) PROVE FALSE
  <2>1. i \in DOMAIN rows /\ SameMark(rows[i], after[i])
    BY <1>1 DEF KeepsMarks
  <2> QED
    BY <1>1, <2>1 DEF SameMark, Marks, Unmarked
<1> QED
  BY <1>1 DEF Unmarked

\* Rows that no one touches keep their marks; active rows put after them bear
\* none.
LEMMA SameKeepMarks == \A rows, k : KeepsMarks(rows, rows, k)
BY DEF KeepsMarks, SameMark

LEMMA AppendKeepsMarks ==
  ASSUME NEW X, NEW a, a \in Seq(X), NEW b, b \in Seq(X), NEW k,
         \A n \in DOMAIN b : b[n].status \notin {"RELEASED", "CONSUMED"}
  PROVE  KeepsMarks(a, a \o b, k)
<1> DEFINE c == a \o b
<1>1. /\ DOMAIN a \subseteq DOMAIN c /\ \A i \in DOMAIN a : c[i] = a[i]
      /\ \A i \in DOMAIN c \ DOMAIN a : \E n \in DOMAIN b : c[i] = b[n]
  BY ConcatElements
<1> HIDE DEF c
<1>2. KeepsMarks(a, c, k)
  BY <1>1 DEF KeepsMarks, SameMark, Marks
<1> QED
  BY <1>2 DEF c

LEMMA KeepsMarksTwice ==
  ASSUME NEW a, NEW b, NEW c, NEW k, KeepsMarks(a, b, k), KeepsMarks(b, c, k)
  PROVE  KeepsMarks(a, c, k)
<1>1. DOMAIN a \subseteq DOMAIN b /\ DOMAIN b \subseteq DOMAIN c
  BY DEF KeepsMarks
<1>2. ASSUME NEW i \in DOMAIN a, Marks(a[i], k) \/ Marks(c[i], k)
      PROVE  SameMark(a[i], c[i])
  <2>1. /\ Marks(a[i], k) \/ Marks(b[i], k) => SameMark(a[i], b[i])
        /\ Marks(b[i], k) \/ Marks(c[i], k) => SameMark(b[i], c[i])
    BY <1>1 DEF KeepsMarks
  <2>2. SameMark(a[i], b[i]) => (Marks(a[i], k) <=> Marks(b[i], k))
    BY DEF SameMark, Marks
  <2>3. SameMark(b[i], c[i]) => (Marks(b[i], k) <=> Marks(c[i], k))
    BY DEF SameMark, Marks
  <2>4. SameMark(a[i], b[i]) /\ SameMark(b[i], c[i])
    BY <1>2, <2>1, <2>2, <2>3
  <2> QED
    BY <2>4 DEF SameMark
<1>3. ASSUME NEW i \in DOMAIN c \ DOMAIN a PROVE ~Marks(c[i], k)
  <2>1. CASE i \in DOMAIN b
    <3>1. ~Marks(b[i], k) /\ (Marks(c[i], k) => SameMark(b[i], c[i]))
      BY <2>1 DEF KeepsMarks
    <3> QED
      BY <3>1 DEF SameMark, Marks
  <2>2. CASE i \notin DOMAIN b
    BY <2>2 DEF KeepsMarks
  <2> QED
    BY <2>1, <2>2
<1> QED
  BY <1>1, <1>2, <1>3 DEF KeepsMarks

\* A drain that ends rows with mark id leaves the other marks, and what it
\* marks is what was drawn.
LEMMA EndedMarks ==
  ASSUME NEW P, NEW T, NEW rows, NEW r, NEW n, NEW status, NEW id, NEW noted, NEW after,
         TakenAndEnded(P, T, rows, r, n, status, id, noted, after),
         status \in {"RELEASED", "CONSUMED"}, Unmarked(rows, id), NEW W
  PROVE  LET d == DrawnRows(rows, n, ActiveOf(rows, r))
         IN  /\ \A k : k # id => KeepsMarks(rows, after, k)
             /\ QuantityOf(after, MarkedIds(after, r, status, id, W))
                  = Total(Part(d, { i \in DOMAIN rows : rows[i].place \in W }))
<1> DEFINE ids   == ActiveOf(rows, r)
           d     == DrawnRows(rows, n, ids)
           ended == Ended(rows, status, id, noted)
           D     == DOMAIN rows
           E     == DOMAIN after
           at    == { i \in D : rows[i].place \in W }
<1>0. /\ rows \in Seq(Row(P, T)) /\ n \in Nat /\ status \in T /\ status # "ACTIVE"
      /\ id \in 0 .. MaxLog /\ noted \in BOOLEAN
      /\ after = Drain(rows, d, ended)
  BY DEF TakenAndEnded
<1>1. /\ ids \in SUBSET (DOMAIN rows)
      /\ \A i \in ids : rows[i].status = "ACTIVE" /\ rows[i].reservation = r
  BY DEF ActiveOf
<1> HIDE DEF ids
<1>2. /\ d \in [D -> Nat]
      /\ \A i \in D : d[i] <= rows[i].quantity /\ (d[i] > 0 => i \in ids)
  BY <1>0, <1>1, DrawnRowsFacts
<1>3. /\ ended \in [D -> Row(P, T)]
      /\ \A i \in D : /\ ended[i].status = status /\ ended[i].tx = id
                      /\ ended[i].reservation = rows[i].reservation
                      /\ ended[i].place = rows[i].place
  BY <1>0, EndedType
<1> HIDE DEF d, ended
<1>4. Drainable(P, T, rows, d, ended)
  BY <1>0, <1>1, <1>2, <1>3 DEF Drainable
<1>5. Drained(P, T, rows, d, ended, after)
  BY <1>0, <1>4, DrainDrains
<1>6. PICK f : SplitFrom(rows, d, ended, after, f)
  BY <1>0, <1>4, DrainSplit
<1>7. ASSUME NEW i \in D
      PROVE  /\ \/ /\ after[i].status = rows[i].status
                   /\ after[i].reservation = rows[i].reservation /\ after[i].place = rows[i].place
                   /\ after[i].tx = rows[i].tx
                   /\ \/ d[i] = 0 /\ after[i].quantity = rows[i].quantity
                      \/ 0 < d[i] /\ d[i] < rows[i].quantity /\ rows[i].status = "ACTIVE"
                \/ /\ after[i].status = status /\ after[i].tx = id
                   /\ after[i].reservation = r /\ after[i].place = rows[i].place
                   /\ after[i].quantity = d[i] /\ d[i] = rows[i].quantity /\ d[i] > 0
                   /\ rows[i].status = "ACTIVE"
             /\ d[i] > 0 => rows[i].reservation = r
  <2>1. after[i] = Left(rows, d, ended, i)
    BY <1>5 DEF Drained
  <2>2. d[i] > 0 => rows[i].status = "ACTIVE" /\ rows[i].reservation = r
    BY <1>1, <1>2
  <2>3. /\ \/ /\ after[i].status = rows[i].status
              /\ after[i].reservation = rows[i].reservation /\ after[i].place = rows[i].place
              /\ after[i].tx = rows[i].tx /\ after[i].quantity = rows[i].quantity - d[i]
              /\ d[i] = 0 \/ d[i] < rows[i].quantity
           \/ after[i] = Sized(ended[i], d[i]) /\ d[i] = rows[i].quantity /\ d[i] > 0
        /\ Sized(ended[i], d[i]).status = ended[i].status
        /\ Sized(ended[i], d[i]).reservation = ended[i].reservation
        /\ Sized(ended[i], d[i]).place = ended[i].place
        /\ Sized(ended[i], d[i]).tx = ended[i].tx
        /\ Sized(ended[i], d[i]).quantity = d[i]
        /\ d[i] \in Nat /\ rows[i].quantity \in Nat
    BY <1>4, <2>1, LeftFields
  <2> QED
    BY <1>3, <2>2, <2>3
<1>8. ASSUME NEW j \in E \ D
      PROVE  /\ f[j] \in D /\ 0 < d[f[j]] /\ d[f[j]] < rows[f[j]].quantity
             /\ after[j].status = status /\ after[j].tx = id
             /\ after[j].reservation = r /\ after[j].place = rows[f[j]].place
             /\ after[j].quantity = d[f[j]]
  <2> DEFINE i == f[j]
  <2>1. i \in D /\ 0 < d[i] /\ d[i] < rows[i].quantity /\ after[j] = Sized(ended[i], d[i])
    BY <1>6 DEF SplitFrom
  <2> HIDE DEF i
  <2>2. /\ Sized(ended[i], d[i]).status = ended[i].status
        /\ Sized(ended[i], d[i]).reservation = ended[i].reservation
        /\ Sized(ended[i], d[i]).place = ended[i].place
        /\ Sized(ended[i], d[i]).tx = ended[i].tx
        /\ Sized(ended[i], d[i]).quantity = d[i]
    BY <1>4, <2>1, LeftFields
  <2>3. after[j].status = status /\ after[j].tx = id /\ after[j].reservation = r
        /\ after[j].place = rows[i].place /\ after[j].quantity = d[i]
    BY <1>3, <1>7, <2>1, <2>2
  <2> QED
    BY <2>1, <2>3 DEF i
<1>9. D \subseteq E /\ after \in Seq(Row(P, T))
  BY <1>5 DEF Drained
<1>10. ASSUME NEW k, k # id PROVE KeepsMarks(rows, after, k)
  <2>1. ASSUME NEW i \in D, Marks(rows[i], k) \/ Marks(after[i], k)
        PROVE  SameMark(rows[i], after[i])
    <3>1. rows[i].status # "ACTIVE" \/ (after[i].status \in {"RELEASED", "CONSUMED"} /\ after[i].tx = k)
      BY <2>1 DEF Marks
    <3> QED
      BY <1>10, <1>7, <3>1 DEF SameMark
  <2>2. \A i \in E \ D : ~Marks(after[i], k)
    BY <1>8, <1>10 DEF Marks
  <2> QED
    BY <1>9, <2>1, <2>2 DEF KeepsMarks
<1> DEFINE A    == { i \in D : d[i] > 0 }
           B    == { j \in E : Marks(after[j], id) }
           part == Part(d, at)
           h    == [i \in A |-> part[i]]
           b    == [j \in B |-> IF j \in D THEN j ELSE f[j]]
           g    == MarkedParts(after, r, status, id, W)
<1>11. ASSUME NEW j \in B
       PROVE  /\ b[j] \in A
              /\ after[j].place = rows[b[j]].place /\ after[j].quantity = d[b[j]]
              /\ after[j].status = status /\ after[j].tx = id /\ after[j].reservation = r
              /\ j \in D => b[j] = j /\ d[j] = rows[j].quantity
              /\ j \notin D => b[j] = f[j] /\ d[b[j]] < rows[b[j]].quantity
  <2>1. j \in E /\ Marks(after[j], id) /\ b[j] = IF j \in D THEN j ELSE f[j]
    OBVIOUS
  <2>2. CASE j \in D
    <3>1. ~Marks(rows[j], id)
      BY <2>2 DEF Unmarked
    <3>2. /\ after[j].status = status /\ after[j].tx = id /\ after[j].reservation = r
          /\ after[j].place = rows[j].place
          /\ after[j].quantity = d[j] /\ d[j] = rows[j].quantity /\ d[j] > 0
      BY <1>7, <2>1, <2>2, <3>1 DEF Marks
    <3> QED
      BY <2>1, <2>2, <3>2
  <2>3. CASE j \notin D
    BY <1>8, <2>1, <2>3
  <2> QED
    BY <2>2, <2>3
<1> HIDE DEF b
<1>12. ASSUME NEW j \in B, NEW m \in B, b[j] = b[m] PROVE j = m
  <2>1. CASE j \in D /\ m \in D
    BY <1>11, <1>12, <2>1
  <2>2. CASE j \in D /\ m \notin D
    <3>1. b[j] = j /\ d[j] = rows[j].quantity /\ d[b[m]] < rows[b[m]].quantity /\ d[j] \in Nat
      BY <1>2, <1>11, <2>2
    <3> QED
      BY <1>12, <3>1
  <2>3. CASE j \notin D /\ m \in D
    <3>1. b[m] = m /\ d[m] = rows[m].quantity /\ d[b[j]] < rows[b[j]].quantity /\ d[m] \in Nat
      BY <1>2, <1>11, <2>3
    <3> QED
      BY <1>12, <3>1
  <2>4. CASE j \notin D /\ m \notin D
    <3>1. b[j] = f[j] /\ b[m] = f[m] /\ j \in E \ D /\ m \in E \ D
      BY <1>11, <2>4
    <3> QED
      BY <1>6, <1>12, <3>1 DEF SplitFrom
  <2> QED
    BY <2>1, <2>2, <2>3, <2>4
<1>13. ASSUME NEW i \in A PROVE \E j \in B : b[j] = i
  <2>1. i \in D /\ d[i] > 0
    OBVIOUS
  <2>2. CASE d[i] = rows[i].quantity
    <3>1. /\ after[i].status = status /\ after[i].tx = id /\ after[i].quantity = d[i]
      BY <1>2, <1>7, <2>1, <2>2
    <3>2. i \in B
      BY <1>9, <2>1, <3>1 DEF Marks
    <3> QED
      BY <1>11, <2>1, <3>2
  <2>3. CASE d[i] # rows[i].quantity
    <3>1. 0 < d[i] /\ d[i] < rows[i].quantity
      <4>1. d[i] \in Nat /\ d[i] <= rows[i].quantity /\ rows[i].quantity \in Nat
        BY <1>0, <1>2, <2>1, RowFields
      <4> QED
        BY <2>1, <2>3, <4>1
    <3>2. PICK j \in E \ D : f[j] = i
      BY <1>6, <2>1, <3>1 DEF SplitFrom
    <3>3. j \in B
      BY <1>8, <3>2 DEF Marks
    <3> QED
      BY <1>11, <3>2, <3>3
  <2> QED
    BY <2>2, <2>3
<1>14. b \in Bijection(B, A)
  <2>1. b = [j \in B |-> b[j]]
    BY DEF b
  <2>2. b \in [B -> A]
    <3> HIDE DEF A, B
    <3> QED BY <1>11, <2>1
  <2> HIDE DEF A, B
  <2> QED
    BY <1>12, <1>13, <2>2, Fun_IsBij
<1>15. IsFiniteSet(D) /\ part \in [D -> Nat] /\ \A i \in D : part[i] = IF i \in at THEN d[i] ELSE 0
  BY <1>0, <1>2, PartType, RowFields
<1> HIDE DEF part
<1>16. IsFiniteSet(A) /\ A \subseteq D
  BY <1>15, FS_Subset
<1>17. h \in [A -> Nat] /\ \A i \in A : h[i] = part[i]
  BY <1>15
<1>18. Total(h) = Total(part)
  <2>1. \A i \in D \ A : part[i] = 0
    BY <1>2, <1>15
  <2> HIDE DEF A
  <2> QED
    BY <1>15, <1>16, <2>1, TotalRestricted
<1>19. g \in [E -> Nat]
  BY <1>9, MarkedTotal
<1>20. ASSUME NEW j \in E
       PROVE  g[j] = IF j \in MarkedIds(after, r, status, id, W) THEN after[j].quantity ELSE 0
  BY DEF MarkedParts
<1>21. ASSUME NEW j \in E
       PROVE  j \in MarkedIds(after, r, status, id, W)
               <=> /\ after[j].reservation = r /\ after[j].status = status /\ after[j].tx = id
                   /\ after[j].place \in W
  BY DEF MarkedIds, MarkedRows
<1> HIDE DEF g
<1>22. ASSUME NEW j \in B PROVE g[j] = h[b[j]]
  <2>1. /\ j \in E /\ b[j] \in A /\ b[j] \in D
        /\ after[j].place = rows[b[j]].place /\ after[j].quantity = d[b[j]]
        /\ after[j].status = status /\ after[j].tx = id /\ after[j].reservation = r
    BY <1>11
  <2>2. h[b[j]] = IF b[j] \in at THEN d[b[j]] ELSE 0
    BY <1>15, <1>17, <2>1
  <2> QED
    BY <1>20, <1>21, <2>1, <2>2
<1>23. ASSUME NEW j \in E \ B PROVE g[j] = 0
  <2>1. j \in E /\ ~Marks(after[j], id)
    OBVIOUS
  <2> QED
    BY <1>20, <1>21, <2>1 DEF Marks
<1>24. Total([j \in B |-> g[j]]) = Total(g)
  <2>1. B \subseteq E
    OBVIOUS
  <2> HIDE DEF B
  <2> QED
    BY <1>19, <1>23, <2>1, TotalRestricted
<1>25. Total([j \in B |-> h[b[j]]]) = Total(h)
  <2> HIDE DEF A, B, h
  <2> QED BY <1>14, <1>16, <1>17, TotalRenamed
<1>26. [j \in B |-> g[j]] = [j \in B |-> h[b[j]]]
  BY <1>22
<1>27. QuantityOf(after, MarkedIds(after, r, status, id, W)) = Total(part)
  <2>1. QuantityOf(after, MarkedIds(after, r, status, id, W)) = Total(g)
    BY <1>9, MarkedTotal DEF g
  <2> HIDE DEF h
  <2> QED
    BY <2>1, <1>18, <1>24, <1>25, <1>26
<1> QED
  BY <1>10, <1>27 DEF part, d, ids

\* What is given back loses the mark it had; the others stay.
LEMMA RestoredKeepsMarks ==
  ASSUME NEW P, NEW T, NEW rows, rows \in Seq(Row(P, T)), "ACTIVE" \in T, "DELETED" \in T,
         NEW r, NEW status, status # "ACTIVE", NEW k, NEW j, j # k
  PROVE  KeepsMarks(rows, Restored(rows, r, MarkedRows(rows, r, status, k)), j)
<1> DEFINE ids   == MarkedRows(rows, r, status, k)
           after == Restored(rows, r, ids)
<1>1. EndedRows(P, T, rows, r, ids)
  BY MarkedEnded
<1>2. \A i \in ids : i \in DOMAIN rows /\ rows[i].tx = k
  BY DEF MarkedRows
<1> HIDE DEF ids
<1>3. ASSUME NEW i \in DOMAIN rows
      PROVE  /\ DOMAIN after = DOMAIN rows
             /\ IsHome(rows, r, ids, i) => after[i].status = "ACTIVE"
             /\ ~IsHome(rows, r, ids, i)
                => IF i \in ids THEN after[i].status = "DELETED" ELSE after[i] = rows[i]
  BY <1>1, RestoredFields
<1>4. DOMAIN after = DOMAIN rows
  BY DEF Restored
<1> HIDE DEF after
<1>5. ASSUME NEW i \in DOMAIN rows, IsHome(rows, r, ids, i), i \notin ids
      PROVE  rows[i].status = "ACTIVE"
  <2>1. IdsAt(rows, ids, rows[i].place) # {} /\ HomeAt(rows, r, ids, rows[i].place) = i
    BY <1>5 DEF IsHome
  <2>2. i \in ActiveAt(rows, r, rows[i].place)
    BY <1>1, <1>5, <2>1, HomeFacts
  <2> QED
    BY <2>2 DEF ActiveAt, ActiveOf
<1>6. ASSUME NEW i \in DOMAIN rows, Marks(rows[i], j) \/ Marks(after[i], j)
      PROVE  SameMark(rows[i], after[i])
  <2>1. CASE IsHome(rows, r, ids, i)
    BY <1>2, <1>3, <1>5, <1>6, <2>1 DEF Marks
  <2>2. CASE ~IsHome(rows, r, ids, i)
    BY <1>2, <1>3, <1>6, <2>2 DEF Marks, SameMark
  <2> QED
    BY <2>1, <2>2
<1>7. KeepsMarks(rows, after, j)
  BY <1>4, <1>6 DEF KeepsMarks
<1> QED
  BY <1>7 DEF after, ids

\* What the undo of a creation releases bears no mark.
LEMMA ReleasedKeepsMarks ==
  ASSUME NEW P, NEW T, NEW rows, rows \in Seq(Row(P, T)), NEW r, NEW j, j # 0
  PROVE  KeepsMarks(rows, ReleasedRows(rows, r), j)
<1> DEFINE after == ReleasedRows(rows, r)
<1>1. DOMAIN after = DOMAIN rows
  BY DEF ReleasedRows
<1>2. ASSUME NEW i \in DOMAIN rows
      PROVE  \/ rows[i].status = "ACTIVE" /\ after[i].tx = 0
             \/ after[i] = rows[i]
  <2>1. rows[i] \in Row(P, T)
    BY RowFields
  <2>2. CASE i \in ActiveOf(rows, r)
    <3>1. after[i] = [rows[i] EXCEPT !.status = "RELEASED", !.tx = 0, !.arrival = NoArrival]
      BY <2>2 DEF ReleasedRows
    <3>2. after[i].tx = 0
      <4> HIDE DEF after
      <4> QED BY <2>1, <3>1 DEF Row
    <3>3. rows[i].status = "ACTIVE"
      BY <2>2 DEF ActiveOf
    <3> QED
      BY <3>2, <3>3
  <2>3. CASE i \notin ActiveOf(rows, r)
    BY <2>3 DEF ReleasedRows
  <2> QED
    BY <2>2, <2>3
<1> HIDE DEF after
<1>3. KeepsMarks(rows, after, j)
  BY <1>1, <1>2 DEF KeepsMarks, SameMark, Marks
<1> QED
  BY <1>3 DEF after

\* A drain that ends rows otherwise leaves all marks.
LEMMA DrainKeepsMarks ==
  ASSUME NEW P, NEW T, NEW rows, NEW d, NEW ended, NEW after,
         Drainable(P, T, rows, d, ended), Drained(P, T, rows, d, ended, after),
         \A i \in DOMAIN rows : ended[i].status \notin {"RELEASED", "CONSUMED"}, NEW k
  PROVE  KeepsMarks(rows, after, k)
<1>1. ASSUME NEW i \in DOMAIN rows, Marks(rows[i], k) \/ Marks(after[i], k)
      PROVE  SameMark(rows[i], after[i])
  <2>1. after[i] = Left(rows, d, ended, i) /\ (d[i] > 0 => rows[i].status = "ACTIVE")
    BY DEF Drained, Drainable
  <2>2. /\ \/ /\ after[i].status = rows[i].status
              /\ after[i].reservation = rows[i].reservation /\ after[i].place = rows[i].place
              /\ after[i].tx = rows[i].tx /\ after[i].quantity = rows[i].quantity - d[i]
              /\ d[i] = 0 \/ d[i] < rows[i].quantity
           \/ after[i].status = ended[i].status /\ d[i] > 0
        /\ d[i] \in Nat /\ rows[i].quantity \in Nat
    BY <2>1, LeftFields
  <2>3. d[i] = 0
    BY <1>1, <2>1, <2>2 DEF Marks
  <2> QED
    BY <2>2, <2>3 DEF SameMark
<1>2. ASSUME NEW j \in DOMAIN after \ DOMAIN rows PROVE ~Marks(after[j], k)
  <2>1. PICK i \in DOMAIN rows : d[i] > 0 /\ after[j] = Sized(ended[i], d[i])
    BY DEF Drained
  <2>2. Sized(ended[i], d[i]).status = ended[i].status
    BY LeftFields
  <2> QED
    BY <2>1, <2>2 DEF Marks
<1>3. DOMAIN rows \subseteq DOMAIN after
  BY DEF Drained
<1> QED
  BY <1>1, <1>2, <1>3 DEF KeepsMarks

\* So an arrival does.
LEMMA ReceiveKeepsMarks ==
  ASSUME UndoInv, MayLog, NEW o \in Order, NEW quantity \in Nat \ {0}, NEW l \in Location,
         NEW rest \in Order, ReceiveStock(o, quantity, l, rest), NEW k
  PROVE  KeepsMarks(stockRows, stockRows', k) /\ KeepsMarks(incomingRows, incomingRows', k)
<1> DEFINE n     == Len(log)
           id    == n + 1
           rows  == incomingRows
           D     == DOMAIN rows
           d     == DrawnRows(rows, quantity, ActiveOn(rows, o))
           ended == ArrivalEnded(rows, id)
           after == Drain(rows, d, ended)
           new   == ArrivedRows(rows, d, id, l)
<1>1. /\ stockRows \in Seq(Row(Location, StockStatus)) /\ rows \in Seq(Row(Source, IncomingStatus))
      /\ n \in Nat
  BY LenProperties DEF UndoInv, RowsBase, RowsTypeOK
<1>2. id \in 0 .. MaxLog /\ o \in Source /\ rest \in Source
  BY <1>1, Sets DEF MayLog, Source
<1>3. /\ d \in [D -> Nat]
      /\ \A i \in D : d[i] <= rows[i].quantity /\ (d[i] > 0 => i \in ActiveOn(rows, o))
  BY <1>1, <1>2, ArrivalDraw
<1>4. stockRows' = stockRows \o new /\ incomingRows' = Repointed(after, o, rest)
  <2>1. DOMAIN d = D
    BY <1>3
  <2>2. new = [m \in DOMAIN InSequence({ i \in DOMAIN d : d[i] > 0 }, IdOrder(rows)) |->
                 ArrivedRow(rows, d, id, l,
                            InSequence({ i \in DOMAIN d : d[i] > 0 }, IdOrder(rows))[m])]
    BY DEF ArrivedRows
  <2>3. QED
    BY <2>2 DEF ReceiveStock, ArrivedRow, Repointed, ArrivalEnded
<1>5. \A i \in D : ended[i] \in Row(Source, IncomingStatus) /\ ended[i].status = "CONVERTED"
  BY <1>1, <1>2, ArrivalEndedFields
<1>6. ended = [i \in D |-> ended[i]]
  BY DEF ArrivalEnded
<1> HIDE DEF d, ended, after, new, n, id
<1>7. Drainable(Source, IncomingStatus, rows, d, ended)
  <2>1. \A i \in ActiveOn(rows, o) : rows[i].status = "ACTIVE"
    BY DEF ActiveOn
  <2>2. ended \in [D -> Row(Source, IncomingStatus)]
    BY <1>5, <1>6
  <2>3. QED
    BY <1>1, <1>3, <1>5, <2>1, <2>2 DEF Drainable
<1>8. Drained(Source, IncomingStatus, rows, d, ended, after)
  BY <1>7, DrainDrains DEF after
<1>9. KeepsMarks(rows, after, k)
  <2>1. \A i \in D : ended[i].status \notin {"RELEASED", "CONSUMED"}
    BY <1>5
  <2> QED
    BY <1>7, <1>8, <2>1, DrainKeepsMarks
<1>10. KeepsMarks(after, Repointed(after, o, rest), k)
  <2> DEFINE moved == Repointed(after, o, rest)
  <2>1. DOMAIN moved = DOMAIN after
    BY DEF Repointed
  <2>2. ASSUME NEW i \in DOMAIN after
        PROVE  \/ moved[i] = after[i]
               \/ after[i].status = "ACTIVE" /\ moved[i].status = "ACTIVE"
    <3>1. after \in Seq(Row(Source, IncomingStatus))
      BY <1>8 DEF Drained
    <3>2. moved[i].status = after[i].status
      BY <1>2, <3>1, RepointedRows
    <3>3. after[i].status # "ACTIVE" => moved[i] = after[i]
      BY DEF Repointed
    <3> QED
      BY <3>2, <3>3
  <2> HIDE DEF moved
  <2>3. KeepsMarks(after, moved, k)
    BY <2>1, <2>2 DEF KeepsMarks, SameMark, Marks
  <2> QED
    BY <2>3 DEF moved
<1>11. KeepsMarks(stockRows, stockRows \o new, k)
  <2>1. /\ new \in Seq(Row(Location, StockStatus))
        /\ \A m \in DOMAIN new : \E i \in D : d[i] > 0 /\ new[m] = ArrivedRow(rows, d, id, l, i)
    <3>1. d \in [DOMAIN rows -> Nat] /\ rows \in Seq(Row(Source, IncomingStatus))
      BY <1>1, <1>3
    <3> QED
      BY <1>2, <3>1, ArrivedRowsActive DEF new
  <2>2. \A i : ArrivedRow(rows, d, id, l, i).status = "ACTIVE"
    BY DEF ArrivedRow, NewRow
  <2>3. \A m \in DOMAIN new : new[m].status \notin {"RELEASED", "CONSUMED"}
    BY <2>1, <2>2
  <2> QED
    BY <1>1, <2>1, <2>3, AppendKeepsMarks
<1> QED
  BY <1>4, <1>9, <1>10, <1>11, KeepsMarksTwice

\* An undone arrival takes from active stock rows,
LEMMA StockLessKeepsMarks ==
  ASSUME NEW stock, NEW rows, NEW moved, NEW back, NEW h, Returns(stock, rows, moved, back, h),
         NEW k
  PROVE  KeepsMarks(stock, StockLess(stock, moved, back, h), k)
<1> DEFINE after    == StockLess(stock, moved, back, h)
           taken(j) == Total([i \in { m \in moved : h[m] = j } |-> back[i]])
<1>1. DOMAIN after = DOMAIN stock /\ \A j \in DOMAIN stock : after[j] = Less(stock[j], taken(j))
  BY DEF StockLess
<1>2. ASSUME NEW j \in DOMAIN stock
      PROVE  /\ taken(j) \in Nat /\ taken(j) <= stock[j].quantity
             /\ (\A m \in moved : h[m] # j) => taken(j) = 0
  BY PartsTaken
<1> HIDE DEF taken, after
<1>3. ASSUME NEW j \in DOMAIN stock, Marks(stock[j], k) \/ Marks(after[j], k)
      PROVE  SameMark(stock[j], after[j])
  <2>1. /\ stock[j] \in Row(Location, StockStatus) /\ "DELETED" \in StockStatus
        /\ stock[j].quantity \in Nat
    BY RowFields DEF StockStatus, Returns
  <2>2. after[j] = Less(stock[j], taken(j)) /\ after[j].status \in {stock[j].status, "DELETED"}
    BY <1>1, <1>2, <2>1, LessFacts
  <2>3. stock[j].status \in {"RELEASED", "CONSUMED"}
    BY <1>3, <2>2 DEF Marks
  <2>4. taken(j) = 0
    BY <1>2, <2>3 DEF Returns
  <2>5. after[j] = IF 0 = stock[j].quantity THEN Gone(stock[j])
                   ELSE [stock[j] EXCEPT !.quantity = @ - 0]
    BY <2>2, <2>4 DEF Less
  <2>6. Gone(stock[j]).status = "DELETED"
    BY <2>1, GoneRow
  <2>7. stock[j].quantity # 0
    BY <1>3, <2>5, <2>6 DEF Marks
  <2>8. after[j] = [stock[j] EXCEPT !.quantity = @ - 0]
    BY <2>5, <2>7
  <2> QED
    BY <2>1, <2>8 DEF Row, SameMark
<1>4. KeepsMarks(stock, after, k)
  BY <1>1, <1>3 DEF KeepsMarks
<1> QED
  BY <1>4 DEF after

\* and gives to converted or active incoming rows, or to new ones.
LEMMA IncomingMoreKeepsMarks ==
  ASSUME NEW stock, NEW rows, NEW moved, NEW back, NEW h, Returns(stock, rows, moved, back, h),
         NEW target, target \in Source, NEW k
  PROVE  KeepsMarks(rows, IncomingMore(rows, moved, back, target), k)
<1> DEFINE after == Reopened(rows, moved, back, target)
           added == FreshRows(rows, moved, back, target)
<1>1. DOMAIN after = DOMAIN rows
  BY DEF Reopened
<1>2. ASSUME NEW j \in DOMAIN rows, Marks(rows[j], k) \/ Marks(after[j], k)
      PROVE  SameMark(rows[j], after[j])
  <2>1. /\ j \in moved => /\ rows[j].status = "CONVERTED"
                          /\ after[j].status \in {"ACTIVE", "CONVERTED", "DELETED"}
        /\ j \notin moved => after[j].status = rows[j].status
    <3>1. /\ j \in moved => after[j].status = "ACTIVE" \/ after[j].status \in {"CONVERTED", "DELETED"}
          /\ j \notin moved => after[j].status = rows[j].status
      BY ReopenedFields
    <3>2. j \in moved => rows[j].status = "CONVERTED"
      BY DEF Returns
    <3> QED
      BY <3>1, <3>2
  <2>2. j \notin moved /\ rows[j].status \in {"RELEASED", "CONSUMED"}
    BY <1>2, <2>1 DEF Marks
  <2>3. after[j] = [rows[j] EXCEPT !.quantity = @ + Takes(rows, moved, back, target, j)]
    BY <2>2, Zenon DEF Reopened, Takes
  <2>4. rows \in Seq(Row(Source, IncomingStatus))
    BY DEF Returns
  <2>5. ASSUME NEW m \in moved
        PROVE  Homes(rows, target, m) = {} \/ Least(Homes(rows, target, m)) # j
    BY <2>2, <2>4, HomesFacts
  <2>6. Takes(rows, moved, back, target, j) = 0
    BY <2>5, TakesFacts
  <2>7. rows[j] \in Row(Source, IncomingStatus) /\ rows[j].quantity \in Nat
    BY <2>4, RowFields
  <2>8. after[j] = [rows[j] EXCEPT !.quantity = @ + 0]
    BY <2>3, <2>6
  <2> HIDE DEF after
  <2> QED
    BY <2>7, <2>8 DEF Row, SameMark
<1>3. KeepsMarks(rows, after, k)
  <2> HIDE DEF after
  <2> QED BY <1>1, <1>2 DEF KeepsMarks
<1>4. KeepsMarks(after, after \o added, k)
  <2>1. /\ added \in Seq(Row(Source, IncomingStatus))
        /\ \A n \in DOMAIN added : \E m : added[n] = NewRow(rows[m].reservation, target, back[m])
    BY FreshFields
  <2>2. \A m : NewRow(rows[m].reservation, target, back[m]).status = "ACTIVE"
    BY DEF NewRow
  <2>3. \A n \in DOMAIN added : added[n].status \notin {"RELEASED", "CONSUMED"}
    BY <2>1, <2>2
  <2>4. after \in Seq(Row(Source, IncomingStatus))
    BY ReopenedRows
  <2> HIDE DEF after, added
  <2> QED
    BY <2>1, <2>3, <2>4, AppendKeepsMarks
<1>5. IncomingMore(rows, moved, back, target) = after \o added
  BY DEF IncomingMore
<1> HIDE DEF after, added
<1> QED
  BY <1>3, <1>4, <1>5, KeepsMarksTwice

\* A creation adds active rows.
LEMMA CreateKeepsMarks ==
  ASSUME UndoInv, NEW r \in Reservation, NEW quantity \in 1 .. MaxQuantity,
         NEW project, NEW preferred \in Source,
         CreateReservation(r, quantity, project, preferred), NEW k
  PROVE  KeepsMarks(stockRows, stockRows', k) /\ KeepsMarks(incomingRows, incomingRows', k)
<1> DEFINE pq     == Summed!PreferredQuantity(preferred, quantity)
           sq     == Smaller(Total(Summed!Available), quantity - pq)
           short  == quantity - pq - sq
           supply == Summed!OpenSupply(project, preferred)
           stock  == InOrder(Summed!Available, sq, ShelfOrder)
           open   == InOrder(supply, short, Summed!SupplyOrder)
           added  == NewRows(r, stock, ShelfOrder)
           first  == IF pq = 0 THEN <<>> ELSE <<NewRow(r, preferred, pq)>>
           more   == NewRows(r, open, Summed!SupplyOrder)
<1>1. /\ preferred # NoOrder => Summed!PreferredEligible(preferred, project)
      /\ stockRows' = stockRows \o added
      /\ incomingRows' = (incomingRows \o first) \o more
      /\ Total(open) = short
  BY DEF CreateReservation
<1>2. /\ RowsBase /\ StateTypeOK /\ RowsTypeOK /\ quantity \in Nat
      /\ stockRows \in Seq(Row(Location, StockStatus))
      /\ incomingRows \in Seq(Row(Source, IncomingStatus))
  BY RowsAssumption DEF UndoInv, RowsBase, RowsTypeOK
<1>3. pq \in 0 .. quantity /\ (pq # 0 => preferred # NoOrder)
  BY <1>2, PreferredFacts
<1> HIDE DEF pq
<1>4. sq \in 0 .. quantity - pq /\ stock \in [Location -> Nat] /\ added \in Seq(Row(Location, StockStatus))
  BY <1>2, <1>3, CreateStock
<1>5. StrictlyOrders(ShelfOrder, { l \in Location : stock[l] > 0 })
  BY RowsAssumption, OrdersPart
<1>6. \A n \in DOMAIN added : added[n].status = "ACTIVE"
  <2> HIDE DEF stock
  <2> QED BY <1>4, <1>5, Sets, NewRowsPlaces
<1>7. short \in Nat
  BY <1>2, <1>3, <1>4
<1> HIDE DEF sq, stock, added
<1>8. /\ first \in Seq(Row(Source, IncomingStatus)) /\ more \in Seq(Row(Source, IncomingStatus))
  <2>1. pq \in Nat
    BY <1>2, <1>3
  <2> HIDE DEF short
  <2>2. QED
    BY <1>1, <1>2, <1>3, <1>7, <2>1, CreateIncoming
<1>9. /\ open \in [Source -> Nat]
      /\ \A s \in Source : open[s] > 0 => s \in OpenLines /\ s # preferred
      /\ StrictlyOrders(Summed!SupplyOrder, { s \in Source : open[s] > 0 })
  <2>1. open = InOrder(Summed!OpenSupply(project, preferred), short, Summed!SupplyOrder)
    OBVIOUS
  <2> HIDE DEF short, supply, open
  <2>2. StateTypeOK /\ RowsTypeOK
    BY <1>2
  <2> QED
    BY <1>7, <2>1, <2>2, OpenSupplyLines
<1> HIDE DEF short, supply, open
<1>10. \A n \in DOMAIN more : more[n].status = "ACTIVE"
  BY <1>9, Sets, NewRowsPlaces
<1>11. \A n \in DOMAIN first : first[n].status = "ACTIVE"
  <2>1. CASE pq = 0
    BY <2>1
  <2>2. CASE pq # 0
    <3>1. DOMAIN first = {1} /\ first[1] = NewRow(r, preferred, pq)
      BY <2>2
    <3>2. QED
      BY <3>1 DEF NewRow
  <2>3. QED
    BY <2>1, <2>2
<1> HIDE DEF first, more
<1> DEFINE some == incomingRows \o first
<1>12. KeepsMarks(incomingRows, some, k) /\ some \in Seq(Row(Source, IncomingStatus))
  BY <1>2, <1>8, <1>11, AppendKeepsMarks, ConcatElements
<1> HIDE DEF some
<1>13. KeepsMarks(some, some \o more, k)
  BY <1>8, <1>10, <1>12, AppendKeepsMarks
<1>14. KeepsMarks(incomingRows, incomingRows', k)
  <2>1. incomingRows' = some \o more
    BY <1>1 DEF some
  <2> QED
    BY <2>1, <1>12, <1>13, KeepsMarksTwice
<1>15. KeepsMarks(stockRows, stockRows', k)
  BY <1>1, <1>2, <1>4, <1>6, AppendKeepsMarks
<1> QED
  BY <1>14, <1>15

\* What a call that moved n from one location to another did to the ledger.
Shift(from, to, n) ==
  [l \in Location |-> (IF l = to THEN n ELSE 0) - (IF l = from THEN n ELSE 0)]

\* The locations an entry names are those its call moved stock between.
Directed(e) ==
  /\ e.context = "consume" => e.op = "CONSUME" /\ e.from = NoLocation /\ e.to = NoLocation
  /\ e.op = "MOVE" => e.from # e.to
  /\ e.op = "ADJUST" => e.from = NoLocation \/ e.to = NoLocation
  /\ e.op = "CONSUME" /\ e.context # "consume" => e.from \in Location /\ e.to = NoLocation
  /\ e.op = "ARRIVAL" => e.from = NoLocation
  /\ e.op = "RESERVE" /\ e.context \in {"create", "release"}
     => e.from = NoLocation /\ e.to = NoLocation

MovesAsLogged(e) ==
  Directed(e) /\ (e.context # "consume" => e.moved = Shift(e.from, e.to, e.quantity))

\* The rows with the mark of entry k add up to it, and those of a consumption,
\* location by location, to what it took from the ledger.
MarkersFit(e, k, stock, rows) ==
  ~e.undone =>
    /\ e.context = "release" =>
         e.quantity = QuantityOf(stock, MarkedRows(stock, e.reservation, "RELEASED", k))
                        + QuantityOf(rows, MarkedRows(rows, e.reservation, "RELEASED", k))
    /\ e.context = "consume" =>
         /\ e.quantity = QuantityOf(stock, MarkedRows(stock, e.reservation, "CONSUMED", k))
         /\ \A l \in Location :
              e.moved[l] = -QuantityOf(stock, MarkedIds(stock, e.reservation, "CONSUMED", k, {l}))

\* The log and the rows tell the same; ids to come mark nothing yet.
MarkersInv ==
  /\ \A k \in DOMAIN log : MarkersFit(log[k], k, stockRows, incomingRows)
  /\ \A k \in DOMAIN log : log[k].undoOf = 0 => MovesAsLogged(log[k])
  /\ \A k \in Nat : k > Len(log) => Unmarked(stockRows, k) /\ Unmarked(incomingRows, k)

KeptMarks(k) ==
  KeepsMarks(stockRows, stockRows', k) /\ KeepsMarks(incomingRows, incomingRows', k)

\* At all places are all rows.
LEMMA MarkedAnywhere ==
  ASSUME NEW P, NEW T, NEW rows, rows \in Seq(Row(P, T)), NEW r, NEW status, NEW k
  PROVE  MarkedIds(rows, r, status, k, P) = MarkedRows(rows, r, status, k)
<1>1. \A i \in DOMAIN rows : rows[i].place \in P
  BY RowFields
<1> QED
  BY <1>1 DEF MarkedIds, MarkedRows

\* An entry whose marks are kept still fits.
LEMMA StillFits ==
  ASSUME RowsTypeOK, RowsTypeOK', NEW k, KeptMarks(k), NEW e, NEW f,
         MarkersFit(e, k, stockRows, incomingRows),
         f.context = e.context, f.quantity = e.quantity, f.reservation = e.reservation,
         f.moved = e.moved, e.undone => f.undone
  PROVE  MarkersFit(f, k, stockRows', incomingRows')
<1> DEFINE r == e.reservation
<1>1. /\ stockRows \in Seq(Row(Location, StockStatus)) /\ stockRows' \in Seq(Row(Location, StockStatus))
      /\ incomingRows \in Seq(Row(Source, IncomingStatus))
      /\ incomingRows' \in Seq(Row(Source, IncomingStatus))
  BY DEF RowsTypeOK
<1>2. KeepsMarks(stockRows, stockRows', k) /\ KeepsMarks(incomingRows, incomingRows', k)
  BY DEF KeptMarks
<1> HIDE DEF r
<1>3. ASSUME NEW status \in {"RELEASED", "CONSUMED"}
      PROVE  /\ \A W : QuantityOf(stockRows', MarkedIds(stockRows', r, status, k, W))
                         = QuantityOf(stockRows, MarkedIds(stockRows, r, status, k, W))
             /\ QuantityOf(incomingRows', MarkedIds(incomingRows', r, status, k, Source))
                  = QuantityOf(incomingRows, MarkedIds(incomingRows, r, status, k, Source))
  BY <1>1, <1>2, MarkedKept
<1>4. \A status :
        /\ MarkedIds(stockRows, r, status, k, Location) = MarkedRows(stockRows, r, status, k)
        /\ MarkedIds(stockRows', r, status, k, Location) = MarkedRows(stockRows', r, status, k)
        /\ MarkedIds(incomingRows, r, status, k, Source) = MarkedRows(incomingRows, r, status, k)
        /\ MarkedIds(incomingRows', r, status, k, Source) = MarkedRows(incomingRows', r, status, k)
  BY <1>1, MarkedAnywhere
<1>5. ASSUME NEW status \in {"RELEASED", "CONSUMED"}
      PROVE  /\ QuantityOf(stockRows', MarkedRows(stockRows', r, status, k))
                  = QuantityOf(stockRows, MarkedRows(stockRows, r, status, k))
             /\ QuantityOf(incomingRows', MarkedRows(incomingRows', r, status, k))
                  = QuantityOf(incomingRows, MarkedRows(incomingRows, r, status, k))
  <2>1. /\ QuantityOf(stockRows', MarkedIds(stockRows', r, status, k, Location))
             = QuantityOf(stockRows, MarkedIds(stockRows, r, status, k, Location))
        /\ QuantityOf(incomingRows', MarkedIds(incomingRows', r, status, k, Source))
             = QuantityOf(incomingRows, MarkedIds(incomingRows, r, status, k, Source))
    BY <1>3
  <2> QED
    BY <1>4, <2>1
<1>6. /\ QuantityOf(stockRows', MarkedRows(stockRows', r, "RELEASED", k))
           = QuantityOf(stockRows, MarkedRows(stockRows, r, "RELEASED", k))
      /\ QuantityOf(incomingRows', MarkedRows(incomingRows', r, "RELEASED", k))
           = QuantityOf(incomingRows, MarkedRows(incomingRows, r, "RELEASED", k))
      /\ QuantityOf(stockRows', MarkedRows(stockRows', r, "CONSUMED", k))
           = QuantityOf(stockRows, MarkedRows(stockRows, r, "CONSUMED", k))
      /\ \A l : QuantityOf(stockRows', MarkedIds(stockRows', r, "CONSUMED", k, {l}))
                  = QuantityOf(stockRows, MarkedIds(stockRows, r, "CONSUMED", k, {l}))
  BY <1>3, <1>5
<1>7. f.reservation = r
  BY DEF r
<1>8. ASSUME ~f.undone, f.context = "release"
      PROVE  f.quantity = QuantityOf(stockRows', MarkedRows(stockRows', r, "RELEASED", k))
                            + QuantityOf(incomingRows', MarkedRows(incomingRows', r, "RELEASED", k))
  BY <1>6, <1>8 DEF MarkersFit, r
<1>9. ASSUME ~f.undone, f.context = "consume"
      PROVE  /\ f.quantity = QuantityOf(stockRows', MarkedRows(stockRows', r, "CONSUMED", k))
             /\ \A l \in Location :
                  f.moved[l] = -QuantityOf(stockRows', MarkedIds(stockRows', r, "CONSUMED", k, {l}))
  BY <1>6, <1>9 DEF MarkersFit, r
<1> QED
  BY <1>7, <1>8, <1>9 DEF MarkersFit

\* A step that appends an entry that fits, undoes the entries ids, and leaves
\* the marks of the others.
LEMMA MarkersStep ==
  ASSUME UndoInv, UndoInv', MarkersInv, NEW new, NEW ids, ids \subseteq DOMAIN log,
         Appends(new, ids),
         \A k \in Nat \ {0} : k \notin ids /\ k # Len(log) + 1 => KeptMarks(k),
         MarkersFit(new, Len(log) + 1, stockRows', incomingRows'),
         new.undoOf = 0 => MovesAsLogged(new)
  PROVE  MarkersInv'
<1> DEFINE n == Len(log)
<1>1. /\ n \in Nat /\ DOMAIN log = 1 .. n /\ DOMAIN log' = 1 .. Len(log') /\ Len(log') \in Nat
      /\ RowsTypeOK /\ RowsTypeOK'
  BY LenProperties DEF UndoInv, RowsBase
<1>2. /\ DOMAIN log' = DOMAIN log \cup {n + 1} /\ log'[n + 1] = new
      /\ \A k \in DOMAIN log :
           /\ log'[k].context = log[k].context /\ log'[k].quantity = log[k].quantity
           /\ log'[k].reservation = log[k].reservation /\ log'[k].moved = log[k].moved
           /\ log'[k].undoOf = log[k].undoOf
           /\ log'[k].op = log[k].op /\ log'[k].from = log[k].from /\ log'[k].to = log[k].to
           /\ (log'[k].undone <=> (log[k].undone \/ k \in ids))
  BY DEF Appends, SameCall
<1>3. Len(log') = n + 1
  <2>1. n + 1 \in 1 .. Len(log') /\ \A i \in 1 .. Len(log') : i \in 1 .. n \/ i = n + 1
    BY <1>1, <1>2
  <2> DEFINE m == Len(log')
  <2>2. n \in Nat /\ m \in Nat
    BY <1>1
  <2> HIDE DEF n, m
  <2>3. n + 1 <= m
    BY <2>1, <2>2 DEF m
  <2>4. m \in 1 .. m
    BY <2>2, <2>3
  <2>5. m \in 1 .. n \/ m = n + 1
    BY <2>1, <2>4 DEF m
  <2> QED
    BY <2>2, <2>3, <2>5 DEF m
<1> HIDE DEF n
<1>4. ASSUME NEW k \in DOMAIN log
      PROVE  MarkersFit(log'[k], k, stockRows', incomingRows')
  <2>1. CASE k \in ids
    BY <1>2, <2>1 DEF MarkersFit
  <2>2. CASE k \notin ids
    <3>1. k \in Nat \ {0} /\ k # n + 1
      BY <1>1
    <3>2. KeptMarks(k) /\ MarkersFit(log[k], k, stockRows, incomingRows)
      BY <2>2, <3>1 DEF MarkersInv, n
    <3> QED
      BY <1>1, <1>2, <3>2, StillFits
  <2> QED
    BY <2>1, <2>2
<1>5. \A k \in DOMAIN log' : MarkersFit(log'[k], k, stockRows', incomingRows')
  BY <1>2, <1>4 DEF n
<1>6. ASSUME NEW k \in DOMAIN log', log'[k].undoOf = 0 PROVE MovesAsLogged(log'[k])
  <2>1. CASE k \in DOMAIN log
    <3>1. MovesAsLogged(log[k])
      BY <1>2, <1>6, <2>1 DEF MarkersInv
    <3> QED
      BY <1>2, <2>1, <3>1 DEF MovesAsLogged, Directed
  <2>2. CASE k \notin DOMAIN log
    BY <1>2, <1>6, <2>2
  <2> QED
    BY <2>1, <2>2
<1>7. ASSUME NEW k \in Nat, k > n + 1
      PROVE  Unmarked(stockRows', k) /\ Unmarked(incomingRows', k)
  <2>1. k # 0 /\ k \notin DOMAIN log /\ k # n + 1 /\ k > n
    BY <1>1, <1>7
  <2>2. KeptMarks(k)
    BY <2>1 DEF n
  <2>3. Unmarked(stockRows, k) /\ Unmarked(incomingRows, k)
    BY <2>1 DEF MarkersInv, n
  <2> QED
    BY <2>2, <2>3, StaysUnmarked DEF KeptMarks
<1> QED
  BY <1>3, <1>5, <1>6, <1>7 DEF MarkersInv

-----------------------------------------------------------------------------
(* Every call and every undo keeps that.                                   *)

\* What is logged of a call.
LEMMA LoggedFields ==
  ASSUME NEW op, NEW q, NEW from, NEW to, NEW m
  PROVE  LET e == [Entry(op, q, from, to) EXCEPT !.moved = m]
         IN  /\ e.op = op /\ e.quantity = q /\ e.from = from /\ e.to = to /\ e.context = "none"
             /\ e.undoOf = 0 /\ ~e.undone /\ e.moved = m
BY DEF Entry

LEMMA ReservationFields ==
  ASSUME NEW op, NEW q, NEW context, NEW r, NEW m
  PROVE  LET e == [ReservationEntry(op, q, context, r) EXCEPT !.moved = m]
         IN  /\ e.op = op /\ e.quantity = q /\ e.from = NoLocation /\ e.to = NoLocation
             /\ e.context = context /\ e.reservation = r
             /\ e.undoOf = 0 /\ ~e.undone /\ e.moved = m
BY DEF ReservationEntry, Entry

LEMMA ArrivalFields ==
  ASSUME NEW q, NEW l, NEW o, NEW m
  PROVE  LET e == [[Entry("ARRIVAL", q, NoLocation, l) EXCEPT !.context = "arrival", !.order = o]
                     EXCEPT !.moved = m]
         IN  /\ e.op = "ARRIVAL" /\ e.quantity = q /\ e.from = NoLocation /\ e.to = l
             /\ e.context = "arrival" /\ e.undoOf = 0 /\ ~e.undone /\ e.moved = m
BY DEF Entry

\* A step that moves n from one location to another, and nothing else.
Moves(from, to, n) ==
  \A l \in Location :
    onHand'[l] - onHand[l] = (IF l = to THEN n ELSE 0) - (IF l = from THEN n ELSE 0)

LEMMA MovesShift ==
  ASSUME NEW from, NEW to, NEW n, Moves(from, to, n)
  PROVE  Change = Shift(from, to, n)
BY DEF Change, Shift, Moves

LEMMA NothingMoves ==
  ASSUME onHand \in [Location -> Nat], onHand' = onHand, NEW n
  PROVE  Moves(NoLocation, NoLocation, n)
<1>1. \A l \in Location : onHand'[l] - onHand[l] = 0 /\ l # NoLocation
  BY RowsAssumption
<1> QED
  BY <1>1 DEF Moves

\* A call of which no row keeps a mark.
LEMMA PlainFits ==
  ASSUME UndoInv, UndoInv', MarkersInv, NEW new, Appends(new, {}),
         \A k \in Nat \ {0} : KeptMarks(k),
         new.context \notin {"release", "consume"}, MovesAsLogged(new)
  PROVE  MarkersInv' /\ \A k \in DOMAIN log : ~Undone(k)
<1>1. MarkersFit(new, Len(log) + 1, stockRows', incomingRows')
  BY DEF MarkersFit
<1>2. \A k \in Nat \ {0} : k \notin {} /\ k # Len(log) + 1 => KeptMarks(k)
  OBVIOUS
<1>3. new.undoOf = 0 => MovesAsLogged(new)
  OBVIOUS
<1>4. {} \subseteq DOMAIN log
  OBVIOUS
<1>5. MarkersInv'
  BY <1>1, <1>2, <1>3, <1>4, MarkersStep
<1>6. \A k \in DOMAIN log : ~Undone(k)
  BY DEF Appends, Undone
<1> QED
  BY <1>5, <1>6

\* An undo that leaves the marks of the other entries: only the one it undoes
\* is undone.
LEMMA UndoFits ==
  ASSUME UndoInv, UndoInv', MarkersInv, NEW k, NEW undone, Undoable(k, undone),
         NEW op, NEW q, NEW from, NEW to, Compensated(k, Entry(op, q, from, to)),
         \A j \in Nat \ {0} : j # k => KeptMarks(j)
  PROVE  MarkersInv' /\ \A j \in DOMAIN log : Undone(j) => j = k
<1> DEFINE e   == Entry(op, q, from, to)
           new == [e EXCEPT !.undoOf = k, !.moved = Change]
<1>1. log \in Seq(LogEntry) /\ k \in DOMAIN log /\ k \in Nat \ {0}
  <2>1. log \in Seq(LogEntry) /\ k \in DOMAIN log
    BY DEF UndoInv, RowsBase, Undoable
  <2>2. DOMAIN log = 1 .. Len(log) /\ Len(log) \in Nat
    BY <2>1, LenProperties
  <2> QED
    BY <2>1, <2>2
<1>2. new.context = "none" /\ new.undoOf = k
  BY DEF Entry
<1>3. Compensated(k, e)
  OBVIOUS
<1> HIDE DEF e
<1>4. Appends(new, {k})
  BY <1>1, <1>3, CompensatedAppends
<1> HIDE DEF new
<1>5. MarkersFit(new, Len(log) + 1, stockRows', incomingRows')
  BY <1>2 DEF MarkersFit
<1>6. \A j \in Nat \ {0} : j \notin {k} /\ j # Len(log) + 1 => KeptMarks(j)
  OBVIOUS
<1>7. {k} \subseteq DOMAIN log /\ (new.undoOf = 0 => MovesAsLogged(new))
  BY <1>1, <1>2
<1>8. MarkersInv'
  BY <1>4, <1>5, <1>6, <1>7, MarkersStep
<1>9. \A j \in DOMAIN log : Undone(j) => j = k
  BY <1>4 DEF Appends, Undone
<1> QED
  BY <1>8, <1>9

\* A call on the ledger.
LEMMA LedgerFits ==
  ASSUME UndoInv, UndoInv', MarkersInv, ReservationStateUnchanged,
         NEW op, NEW q, NEW from, NEW to, Logged(Entry(op, q, from, to)), Moves(from, to, q),
         op = "MOVE" => from # to,
         op = "ADJUST" => from = NoLocation \/ to = NoLocation,
         op = "CONSUME" => from \in Location /\ to = NoLocation,
         op = "ARRIVAL" => from = NoLocation
  PROVE  MarkersInv' /\ \A k \in DOMAIN log : ~Undone(k)
<1> DEFINE e   == Entry(op, q, from, to)
           new == [e EXCEPT !.moved = Change]
<1>1. /\ new.op = op /\ new.quantity = q /\ new.from = from /\ new.to = to
      /\ new.context = "none" /\ new.undoOf = 0 /\ ~new.undone /\ new.moved = Change
  BY LoggedFields
<1>2. Logged(e) /\ log \in Seq(LogEntry)
  BY DEF UndoInv, RowsBase
<1> HIDE DEF e
<1>3. Appends(new, {})
  BY <1>2, LoggedAppends
<1> HIDE DEF new
<1>4. MovesAsLogged(new)
  BY <1>1, MovesShift DEF MovesAsLogged, Directed
<1>5. stockRows' = stockRows /\ incomingRows' = incomingRows
  BY DEF ReservationStateUnchanged
<1>6. \A k \in Nat \ {0} : KeptMarks(k)
  BY <1>5, SameKeepMarks DEF KeptMarks
<1> QED
  BY <1>1, <1>3, <1>4, <1>6, PlainFits

\* Direct calls.
LEMMA DirectFits ==
  ASSUME UndoInv, UndoInv', MarkersInv, InventoryNext
  PROVE  MarkersInv' /\ \A k \in DOMAIN log : ~Undone(k)
<1>1. onHand \in [Location -> Nat] /\ NoLocation \notin Location
  BY RowsAssumption DEF UndoInv, RowsBase, StateTypeOK
<1>2. \A q \in 1 .. MaxQuantity : q \in Nat \ {0}
  BY RowsAssumption
<1>3. ASSUME NEW q \in 1 .. MaxQuantity, NEW a \in Location, NEW b \in Location,
             NEW op \in {"MOVE", "RESERVE"}, MoveInventory(q, a, b, op)
      PROVE  MarkersInv' /\ \A k \in DOMAIN log : ~Undone(k)
  <2>1. /\ a # b /\ onHand' = [onHand EXCEPT ![a] = @ - q, ![b] = @ + q]
        /\ ReservationStateUnchanged /\ Logged(Entry(op, q, a, b))
    BY <1>3 DEF MoveInventory
  <2>2. Moves(a, b, q)
    BY <1>1, <1>2, <2>1 DEF Moves
  <2> QED
    BY <2>1, <2>2, LedgerFits
<1>4. ASSUME NEW q \in 1 .. MaxQuantity, NEW l \in Location, ConsumeInventory(q, l)
      PROVE  MarkersInv' /\ \A k \in DOMAIN log : ~Undone(k)
  <2>1. /\ onHand' = [onHand EXCEPT ![l] = @ - q]
        /\ ReservationStateUnchanged /\ Logged(Entry("CONSUME", q, l, NoLocation))
    BY <1>4 DEF ConsumeInventory
  <2>2. Moves(l, NoLocation, q)
    BY <1>1, <1>2, <2>1 DEF Moves
  <2> QED
    BY <2>1, <2>2, LedgerFits
<1>5. ASSUME NEW q \in 1 .. MaxQuantity, NEW l \in Location, IncreaseInventory(q, l)
      PROVE  MarkersInv' /\ \A k \in DOMAIN log : ~Undone(k)
  <2>1. /\ onHand' = [onHand EXCEPT ![l] = @ + q]
        /\ ReservationStateUnchanged /\ Logged(Entry("ADJUST", q, NoLocation, l))
    BY <1>5 DEF IncreaseInventory
  <2>2. Moves(NoLocation, l, q)
    BY <1>1, <1>2, <2>1 DEF Moves
  <2> QED
    BY <2>1, <2>2, LedgerFits
<1>6. ASSUME NEW q \in 1 .. MaxQuantity, NEW l \in Location, DecreaseInventory(q, l)
      PROVE  MarkersInv' /\ \A k \in DOMAIN log : ~Undone(k)
  <2>1. /\ onHand' = [onHand EXCEPT ![l] = @ - q]
        /\ ReservationStateUnchanged /\ Logged(Entry("ADJUST", q, l, NoLocation))
    BY <1>6 DEF DecreaseInventory
  <2>2. Moves(l, NoLocation, q)
    BY <1>1, <1>2, <2>1 DEF Moves
  <2> QED
    BY <2>1, <2>2, LedgerFits
<1>7. ASSUME NEW q \in 1 .. MaxQuantity, NEW l \in Location, BatchArrival(q, l)
      PROVE  MarkersInv' /\ \A k \in DOMAIN log : ~Undone(k)
  <2>1. /\ onHand' = [onHand EXCEPT ![l] = @ + q]
        /\ ReservationStateUnchanged /\ Logged(Entry("ARRIVAL", q, NoLocation, l))
    BY <1>7 DEF BatchArrival
  <2>2. Moves(NoLocation, l, q)
    BY <1>1, <1>2, <2>1 DEF Moves
  <2> QED
    BY <2>1, <2>2, LedgerFits
<1> QED
  BY <1>3, <1>4, <1>5, <1>6, <1>7 DEF InventoryNext

\* A creation.
LEMMA CreateFits ==
  ASSUME UndoInv, UndoInv', MarkersInv, NEW r \in Reservation, NEW quantity \in 1 .. MaxQuantity,
         NEW project, NEW preferred \in Source,
         CreateReservation(r, quantity, project, preferred)
  PROVE  MarkersInv' /\ \A k \in DOMAIN log : ~Undone(k)
<1> DEFINE e   == ReservationEntry("RESERVE", quantity, "create", r)
           new == [e EXCEPT !.moved = Change]
<1>1. /\ new.op = "RESERVE" /\ new.quantity = quantity
      /\ new.from = NoLocation /\ new.to = NoLocation
      /\ new.context = "create" /\ new.undoOf = 0 /\ ~new.undone /\ new.moved = Change
  BY ReservationFields
<1>2. Logged(e) /\ onHand' = onHand
  BY DEF CreateReservation
<1>3. log \in Seq(LogEntry) /\ onHand \in [Location -> Nat]
  BY DEF UndoInv, RowsBase, StateTypeOK
<1> HIDE DEF e
<1>4. Appends(new, {})
  BY <1>2, <1>3, LoggedAppends
<1> HIDE DEF new
<1>5. MovesAsLogged(new)
  BY <1>1, <1>2, <1>3, NothingMoves, MovesShift DEF MovesAsLogged, Directed
<1>6. \A k \in Nat \ {0} : KeptMarks(k)
  BY CreateKeepsMarks DEF KeptMarks
<1> QED
  BY <1>1, <1>4, <1>5, <1>6, PlainFits

\* An arrival.
LEMMA ReceiveFits ==
  ASSUME UndoInv, UndoInv', MarkersInv, MayLog, NEW o \in Order, NEW quantity \in Nat \ {0},
         NEW l \in Location, NEW rest \in Order, ReceiveStock(o, quantity, l, rest)
  PROVE  MarkersInv' /\ \A k \in DOMAIN log : ~Undone(k)
<1> DEFINE e   == [Entry("ARRIVAL", quantity, NoLocation, l)
                     EXCEPT !.context = "arrival", !.order = o]
           new == [e EXCEPT !.moved = Change]
<1>1. /\ new.op = "ARRIVAL" /\ new.quantity = quantity /\ new.from = NoLocation /\ new.to = l
      /\ new.context = "arrival" /\ new.undoOf = 0 /\ ~new.undone /\ new.moved = Change
  BY ArrivalFields
<1>2. Logged(e) /\ onHand' = [onHand EXCEPT ![l] = @ + quantity]
  BY DEF ReceiveStock
<1>3. log \in Seq(LogEntry) /\ onHand \in [Location -> Nat] /\ NoLocation \notin Location
  BY RowsAssumption DEF UndoInv, RowsBase, StateTypeOK
<1> HIDE DEF e
<1>4. Appends(new, {})
  BY <1>2, <1>3, LoggedAppends
<1> HIDE DEF new
<1>5. Moves(NoLocation, l, quantity)
  BY <1>2, <1>3 DEF Moves
<1>6. MovesAsLogged(new)
  BY <1>1, <1>5, MovesShift DEF MovesAsLogged, Directed
<1>7. \A k \in Nat \ {0} : KeptMarks(k)
  BY ReceiveKeepsMarks DEF KeptMarks
<1> QED
  BY <1>1, <1>4, <1>6, <1>7, PlainFits

LEMMA ArrivalFits ==
  ASSUME UndoInv, UndoInv', MarkersInv, ArrivalNext
  PROVE  MarkersInv' /\ \A k \in DOMAIN log : ~Undone(k)
<1>1. orders \in [Order -> Summed!OrderLine]
  BY DEF UndoInv, RowsBase, StateTypeOK
<1>2. ASSUME NEW o \in Order, NEW l \in Location, FullArrival(o, l)
      PROVE  MarkersInv' /\ \A k \in DOMAIN log : ~Undone(k)
  <2>1. MayLog /\ orders[o].amount > 0 /\ ReceiveStock(o, orders[o].amount, l, o)
    BY <1>2 DEF FullArrival
  <2>2. orders[o].amount \in Nat \ {0}
    BY <1>1, <2>1 DEF Summed!OrderLine
  <2> QED
    BY <2>1, <2>2, ReceiveFits
<1>3. ASSUME NEW o \in Order, NEW c \in Order, NEW q \in 1 .. MaxQuantity, NEW l \in Location,
             PartialArrival(o, c, q, l)
      PROVE  MarkersInv' /\ \A k \in DOMAIN log : ~Undone(k)
  <2>1. MayLog /\ ReceiveStock(o, q, l, c)
    BY <1>3 DEF PartialArrival
  <2>2. q \in Nat \ {0}
    BY RowsAssumption
  <2> QED
    BY <2>1, <2>2, ReceiveFits
<1> QED
  BY <1>2, <1>3 DEF ArrivalNext

\* The rows that a release or a consumption ends add up to what it drew.
LEMMA EndedQuantity ==
  ASSUME NEW P, IsFiniteSet(P), NEW T, NEW rows, NEW r \in Reservation, NEW n, NEW status, NEW id,
         NEW noted, NEW after, TakenAndEnded(P, T, rows, r, n, status, id, noted, after),
         after \in Seq(Row(P, T)), status \in {"RELEASED", "CONSUMED"}, Unmarked(rows, id)
  PROVE  QuantityOf(after, MarkedRows(after, r, status, id)) = Smaller(n, Total(Sums(rows, P)[r]))
<1> DEFINE ids == ActiveOf(rows, r)
           d   == DrawnRows(rows, n, ids)
           f   == [i \in DOMAIN rows |-> IF i \in ids THEN rows[i].quantity ELSE 0]
           at  == { i \in DOMAIN rows : rows[i].place \in P }
<1>1. rows \in Seq(Row(P, T)) /\ n \in Nat
  BY DEF TakenAndEnded
<1>2. QuantityOf(after, MarkedIds(after, r, status, id, P)) = Total(Part(d, at))
  BY EndedMarks
<1>3. MarkedIds(after, r, status, id, P) = MarkedRows(after, r, status, id)
  BY MarkedAnywhere
<1>4. f = ActiveQuantities(rows, r)
  BY DEF ActiveQuantities
<1>5. ids \in SUBSET (DOMAIN rows)
  BY DEF ActiveOf
<1> HIDE DEF ids
<1>6. d \in [DOMAIN rows -> Nat] /\ Total(d) = Smaller(n, Total(f))
  BY <1>1, <1>5, DrawnRowsFacts
<1>7. \A i \in DOMAIN rows : i \in at
  BY <1>1, RowFields
<1> HIDE DEF f, at, d
<1>8. Part(d, at) = d
  BY <1>6, <1>7 DEF Part
<1>9. Total(Sums(rows, P)[r]) = Total(f)
  BY <1>1, <1>4, SumsBacking DEF RowBacking
<1> QED
  BY <1>2, <1>3, <1>6, <1>8, <1>9

\* Releasing.
LEMMA ReleaseFits ==
  ASSUME UndoInv, UndoInv', MarkersInv, NEW r \in Reservation, NEW quantity \in 1 .. MaxQuantity,
         NEW noted \in BOOLEAN, ReleaseReservation(r, quantity, noted)
  PROVE  MarkersInv' /\ \A k \in DOMAIN log : ~Undone(k)
<1> DEFINE id  == Len(log) + 1
           all == Total(ActiveStock[r])
           sq  == Smaller(quantity, all)
           e   == ReservationEntry("RESERVE", quantity, "release", r)
           new == [e EXCEPT !.moved = Change]
<1>1. /\ stockRows \in Seq(Row(Location, StockStatus)) /\ stockRows' \in Seq(Row(Location, StockStatus))
      /\ incomingRows \in Seq(Row(Source, IncomingStatus))
      /\ incomingRows' \in Seq(Row(Source, IncomingStatus))
      /\ log \in Seq(LogEntry) /\ onHand \in [Location -> Nat] /\ quantity \in Nat \ {0}
      /\ IsFiniteSet(Location) /\ IsFiniteSet(Source)
  BY RowsAssumption, Sets DEF UndoInv, RowsBase, RowsTypeOK, StateTypeOK
<1>2. /\ MayLog /\ onHand' = onHand /\ Logged(e)
      /\ quantity <= all + Total(ActiveIncoming[r])
      /\ stockRows' = Drain(stockRows, DrawnRows(stockRows, quantity, ActiveOf(stockRows, r)),
                            Ended(stockRows, "RELEASED", id, noted))
      /\ incomingRows' =
           Drain(incomingRows, DrawnRows(incomingRows, quantity - sq, ActiveOf(incomingRows, r)),
                 Ended(incomingRows, "RELEASED", id, noted))
  BY DEF ReleaseReservation
<1>3. id \in 0 .. MaxLog /\ id \in Nat /\ id > Len(log) /\ Len(log) \in Nat
  <2>1. Len(log) \in Nat
    BY <1>1, LenProperties
  <2> QED
    BY <1>2, <2>1, Sets DEF MayLog
<1>4. Unmarked(stockRows, id) /\ Unmarked(incomingRows, id)
  BY <1>3 DEF MarkersInv
<1>5. all \in Nat /\ Total(ActiveIncoming[r]) \in Nat
  BY <1>1, SupplyTypes, TotalType DEF UndoInv, RowsBase
<1>6. sq \in Nat /\ quantity - sq \in Nat
  BY <1>1, <1>5 DEF Smaller
<1>7. /\ new.op = "RESERVE" /\ new.quantity = quantity
      /\ new.from = NoLocation /\ new.to = NoLocation
      /\ new.context = "release" /\ new.reservation = r
      /\ new.undoOf = 0 /\ ~new.undone /\ new.moved = Change
  BY ReservationFields
<1> HIDE DEF e
<1>8. Appends(new, {})
  BY <1>1, <1>2, LoggedAppends
<1> HIDE DEF new, id, sq
<1>9. TakenAndEnded(Location, StockStatus, stockRows, r, quantity, "RELEASED", id, noted, stockRows')
  BY <1>1, <1>2, <1>3 DEF TakenAndEnded, StockStatus
<1>10. TakenAndEnded(Source, IncomingStatus, incomingRows, r, quantity - sq, "RELEASED", id,
                     noted, incomingRows')
  BY <1>1, <1>2, <1>3, <1>6 DEF TakenAndEnded, IncomingStatus
<1>11. "RELEASED" \in {"RELEASED", "CONSUMED"}
  OBVIOUS
<1>12. QuantityOf(stockRows', MarkedRows(stockRows', r, "RELEASED", id))
         = Smaller(quantity, Total(Sums(stockRows, Location)[r]))
  BY <1>1, <1>4, <1>9, <1>11, EndedQuantity
<1>13. QuantityOf(incomingRows', MarkedRows(incomingRows', r, "RELEASED", id))
         = Smaller(quantity - sq, Total(Sums(incomingRows, Source)[r]))
  BY <1>1, <1>4, <1>10, <1>11, EndedQuantity
<1>14. /\ Smaller(quantity, Total(Sums(stockRows, Location)[r])) = sq
       /\ Smaller(quantity - sq, Total(Sums(incomingRows, Source)[r])) = quantity - sq
  <2>1. ActiveStock = Sums(stockRows, Location) /\ ActiveIncoming = Sums(incomingRows, Source)
    BY SumsOf
  <2>2. Smaller(quantity, all) = sq
    BY DEF sq
  <2>3. Smaller(quantity - sq, Total(ActiveIncoming[r])) = quantity - sq
    <3> DEFINE more == Total(ActiveIncoming[r])
               left == quantity - sq
    <3>1. /\ quantity \in Nat /\ all \in Nat /\ more \in Nat /\ quantity <= all + more
          /\ sq = IF quantity < all THEN quantity ELSE all
      BY <1>1, <1>2, <1>5, <2>2 DEF Smaller
    <3>2. left \in Nat /\ left = quantity - sq
      BY <1>6
    <3> HIDE DEF all, more, left
    <3>3. left <= more
      BY <3>1, <3>2
    <3>4. Smaller(left, more) = left
      BY <3>1, <3>2, <3>3 DEF Smaller
    <3> QED
      BY <3>4 DEF left, more
  <2> QED
    BY <2>1, <2>2, <2>3
<1>15. MarkersFit(new, id, stockRows', incomingRows')
  BY <1>1, <1>6, <1>7, <1>12, <1>13, <1>14 DEF MarkersFit
<1>16. \A k \in Nat \ {0} : k \notin {} /\ k # id => KeptMarks(k)
  <2> SUFFICES ASSUME NEW k \in Nat \ {0}, k # id PROVE KeptMarks(k)
    OBVIOUS
  <2>1. KeepsMarks(stockRows, stockRows', k)
    BY <1>4, <1>9, <1>11, EndedMarks
  <2>2. KeepsMarks(incomingRows, incomingRows', k)
    BY <1>4, <1>10, <1>11, EndedMarks
  <2> QED
    BY <2>1, <2>2 DEF KeptMarks
<1>17. MovesAsLogged(new)
  BY <1>1, <1>2, <1>7, NothingMoves, MovesShift DEF MovesAsLogged, Directed
<1>18. new.undoOf = 0 => MovesAsLogged(new)
  BY <1>17
<1>19. MarkersInv'
  BY <1>8, <1>15, <1>16, <1>18, MarkersStep DEF id
<1>20. \A k \in DOMAIN log : ~Undone(k)
  BY <1>8 DEF Appends, Undone
<1> QED
  BY <1>19, <1>20

\* Consuming.
LEMMA ConsumeFits ==
  ASSUME UndoInv, UndoInv', MarkersInv, NEW r \in Reservation, NEW quantity \in 1 .. MaxQuantity,
         NEW noted \in BOOLEAN, ConsumeReservation(r, quantity, noted)
  PROVE  MarkersInv' /\ \A k \in DOMAIN log : ~Undone(k)
<1> DEFINE id    == Len(log) + 1
           d     == DrawnRows(stockRows, quantity, ActiveOf(stockRows, r))
           at(l) == { j \in DOMAIN stockRows : stockRows[j].place = l }
           e     == ReservationEntry("CONSUME", quantity, "consume", r)
           new   == [e EXCEPT !.moved = Change]
<1>1. /\ stockRows \in Seq(Row(Location, StockStatus)) /\ stockRows' \in Seq(Row(Location, StockStatus))
      /\ log \in Seq(LogEntry) /\ onHand \in [Location -> Nat] /\ quantity \in Nat \ {0}
      /\ IsFiniteSet(Location)
  BY RowsAssumption, Sets DEF UndoInv, RowsBase, RowsTypeOK, StateTypeOK
<1>2. /\ MayLog /\ incomingRows' = incomingRows /\ Logged(e)
      /\ quantity <= Total(ActiveStock[r])
      /\ onHand' = Minus(onHand, [l \in Location |->
                            Total([i \in { j \in DOMAIN d : stockRows[j].place = l } |-> d[i]])])
      /\ stockRows' = Drain(stockRows, d, Ended(stockRows, "CONSUMED", id, noted))
  BY DEF ConsumeReservation
<1>3. id \in 0 .. MaxLog /\ id \in Nat /\ id > Len(log) /\ Len(log) \in Nat
  <2>1. Len(log) \in Nat
    BY <1>1, LenProperties
  <2> QED
    BY <1>2, <2>1, Sets DEF MayLog
<1>4. Unmarked(stockRows, id)
  BY <1>3 DEF MarkersInv
<1>5. Total(ActiveStock[r]) \in Nat
  BY <1>1, SupplyTypes, TotalType DEF UndoInv, RowsBase
<1>6. d \in [DOMAIN stockRows -> Nat]
  <2> DEFINE ids == ActiveOf(stockRows, r)
  <2>1. ids \in SUBSET (DOMAIN stockRows)
    BY DEF ActiveOf
  <2>2. stockRows \in Seq(Row(Location, StockStatus)) /\ quantity \in Nat
    BY <1>1
  <2> HIDE DEF ids
  <2>3. DrawnRows(stockRows, quantity, ids) \in [DOMAIN stockRows -> Nat]
    BY <2>1, <2>2, DrawnRowsFacts
  <2> QED
    BY <2>3 DEF ids
<1>7. /\ new.op = "CONSUME" /\ new.quantity = quantity
      /\ new.from = NoLocation /\ new.to = NoLocation
      /\ new.context = "consume" /\ new.reservation = r
      /\ new.undoOf = 0 /\ ~new.undone /\ new.moved = Change
  BY ReservationFields
<1> HIDE DEF e
<1>8. Appends(new, {})
  BY <1>1, <1>2, LoggedAppends
<1> HIDE DEF new, id
<1>9. TakenAndEnded(Location, StockStatus, stockRows, r, quantity, "CONSUMED", id, noted, stockRows')
  BY <1>1, <1>2, <1>3 DEF TakenAndEnded, StockStatus
<1>10. "CONSUMED" \in {"RELEASED", "CONSUMED"}
  OBVIOUS
<1>11. QuantityOf(stockRows', MarkedRows(stockRows', r, "CONSUMED", id)) = quantity
  <2>1. QuantityOf(stockRows', MarkedRows(stockRows', r, "CONSUMED", id))
          = Smaller(quantity, Total(Sums(stockRows, Location)[r]))
    BY <1>1, <1>4, <1>9, <1>10, EndedQuantity
  <2>2. ActiveStock = Sums(stockRows, Location)
    BY SumsOf
  <2>3. Smaller(quantity, Total(ActiveStock[r])) = quantity
    BY <1>1, <1>2, <1>5 DEF Smaller
  <2> QED
    BY <2>1, <2>2, <2>3
<1>12. ASSUME NEW l \in Location
       PROVE  /\ Change[l]
                  = -QuantityOf(stockRows', MarkedIds(stockRows', r, "CONSUMED", id, {l}))
  <2> DEFINE taken == Total([i \in { j \in DOMAIN d : stockRows[j].place = l } |-> d[i]])
             q     == QuantityOf(stockRows', MarkedIds(stockRows', r, "CONSUMED", id, {l}))
  <2>1. q = Total(Part(d, { i \in DOMAIN stockRows : stockRows[i].place \in {l} }))
    BY <1>4, <1>9, <1>10, EndedMarks
  <2>2. { i \in DOMAIN stockRows : stockRows[i].place \in {l} } = at(l)
    OBVIOUS
  <2>3. { j \in DOMAIN d : stockRows[j].place = l } = at(l)
    BY <1>6
  <2>4. Total([i \in at(l) |-> d[i]]) = Total(Part(d, at(l)))
    <3> DEFINE S == DOMAIN stockRows
               A == at(l)
    <3>1. d \in [S -> Nat] /\ A \in SUBSET S
      BY <1>6
    <3> HIDE DEF S, A, d
    <3>2. Total([i \in A |-> d[i]]) = Total(Part(d, A))
      BY <3>1, TotalOfPart
    <3> QED
      BY <3>2 DEF A
  <2> HIDE DEF d, at
  <2>5. taken = q
    BY <2>1, <2>2, <2>3, <2>4
  <2>6. Total(Part(d, at(l))) \in Nat
    <3> DEFINE D == DOMAIN stockRows
               A == at(l)
    <3>1. IsFiniteSet(D)
      BY <1>1, RowFields
    <3>2. d \in [D -> Nat]
      BY <1>6
    <3> HIDE DEF D, A
    <3>3. Part(d, A) \in [D -> Nat]
      BY <3>2, PartType
    <3>4. Total(Part(d, A)) \in Nat
      BY <3>1, <3>3, TotalType
    <3> QED
      BY <3>4 DEF A
  <2>7. q \in Nat
    BY <2>1, <2>2, <2>6
  <2>8. onHand'[l] = onHand[l] - taken
    BY <1>1, <1>2 DEF Minus
  <2>9. Change[l] = onHand'[l] - onHand[l]
    BY DEF Change
  <2>10. onHand[l] \in Nat
    BY <1>1
  <2> HIDE DEF taken, q
  <2>11. Change[l] = -q
    <3> DEFINE a == onHand[l]
               b == onHand'[l]
               c == Change[l]
    <3>1. a \in Nat /\ q \in Nat /\ b = a - q /\ c = b - a
      BY <2>5, <2>7, <2>8, <2>9, <2>10
    <3> HIDE DEF a, b, c
    <3>2. c = -q
      BY <3>1
    <3> QED
      BY <3>2 DEF c
  <2> QED
    BY <2>11 DEF q
<1>13. MarkersFit(new, id, stockRows', incomingRows')
  BY <1>7, <1>11, <1>12 DEF MarkersFit
<1>14. \A k \in Nat \ {0} : k \notin {} /\ k # id => KeptMarks(k)
  <2> SUFFICES ASSUME NEW k \in Nat \ {0}, k # id PROVE KeptMarks(k)
    OBVIOUS
  <2>1. KeepsMarks(stockRows, stockRows', k)
    BY <1>4, <1>9, <1>10, EndedMarks
  <2>2. KeepsMarks(incomingRows, incomingRows', k)
    BY <1>2, SameKeepMarks
  <2> QED
    BY <2>1, <2>2 DEF KeptMarks
<1>15. new.undoOf = 0 => MovesAsLogged(new)
  BY <1>7 DEF MovesAsLogged, Directed
<1>16. MarkersInv'
  BY <1>8, <1>13, <1>14, <1>15, MarkersStep DEF id
<1>17. \A k \in DOMAIN log : ~Undone(k)
  BY <1>8 DEF Appends, Undone
<1> QED
  BY <1>16, <1>17

-----------------------------------------------------------------------------
(* What an undone call did to the ledger, its undo takes back.             *)

CallsReversed == \A k \in DOMAIN log : Undone(k) /\ log[k].undoOf = 0 => Reverses(k)

\* Moving part of what was moved back is a reversal.
LEMMA ShiftReversed ==
  ASSUME NEW k, log[k].quantity \in Nat, NEW n, n \in Nat, n <= log[k].quantity,
         log[k].moved = Shift(log[k].from, log[k].to, log[k].quantity),
         log[k].from # log[k].to \/ log[k].from \notin Location,
         Moves(log[k].to, log[k].from, n)
  PROVE  Reverses(k)
<1> DEFINE from == log[k].from
           to   == log[k].to
           q    == log[k].quantity
<1> SUFFICES ASSUME NEW l \in Location
             PROVE  IF log[k].moved[l] >= 0
                    THEN -log[k].moved[l] <= onHand'[l] - onHand[l] /\ onHand'[l] - onHand[l] <= 0
                    ELSE 0 <= onHand'[l] - onHand[l] /\ onHand'[l] - onHand[l] <= -log[k].moved[l]
  BY DEF Reverses
<1> DEFINE did == log[k].moved[l]
           now == onHand'[l] - onHand[l]
<1>1. /\ did = (IF l = to THEN q ELSE 0) - (IF l = from THEN q ELSE 0)
      /\ now = (IF l = from THEN n ELSE 0) - (IF l = to THEN n ELSE 0)
      /\ ~(l = from /\ l = to) /\ q \in Nat /\ n \in Nat /\ n <= q
  BY DEF Shift, Moves
<1> HIDE DEF did, now, from, to, q
<1>2. IF did >= 0 THEN -did <= now /\ now <= 0 ELSE 0 <= now /\ now <= -did
  <2>1. CASE l = to
    BY <1>1, <2>1
  <2>2. CASE l = from
    BY <1>1, <2>2
  <2>3. CASE l # to /\ l # from
    BY <1>1, <2>3
  <2> QED
    BY <2>1, <2>2, <2>3
<1> QED
  BY <1>2 DEF did, now

\* An undo that moves stock back, unless what it undoes is itself an undo.
LEMMA UndoShifts ==
  ASSUME UndoInv, UndoInv', MarkersInv, NEW k, NEW undone, Undoable(k, undone),
         NEW op, NEW q, NEW from, NEW to, Compensated(k, Entry(op, q, from, to)),
         \A j \in Nat \ {0} : j # k => KeptMarks(j),
         log[k].undoOf = 0 =>
           /\ log[k].context # "consume"
           /\ log[k].from # log[k].to \/ log[k].from \notin Location
           /\ \E n \in Nat : n <= log[k].quantity /\ Moves(log[k].to, log[k].from, n)
  PROVE  MarkersInv' /\ CallsReversed
<1>1. MarkersInv' /\ \A j \in DOMAIN log : Undone(j) => j = k
  BY UndoFits
<1>2. log[k].quantity \in Nat /\ k \in DOMAIN log
  BY UndoneEntry DEF Undoable
<1>3. ASSUME log[k].undoOf = 0 PROVE Reverses(k)
  <2>1. MovesAsLogged(log[k])
    BY <1>2, <1>3 DEF MarkersInv
  <2>2. log[k].moved = Shift(log[k].from, log[k].to, log[k].quantity)
    BY <1>3, <2>1 DEF MovesAsLogged
  <2>3. PICK n \in Nat : n <= log[k].quantity /\ Moves(log[k].to, log[k].from, n)
    BY <1>3
  <2> QED
    BY <1>2, <1>3, <2>2, <2>3, ShiftReversed
<1> QED
  BY <1>1, <1>3 DEF CallsReversed

\* Where an entry that is no undo points.
LEMMA DirectedEntry ==
  ASSUME UndoInv, MarkersInv, NEW k, NEW op, Undoable(k, op), log[k].undoOf = 0
  PROVE  Directed(log[k]) /\ log[k].op = op
BY DEF MarkersInv, MovesAsLogged, Undoable

\* The undos of inventory calls.
LEMMA LedgerUndoFits ==
  ASSUME UndoInv, UndoInv', MarkersInv, NEW k,
         UndoMove(k) \/ UndoIncrease(k) \/ UndoDecrease(k) \/ UndoConsumption(k)
  PROVE  MarkersInv' /\ CallsReversed
<1>1. onHand \in [Location -> Nat] /\ NoLocation \notin Location
  BY RowsAssumption DEF UndoInv, RowsBase, StateTypeOK
<1>2. \A j \in Nat \ {0} : j # k => KeptMarks(j)
  <2>1. ReservationStateUnchanged
    BY DEF UndoMove, UndoIncrease, UndoDecrease, UndoConsumption
  <2>2. stockRows' = stockRows /\ incomingRows' = incomingRows
    BY <2>1 DEF ReservationStateUnchanged
  <2> QED
    BY <2>2, SameKeepMarks DEF KeptMarks
<1>3. CASE UndoMove(k)
  <2> DEFINE n == Returnable(k)
             a == log[k].to
             b == log[k].from
  <2>1. /\ Undoable(k, "MOVE") /\ n > 0
        /\ onHand' = [onHand EXCEPT ![a] = @ - n, ![b] = @ + n]
        /\ Compensated(k, Entry("MOVE", n, a, b))
    BY <1>3 DEF UndoMove
  <2>2. a \in Location /\ b \in Location
    BY <2>1, UndoneEntry DEF EntryOK
  <2>3. n \in Nat \ {0} /\ n <= log[k].quantity
    BY <2>1, <2>2, ReturnableFacts
  <2>4. ASSUME log[k].undoOf = 0 PROVE log[k].context # "consume" /\ a # b
    BY <2>1, <2>4, DirectedEntry DEF Directed
  <2> HIDE DEF n
  <2>5. a # b => Moves(a, b, n)
    <3> HIDE DEF a, b
    <3> QED BY <1>1, <2>1, <2>2, <2>3 DEF Moves
  <2>6. log[k].undoOf = 0 =>
          /\ log[k].context # "consume"
          /\ b # a \/ b \notin Location
          /\ \E m \in Nat : m <= log[k].quantity /\ Moves(a, b, m)
    BY <2>3, <2>4, <2>5
  <2> QED
    BY <1>2, <2>1, <2>6, UndoShifts
<1>4. CASE UndoIncrease(k)
  <2> DEFINE n == Returnable(k)
             a == log[k].to
  <2>1. /\ Undoable(k, "ADJUST") /\ a # NoLocation /\ n > 0
        /\ onHand' = [onHand EXCEPT ![a] = @ - n]
        /\ Compensated(k, Entry("ADJUST", n, a, NoLocation))
    BY <1>4 DEF UndoIncrease
  <2>2. a \in Location
    BY <2>1, UndoneEntry DEF LogEntry
  <2>3. n \in Nat \ {0} /\ n <= log[k].quantity
    BY <2>1, <2>2, ReturnableFacts
  <2>4. ASSUME log[k].undoOf = 0 PROVE log[k].context # "consume" /\ log[k].from = NoLocation
    BY <2>1, <2>4, DirectedEntry DEF Directed
  <2> HIDE DEF n
  <2>5. Moves(a, NoLocation, n)
    <3> HIDE DEF a
    <3> QED BY <1>1, <2>1, <2>2, <2>3 DEF Moves
  <2>6. log[k].undoOf = 0 =>
          /\ log[k].context # "consume"
          /\ log[k].from # a \/ log[k].from \notin Location
          /\ \E m \in Nat : m <= log[k].quantity /\ Moves(a, log[k].from, m)
    BY <1>1, <2>3, <2>4, <2>5
  <2> QED
    BY <1>2, <2>1, <2>6, UndoShifts
<1>5. CASE UndoDecrease(k)
  <2> DEFINE n == log[k].quantity
             a == log[k].from
  <2>1. /\ Undoable(k, "ADJUST") /\ log[k].to = NoLocation
        /\ onHand' = [onHand EXCEPT ![a] = @ + n]
        /\ Compensated(k, Entry("ADJUST", n, NoLocation, a))
    BY <1>5 DEF UndoDecrease
  <2>2. a \in Location /\ n \in Nat \ {0}
    BY <1>1, <2>1, UndoneEntry DEF EntryOK
  <2>3. ASSUME log[k].undoOf = 0 PROVE log[k].context # "consume"
    BY <2>1, <2>3, DirectedEntry DEF Directed
  <2>4. Moves(NoLocation, a, n)
    <3> HIDE DEF a, n
    <3> QED BY <1>1, <2>1, <2>2 DEF Moves
  <2>5. log[k].undoOf = 0 =>
          /\ log[k].context # "consume"
          /\ a # log[k].to \/ a \notin Location
          /\ \E m \in Nat : m <= n /\ Moves(log[k].to, a, m)
    BY <1>1, <2>1, <2>2, <2>3, <2>4
  <2> QED
    BY <1>2, <2>1, <2>5, UndoShifts
<1>6. CASE UndoConsumption(k)
  <2> DEFINE n == log[k].quantity
             a == Shelf(k)
  <2>1. /\ Undoable(k, "CONSUME") /\ log[k].context # "consume"
        /\ onHand' = [onHand EXCEPT ![a] = @ + n]
        /\ Compensated(k, Entry("ADJUST", n, NoLocation, a))
    BY <1>6 DEF UndoConsumption
  <2>2. n \in Nat \ {0}
    BY <2>1, UndoneEntry
  <2>3. ASSUME log[k].undoOf = 0
        PROVE  /\ log[k].from \in Location /\ log[k].to = NoLocation
               /\ Moves(log[k].to, log[k].from, n)
    <3>1. log[k].from \in Location /\ log[k].to = NoLocation
      BY <2>1, <2>3, DirectedEntry DEF Directed
    <3>2. a = log[k].from
      BY <1>1, <3>1 DEF Shelf
    <3> HIDE DEF a, n
    <3>3. Moves(NoLocation, a, n)
      BY <1>1, <2>1, <2>2, <3>1, <3>2 DEF Moves
    <3> QED
      BY <3>1, <3>2, <3>3
  <2>4. log[k].undoOf = 0 =>
          /\ log[k].context # "consume"
          /\ log[k].from # log[k].to \/ log[k].from \notin Location
          /\ \E m \in Nat : m <= n /\ Moves(log[k].to, log[k].from, m)
    BY <1>1, <2>1, <2>2, <2>3
  <2> QED
    BY <1>2, <2>1, <2>4, UndoShifts
<1> QED
  BY <1>3, <1>4, <1>5, <1>6

\* The undo of a release, and that of a creation, move no stock.
LEMMA NothingReversed ==
  ASSUME UndoInv, UndoInv', MarkersInv, NEW k, Undoable(k, "RESERVE"),
         log[k].context \in {"create", "release"}, onHand' = onHand,
         NEW op, NEW q, NEW from, NEW to, Compensated(k, Entry(op, q, from, to)),
         \A j \in Nat \ {0} : j # k => KeptMarks(j)
  PROVE  MarkersInv' /\ CallsReversed
<1>1. onHand \in [Location -> Nat] /\ NoLocation \notin Location
  BY RowsAssumption DEF UndoInv, RowsBase, StateTypeOK
<1>2. log[k].quantity \in Nat
  BY UndoneEntry
<1>3. ASSUME log[k].undoOf = 0 PROVE log[k].from = NoLocation /\ log[k].to = NoLocation
  BY <1>3, DirectedEntry DEF Directed
<1>4. Moves(NoLocation, NoLocation, 0)
  BY <1>1, NothingMoves
<1>5. 0 \in Nat /\ 0 <= log[k].quantity
  BY <1>2
<1>6. log[k].undoOf = 0 =>
        /\ log[k].context # "consume"
        /\ log[k].from # log[k].to \/ log[k].from \notin Location
        /\ \E n \in Nat : n <= log[k].quantity /\ Moves(log[k].to, log[k].from, n)
  BY <1>1, <1>3, <1>4, <1>5
<1> QED
  BY <1>6, UndoShifts

LEMMA UndoReleaseFits ==
  ASSUME UndoInv, UndoInv', MarkersInv, NEW k, UndoRelease(k)
  PROVE  MarkersInv' /\ CallsReversed
<1> DEFINE r == log[k].reservation
<1>1. /\ Undoable(k, "RESERVE") /\ log[k].context = "release" /\ onHand' = onHand
      /\ stockRows' = Restored(stockRows, r, MarkedRows(stockRows, r, "RELEASED", k))
      /\ incomingRows' = Restored(incomingRows, r, MarkedRows(incomingRows, r, "RELEASED", k))
      /\ Compensated(k, Entry("RESERVE", log[k].quantity, NoLocation, NoLocation))
  BY DEF UndoRelease
<1>2. /\ stockRows \in Seq(Row(Location, StockStatus))
      /\ incomingRows \in Seq(Row(Source, IncomingStatus))
      /\ "ACTIVE" \in StockStatus /\ "DELETED" \in StockStatus
      /\ "ACTIVE" \in IncomingStatus /\ "DELETED" \in IncomingStatus
  BY DEF UndoInv, RowsBase, RowsTypeOK, StockStatus, IncomingStatus
<1> HIDE DEF r
<1>3. \A j \in Nat \ {0} : j # k => KeptMarks(j)
  <2> SUFFICES ASSUME NEW j, j # k PROVE KeptMarks(j)
    OBVIOUS
  <2>1. "RELEASED" # "ACTIVE"
    OBVIOUS
  <2>2. KeepsMarks(stockRows, stockRows', j)
    BY <1>1, <1>2, <2>1, RestoredKeepsMarks
  <2>3. KeepsMarks(incomingRows, incomingRows', j)
    BY <1>1, <1>2, <2>1, RestoredKeepsMarks
  <2> QED
    BY <2>2, <2>3 DEF KeptMarks
<1> QED
  BY <1>1, <1>3, NothingReversed

LEMMA UndoCreateFits ==
  ASSUME UndoInv, UndoInv', MarkersInv, NEW k, UndoCreate(k)
  PROVE  MarkersInv' /\ CallsReversed
<1> DEFINE r == log[k].reservation
<1>1. /\ Undoable(k, "RESERVE") /\ log[k].context = "create" /\ onHand' = onHand
      /\ stockRows' = ReleasedRows(stockRows, r) /\ incomingRows' = ReleasedRows(incomingRows, r)
      /\ Compensated(k, Entry("RESERVE", log[k].quantity, NoLocation, NoLocation))
  BY DEF UndoCreate
<1>2. /\ stockRows \in Seq(Row(Location, StockStatus))
      /\ incomingRows \in Seq(Row(Source, IncomingStatus))
  BY DEF UndoInv, RowsBase, RowsTypeOK
<1> HIDE DEF r
<1>3. \A j \in Nat \ {0} : j # k => KeptMarks(j)
  BY <1>1, <1>2, ReleasedKeepsMarks DEF KeptMarks
<1> QED
  BY <1>1, <1>3, NothingReversed

\* The undo of a consumption puts back, location by location, what the marked
\* rows say was taken.
LEMMA UndoReservationConsumeFits ==
  ASSUME UndoInv, UndoInv', MarkersInv, NEW k, UndoReservationConsume(k)
  PROVE  MarkersInv' /\ CallsReversed
<1> DEFINE r   == log[k].reservation
           ids == MarkedRows(stockRows, r, "CONSUMED", k)
           x(l) == QuantityOf(stockRows, MarkedIds(stockRows, r, "CONSUMED", k, {l}))
<1>1. /\ Undoable(k, "CONSUME") /\ log[k].context = "consume"
      /\ onHand' = [l \in Location |->
                      onHand[l] + QuantityOf(stockRows, { i \in ids : stockRows[i].place = l })]
      /\ stockRows' = Restored(stockRows, r, ids) /\ incomingRows' = incomingRows
      /\ Compensated(k, Entry("CONSUME", log[k].quantity, NoLocation, NoLocation))
  BY DEF UndoReservationConsume
<1>2. /\ stockRows \in Seq(Row(Location, StockStatus)) /\ onHand \in [Location -> Nat]
      /\ "ACTIVE" \in StockStatus /\ "DELETED" \in StockStatus
  BY DEF UndoInv, RowsBase, RowsTypeOK, StateTypeOK, StockStatus
<1>3. \A l \in Location : log[k].moved[l] = -x(l)
  <2>1. k \in DOMAIN log /\ ~log[k].undone
    BY <1>1 DEF Undoable
  <2> QED
    BY <1>1, <2>1 DEF MarkersInv, MarkersFit
<1> HIDE DEF r
<1>4. ASSUME NEW l \in Location PROVE onHand'[l] = onHand[l] + x(l) /\ x(l) \in Nat
  <2>1. { i \in ids : stockRows[i].place = l } = MarkedIds(stockRows, r, "CONSUMED", k, {l})
    BY DEF MarkedIds
  <2>2. MarkedIds(stockRows, r, "CONSUMED", k, {l}) \subseteq DOMAIN stockRows
    BY DEF MarkedIds, MarkedRows
  <2>3. x(l) \in Nat
    BY <1>2, <2>2, QuantityFacts
  <2> HIDE DEF ids
  <2> QED
    BY <1>1, <2>1, <2>3
<1> HIDE DEF x
<1>5. Reverses(k)
  <2> SUFFICES ASSUME NEW l \in Location
               PROVE  IF log[k].moved[l] >= 0
                      THEN /\ -log[k].moved[l] <= onHand'[l] - onHand[l]
                           /\ onHand'[l] - onHand[l] <= 0
                      ELSE /\ 0 <= onHand'[l] - onHand[l]
                           /\ onHand'[l] - onHand[l] <= -log[k].moved[l]
    BY DEF Reverses
  <2> DEFINE a == onHand[l]
             b == onHand'[l]
             c == log[k].moved[l]
             y == x(l)
  <2>1. a \in Nat /\ y \in Nat /\ b = a + y /\ c = -y
    BY <1>2, <1>3, <1>4
  <2> HIDE DEF a, b, c, y
  <2>2. IF c >= 0 THEN -c <= b - a /\ b - a <= 0 ELSE 0 <= b - a /\ b - a <= -c
    BY <2>1
  <2> QED
    BY <2>2 DEF a, b, c
<1>6. \A j \in Nat \ {0} : j # k => KeptMarks(j)
  <2> SUFFICES ASSUME NEW j, j # k PROVE KeptMarks(j)
    OBVIOUS
  <2>1. "CONSUMED" # "ACTIVE"
    OBVIOUS
  <2>2. KeepsMarks(stockRows, stockRows', j)
    BY <1>1, <1>2, <2>1, RestoredKeepsMarks
  <2>3. KeepsMarks(incomingRows, incomingRows', j)
    BY <1>1, SameKeepMarks
  <2> QED
    BY <2>2, <2>3 DEF KeptMarks
<1>7. MarkersInv' /\ \A j \in DOMAIN log : Undone(j) => j = k
  BY <1>1, <1>6, UndoFits
<1> QED
  BY <1>5, <1>7 DEF CallsReversed

\* The undo of an arrival takes back what is left of it.
LEMMA UndoArrivalFits ==
  ASSUME UndoInv, UndoInv', MarkersInv, NEW k, UndoArrival(k)
  PROVE  MarkersInv' /\ CallsReversed
<1> DEFINE n  == Returnable(k)
           to == log[k].to
<1>1. /\ Undoable(k, "ARRIVAL") /\ n > 0
      /\ onHand' = [onHand EXCEPT ![to] = @ - n]
      /\ Compensated(k, Entry("CONSUME", n, to, NoLocation))
  BY DEF UndoArrival
<1>2. onHand \in [Location -> Nat] /\ NoLocation \notin Location
  BY RowsAssumption DEF UndoInv, RowsBase, StateTypeOK
<1>3. to \in Location
  BY <1>1, UndoneEntry DEF EntryOK
<1>4. n \in Nat \ {0} /\ n <= log[k].quantity
  BY <1>1, <1>3, ReturnableFacts
<1>5. \A j \in Nat \ {0} : j # k => KeptMarks(j)
  <2>1. CASE log[k].order # NoOrder
    <3> DEFINE moved == MovedIds(stockRows, incomingRows, k, n)
               back  == Returned(stockRows, incomingRows, k, n)
               h     == From(stockRows, incomingRows, k, n)
    <3>1. PICK target \in Order : RestoreBacking(k, n, target)
      BY <2>1 DEF UndoArrival
    <3>2. /\ stockRows \in Seq(Row(Location, StockStatus))
          /\ incomingRows \in Seq(Row(Source, IncomingStatus))
          /\ Linked(stockRows, incomingRows, Len(log)) /\ target \in Source
      BY DEF UndoInv, RowsBase, RowsTypeOK, Source
    <3> HIDE DEF n
    <3>3. Returns(stockRows, incomingRows, moved, back, h)
      BY <1>4, <3>2, MarkersReturn
    <3>4. /\ stockRows' = StockLess(stockRows, moved, back, h)
          /\ incomingRows' = IncomingMore(incomingRows, moved, back, target)
      BY <3>1, RestoreBackingIs
    <3> HIDE DEF moved, back, h
    <3> SUFFICES ASSUME NEW j \in Nat \ {0} PROVE KeptMarks(j)
      OBVIOUS
    <3>5. KeepsMarks(stockRows, stockRows', j)
      BY <3>3, <3>4, StockLessKeepsMarks
    <3>6. KeepsMarks(incomingRows, incomingRows', j)
      BY <3>2, <3>3, <3>4, IncomingMoreKeepsMarks
    <3> QED
      BY <3>5, <3>6 DEF KeptMarks
  <2>2. CASE log[k].order = NoOrder
    <3>1. stockRows' = stockRows /\ incomingRows' = incomingRows
      BY <2>2 DEF UndoArrival
    <3> QED
      BY <3>1, SameKeepMarks DEF KeptMarks
  <2> QED
    BY <2>1, <2>2
<1>6. ASSUME log[k].undoOf = 0 PROVE log[k].context # "consume" /\ log[k].from = NoLocation
  BY <1>1, <1>6, DirectedEntry DEF Directed
<1> HIDE DEF n
<1>7. Moves(to, NoLocation, n)
  <2> HIDE DEF to
  <2> QED BY <1>1, <1>2, <1>3, <1>4 DEF Moves
<1>8. log[k].undoOf = 0 =>
        /\ log[k].context # "consume"
        /\ log[k].from # to \/ log[k].from \notin Location
        /\ \E m \in Nat : m <= log[k].quantity /\ Moves(to, log[k].from, m)
  BY <1>2, <1>4, <1>6, <1>7
<1> QED
  BY <1>1, <1>5, <1>8, UndoShifts

\* Every step keeps what log and marks say, and what it undoes it reverses.
LEMMA MarkersStepAll ==
  ASSUME UndoInv, UndoInv', MarkersInv,
         [ReservationNext \/ ArrivalNext \/ DirectNext \/ UndoNext]_vars
  PROVE  MarkersInv' /\ CallsReversed
<1>1. CASE UNCHANGED vars
  <2>1. stockRows' = stockRows /\ incomingRows' = incomingRows /\ log' = log
    BY <1>1 DEF vars
  <2> QED
    BY <2>1 DEF MarkersInv, CallsReversed, Undone
<1>2. CASE ReservationNext
  <2>1. NoteGiven \subseteq BOOLEAN
    BY RowsAssumption
  <2>2. MarkersInv' /\ \A k \in DOMAIN log : ~Undone(k)
    BY <1>2, <2>1, CreateFits, ReleaseFits, ConsumeFits DEF ReservationNext
  <2> QED
    BY <2>2 DEF CallsReversed
<1>3. CASE ArrivalNext
  BY <1>3, ArrivalFits DEF CallsReversed
<1>4. CASE DirectNext
  BY <1>4, DirectFits DEF DirectNext, CallsReversed
<1>5. CASE UndoNext
  <2>1. PICK k : \/ UndoMove(k) \/ UndoIncrease(k) \/ UndoDecrease(k) \/ UndoConsumption(k)
                 \/ UndoRelease(k) \/ UndoReservationConsume(k) \/ UndoCreate(k)
                 \/ UndoArrival(k)
    BY <1>5 DEF UndoNext
  <2> QED
    BY <2>1, LedgerUndoFits, UndoReleaseFits, UndoReservationConsumeFits, UndoCreateFits,
       UndoArrivalFits
<1> QED
  BY <1>1, <1>2, <1>3, <1>4, <1>5

LEMMA MarkersInvariant == UndoSpec => [](UndoInv /\ MarkersInv)
<1>1. Init => MarkersInv
  <2>1. Init => DOMAIN log = {} /\ DOMAIN stockRows = {} /\ DOMAIN incomingRows = {}
    BY DEF Init
  <2> QED
    BY <2>1 DEF MarkersInv, Unmarked
<1>2. UndoInv /\ UndoInv' /\ MarkersInv
        /\ [ReservationNext \/ ArrivalNext \/ DirectNext \/ UndoNext]_vars => MarkersInv'
  BY MarkersStepAll
<1> QED
  BY <1>1, <1>2, UndoInvariant, PTL DEF UndoSpec

\* The rows marked by a release or a consumption add up to its log entry for
\* as long as it is not undone: no later call, split, merge or undo makes that
\* undo fail or give back another quantity.
THEOREM UndoMarkersMatchLog == UndoSpec => []MarkersMatchLog
<1>1. MarkersInv => MarkersMatchLog
  BY DEF MarkersInv, MarkersFit, MarkersMatchLog
<1> QED
  BY <1>1, MarkersInvariant, PTL

\* The undo of a call takes back, location by location, at most what the call
\* did there, in the opposite direction, whatever was called and undone since.
THEOREM UndoIsReversal == UndoSpec => UndoReverses
<1>1. UndoInv /\ UndoInv' /\ MarkersInv
        /\ [ReservationNext \/ ArrivalNext \/ DirectNext \/ UndoNext]_vars => CallsReversed
  BY MarkersStepAll
<1>2. CallsReversed <=> (\A k \in DOMAIN log : Undone(k) /\ log[k].undoOf = 0 => Reverses(k))
  BY DEF CallsReversed
<1> QED
  BY <1>1, <1>2, MarkersInvariant, PTL DEF UndoSpec, UndoReverses

-----------------------------------------------------------------------------
(* The snapshot of a past date.                                            *)

\* The locations an entry names, an undo's too, are those it moved stock
\* between; an entry that names none moved none, except a consumption by a
\* reservation and its undo, which is what TakenForGranted leaves out.
NamesMoves(e) ==
  /\ e.op = "CONSUME" => e.to = NoLocation
  /\ e.op = "ARRIVAL" => e.from = NoLocation
  /\ e.op \in {"MOVE", "ADJUST"} => e.from # e.to \/ e.from = NoLocation
  /\ e.op # "CONSUME" \/ e.from # NoLocation => e.moved = Shift(e.from, e.to, e.quantity)

\* The ledgers there were after each of the entries, none with a negative
\* quantity, the last of them the present one.
Ledgers(past, n, entries, ledger) ==
  /\ past \in [0 .. n -> [Location -> Nat]]
  /\ past[n] = ledger
  /\ \A k \in 1 .. n : \A l \in Location : past[k][l] = past[k - 1][l] + entries[k].moved[l]

SnapshotInv ==
  /\ \A k \in DOMAIN log : NamesMoves(log[k])
  /\ \E past : Ledgers(past, Len(log), log, onHand)

\* after is state with d added at l; nothing is lost unless it falls below 0.
Added(state, l, d, after) ==
  /\ after \in [Location -> Int]
  /\ \A m \in Location : m # l => after[m] = state[m]
  /\ l \in Location /\ state[l] + d >= 0 => after[l] = state[l] + d

LEMMA AppliedIs ==
  ASSUME NEW state, state \in [Location -> Int], NEW l, l \in Location, NEW d, d \in Int
  PROVE  Added(state, l, d, Applied(state, l, d)) /\ Applied(state, l, d) \in [Location -> Int]
<1> DEFINE v == IF state[l] + d > 0 THEN state[l] + d ELSE 0
<1>1. state[l] \in Int
  OBVIOUS
<1>2. v \in Int /\ (state[l] + d >= 0 => v = state[l] + d)
  BY <1>1
<1>3. Applied(state, l, d) = [state EXCEPT ![l] = v]
  BY DEF Applied
<1> HIDE DEF v
<1> QED
  BY <1>2, <1>3 DEF Added

LEMMA AppliedAtIs ==
  ASSUME NEW state, state \in [Location -> Int], NEW l, l \in Location \cup {NoLocation},
         NEW d, d \in Int
  PROVE  Added(state, l, d, AppliedAt(state, l, d)) /\ AppliedAt(state, l, d) \in [Location -> Int]
<1>1. CASE l = NoLocation
  BY <1>1, RowsAssumption DEF AppliedAt, Added
<1>2. CASE l # NoLocation
  BY <1>2, AppliedIs DEF AppliedAt
<1> QED
  BY <1>1, <1>2

\* state is before with q shifted from a to b.
Shifted(before, a, b, q, state) ==
  /\ a \in Location \cup {NoLocation} /\ b \in Location \cup {NoLocation}
  /\ a # b \/ a = NoLocation
  /\ q \in Nat /\ before \in [Location -> Nat] /\ state \in [Location -> Nat]
  /\ \A l \in Location : state[l] = before[l] + Shift(a, b, q)[l]

\* Taking back a shift, first where it went to, then where it came from.
LEMMA ShiftTakenBack ==
  ASSUME NEW a, NEW b, NEW q, NEW before, NEW state, Shifted(before, a, b, q, state)
  PROVE  AppliedAt(AppliedAt(state, b, -q), a, q) = before
<1> DEFINE mid == AppliedAt(state, b, -q)
           end == AppliedAt(mid, a, q)
<1>1. /\ a \in Location \cup {NoLocation} /\ b \in Location \cup {NoLocation}
      /\ a # b \/ a = NoLocation
      /\ q \in Int /\ -q \in Int /\ q >= 0
      /\ before \in [Location -> Int] /\ state \in [Location -> Int]
  BY DEF Shifted
<1>2. \A l \in Location : /\ state[l] \in Nat /\ before[l] \in Nat
                          /\ state[l] = before[l] + ((IF l = b THEN q ELSE 0)
                                                     - (IF l = a THEN q ELSE 0))
  BY DEF Shift, Shifted
<1>3. NoLocation \notin Location
  BY RowsAssumption
<1>4. Added(state, b, -q, mid) /\ mid \in [Location -> Int]
  BY <1>1, AppliedAtIs
<1> HIDE DEF mid
<1>5. Added(mid, a, q, end)
  BY <1>1, <1>4, AppliedAtIs
<1> HIDE DEF end
<1>6. ASSUME NEW l \in Location PROVE end[l] = before[l]
  <2>1. l = b => mid[l] = state[l] - q \/ state[l] - q < 0
    BY <1>1, <1>2, <1>4 DEF Added
  <2>2. l # b => mid[l] = state[l]
    BY <1>4 DEF Added
  <2>3. l = a => end[l] = mid[l] + q \/ mid[l] + q < 0
    BY <1>1, <1>4, <1>5 DEF Added
  <2>4. l # a => end[l] = mid[l]
    BY <1>5 DEF Added
  <2>5. l # a \/ l # b
    BY <1>1, <1>3
  <2>6. /\ state[l] \in Nat /\ before[l] \in Nat
        /\ state[l] = before[l] + ((IF l = b THEN q ELSE 0) - (IF l = a THEN q ELSE 0))
    BY <1>2
  <2> DEFINE s == state[l]
             t == before[l]
             m == mid[l]
             e == end[l]
  <2>7. /\ s \in Nat /\ t \in Nat /\ q \in Int /\ q >= 0
        /\ s = t + ((IF l = b THEN q ELSE 0) - (IF l = a THEN q ELSE 0))
        /\ l = b => m = s - q \/ s - q < 0
        /\ l # b => m = s
        /\ l = a => e = m + q \/ m + q < 0
        /\ l # a => e = m
    BY <1>1, <2>1, <2>2, <2>3, <2>4, <2>6
  <2> HIDE DEF s, t, m, e
  <2>8. e = t
    BY <2>5, <2>7
  <2> QED
    BY <2>8 DEF e, t
<1>7. end = before
  BY <1>1, <1>5, <1>6 DEF Added
<1> QED
  BY <1>7 DEF mid, end

\* The replay takes back what an entry it can take for granted did.
LEMMA RevertedIs ==
  ASSUME NEW e, e \in LogEntry, NamesMoves(e), TakenForGranted(e),
         NEW before, before \in [Location -> Nat], NEW state, state \in [Location -> Nat],
         \A l \in Location : state[l] = before[l] + e.moved[l]
  PROVE  Reverted(state, e) = before
<1> DEFINE a == e.from
           b == e.to
           q == e.quantity
<1>1. /\ a \in Location \cup {NoLocation} /\ b \in Location \cup {NoLocation} /\ q \in Nat
      /\ e.op \in {"RESERVE", "CONSUME", "ARRIVAL", "MOVE", "ADJUST"}
  BY DEF LogEntry
<1>2. NoLocation \notin Location /\ STOCK \in Location /\ RESERVED \in Location /\ STOCK # RESERVED
  BY RowsAssumption
<1>3. a # b \/ a = NoLocation
  BY <1>1, <1>2 DEF NamesMoves, TakenForGranted
<1>4. e.moved = Shift(a, b, q)
  BY <1>1 DEF NamesMoves, TakenForGranted
<1>5. \A l \in Location : state[l] = before[l] + Shift(a, b, q)[l]
  BY <1>4
<1>6. e.op = "CONSUME" => b = NoLocation
  BY DEF NamesMoves
<1>7. e.op = "ARRIVAL" => a = NoLocation /\ b = STOCK
  BY DEF NamesMoves, TakenForGranted
<1>8. e.op = "RESERVE" => a = STOCK /\ b = RESERVED
  BY DEF TakenForGranted
<1>9. Reverted(state, e) = AppliedAt(AppliedAt(state, b, -q), a, q)
  <2>1. CASE e.op \in {"MOVE", "ADJUST"}
    BY <2>1 DEF Reverted, BothEnds
  <2>2. CASE e.op = "CONSUME"
    BY <1>6, <2>2 DEF Reverted, AppliedAt
  <2>3. CASE e.op = "ARRIVAL"
    BY <1>2, <1>7, <2>3 DEF Reverted, AppliedAt
  <2>4. CASE e.op = "RESERVE"
    BY <1>2, <1>8, <2>4 DEF Reverted, AppliedAt
  <2> QED
    BY <1>1, <2>1, <2>2, <2>3, <2>4
<1>10. Shifted(before, a, b, q, state)
  BY <1>1, <1>3, <1>5 DEF Shifted
<1> HIDE DEF a, b, q
<1>11. AppliedAt(AppliedAt(state, b, -q), a, q) = before
  BY <1>10, ShiftTakenBack
<1> QED
  BY <1>9, <1>11

\* Whatever an entry says, taking it back leaves quantities.
LEMMA RevertedType ==
  ASSUME NEW e, e \in LogEntry, NEW state, state \in [Location -> Int]
  PROVE  Reverted(state, e) \in [Location -> Int]
<1> DEFINE a == e.from
           b == e.to
           q == e.quantity
<1>1. /\ a \in Location \cup {NoLocation} /\ b \in Location \cup {NoLocation}
      /\ q \in Int /\ -q \in Int
      /\ e.op \in {"RESERVE", "CONSUME", "ARRIVAL", "MOVE", "ADJUST"}
  BY DEF LogEntry
<1>2. STOCK \in Location /\ RESERVED \in Location
  BY RowsAssumption
<1> DEFINE X == [Location -> Int]
           L == Location \cup {NoLocation}
<1>3. /\ \A s \in X : \A l \in L : \A d \in Int : AppliedAt(s, l, d) \in X
      /\ state \in X /\ a \in L /\ b \in L
  BY <1>1, AppliedAtIs
<1>4. \A s \in X : \A l \in Location : \A d \in Int : Applied(s, l, d) \in X
  BY AppliedIs
<1> HIDE DEF a, b, q, X, L
<1>5. ASSUME e.op \in {"MOVE", "ADJUST"} PROVE Reverted(state, e) \in X
  <2>1. Reverted(state, e) = AppliedAt(AppliedAt(state, b, -q), a, q)
    BY <1>5 DEF Reverted, BothEnds, a, b, q
  <2> QED
    BY <1>1, <1>3, <2>1
<1>6. ASSUME e.op = "CONSUME" PROVE Reverted(state, e) \in X
  <2>1. Reverted(state, e) = AppliedAt(state, a, q)
    BY <1>6 DEF Reverted, a, q
  <2> QED
    BY <1>1, <1>3, <2>1
<1>7. ASSUME e.op = "ARRIVAL" PROVE Reverted(state, e) \in X
  <2>1. Reverted(state, e) = Applied(state, STOCK, -q)
    BY <1>7 DEF Reverted, q
  <2> QED
    BY <1>1, <1>2, <1>3, <1>4, <2>1
<1>8. ASSUME e.op = "RESERVE" PROVE Reverted(state, e) \in X
  <2>1. Reverted(state, e) = Applied(Applied(state, RESERVED, -q), STOCK, q)
    BY <1>8 DEF Reverted, q
  <2> QED
    BY <1>1, <1>2, <1>3, <1>4, <2>1
<1>9. Reverted(state, e) \in X
  BY <1>1, <1>5, <1>6, <1>7, <1>8
<1> QED
  BY <1>9 DEF X

\* The states of the replay, and the ledgers there were, as LET definitions
\* of PastSnapshot and LedgerAfter have them.
IsReplay(f) ==
  f = [n \in 0 .. Len(log) |->
         IF n = Len(log) THEN onHand ELSE Reverted(f[n + 1], log[n + 1])]

IsHistory(f) ==
  f = [n \in 0 .. Len(log) |->
         IF n = Len(log) THEN onHand
         ELSE [l \in Location |-> f[n + 1][l] - log[n + 1].moved[l]]]

LEMMA ReplayDefined ==
  ASSUME log \in Seq(LogEntry), onHand \in [Location -> Nat]
  PROVE  \E f : IsReplay(f)
<1> DEFINE n == Len(log)
           X == [Location -> Int]
           G == [k \in 1 .. n |-> [s \in X |-> Reverted(s, log[k])]]
<1>1. n \in Nat /\ \A k \in 1 .. n : log[k] \in LogEntry
  BY LenProperties, ElementOfSeq
<1>2. \A k \in 1 .. n : \A s \in X : Reverted(s, log[k]) \in X
  BY <1>1, RevertedType
<1>3. onHand \in X
  OBVIOUS
<1> HIDE DEF X
<1>4. \A k \in 1 .. n : G[k] \in [X -> X]
  BY <1>2
<1>5. \A k \in 1 .. n : \A s \in X : G[k][s] = Reverted(s, log[k])
  OBVIOUS
<1> HIDE DEF n, G
<1>51. StepsBack(n, X, G)
  BY <1>4 DEF StepsBack
<1>52. PICK f : StatesFrom(n, X, onHand, G, f)
  BY <1>1, <1>3, <1>51, StatesBack
<1>6. /\ f \in [0 .. n -> X] /\ f[n] = onHand
      /\ \A k \in 0 .. (n - 1) : f[k] = G[k + 1][f[k + 1]]
  BY <1>52 DEF StatesFrom
<1>7. ASSUME NEW k \in 0 .. n
      PROVE  f[k] = IF k = n THEN onHand ELSE Reverted(f[k + 1], log[k + 1])
  <2>1. CASE k = n
    BY <1>6, <2>1
  <2>2. CASE k # n
    <3>1. k \in 0 .. (n - 1) /\ k + 1 \in 1 .. n /\ k + 1 \in 0 .. n
      BY <1>1, <2>2
    <3>2. f[k + 1] \in X
      BY <1>6, <3>1
    <3>3. f[k] = G[k + 1][f[k + 1]]
      BY <1>6, <3>1
    <3>4. G[k + 1][f[k + 1]] = Reverted(f[k + 1], log[k + 1])
      BY <1>5, <3>1, <3>2
    <3> QED
      BY <2>2, <3>3, <3>4
  <2> QED
    BY <2>1, <2>2
<1>8. f = [k \in 0 .. n |-> IF k = n THEN onHand ELSE Reverted(f[k + 1], log[k + 1])]
  BY <1>6, <1>7
<1> QED
  BY <1>8 DEF IsReplay, n

LEMMA HistoryDefined ==
  ASSUME log \in Seq(LogEntry), NEW past, Ledgers(past, Len(log), log, onHand)
  PROVE  IsHistory(past)
<1> DEFINE n == Len(log)
<1>1. n \in Nat /\ \A k \in 1 .. n : log[k] \in LogEntry
  BY LenProperties, ElementOfSeq
<1>2. /\ past \in [0 .. n -> [Location -> Nat]] /\ past[n] = onHand
      /\ \A k \in 1 .. n : \A l \in Location : past[k][l] = past[k - 1][l] + log[k].moved[l]
  BY DEF Ledgers
<1>3. \A k \in 1 .. n : log[k].moved \in [Location -> Int]
  BY <1>1 DEF LogEntry, Delta
<1> HIDE DEF n
<1>4. ASSUME NEW k \in 0 .. n, k # n
      PROVE  past[k] = [l \in Location |-> past[k + 1][l] - log[k + 1].moved[l]]
  <2>1. k + 1 \in 1 .. n /\ k + 1 \in 0 .. n /\ (k + 1) - 1 = k
    BY <1>1, <1>4
  <2>2. past[k] \in [Location -> Nat] /\ past[k + 1] \in [Location -> Nat]
    BY <1>2, <2>1
  <2>3. ASSUME NEW l \in Location PROVE past[k][l] = past[k + 1][l] - log[k + 1].moved[l]
    <3>1. past[k + 1][l] = past[k][l] + log[k + 1].moved[l]
      BY <1>2, <2>1
    <3>2. log[k + 1].moved \in [Location -> Int]
      BY <1>3, <2>1
    <3> DEFINE a == past[k][l]
               b == past[k + 1][l]
               c == log[k + 1].moved[l]
    <3>3. a \in Nat /\ b \in Nat /\ c \in Int /\ b = a + c
      BY <2>2, <3>1, <3>2
    <3> HIDE DEF a, b, c
    <3>4. a = b - c
      BY <3>3
    <3> QED
      BY <3>4 DEF a, b, c
  <2> QED
    BY <2>2, <2>3
<1>5. past = [k \in 0 .. n |-> IF k = n THEN onHand
                               ELSE [l \in Location |-> past[k + 1][l] - log[k + 1].moved[l]]]
  BY <1>2, <1>4
<1> QED
  BY <1>5 DEF IsHistory, n

\* Where no entry since then is one the replay is wrong about, the snapshot
\* of a past date is the ledger of that date.
LEMMA SnapshotIsLedger ==
  ASSUME log \in Seq(LogEntry), onHand \in [Location -> Nat], SnapshotInv
  PROVE  PastSnapshotIsLedger
<1> DEFINE n       == Len(log)
           states  == CHOOSE f : IsReplay(f)
           history == CHOOSE f : IsHistory(f)
<1>1. /\ n \in Nat
      /\ \A k \in 1 .. n : log[k] \in LogEntry /\ log[k].moved \in [Location -> Int]
                           /\ NamesMoves(log[k])
  <2>1. DOMAIN log = 1 .. Len(log) /\ Len(log) \in Nat /\ \A k \in 1 .. Len(log) : log[k] \in LogEntry
    BY LenProperties, ElementOfSeq
  <2> QED
    BY <2>1 DEF SnapshotInv, LogEntry, Delta
<1>2. PICK past : Ledgers(past, n, log, onHand)
  BY DEF SnapshotInv
<1>3. IsReplay(states)
  BY ReplayDefined
<1>4. IsHistory(history)
  BY <1>2, HistoryDefined
<1>5. \A k : PastSnapshot(k) = states[k]
  BY DEF PastSnapshot, IsReplay
<1>6. \A k : LedgerAfter(k) = history[k]
  BY DEF LedgerAfter, IsHistory
<1> HIDE DEF states, history
<1>7. /\ past \in [0 .. n -> [Location -> Nat]] /\ past[n] = onHand
      /\ \A k \in 1 .. n : \A l \in Location : past[k][l] = past[k - 1][l] + log[k].moved[l]
  BY <1>2 DEF Ledgers
<1>8. IsHistory(past)
  BY <1>2, HistoryDefined
<1> HIDE DEF n
<1>9. SUFFICES ASSUME NEW k \in 0 .. n, \A j \in (k + 1) .. n : TakenForGranted(log[j])
               PROVE  states[k] = history[k]
  BY <1>5, <1>6 DEF PastSnapshotIsLedger, n
<1>10. states[k] = past[k]
  <2>1. states[n] = past[n]
    BY <1>1, <1>3, <1>7 DEF IsReplay, n
  <2>2. ASSUME NEW m \in k .. (n - 1), states[m + 1] = past[m + 1] PROVE states[m] = past[m]
    <3>1. /\ m \in 0 .. n /\ m # n /\ m + 1 \in 1 .. n /\ m + 1 \in 0 .. n /\ (m + 1) - 1 = m
          /\ m + 1 \in (k + 1) .. n
      BY <1>1
    <3>2. states[m] = Reverted(states[m + 1], log[m + 1])
      BY <1>3, <3>1 DEF IsReplay, n
    <3>3. past[m] \in [Location -> Nat] /\ past[m + 1] \in [Location -> Nat]
      BY <1>7, <3>1
    <3>4. \A l \in Location : past[m + 1][l] = past[m][l] + log[m + 1].moved[l]
      BY <1>7, <3>1
    <3>5. log[m + 1] \in LogEntry /\ NamesMoves(log[m + 1]) /\ TakenForGranted(log[m + 1])
      BY <1>1, <1>9, <3>1
    <3>6. Reverted(past[m + 1], log[m + 1]) = past[m]
      BY <3>3, <3>4, <3>5, RevertedIs
    <3> QED
      BY <2>2, <3>2, <3>6
  <2>3. AgreeBack(n, k, states, past)
    BY <2>1, <2>2 DEF AgreeBack
  <2> QED
    BY <1>1, <2>3, SameBack
<1>11. history[k] = past[k]
  <2>1. history[n] = past[n]
    BY <1>1, <1>4, <1>7 DEF IsHistory, n
  <2>2. ASSUME NEW m \in k .. (n - 1), history[m + 1] = past[m + 1] PROVE history[m] = past[m]
    <3>1. m \in 0 .. n /\ m # n
      BY <1>1
    <3>2. history[m] = [l \in Location |-> history[m + 1][l] - log[m + 1].moved[l]]
      BY <1>4, <3>1 DEF IsHistory, n
    <3>3. past[m] = [l \in Location |-> past[m + 1][l] - log[m + 1].moved[l]]
      BY <1>8, <3>1 DEF IsHistory, n
    <3> QED
      BY <2>2, <3>2, <3>3
  <2>3. AgreeBack(n, k, history, past)
    BY <2>1, <2>2 DEF AgreeBack
  <2> QED
    BY <1>1, <2>3, SameBack
<1> QED
  BY <1>10, <1>11

\* A step that appends one entry adds one ledger to those there were.
LEMMA LedgersGrow ==
  ASSUME UndoInv, UndoInv', SnapshotInv, NEW new, NEW ids, Appends(new, ids),
         new.moved = Change, NamesMoves(new)
  PROVE  SnapshotInv'
<1> DEFINE n == Len(log)
<1>1. /\ log \in Seq(LogEntry) /\ log' \in Seq(LogEntry)
      /\ onHand \in [Location -> Nat] /\ onHand' \in [Location -> Nat]
  BY DEF UndoInv, RowsBase, StateTypeOK
<1>2. /\ n \in Nat /\ DOMAIN log = 1 .. n /\ DOMAIN log' = 1 .. Len(log') /\ Len(log') \in Nat
      /\ DOMAIN log' = DOMAIN log \cup {n + 1} /\ log'[n + 1] = new
      /\ \A k \in DOMAIN log : SameCall(log'[k], log[k]) /\ log'[k].moved = log[k].moved
  <2>1. DOMAIN log = 1 .. n /\ DOMAIN log' = 1 .. Len(log') /\ n \in Nat /\ Len(log') \in Nat
    BY <1>1, LenProperties
  <2> QED
    BY <2>1 DEF Appends
<1>3. PICK past : Ledgers(past, n, log, onHand)
  BY DEF SnapshotInv
<1> HIDE DEF n
<1>4. Len(log') = n + 1
  <2> DEFINE m == Len(log')
  <2>1. m \in Nat /\ n \in Nat /\ \A k \in Int : k \in 1 .. m <=> k \in 1 .. n \/ k = n + 1
    BY <1>2
  <2> HIDE DEF m
  <2>2. n + 1 \in 1 .. m
    BY <2>1
  <2>3. m \in 1 .. n \/ m = n + 1
    BY <2>1, <2>2
  <2> QED
    BY <2>1, <2>2, <2>3 DEF m
<1>5. ASSUME NEW k \in DOMAIN log' PROVE NamesMoves(log'[k])
  <2>1. CASE k = n + 1
    BY <1>2, <2>1
  <2>2. CASE k # n + 1
    <3>1. k \in DOMAIN log
      BY <1>2, <2>2
    <3>2. NamesMoves(log[k])
      BY <3>1 DEF SnapshotInv
    <3> QED
      BY <1>2, <3>1, <3>2 DEF NamesMoves, SameCall
  <2> QED
    BY <2>1, <2>2
<1> DEFINE more == [k \in 0 .. (n + 1) |-> IF k = n + 1 THEN onHand' ELSE past[k]]
<1>6. /\ past \in [0 .. n -> [Location -> Nat]] /\ past[n] = onHand
      /\ \A k \in 1 .. n : \A l \in Location : past[k][l] = past[k - 1][l] + log[k].moved[l]
  BY <1>3 DEF Ledgers
<1>7. /\ more \in [0 .. (n + 1) -> [Location -> Nat]] /\ more[n + 1] = onHand'
      /\ \A k \in 0 .. n : more[k] = past[k]
  <2>1. \A k \in 0 .. (n + 1) : k # n + 1 => k \in 0 .. n
    BY <1>2
  <2>2. \A k \in 0 .. n : past[k] \in [Location -> Nat]
    BY <1>6
  <2>3. n + 1 \in 0 .. (n + 1) /\ \A k \in 0 .. n : k \in 0 .. (n + 1) /\ k # n + 1
    BY <1>2
  <2> DEFINE X == [Location -> Nat]
  <2>4. onHand' \in X /\ \A k \in 0 .. n : past[k] \in X
    BY <1>1, <2>2
  <2> HIDE DEF X
  <2>5. /\ more \in [0 .. (n + 1) -> X] /\ more[n + 1] = onHand'
        /\ \A k \in 0 .. n : more[k] = past[k]
    BY <2>1, <2>3, <2>4
  <2> QED
    BY <2>5 DEF X
<1> HIDE DEF more
<1>8. ASSUME NEW k \in 1 .. (n + 1), NEW l \in Location
      PROVE  more[k][l] = more[k - 1][l] + log'[k].moved[l]
  <2>1. CASE k = n + 1
    <3>1. k - 1 = n /\ n \in 0 .. n
      BY <1>2, <2>1
    <3>2. more[k] = onHand' /\ more[k - 1] = onHand /\ log'[k].moved = Change
      BY <1>2, <1>6, <1>7, <2>1, <3>1
    <3>3. Change[l] = onHand'[l] - onHand[l]
      BY DEF Change
    <3>4. onHand'[l] \in Nat /\ onHand[l] \in Nat
      BY <1>1
    <3> DEFINE a == onHand'[l]
               b == onHand[l]
               c == Change[l]
    <3>5. a \in Nat /\ b \in Nat /\ c = a - b
      BY <3>3, <3>4
    <3> HIDE DEF a, b, c
    <3>6. a = b + c
      BY <3>5
    <3> QED
      BY <3>2, <3>6 DEF a, b, c
  <2>2. CASE k # n + 1
    <3>1. k \in 1 .. n /\ k \in 0 .. n /\ k - 1 \in 0 .. n /\ k \in DOMAIN log
      BY <1>2, <2>2
    <3>2. more[k] = past[k] /\ more[k - 1] = past[k - 1] /\ log'[k].moved = log[k].moved
      BY <1>2, <1>7, <3>1
    <3>3. past[k][l] = past[k - 1][l] + log[k].moved[l]
      BY <1>6, <3>1
    <3> QED
      BY <3>2, <3>3
  <2> QED
    BY <2>1, <2>2
<1>9. Ledgers(more, Len(log'), log', onHand')
  BY <1>4, <1>7, <1>8 DEF Ledgers
<1> QED
  BY <1>5, <1>9 DEF SnapshotInv

\* A call that is no undo.
LEMMA CallSnapshot ==
  ASSUME UndoInv, UndoInv', MarkersInv', SnapshotInv, NEW new, Appends(new, {}),
         new.moved = Change, new.undoOf = 0
  PROVE  SnapshotInv'
<1>1. Len(log) + 1 \in DOMAIN log' /\ log'[Len(log) + 1] = new
  BY DEF Appends
<1>2. MovesAsLogged(new)
  BY <1>1 DEF MarkersInv
<1>3. NamesMoves(new)
  BY <1>2 DEF MovesAsLogged, Directed, NamesMoves
<1> QED
  BY <1>3, LedgersGrow

\* Entries of a call.
LEMMA LoggedSnapshot ==
  ASSUME UndoInv, UndoInv', MarkersInv', SnapshotInv, NEW e, Logged(e),
         [e EXCEPT !.moved = Change].moved = Change, [e EXCEPT !.moved = Change].undoOf = 0
  PROVE  SnapshotInv'
<1> DEFINE new == [e EXCEPT !.moved = Change]
<1>1. log \in Seq(LogEntry)
  BY DEF UndoInv, RowsBase
<1>2. Appends(new, {}) /\ new.moved = Change /\ new.undoOf = 0
  BY <1>1, LoggedAppends
<1> HIDE DEF new
<1> QED
  BY <1>2, CallSnapshot

LEMMA CallsSnapshot ==
  ASSUME UndoInv, UndoInv', MarkersInv', SnapshotInv,
         ReservationNext \/ ArrivalNext \/ InventoryNext
  PROVE  SnapshotInv'
<1>1. ASSUME NEW op, NEW q, NEW from, NEW to, Logged(Entry(op, q, from, to)) PROVE SnapshotInv'
  <2> DEFINE e == Entry(op, q, from, to)
  <2>1. [e EXCEPT !.moved = Change].moved = Change /\ [e EXCEPT !.moved = Change].undoOf = 0
    BY LoggedFields
  <2>2. Logged(e)
    BY <1>1
  <2> HIDE DEF e
  <2> QED
    BY <2>1, <2>2, LoggedSnapshot
<1>2. ASSUME NEW op, NEW q, NEW context, NEW r, Logged(ReservationEntry(op, q, context, r))
      PROVE  SnapshotInv'
  <2> DEFINE e == ReservationEntry(op, q, context, r)
  <2>1. [e EXCEPT !.moved = Change].moved = Change /\ [e EXCEPT !.moved = Change].undoOf = 0
    BY ReservationFields
  <2>2. Logged(e)
    BY <1>2
  <2> HIDE DEF e
  <2> QED
    BY <2>1, <2>2, LoggedSnapshot
<1>3. ASSUME NEW o, NEW q, NEW l, NEW rest, ReceiveStock(o, q, l, rest) PROVE SnapshotInv'
  <2> DEFINE e == [Entry("ARRIVAL", q, NoLocation, l) EXCEPT !.context = "arrival", !.order = o]
  <2>1. [e EXCEPT !.moved = Change].moved = Change /\ [e EXCEPT !.moved = Change].undoOf = 0
    BY ArrivalFields
  <2>2. Logged(e)
    BY <1>3 DEF ReceiveStock
  <2> HIDE DEF e
  <2> QED
    BY <2>1, <2>2, LoggedSnapshot
<1>4. CASE ReservationNext
  <2>1. ASSUME NEW r, NEW q, NEW p, NEW o, CreateReservation(r, q, p, o) PROVE SnapshotInv'
    BY <1>2, <2>1 DEF CreateReservation
  <2>2. ASSUME NEW r, NEW q, NEW noted, ReleaseReservation(r, q, noted) PROVE SnapshotInv'
    BY <1>2, <2>2 DEF ReleaseReservation
  <2>3. ASSUME NEW r, NEW q, NEW noted, ConsumeReservation(r, q, noted) PROVE SnapshotInv'
    BY <1>2, <2>3 DEF ConsumeReservation
  <2> QED
    BY <1>4, <2>1, <2>2, <2>3 DEF ReservationNext
<1>5. CASE ArrivalNext
  <2>1. PICK o, q, l, rest : ReceiveStock(o, q, l, rest)
    BY <1>5 DEF ArrivalNext, FullArrival, PartialArrival
  <2> QED
    BY <1>3, <2>1
<1>6. CASE InventoryNext
  <2>1. PICK op, q, from, to : Logged(Entry(op, q, from, to))
    BY <1>6 DEF InventoryNext, MoveInventory, ConsumeInventory, IncreaseInventory,
                DecreaseInventory, BatchArrival
  <2> QED
    BY <1>1, <2>1
<1> QED
  BY <1>4, <1>5, <1>6

\* The entry of an undo.
LEMMA CompensatedSnapshot ==
  ASSUME UndoInv, UndoInv', SnapshotInv, NEW k, k \in DOMAIN log,
         NEW op, NEW q, NEW from, NEW to, Compensated(k, Entry(op, q, from, to)),
         op = "CONSUME" => to = NoLocation, op # "ARRIVAL",
         from # to \/ from = NoLocation,
         op # "CONSUME" \/ from # NoLocation => Moves(from, to, q)
  PROVE  SnapshotInv'
<1> DEFINE e   == Entry(op, q, from, to)
           new == [e EXCEPT !.undoOf = k, !.moved = Change]
<1>1. new.op = op /\ new.quantity = q /\ new.from = from /\ new.to = to /\ new.moved = Change
  BY DEF Entry
<1>2. log \in Seq(LogEntry) /\ Compensated(k, e)
  BY DEF UndoInv, RowsBase
<1> HIDE DEF e
<1>3. Appends(new, {k})
  BY <1>2, CompensatedAppends
<1> HIDE DEF new
<1>4. op # "CONSUME" \/ from # NoLocation => Change = Shift(from, to, q)
  BY MovesShift
<1>5. NamesMoves(new)
  BY <1>1, <1>4 DEF NamesMoves
<1> QED
  BY <1>1, <1>3, <1>5, LedgersGrow

LEMMA UndosSnapshot ==
  ASSUME UndoInv, UndoInv', SnapshotInv, NEW k,
         \/ UndoMove(k) \/ UndoIncrease(k) \/ UndoDecrease(k) \/ UndoConsumption(k)
         \/ UndoRelease(k) \/ UndoReservationConsume(k) \/ UndoCreate(k) \/ UndoArrival(k)
  PROVE  SnapshotInv'
<1>1. onHand \in [Location -> Nat] /\ NoLocation \notin Location
  BY RowsAssumption DEF UndoInv, RowsBase, StateTypeOK
<1>2. CASE UndoMove(k)
  <2> DEFINE n == Returnable(k)
             a == log[k].to
             b == log[k].from
  <2>1. /\ Undoable(k, "MOVE") /\ n > 0 /\ k \in DOMAIN log
        /\ onHand' = [onHand EXCEPT ![a] = @ - n, ![b] = @ + n]
        /\ Compensated(k, Entry("MOVE", n, a, b))
    BY <1>2 DEF UndoMove, Undoable
  <2>2. a \in Location /\ b \in Location
    BY <2>1, UndoneEntry DEF EntryOK
  <2>3. n \in Nat
    BY <2>1, <2>2, ReturnableFacts
  <2>4. a # b
    <3>1. NamesMoves(log[k]) /\ log[k].op = "MOVE"
      BY <2>1, UndoneEntry DEF SnapshotInv
    <3> QED
      BY <1>1, <2>2, <3>1 DEF NamesMoves
  <2> HIDE DEF n, a, b
  <2>5. Moves(a, b, n)
    BY <1>1, <2>1, <2>2, <2>3, <2>4 DEF Moves
  <2>6. "MOVE" # "CONSUME" /\ "MOVE" # "ARRIVAL"
    OBVIOUS
  <2> QED
    BY <2>1, <2>4, <2>5, <2>6, CompensatedSnapshot
<1>3. CASE UndoIncrease(k)
  <2> DEFINE n == Returnable(k)
             a == log[k].to
  <2>1. /\ Undoable(k, "ADJUST") /\ a # NoLocation /\ n > 0 /\ k \in DOMAIN log
        /\ onHand' = [onHand EXCEPT ![a] = @ - n]
        /\ Compensated(k, Entry("ADJUST", n, a, NoLocation))
    BY <1>3 DEF UndoIncrease, Undoable
  <2>2. a \in Location
    BY <2>1, UndoneEntry DEF LogEntry
  <2>3. n \in Nat
    BY <2>1, <2>2, ReturnableFacts
  <2> HIDE DEF n, a
  <2>4. Moves(a, NoLocation, n)
    BY <1>1, <2>1, <2>2, <2>3 DEF Moves
  <2>5. "ADJUST" # "CONSUME" /\ "ADJUST" # "ARRIVAL"
    OBVIOUS
  <2> QED
    BY <2>1, <2>4, <2>5, CompensatedSnapshot
<1>4. CASE UndoDecrease(k)
  <2> DEFINE n == log[k].quantity
             a == log[k].from
  <2>1. /\ Undoable(k, "ADJUST") /\ log[k].to = NoLocation /\ k \in DOMAIN log
        /\ onHand' = [onHand EXCEPT ![a] = @ + n]
        /\ Compensated(k, Entry("ADJUST", n, NoLocation, a))
    BY <1>4 DEF UndoDecrease, Undoable
  <2>2. a \in Location /\ n \in Nat
    BY <1>1, <2>1, UndoneEntry DEF EntryOK
  <2> HIDE DEF n, a
  <2>3. Moves(NoLocation, a, n)
    BY <1>1, <2>1, <2>2 DEF Moves
  <2>4. "ADJUST" # "CONSUME" /\ "ADJUST" # "ARRIVAL"
    OBVIOUS
  <2> QED
    BY <2>1, <2>3, <2>4, CompensatedSnapshot
<1>5. CASE UndoConsumption(k)
  <2> DEFINE n == log[k].quantity
             a == Shelf(k)
  <2>1. /\ Undoable(k, "CONSUME") /\ k \in DOMAIN log
        /\ onHand' = [onHand EXCEPT ![a] = @ + n]
        /\ Compensated(k, Entry("ADJUST", n, NoLocation, a))
    BY <1>5 DEF UndoConsumption, Undoable
  <2>2. a \in Location /\ n \in Nat
    BY <2>1, UndoneEntry, RowsAssumption DEF Shelf, LogEntry
  <2> HIDE DEF n, a
  <2>3. Moves(NoLocation, a, n)
    BY <1>1, <2>1, <2>2 DEF Moves
  <2>4. "ADJUST" # "CONSUME" /\ "ADJUST" # "ARRIVAL"
    OBVIOUS
  <2> QED
    BY <2>1, <2>3, <2>4, CompensatedSnapshot
<1>6. CASE UndoRelease(k) \/ UndoCreate(k)
  <2>1. /\ k \in DOMAIN log /\ onHand' = onHand
        /\ Compensated(k, Entry("RESERVE", log[k].quantity, NoLocation, NoLocation))
    BY <1>6 DEF UndoRelease, UndoCreate, Undoable
  <2>2. Moves(NoLocation, NoLocation, log[k].quantity)
    BY <1>1, <2>1, NothingMoves
  <2>3. "RESERVE" # "CONSUME" /\ "RESERVE" # "ARRIVAL"
    OBVIOUS
  <2> QED
    BY <2>1, <2>2, <2>3, CompensatedSnapshot
<1>7. CASE UndoReservationConsume(k)
  <2>1. /\ k \in DOMAIN log
        /\ Compensated(k, Entry("CONSUME", log[k].quantity, NoLocation, NoLocation))
    BY <1>7 DEF UndoReservationConsume, Undoable
  <2>2. "CONSUME" # "ARRIVAL"
    OBVIOUS
  <2> QED
    BY <2>1, <2>2, CompensatedSnapshot
<1>8. CASE UndoArrival(k)
  <2> DEFINE n  == Returnable(k)
             a == log[k].to
  <2>1. /\ Undoable(k, "ARRIVAL") /\ n > 0 /\ k \in DOMAIN log
        /\ onHand' = [onHand EXCEPT ![a] = @ - n]
        /\ Compensated(k, Entry("CONSUME", n, a, NoLocation))
    BY <1>8 DEF UndoArrival, Undoable
  <2>2. a \in Location
    BY <2>1, UndoneEntry DEF EntryOK
  <2>3. n \in Nat
    BY <2>1, <2>2, ReturnableFacts
  <2> HIDE DEF n, a
  <2>4. Moves(a, NoLocation, n)
    BY <1>1, <2>1, <2>2, <2>3 DEF Moves
  <2>5. a # NoLocation /\ "CONSUME" # "ARRIVAL"
    BY <1>1, <2>2
  <2> QED
    BY <2>1, <2>4, <2>5, CompensatedSnapshot
<1> QED
  BY <1>2, <1>3, <1>4, <1>5, <1>6, <1>7, <1>8

LEMMA InitSnapshot == ASSUME Init PROVE SnapshotInv
<1>1. log = <<>> /\ onHand \in [Location -> Nat]
  BY RowsAssumption DEF Init
<1>2. DOMAIN log = {} /\ Len(log) = 0
  BY <1>1
<1> DEFINE past == [k \in 0 .. 0 |-> onHand]
<1>3. past \in [0 .. 0 -> [Location -> Nat]] /\ past[0] = onHand
  BY <1>1
<1>4. \A k \in 1 .. 0 : FALSE
  OBVIOUS
<1> HIDE DEF past
<1>5. Ledgers(past, 0, log, onHand)
  BY <1>3, <1>4 DEF Ledgers
<1> QED
  BY <1>2, <1>5 DEF SnapshotInv

\* The invariant behind the snapshot, for every history of calls and undos.
LEMMA SnapshotInvariant == UndoSpec => [](UndoInv /\ SnapshotInv)
<1>1. UndoInv /\ UndoInv' /\ MarkersInv' /\ SnapshotInv
        /\ [ReservationNext \/ ArrivalNext \/ DirectNext \/ UndoNext]_vars => SnapshotInv'
  <2> SUFFICES ASSUME UndoInv, UndoInv', MarkersInv', SnapshotInv,
                      [ReservationNext \/ ArrivalNext \/ DirectNext \/ UndoNext]_vars
               PROVE  SnapshotInv'
    OBVIOUS
  <2>1. CASE UNCHANGED vars
    <3>1. log' = log /\ onHand' = onHand
      BY <2>1 DEF vars
    <3> QED
      BY <3>1 DEF SnapshotInv
  <2>2. CASE ReservationNext \/ ArrivalNext
    BY <2>2, CallsSnapshot
  <2>3. CASE DirectNext
    BY <2>3, CallsSnapshot DEF DirectNext
  <2>4. CASE UndoNext
    <3>1. PICK k : \/ UndoMove(k) \/ UndoIncrease(k) \/ UndoDecrease(k) \/ UndoConsumption(k)
                   \/ UndoRelease(k) \/ UndoReservationConsume(k) \/ UndoCreate(k)
                   \/ UndoArrival(k)
      BY <2>4 DEF UndoNext
    <3> QED
      BY <3>1, UndosSnapshot
  <2> QED
    BY <2>1, <2>2, <2>3, <2>4
<1> QED
  BY <1>1, InitSnapshot, MarkersInvariant, PTL DEF UndoSpec

\* get_inventory_snapshot of a past date is the ledger of that date, whatever
\* was called and undone since, undos of undos included, as long as no entry
\* since then is one the replay is wrong about by itself.
THEOREM SnapshotCorrect == UndoSpec => []PastSnapshotIsLedger
<1>1. UndoInv /\ SnapshotInv => PastSnapshotIsLedger
  BY SnapshotIsLedger DEF UndoInv, RowsBase, StateTypeOK
<1> QED
  BY <1>1, SnapshotInvariant, PTL
=============================================================================
