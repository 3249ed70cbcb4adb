---------------------- MODULE InventoryRequestsProofs ----------------------
(***************************************************************************)
(* Theorems about InventoryRequests, for any items, locations, batches and *)
(* number of connections: no lock is held twice, an entry is undone once,  *)
(* and the log explains the ledger, whatever requests overlap and          *)
(* whichever of them are rolled back.                                      *)
(*                                                                         *)
(* An undo of k takes the lock of k first, reads that k is not undone, and *)
(* holds the lock until it commits or is rolled back.  The invariant says  *)
(* so for every point an undo can be at (Undoing), so the log has no entry *)
(* that undoes k when the undo of k commits its own.                       *)
(*                                                                         *)
(* For the ledger, what a request has changed is what the entries it wrote *)
(* say, and the part of the next entry that is pending (Accounted).  It    *)
(* holds each row it changed, so its entries on a row have larger ids than *)
(* all that are committed on it (Guarded), and a commit puts them at the   *)
(* end of the history of the row, which they do not overdraw (Covered).    *)
(***************************************************************************)
EXTENDS InventoryRequests, QuantityLemmas

Entries == UNION { [ids -> LogEntry(Nat, BOOLEAN)] : ids \in SUBSET (Nat \ {0}) }

UndoStatement ==
  [do : {"lock"}, key : {<<"log", k>> : k \in Nat}]
  \cup [do : {"undo", "compensate"}, entry : Nat]
  \cup [do : {"write"}, entry : LogEntry(Nat, {FALSE})]

Statements == Seq(OperationStatement \cup UndoStatement)

Locked == SUBSET ({<<"item", i>> : i \in Item} \cup {<<"log", k>> : k \in Nat}
                  \cup {<<"row", i, l>> : i \in Item, l \in Location})

Deltas == [Item -> [Location -> Int]]

RequestRow ==
  [busy : BOOLEAN, todo : Statements, held : Locked, delta : Deltas,
   written : Entries, marked : SUBSET Nat]

RequestsTypeOK ==
  /\ ledger \in [Item -> [Location -> Int]]
  /\ log \in Entries
  /\ nextId \in Nat \ {0}
  /\ request \in [Client -> RequestRow]

\* No lock is held by two requests.
LocksExclusive ==
  \A c, d \in Client : c # d => request[c].held \cap request[d].held = {}

\* Ids are given out once.
IdsOnce ==
  /\ \A k \in DOMAIN log : k < nextId
  /\ \A c \in Client : \A k \in DOMAIN request[c].written : k < nextId /\ k \notin DOMAIN log
  /\ \A c, d \in Client : c # d => DOMAIN request[c].written \cap DOMAIN request[d].written = {}

-----------------------------------------------------------------------------
(* Where a request is: among the statements of operations, or at one of    *)
(* the points of an undo of k.                                             *)

NoUndoWritten(q) == \A j \in DOMAIN q.written : q.written[j].undoOf = NotUndo

Operating(q) == q.marked = {} /\ NoUndoWritten(q) /\ q.todo \in Seq(OperationStatement)

Asking(q, k) == q.marked = {} /\ NoUndoWritten(q) /\ q.todo = UndoTransaction(k)

Reading(q, k) == q.marked = {} /\ NoUndoWritten(q) /\ q.todo = <<[do |-> "undo", entry |-> k]>>

Compensating(q, k) ==
  /\ q.marked = {} /\ NoUndoWritten(q)
  /\ \/ \E i \in Item : q.todo = <<ItemLock(i), [do |-> "compensate", entry |-> k]>>
     \/ q.todo = <<[do |-> "compensate", entry |-> k]>>

Writing(q, k) ==
  /\ q.marked = {k} /\ NoUndoWritten(q) /\ q.todo # <<>>
  /\ q.todo[Len(q.todo)].do = "write" /\ q.todo[Len(q.todo)].entry.undoOf = k
  /\ \A n \in 1 .. (Len(q.todo) - 1) : q.todo[n].do = "change"

Written(q, k) ==
  /\ q.marked = {k} /\ q.todo = <<>>
  /\ \E j \in DOMAIN q.written :
       /\ q.written[j].undoOf = k
       /\ \A m \in DOMAIN q.written \ {j} : q.written[m].undoOf = NotUndo

\* From when it has found that k is not undone, a request holds the lock of k.
Undoing(q, k) ==
  \/ Asking(q, k)
  \/ Reading(q, k) /\ <<"log", k>> \in q.held
  \/ /\ Compensating(q, k) \/ Writing(q, k) \/ Written(q, k)
     /\ <<"log", k>> \in q.held /\ ~log[k].undone

PhaseOK(q) == Operating(q) \/ \E k \in DOMAIN log : Undoing(q, k)

\* Entries that undo others, and those that are undone.
Compensates(j, k) == j \in DOMAIN log /\ log[j].undoOf = k

UndoneByOne ==
  /\ \A j \in DOMAIN log : log[j].undoOf \in DOMAIN log \cup {NotUndo}
  /\ \A k \in DOMAIN log : /\ log[k].undone <=> \E j \in DOMAIN log : Compensates(j, k)
                           /\ \A i, j \in DOMAIN log : Compensates(i, k) /\ Compensates(j, k) => i = j

\* What a request will write is not undone.
FlagsClear == \A c \in Client : \A j \in DOMAIN request[c].written : ~request[c].written[j].undone

FreeIsIdle == \A c \in Client : request[c].busy \/ request[c] = Idle

IInv ==
  /\ RequestsTypeOK /\ LocksExclusive /\ IdsOnce /\ UndoneByOne /\ FlagsClear /\ FreeIsIdle
  /\ \A c \in Client : PhaseOK(request[c])

-----------------------------------------------------------------------------
\* Log entries by id, and what an id stands for.
LEMMA EntriesType ==
  ASSUME NEW e \in Entries
  PROVE  DOMAIN e \subseteq Nat \ {0} /\ \A k \in DOMAIN e : e[k] \in LogEntry(Nat, BOOLEAN)
BY DEF Entries

\* A sequence between two more elements.
LEMMA Wrapped ==
  ASSUME NEW S, NEW x \in S, NEW y \in S, NEW s \in Seq(S)
  PROVE  <<x>> \o s \o <<y>> \in Seq(S) /\ Len(<<x>> \o s \o <<y>>) = Len(s) + 2
<1>1. <<x>> \in Seq(S) /\ <<y>> \in Seq(S) /\ Len(<<x>>) = 1 /\ Len(<<y>>) = 1
  OBVIOUS
<1>2. QED
  BY <1>1

\* An operation's statements are those of its shape.
LEMMA MoveShape ==
  ASSUME NEW i \in Item, NEW n \in Nat, NEW a \in Location, NEW b \in Location
  PROVE  /\ MoveInventory(i, n, a, b) \in Seq(OperationStatement)
         /\ Len(MoveInventory(i, n, a, b)) = 4
<1> DEFINE entry == Entry("MOVE", i, n, a, b, NotUndo)
           changes == <<Change(i, a, -n)>> \o <<Change(i, b, n)>>
<1>1. a # NoLocation /\ b # NoLocation
  BY RequestsAssumption
<1>2. MoveInventory(i, n, a, b) = <<ItemLock(i)>> \o changes \o <<Write(entry)>>
  BY <1>1 DEF MoveInventory, Changes, Entry
<1>3. ItemLock(i) \in OperationStatement
  BY DEF ItemLock, OperationStatement
<1>4. Change(i, a, -n) \in OperationStatement /\ Change(i, b, n) \in OperationStatement
  BY DEF Change, OperationStatement
<1>5. entry \in LogEntry({NotUndo}, {FALSE})
  BY DEF Entry, LogEntry
<1>6. Write(entry) \in OperationStatement
  BY <1>5 DEF Write, OperationStatement
<1>7. changes \in Seq(OperationStatement) /\ Len(changes) = 2
  <2>1. <<Change(i, a, -n)>> \in Seq(OperationStatement) /\ <<Change(i, b, n)>> \in Seq(OperationStatement)
    BY <1>4
  <2> HIDE DEF Change
  <2>2. QED
    BY <2>1
<1> DEFINE first == ItemLock(i)
           last == Write(entry)
<1>8. /\ MoveInventory(i, n, a, b) = <<first>> \o changes \o <<last>>
      /\ first \in OperationStatement /\ last \in OperationStatement
  BY <1>2, <1>3, <1>6
<1> HIDE DEF first, last, changes, entry
<1>9. \A S : \A x, y \in S : \A mid \in Seq(S) :
        <<x>> \o mid \o <<y>> \in Seq(S) /\ Len(<<x>> \o mid \o <<y>>) = Len(mid) + 2
  BY Wrapped
<1>10. /\ <<first>> \o changes \o <<last>> \in Seq(OperationStatement)
       /\ Len(<<first>> \o changes \o <<last>>) = Len(changes) + 2
  BY <1>7, <1>8, <1>9, Zenon
<1>11. Len(changes) + 2 = 4
  BY <1>7, SMTT(30)
<1>12. QED
  BY <1>8, <1>10, <1>11, Zenon

\* disassemble_location runs the moves of what it found, one after the other.
LEMMA DisassemblyShape ==
  ASSUME RequestsTypeOK, NEW l \in Location, NEW todo \in DisassembleLocation(l)
  PROVE  todo \in Seq(OperationStatement)
<1> DEFINE found == { i \in Item : ledger[i][l] > 0 }
           moves(s) == [n \in 1 .. (4 * Len(s)) |->
                          MoveInventory(s[(n + 3) \div 4], ledger[s[(n + 3) \div 4]][l],
                                        l, STOCK)[((n + 3) % 4) + 1]]
<1>1. PICK s : /\ todo = moves(s)
               /\ s = <<>> \/ s \in [1 .. Cardinality(found) -> found]
  BY DEF DisassembleLocation
<1>2. Cardinality(found) \in Nat
  BY RequestsAssumption, FS_Subset, FS_CardinalityType
<1>3. s \in Seq(found)
  <2> HIDE DEF found, moves
  <2>1. \A n \in Nat : \A f \in [1 .. n -> found] : f \in Seq(found)
    OBVIOUS
  <2>2. <<>> \in Seq(found)
    OBVIOUS
  <2>3. QED
    BY <1>1, <1>2, <2>1, <2>2
<1>4. Len(s) \in Nat /\ \A n \in 1 .. Len(s) : s[n] \in found
  BY <1>3
<1>5. ASSUME NEW n \in 1 .. (4 * Len(s)) PROVE todo[n] \in OperationStatement
  <2> DEFINE m == (n + 3) \div 4
             r == ((n + 3) % 4) + 1
  <2>1. m \in 1 .. Len(s) /\ r \in 1 .. 4
    BY <1>4
  <2>2. todo[n] = MoveInventory(s[m], ledger[s[m]][l], l, STOCK)[r]
    BY <1>1
  <2> HIDE DEF m, r
  <2>3. s[m] \in Item /\ ledger[s[m]][l] \in Nat
    BY <1>4, <2>1 DEF RequestsTypeOK
  <2>4. /\ MoveInventory(s[m], ledger[s[m]][l], l, STOCK) \in Seq(OperationStatement)
        /\ Len(MoveInventory(s[m], ledger[s[m]][l], l, STOCK)) = 4
    BY <2>3, MoveShape, RequestsAssumption
  <2> DEFINE move == MoveInventory(s[m], ledger[s[m]][l], l, STOCK)
  <2> HIDE DEF move
  <2>5. move \in Seq(OperationStatement) /\ Len(move) = 4 /\ todo[n] = move[r]
    BY <2>2, <2>4 DEF move
  <2>6. r \in 1 .. Len(move)
    BY <2>1, <2>5
  <2>7. \A S : \A q \in Seq(S) : \A j \in 1 .. Len(q) : q[j] \in S
    OBVIOUS
  <2>8. move[r] \in OperationStatement
    BY <2>5, <2>6, <2>7, Zenon
  <2>9. QED
    BY <2>5, <2>8
<1>6. todo = [n \in 1 .. (4 * Len(s)) |-> todo[n]]
  BY <1>1
<1>7. QED
  BY <1>4, <1>5, <1>6

\* The invariant holds at the start ...
LEMMA InitInv == Init => IInv
<1> SUFFICES ASSUME Init PROVE IInv
  OBVIOUS
<1>1. <<>> \in Entries /\ DOMAIN <<>> = {}
  <2>1. <<>> \in [{} -> LogEntry(Nat, BOOLEAN)] /\ {} \in SUBSET (Nat \ {0})
    OBVIOUS
  <2>2. QED
    BY <2>1 DEF Entries
<1>2. Idle \in RequestRow
  BY <1>1 DEF Idle, RequestRow, NoChange, Statements, Locked, Deltas
<1>3. RequestsTypeOK
  BY <1>1, <1>2, RequestsAssumption DEF Init, RequestsTypeOK
<1>4. LocksExclusive /\ IdsOnce /\ FlagsClear /\ FreeIsIdle
  BY <1>1 DEF Init, Idle, LocksExclusive, IdsOnce, FlagsClear, FreeIsIdle
<1>5. UndoneByOne
  BY <1>1 DEF Init, UndoneByOne
<1>6. PhaseOK(Idle)
  BY <1>1 DEF PhaseOK, Operating, Idle, NoUndoWritten
<1>7. QED
  BY <1>3, <1>4, <1>5, <1>6 DEF IInv, Init

\* A step of one request that leaves log and ledger alone: the others stay
\* where they are.
LEMMA OneRequest ==
  ASSUME IInv, NEW c \in Client, NEW row \in RequestRow,
         request' = [request EXCEPT ![c] = row], log' = log, ledger' = ledger,
         nextId' \in Nat, nextId <= nextId',
         \A d \in Client : d # c => row.held \cap request[d].held = {},
         \A k \in DOMAIN row.written :
            \/ k \in DOMAIN request[c].written
            \/ k = nextId /\ nextId < nextId',
         \A k \in DOMAIN row.written : ~row.written[k].undone,
         PhaseOK(row), row.busy \/ row = Idle
  PROVE  IInv'
<1>1. /\ request'[c] = row /\ \A d \in Client : d # c => request'[d] = request[d]
      /\ request' \in [Client -> RequestRow] /\ nextId \in Nat \ {0}
  BY DEF IInv, RequestsTypeOK
<1>2. RequestsTypeOK'
  BY <1>1 DEF IInv, RequestsTypeOK
<1>3. LocksExclusive'
  BY <1>1 DEF IInv, LocksExclusive
<1>4. IdsOnce'
  <2>1. DOMAIN log \subseteq Nat /\ \A d \in Client : DOMAIN request[d].written \subseteq Nat
    BY EntriesType DEF IInv, RequestsTypeOK, RequestRow
  <2>2. \A k \in DOMAIN log : k < nextId'
    BY <1>1, <2>1 DEF IInv, IdsOnce
  <2>3. ASSUME NEW d \in Client, NEW k \in DOMAIN request'[d].written
        PROVE  k < nextId' /\ k \notin DOMAIN log
    <3>1. CASE k \in DOMAIN request[d].written
      BY <1>1, <2>1, <3>1 DEF IInv, IdsOnce
    <3>2. CASE k \notin DOMAIN request[d].written
      <4>1. k = nextId /\ nextId < nextId'
        BY <1>1, <2>3, <3>2
      <4>2. QED
        BY <1>1, <2>1, <4>1 DEF IInv, IdsOnce
    <3>3. QED
      BY <3>1, <3>2
  <2>4. ASSUME NEW d \in Client, d # c
        PROVE  DOMAIN row.written \cap DOMAIN request[d].written = {}
    <3>1. ASSUME NEW k \in DOMAIN row.written, k \in DOMAIN request[d].written PROVE FALSE
      <4>1. k < nextId /\ k \in Nat
        BY <2>1, <3>1 DEF IInv, IdsOnce
      <4>2. k \in DOMAIN request[c].written
        BY <1>1, <3>1, <4>1
      <4>3. QED
        BY <2>4, <3>1, <4>2 DEF IInv, IdsOnce
    <3>2. QED
      BY <3>1
  <2>5. \A d, e \in Client : d # e =>
          DOMAIN request'[d].written \cap DOMAIN request'[e].written = {}
    BY <1>1, <2>4 DEF IInv, IdsOnce
  <2>6. QED
    BY <2>2, <2>3, <2>5 DEF IdsOnce
<1>5. UndoneByOne'
  BY DEF IInv, UndoneByOne, Compensates
<1>6. FlagsClear' /\ FreeIsIdle'
  BY <1>1 DEF IInv, FlagsClear, FreeIsIdle
<1>7. ASSUME NEW d \in Client PROVE PhaseOK(request[d])'
  <2>1. PhaseOK(request'[d])
    BY <1>1 DEF IInv
  <2>2. QED
    BY <2>1 DEF PhaseOK, Undoing
<1>8. QED
  BY <1>2, <1>3, <1>4, <1>5, <1>6, <1>7 DEF IInv

-----------------------------------------------------------------------------
(* The steps.                                                              *)

\* A sequence with a first element: that element and the rest.
LEMMA HeadAndRest ==
  ASSUME NEW S, NEW s \in Seq(S), s # <<>>
  PROVE  /\ Head(s) = s[1] /\ Head(s) \in S /\ Tail(s) \in Seq(S)
         /\ Len(s) \in Nat \ {0} /\ Len(Tail(s)) = Len(s) - 1
         /\ \A n \in 1 .. (Len(s) - 1) : Tail(s)[n] = s[n + 1]
OBVIOUS

\* A request at a statement is busy.
LEMMA AtWork ==
  ASSUME IInv, NEW c \in Client, request[c].todo # <<>>
  PROVE  /\ request[c] \in RequestRow /\ request[c].busy /\ request[c].todo \in Statements
         /\ Statement(c) \in OperationStatement \cup UndoStatement
         /\ Statement(c) = request[c].todo[1]
         /\ Rest(c) \in Statements
<1>1. request[c] \in RequestRow
  BY DEF IInv, RequestsTypeOK
<1>2. request[c].busy
  BY DEF IInv, FreeIsIdle, Idle
<1>3. request[c].todo \in Seq(OperationStatement \cup UndoStatement)
  BY <1>1 DEF RequestRow, Statements
<1>4. QED
  BY <1>1, <1>2, <1>3, HeadAndRest DEF Statement, Rest, Statements

\* A request that begins has done nothing yet.
LEMMA BeginInv ==
  ASSUME IInv, NEW c \in Client, NEW todo, Begin(c, todo),
         todo \in Seq(OperationStatement) \/ \E k \in DOMAIN log : todo = UndoTransaction(k)
  PROVE  IInv'
<1> DEFINE row == [request[c] EXCEPT !.busy = TRUE, !.todo = todo]
<1>1. request[c] = Idle /\ request[c] \in RequestRow /\ nextId \in Nat \ {0}
  BY DEF IInv, FreeIsIdle, Begin, RequestsTypeOK
<1>2. todo \in Seq(OperationStatement \cup UndoStatement)
  <2>1. CASE todo \in Seq(OperationStatement)
    <3>1. \A S, T : \A q \in Seq(S) : q \in Seq(S \cup T)
      OBVIOUS
    <3>2. QED
      BY <2>1, <3>1
  <2>2. ASSUME NEW k \in DOMAIN log, todo = UndoTransaction(k)
        PROVE  todo \in Seq(OperationStatement \cup UndoStatement)
    <3>1. k \in Nat
      BY EntriesType DEF IInv, RequestsTypeOK
    <3>2. LogLock(k) \in UndoStatement /\ [do |-> "undo", entry |-> k] \in UndoStatement
      BY <3>1 DEF LogLock, UndoStatement
    <3>3. \A S : \A x, y \in S : <<x, y>> \in Seq(S)
      OBVIOUS
    <3>4. QED
      BY <2>2, <3>2, <3>3 DEF UndoTransaction
  <2>3. QED
    BY <2>1, <2>2
<1>3. row \in RequestRow
  BY <1>1, <1>2 DEF RequestRow, Statements
<1>4. /\ row.held = {} /\ row.written = request[c].written /\ DOMAIN row.written = {}
      /\ row.marked = {} /\ row.todo = todo /\ row.busy
  BY <1>1 DEF Idle, RequestRow
<1>5. PhaseOK(row)
  BY <1>4 DEF PhaseOK, Operating, Undoing, Asking, NoUndoWritten
<1>6. request' = [request EXCEPT ![c] = row]
  BY DEF Begin, IInv, RequestsTypeOK
<1> HIDE DEF row
<1>7. /\ log' = log /\ ledger' = ledger /\ nextId' \in Nat /\ nextId <= nextId'
  BY <1>1 DEF Begin
<1>8. /\ \A d \in Client : d # c => row.held \cap request[d].held = {}
      /\ \A k \in DOMAIN row.written :
           (k \in DOMAIN request[c].written \/ (k = nextId /\ nextId < nextId')) /\ ~row.written[k].undone
      /\ row.busy
  BY <1>4
<1>9. QED
  BY <1>3, <1>5, <1>6, <1>7, <1>8, OneRequest

\* A request at a statement is in one of the phases with statements left.
LEMMA AtPhase ==
  ASSUME IInv, NEW c \in Client, request[c].todo # <<>>
  PROVE  \/ Operating(request[c])
         \/ \E k \in DOMAIN log :
              \/ Asking(request[c], k)
              \/ Reading(request[c], k) /\ <<"log", k>> \in request[c].held
              \/ /\ Compensating(request[c], k) \/ Writing(request[c], k)
                 /\ <<"log", k>> \in request[c].held /\ ~log[k].undone
BY DEF IInv, PhaseOK, Undoing, Written

\* The first statements of the phases.
LEMMA OperatingFirst ==
  ASSUME NEW c \in Client, request[c].todo # <<>>, Operating(request[c])
  PROVE  /\ Statement(c) \in OperationStatement /\ Rest(c) \in Seq(OperationStatement)
         /\ Statement(c).do \in {"lock", "change", "write"}
<1>1. Statement(c) \in OperationStatement /\ Rest(c) \in Seq(OperationStatement)
  BY HeadAndRest DEF Operating, Statement, Rest
<1>2. \A s \in OperationStatement : s.do \in {"lock", "change", "write"}
  BY DEF OperationStatement
<1>3. QED
  BY <1>1, <1>2

LEMMA AskingFirst ==
  ASSUME NEW c \in Client, NEW k, Asking(request[c], k)
  PROVE  /\ Statement(c) = LogLock(k) /\ Statement(c).do = "lock"
         /\ Statement(c).key = <<"log", k>>
         /\ Rest(c) = <<[do |-> "undo", entry |-> k]>>
<1>1. \A x, y : Head(<<x, y>>) = x /\ Tail(<<x, y>>) = <<y>>
  OBVIOUS
<1>2. Statement(c) = LogLock(k) /\ Rest(c) = <<[do |-> "undo", entry |-> k]>>
  BY <1>1 DEF Asking, Statement, Rest, UndoTransaction
<1>3. QED
  BY <1>2 DEF LogLock

LEMMA ReadingFirst ==
  ASSUME NEW c \in Client, NEW k, Reading(request[c], k)
  PROVE  /\ Statement(c).do = "undo" /\ Statement(c).entry = k /\ Rest(c) = <<>>
<1>1. \A x : Head(<<x>>) = x /\ Tail(<<x>>) = <<>>
  OBVIOUS
<1>2. Statement(c) = [do |-> "undo", entry |-> k] /\ Rest(c) = <<>>
  BY <1>1 DEF Reading, Statement, Rest
<1>3. QED
  BY <1>2

LEMMA CompensatingFirst ==
  ASSUME NEW c \in Client, NEW k, Compensating(request[c], k)
  PROVE  \/ /\ Statement(c).do = "lock"
            /\ Rest(c) = <<[do |-> "compensate", entry |-> k]>>
         \/ Statement(c).do = "compensate" /\ Statement(c).entry = k /\ Rest(c) = <<>>
<1> DEFINE compensate == [do |-> "compensate", entry |-> k]
<1>1. /\ \A x : Head(<<x>>) = x /\ Tail(<<x>>) = <<>>
      /\ \A x, y : Head(<<x, y>>) = x /\ Tail(<<x, y>>) = <<y>>
  OBVIOUS
<1>2. \/ \E i \in Item : request[c].todo = <<ItemLock(i), compensate>>
      \/ request[c].todo = <<compensate>>
  BY DEF Compensating
<1>3. compensate.do = "compensate" /\ compensate.entry = k
  OBVIOUS
<1> HIDE DEF compensate
<1>4. ASSUME NEW i \in Item, request[c].todo = <<ItemLock(i), compensate>>
      PROVE  Statement(c).do = "lock" /\ Rest(c) = <<compensate>>
  <2>1. Statement(c) = ItemLock(i) /\ Rest(c) = <<compensate>>
    BY <1>1, <1>4 DEF Statement, Rest
  <2>2. QED
    BY <2>1 DEF ItemLock
<1>5. CASE request[c].todo = <<compensate>>
  <2>1. Statement(c) = compensate /\ Rest(c) = <<>>
    BY <1>1, <1>5 DEF Statement, Rest
  <2>2. QED
    BY <1>3, <2>1
<1>6. QED
  BY <1>2, <1>4, <1>5 DEF compensate

LEMMA WritingFirst ==
  ASSUME IInv, NEW c \in Client, NEW k, Writing(request[c], k)
  PROVE  \/ Statement(c).do = "change" /\ Writing([request[c] EXCEPT !.todo = Rest(c)], k)
         \/ Statement(c).do = "write" /\ Rest(c) = <<>> /\ Statement(c).entry.undoOf = k
<1> DEFINE todo == request[c].todo
<1>1. todo # <<>>
  BY DEF Writing
<1>2. request[c] \in RequestRow
  BY DEF IInv, RequestsTypeOK
<1>3. /\ Statement(c) = todo[1] /\ Rest(c) \in Statements
      /\ Len(todo) \in Nat \ {0} /\ Len(Rest(c)) = Len(todo) - 1
      /\ \A n \in 1 .. (Len(todo) - 1) : Rest(c)[n] = todo[n + 1]
  BY <1>1, AtWork, HeadAndRest DEF Statement, Rest, Statements
<1>4. /\ todo[Len(todo)].do = "write" /\ todo[Len(todo)].entry.undoOf = k
      /\ \A n \in 1 .. (Len(todo) - 1) : todo[n].do = "change"
  BY DEF Writing
<1> HIDE DEF todo
<1>5. CASE Len(todo) = 1
  <2>1. Rest(c) = <<>>
    BY <1>3, <1>5 DEF Statements
  <2>2. QED
    BY <1>3, <1>4, <1>5, <2>1
<1>6. CASE Len(todo) > 1
  <2>1. /\ Statement(c).do = "change" /\ Rest(c) # <<>>
        /\ Rest(c)[Len(Rest(c))] = todo[Len(todo)]
        /\ \A n \in 1 .. (Len(Rest(c)) - 1) : Rest(c)[n].do = "change"
    BY <1>3, <1>4, <1>6
  <2>2. Writing([request[c] EXCEPT !.todo = Rest(c)], k)
    BY <1>2, <1>4, <2>1 DEF Writing, RequestRow, NoUndoWritten
  <2>3. QED
    BY <2>1, <2>2
<1>7. \A n \in Nat \ {0} : n = 1 \/ n > 1
  OBVIOUS
<1>8. QED
  BY <1>3, <1>5, <1>6, <1>7, Zenon

\* The step to the next statement, with the locks and the deltas it brings.
LEMMA AdvanceInv ==
  ASSUME IInv, NEW c \in Client, request[c].todo # <<>>, NEW row,
         row = [request[c] EXCEPT !.todo = row.todo, !.held = row.held, !.delta = row.delta],
         row.todo \in Statements, row.held \in Locked, row.delta \in Deltas,
         \A d \in Client : d # c => row.held \cap request[d].held = {},
         PhaseOK(row),
         request' = [request EXCEPT ![c] = row], UNCHANGED <<ledger, log, nextId>>
  PROVE  IInv'
<1>1. /\ request[c] \in RequestRow /\ request[c].busy /\ nextId \in Nat
  BY AtWork DEF IInv, RequestsTypeOK
<1>2. /\ row \in RequestRow /\ row.busy /\ row.written = request[c].written
  BY <1>1 DEF RequestRow
<1>3. \A k \in DOMAIN row.written : ~row.written[k].undone
  BY <1>2 DEF IInv, FlagsClear
<1>4. nextId' \in Nat /\ nextId <= nextId' /\ log' = log /\ ledger' = ledger
  BY <1>1
<1>5. QED
  BY <1>2, <1>3, <1>4, OneRequest

\* A lock that is free is held by no other request.
LEMMA KeyFree ==
  ASSUME NEW c \in Client, LocksExclusive, Locks(c), Free(c)
  PROVE  \A d \in Client : d # c =>
           (request[c].held \cup {Statement(c).key}) \cap request[d].held = {}
BY DEF LocksExclusive, Free, WaitsFor

\* Taking an advisory lock: an undo that takes the one of its entry holds it on.
LEMMA AcquireInv == ASSUME IInv, NEW c \in Client, Acquire(c) PROVE IInv'
<1> DEFINE row == [request[c] EXCEPT !.todo = Rest(c), !.held = @ \cup {Statement(c).key}]
<1>1. /\ request[c] \in RequestRow /\ request[c].todo # <<>> /\ Rest(c) \in Statements
      /\ Statement(c) \in OperationStatement \cup UndoStatement /\ Statement(c).do = "lock"
  BY AtWork DEF Acquire, AtStatement
<1>2. /\ row.todo = Rest(c) /\ row.held = request[c].held \cup {Statement(c).key}
      /\ row.delta = request[c].delta /\ row.written = request[c].written
      /\ row.marked = request[c].marked
      /\ row = [request[c] EXCEPT !.todo = row.todo, !.held = row.held, !.delta = row.delta]
  BY <1>1 DEF RequestRow
<1>3. request' = [request EXCEPT ![c] = row] /\ UNCHANGED <<ledger, log, nextId>>
  BY DEF Acquire, IInv, RequestsTypeOK
<1> HIDE DEF row
<1>4. row.delta \in Deltas /\ request[c].held \in Locked
  BY <1>1, <1>2 DEF RequestRow
<1>5. row.held \in Locked
  <2>1. \/ Statement(c).key \in {<<"item", i>> : i \in Item}
        \/ Statement(c).key \in {<<"log", k>> : k \in Nat}
    BY <1>1 DEF OperationStatement, UndoStatement
  <2>2. QED
    BY <1>2, <1>4, <2>1 DEF Locked
<1>6. \A d \in Client : d # c => row.held \cap request[d].held = {}
  BY <1>2, KeyFree DEF Acquire, Locks, IInv
<1>7. PhaseOK(row)
  <2>1. CASE Operating(request[c])
    BY <1>1, <1>2, <2>1, OperatingFirst DEF PhaseOK, Operating, NoUndoWritten
  <2>2. ASSUME NEW k \in DOMAIN log, Asking(request[c], k) PROVE PhaseOK(row)
    <3>1. Statement(c).key = <<"log", k>> /\ Rest(c) = <<[do |-> "undo", entry |-> k]>>
      BY <2>2, AskingFirst
    <3>2. Reading(row, k) /\ <<"log", k>> \in row.held
      BY <1>2, <2>2, <3>1 DEF Reading, Asking, NoUndoWritten
    <3>3. QED
      BY <3>2 DEF PhaseOK, Undoing
  <2>3. \A k : ~Reading(request[c], k) /\ ~Writing(request[c], k)
    BY <1>1, ReadingFirst, WritingFirst
  <2>4. ASSUME NEW k \in DOMAIN log, Compensating(request[c], k), <<"log", k>> \in request[c].held,
               ~log[k].undone
        PROVE  PhaseOK(row)
    <3>1. Rest(c) = <<[do |-> "compensate", entry |-> k]>>
      BY <1>1, <2>4, CompensatingFirst
    <3>2. Compensating(row, k) /\ <<"log", k>> \in row.held
      BY <1>2, <2>4, <3>1 DEF Compensating, NoUndoWritten
    <3>3. QED
      BY <2>4, <3>2 DEF PhaseOK, Undoing
  <2>5. QED
    BY <1>1, <2>1, <2>2, <2>3, <2>4, AtPhase
<1>8. QED
  BY <1>1, <1>2, <1>3, <1>4, <1>5, <1>6, <1>7, AdvanceInv

\* Changing a ledger row.
LEMMA ChangeRowInv == ASSUME IInv, NEW c \in Client, ChangeRow(c) PROVE IInv'
<1> DEFINE i == Statement(c).key[2]
           l == Statement(c).key[3]
           d == [request[c].delta EXCEPT ![i][l] = @ + Statement(c).delta]
           row == [request[c] EXCEPT !.todo = Rest(c), !.held = @ \cup {Statement(c).key},
                                     !.delta = d]
<1>1. /\ request[c] \in RequestRow /\ request[c].todo # <<>> /\ Rest(c) \in Statements
      /\ Statement(c) \in OperationStatement \cup UndoStatement /\ Statement(c).do = "change"
  BY AtWork DEF ChangeRow, AtStatement
<1>2. request' = [request EXCEPT ![c] = row] /\ UNCHANGED <<ledger, log, nextId>>
  BY <1>1 DEF ChangeRow, IInv, RequestsTypeOK, RequestRow
<1>3. PICK x \in Item, y \in Location : Statement(c).key = <<"row", x, y>>
  BY <1>1 DEF OperationStatement, UndoStatement
<1>4. i \in Item /\ l \in Location /\ Statement(c).delta \in Int
  BY <1>1, <1>3 DEF OperationStatement, UndoStatement
<1>5. request[c].held \in Locked /\ request[c].delta \in Deltas
  BY <1>1 DEF RequestRow
<1>6. d \in Deltas
  BY <1>4, <1>5 DEF Deltas
<1> HIDE DEF d, i, l
<1>7. /\ row.todo = Rest(c) /\ row.held = request[c].held \cup {Statement(c).key}
      /\ row.delta = d /\ row.written = request[c].written /\ row.marked = request[c].marked
      /\ row = [request[c] EXCEPT !.todo = row.todo, !.held = row.held, !.delta = row.delta]
  BY <1>1 DEF RequestRow
<1> HIDE DEF row
<1>8. row.held \in Locked
  BY <1>3, <1>5, <1>7 DEF Locked
<1>9. \A e \in Client : e # c => row.held \cap request[e].held = {}
  BY <1>7, KeyFree DEF ChangeRow, Locks, IInv
<1>10. PhaseOK(row)
  <2>1. CASE Operating(request[c])
    BY <1>1, <1>7, <2>1, OperatingFirst DEF PhaseOK, Operating, NoUndoWritten
  <2>2. \A k : ~Asking(request[c], k) /\ ~Reading(request[c], k) /\ ~Compensating(request[c], k)
    BY <1>1, AskingFirst, ReadingFirst, CompensatingFirst
  <2>3. ASSUME NEW k \in DOMAIN log, Writing(request[c], k), <<"log", k>> \in request[c].held,
               ~log[k].undone
        PROVE  PhaseOK(row)
    <3>1. Writing([request[c] EXCEPT !.todo = Rest(c)], k)
      BY <1>1, <2>3, WritingFirst
    <3>2. Writing(row, k) /\ <<"log", k>> \in row.held
      BY <1>1, <1>7, <2>3, <3>1 DEF Writing, NoUndoWritten, RequestRow
    <3>3. QED
      BY <2>3, <3>2 DEF PhaseOK, Undoing
  <2>4. QED
    BY <1>1, <2>1, <2>2, <2>3, AtPhase
<1>11. QED
  BY <1>1, <1>2, <1>6, <1>7, <1>8, <1>9, <1>10, AdvanceInv

\* Reading the entry to undo, under its lock.
LEMMA UndoReadInv == ASSUME IInv, NEW c \in Client, UndoRead(c) PROVE IInv'
<1>1. /\ request[c] \in RequestRow /\ request[c].todo # <<>> /\ Statement(c).do = "undo"
      /\ Statement(c) \in OperationStatement \cup UndoStatement
  BY AtWork DEF UndoRead, AtStatement
<1>2. PICK k \in DOMAIN log : Reading(request[c], k) /\ <<"log", k>> \in request[c].held
  <2>1. ~Operating(request[c])
    BY <1>1, OperatingFirst
  <2>2. \A k : ~Asking(request[c], k) /\ ~Compensating(request[c], k) /\ ~Writing(request[c], k)
    BY <1>1, AskingFirst, CompensatingFirst, WritingFirst
  <2>3. QED
    BY <1>1, <2>1, <2>2, AtPhase
<1> DEFINE next == <<ItemLock(log[k].item), [do |-> "compensate", entry |-> k]>>
           row == [request[c] EXCEPT !.todo = next]
<1>3. /\ Statement(c).entry = k /\ Rest(c) = <<>> /\ ~log[k].undone
  BY <1>2, ReadingFirst DEF UndoRead
<1>4. <<>> \o next = next
  OBVIOUS
<1>5. request' = [request EXCEPT ![c] = row] /\ UNCHANGED <<ledger, log, nextId>>
  BY <1>3, <1>4 DEF UndoRead, IInv, RequestsTypeOK
<1>6. k \in Nat /\ log[k] \in LogEntry(Nat, BOOLEAN)
  BY <1>2, EntriesType DEF IInv, RequestsTypeOK
<1>7. log[k].item \in Item
  BY <1>6 DEF LogEntry
<1>8. next \in Statements
  <2>1. /\ ItemLock(log[k].item) \in OperationStatement
        /\ [do |-> "compensate", entry |-> k] \in UndoStatement
    BY <1>6, <1>7 DEF ItemLock, OperationStatement, UndoStatement
  <2>2. \A S : \A x, y \in S : <<x, y>> \in Seq(S)
    OBVIOUS
  <2>3. QED
    BY <2>1, <2>2 DEF Statements
<1>9. \E i \in Item : next = <<ItemLock(i), [do |-> "compensate", entry |-> k]>>
  BY <1>7
<1> HIDE DEF next
<1>10. /\ row.todo = next /\ row.held = request[c].held /\ row.delta = request[c].delta
       /\ row.written = request[c].written /\ row.marked = request[c].marked
       /\ row = [request[c] EXCEPT !.todo = row.todo, !.held = row.held, !.delta = row.delta]
       /\ row.held \in Locked /\ row.delta \in Deltas
  BY <1>1 DEF RequestRow
<1> HIDE DEF row
<1>11. \A d \in Client : d # c => row.held \cap request[d].held = {}
  BY <1>10 DEF IInv, LocksExclusive
<1>12. Compensating(row, k) /\ <<"log", k>> \in row.held
  BY <1>2, <1>9, <1>10 DEF Compensating, Reading, NoUndoWritten
<1>13. PhaseOK(row)
  BY <1>2, <1>3, <1>12 DEF PhaseOK, Undoing
<1>14. QED
  BY <1>1, <1>5, <1>8, <1>10, <1>11, <1>13, AdvanceInv

\* One entry added to others.
WithEntry(entries, n, x) == Added(entries, [k \in {n} |-> x])

\* The entry is there, the others are as they were.
LEMMA AddedType ==
  ASSUME NEW e \in Entries, NEW n \in Nat \ {0}, NEW x \in LogEntry(Nat, BOOLEAN)
  PROVE  /\ WithEntry(e, n, x) \in Entries /\ DOMAIN WithEntry(e, n, x) = DOMAIN e \cup {n}
         /\ WithEntry(e, n, x)[n] = x
         /\ \A k \in DOMAIN e \ {n} : WithEntry(e, n, x)[k] = e[k]
<1> DEFINE a == WithEntry(e, n, x)
           ids == DOMAIN e \cup {n}
<1>1. DOMAIN e \subseteq Nat \ {0} /\ \A k \in DOMAIN e : e[k] \in LogEntry(Nat, BOOLEAN)
  BY EntriesType
<1>2. a = [k \in ids |-> IF k = n THEN x ELSE e[k]]
  BY DEF Added, WithEntry
<1>3. a \in [ids -> LogEntry(Nat, BOOLEAN)] /\ ids \in SUBSET (Nat \ {0})
  BY <1>1, <1>2
<1>4. a \in Entries
  BY <1>3 DEF Entries
<1>5. QED
  BY <1>2, <1>4

\* The fields of a log entry that say what it undoes and whether it is undone.
LEMMA EntryFields ==
  ASSUME NEW I \in SUBSET Nat, NEW F \in SUBSET BOOLEAN, NEW e \in LogEntry(I, F)
  PROVE  e.undoOf \in I /\ e.undone \in F /\ e \in LogEntry(Nat, BOOLEAN)
BY DEF LogEntry

\* What a write statement writes.
LEMMA WrittenEntry ==
  /\ \A s \in OperationStatement : s.do = "write" => s.entry \in LogEntry({NotUndo}, {FALSE})
  /\ \A s \in UndoStatement : s.do = "write" => s.entry \in LogEntry(Nat, {FALSE})
<1> DEFINE E == LogEntry({NotUndo}, {FALSE})
           F == LogEntry(Nat, {FALSE})
<1>1. OperationStatement = [do : {"lock"}, key : {<<"item", i>> : i \in Item}]
        \cup [do : {"change"}, key : {<<"row", i, l>> : i \in Item, l \in Location}, delta : Int]
        \cup [do : {"write"}, entry : E]
  BY DEF OperationStatement
<1>2. UndoStatement = [do : {"lock"}, key : {<<"log", k>> : k \in Nat}]
        \cup [do : {"undo", "compensate"}, entry : Nat] \cup [do : {"write"}, entry : F]
  BY DEF UndoStatement
<1> HIDE DEF E, F
<1>3. \A s \in OperationStatement : s.do = "write" => s.entry \in E
  BY <1>1
<1>4. \A s \in UndoStatement : s.do = "write" => s.entry \in F
  BY <1>2
<1>5. QED
  BY <1>3, <1>4 DEF E, F

\* Writing an entry: its id is new.
LEMMA WriteEntryInv == ASSUME IInv, NEW c \in Client, WriteEntry(c) PROVE IInv'
<1> DEFINE entry == Statement(c).entry
           written == WithEntry(request[c].written, nextId, entry)
           row == [request[c] EXCEPT !.todo = Rest(c), !.written = written]
<1>1. /\ request[c] \in RequestRow /\ request[c].todo # <<>> /\ Rest(c) \in Statements
      /\ Statement(c) \in OperationStatement \cup UndoStatement /\ Statement(c).do = "write"
      /\ request[c].busy
  BY AtWork DEF WriteEntry, AtStatement
<1>2. /\ request' = [request EXCEPT ![c] = row] /\ ledger' = ledger /\ log' = log
      /\ nextId' = nextId + 1 /\ nextId \in Nat \ {0}
  BY DEF WriteEntry, WithEntry, IInv, RequestsTypeOK
<1>3. entry \in LogEntry(Nat, BOOLEAN) /\ ~entry.undone
  <2>1. entry \in LogEntry({NotUndo}, {FALSE}) \/ entry \in LogEntry(Nat, {FALSE})
    BY <1>1, WrittenEntry
  <2> HIDE DEF entry
  <2>2. {NotUndo} \in SUBSET Nat /\ Nat \in SUBSET Nat /\ {FALSE} \in SUBSET BOOLEAN
    BY DEF NotUndo
  <2>3. entry \in LogEntry(Nat, BOOLEAN) /\ entry.undone \in {FALSE}
    BY <2>1, <2>2, EntryFields
  <2>4. QED
    BY <2>3
<1>4. request[c].written \in Entries
  BY <1>1 DEF RequestRow
<1>5. /\ written \in Entries /\ DOMAIN written = DOMAIN request[c].written \cup {nextId}
      /\ written[nextId] = entry
      /\ \A k \in DOMAIN request[c].written \ {nextId} : written[k] = request[c].written[k]
  <2> HIDE DEF entry
  <2>1. QED
    BY <1>2, <1>3, <1>4, AddedType
<1> HIDE DEF written
<1>6. /\ row \in RequestRow /\ row.busy /\ row.todo = Rest(c) /\ row.held = request[c].held
      /\ row.written = written /\ row.marked = request[c].marked
  BY <1>1, <1>5 DEF RequestRow
<1> HIDE DEF row
<1>7. \A k \in DOMAIN row.written : \/ k \in DOMAIN request[c].written
                                    \/ k = nextId /\ nextId < nextId'
  BY <1>2, <1>5, <1>6
<1>8. \A k \in DOMAIN row.written : ~row.written[k].undone
  BY <1>3, <1>5, <1>6 DEF IInv, FlagsClear
<1>9. \A d \in Client : d # c => row.held \cap request[d].held = {}
  BY <1>6 DEF IInv, LocksExclusive
<1>10. PhaseOK(row)
  <2>1. CASE Operating(request[c])
    <3>1. Statement(c) \in OperationStatement /\ Rest(c) \in Seq(OperationStatement)
      BY <1>1, <2>1, OperatingFirst
    <3>2. entry.undoOf = NotUndo
      <4>1. entry \in LogEntry({NotUndo}, {FALSE})
        BY <1>1, <3>1, WrittenEntry
      <4> HIDE DEF entry
      <4>2. QED
        BY <4>1 DEF LogEntry
    <3>3. NoUndoWritten(row)
      BY <1>5, <1>6, <2>1, <3>2 DEF NoUndoWritten, Operating
    <3>4. QED
      BY <1>6, <2>1, <3>1, <3>3 DEF PhaseOK, Operating
  <2>2. \A k : ~Asking(request[c], k) /\ ~Reading(request[c], k) /\ ~Compensating(request[c], k)
    BY <1>1, AskingFirst, ReadingFirst, CompensatingFirst
  <2>3. ASSUME NEW k \in DOMAIN log, Writing(request[c], k), <<"log", k>> \in request[c].held,
               ~log[k].undone
        PROVE  PhaseOK(row)
    <3>1. Rest(c) = <<>> /\ entry.undoOf = k
      BY <1>1, <2>3, WritingFirst
    <3>2. \A m \in DOMAIN row.written \ {nextId} : row.written[m].undoOf = NotUndo
      BY <1>5, <1>6, <2>3 DEF Writing, NoUndoWritten
    <3>3. nextId \in DOMAIN row.written /\ row.written[nextId].undoOf = k
      BY <1>5, <1>6, <3>1
    <3>4. Written(row, k)
      BY <1>6, <2>3, <3>1, <3>2, <3>3 DEF Writing, Written
    <3>5. QED
      BY <1>6, <2>3, <3>4 DEF PhaseOK, Undoing
  <2>4. QED
    BY <1>1, <2>1, <2>2, <2>3, AtPhase
<1>11. nextId' \in Nat /\ nextId <= nextId'
  BY <1>2
<1>12. QED
  BY <1>2, <1>6, <1>7, <1>8, <1>9, <1>10, <1>11, OneRequest

\* The statements that change the rows an entry names.
ChangeStatement ==
  [do : {"change"}, key : {<<"row", i, l>> : i \in Item, l \in Location}, delta : Int]

\* They are changes and nothing else.
LEMMA ChangesShape ==
  ASSUME NEW e \in LogEntry(Nat, BOOLEAN)
  PROVE  Changes(e) \in Seq(ChangeStatement)
<1> DEFINE take == Change(e.item, e.from, -e.quantity)
           give == Change(e.item, e.to, e.quantity)
<1>1. /\ e.item \in Item /\ e.quantity \in Nat
      /\ e.from \in Location \cup {NoLocation} /\ e.to \in Location \cup {NoLocation}
  BY DEF LogEntry
<1>2. e.from # NoLocation => take \in ChangeStatement
  BY <1>1 DEF Change, ChangeStatement
<1>3. e.to # NoLocation => give \in ChangeStatement
  BY <1>1 DEF Change, ChangeStatement
<1> DEFINE taken == IF e.from = NoLocation THEN <<>> ELSE <<take>>
           given == IF e.to = NoLocation THEN <<>> ELSE <<give>>
<1>4. Changes(e) = taken \o given
  BY DEF Changes
<1> HIDE DEF take, give
<1>5. taken \in Seq(ChangeStatement) /\ given \in Seq(ChangeStatement)
  BY <1>2, <1>3
<1> HIDE DEF taken, given
<1>6. QED
  BY <1>4, <1>5

\* The entry an undo of k writes.
LEMMA CompensationType ==
  ASSUME RequestsTypeOK, NEW c \in Client, NEW k \in DOMAIN log, Compensation(c, k).quantity > 0
  PROVE  /\ Compensation(c, k) \in LogEntry(Nat, {FALSE})
         /\ Compensation(c, k) \in LogEntry(Nat, BOOLEAN)
         /\ Compensation(c, k).undoOf = k
<1> DEFINE o == log[k]
           back == IF o.to = NoLocation THEN o.quantity
                   ELSE Smaller(o.quantity, Seen(c, o.item, o.to))
           op == CASE o.op = "ARRIVAL" -> "CONSUME"
                   [] o.op = "CONSUME" -> "ADJUST"
                   [] OTHER -> o.op
<1>1. k \in Nat /\ o \in LogEntry(Nat, BOOLEAN)
  BY EntriesType DEF RequestsTypeOK
<1>2. /\ o.op \in {"MOVE", "CONSUME", "ADJUST", "ARRIVAL"} /\ o.item \in Item
      /\ o.quantity \in Nat /\ o.from \in Location \cup {NoLocation}
      /\ o.to \in Location \cup {NoLocation}
  BY <1>1 DEF LogEntry
<1>3. op \in {"MOVE", "CONSUME", "ADJUST", "ARRIVAL"}
  BY <1>2
<1>4. Compensation(c, k) = Entry(op, o.item, back, o.to, o.from, k)
  BY DEF Compensation
<1>5. back \in Int
  <2>1. CASE o.to = NoLocation
    BY <1>2, <2>1
  <2>2. CASE o.to # NoLocation
    <3>1. ledger[o.item][o.to] \in Int
      BY <1>2, <2>2 DEF RequestsTypeOK
    <3>2. request[c].delta[o.item][o.to] \in Int
      <4>1. request[c].delta \in Deltas
        BY DEF RequestsTypeOK, RequestRow
      <4>2. QED
        BY <1>2, <2>2, <4>1 DEF Deltas
    <3>3. Seen(c, o.item, o.to) \in Int
      BY <3>1, <3>2 DEF Seen
    <3>4. QED
      BY <1>2, <2>2, <3>3 DEF Smaller
  <2>3. QED
    BY <2>1, <2>2
<1> HIDE DEF back, op, o
<1>6. back > 0
  BY <1>4 DEF Entry
<1>7. back \in Nat
  BY <1>5, <1>6
<1>8. Entry(op, o.item, back, o.to, o.from, k) \in LogEntry(Nat, {FALSE})
  BY <1>1, <1>2, <1>3, <1>7 DEF Entry, LogEntry
<1>9. Nat \in SUBSET Nat /\ {FALSE} \in SUBSET BOOLEAN
  OBVIOUS
<1>10. Compensation(c, k).undoOf = k
  BY <1>4 DEF Entry
<1>11. QED
  BY <1>4, <1>8, <1>9, <1>10, EntryFields

\* Working out what to take back, and marking the entry.
LEMMA CompensateInv == ASSUME IInv, NEW c \in Client, Compensate(c) PROVE IInv'
<1>1. /\ request[c] \in RequestRow /\ request[c].todo # <<>> /\ Statement(c).do = "compensate"
      /\ request[c].busy
  BY AtWork DEF Compensate, AtStatement
<1>2. PICK k \in DOMAIN log : /\ Compensating(request[c], k) /\ <<"log", k>> \in request[c].held
                              /\ ~log[k].undone
  <2>1. ~Operating(request[c])
    BY <1>1, OperatingFirst
  <2>2. \A k : ~Asking(request[c], k) /\ ~Reading(request[c], k) /\ ~Writing(request[c], k)
    BY <1>1, AskingFirst, ReadingFirst, WritingFirst
  <2>3. QED
    BY <1>1, <2>1, <2>2, AtPhase
<1>3. Statement(c).entry = k /\ Rest(c) = <<>>
  BY <1>1, <1>2, CompensatingFirst
<1> DEFINE entry == Compensation(c, k)
           todo == Changes(entry) \o <<Write(entry)>>
           row == [request[c] EXCEPT !.todo = todo, !.marked = @ \cup {k}]
<1>4. /\ entry \in LogEntry(Nat, {FALSE}) /\ entry \in LogEntry(Nat, BOOLEAN)
      /\ entry.undoOf = k
  BY <1>3, CompensationType DEF Compensate, IInv
<1>5. request' = [request EXCEPT ![c].todo = <<>> \o Changes(entry) \o <<Write(entry)>>,
                                 ![c].marked = @ \cup {k}]
  BY <1>3, <1>4 DEF Compensate
<1> DEFINE changes == Changes(entry)
           last == Write(entry)
<1>6. changes \in Seq(ChangeStatement) /\ todo = changes \o <<last>>
  BY <1>4, ChangesShape
<1>7. last \in UndoStatement /\ last.do = "write" /\ last.entry.undoOf = k
  <2> HIDE DEF entry
  <2>1. QED
    BY <1>4 DEF Write, UndoStatement
<1>8. UNCHANGED <<ledger, log, nextId>>
  BY DEF Compensate
<1> HIDE DEF entry, last, changes
<1>9. <<>> \o changes \o <<last>> = todo
  <2>1. \A s \in Seq(ChangeStatement) : \A x : <<>> \o s \o <<x>> = s \o <<x>>
    OBVIOUS
  <2>2. QED
    BY <1>6, <2>1
<1> HIDE DEF todo
<1>10. /\ Len(todo) = Len(changes) + 1 /\ todo[Len(todo)] = last /\ Len(changes) \in Nat
       /\ \A n \in 1 .. Len(changes) : todo[n] = changes[n] /\ changes[n] \in ChangeStatement
  BY <1>6
<1>11. todo # <<>> /\ \A n \in 1 .. (Len(todo) - 1) : todo[n].do = "change"
  <2>1. \A s \in ChangeStatement : s.do = "change"
    BY DEF ChangeStatement
  <2>2. QED
    BY <1>10, <2>1
<1>12. todo \in Statements
  <2>1. ChangeStatement \subseteq OperationStatement
    BY DEF ChangeStatement, OperationStatement
  <2>2. \A S, T, U : \A s \in Seq(S) : \A x \in U : S \subseteq T => s \o <<x>> \in Seq(T \cup U)
    OBVIOUS
  <2>3. QED
    BY <1>6, <1>7, <2>1, <2>2, Zenon DEF Statements
<1>13. request' = [request EXCEPT ![c] = row]
  <2>1. request' = [request EXCEPT ![c].todo = todo, ![c].marked = @ \cup {k}]
    BY <1>5, <1>9 DEF changes, last
  <2>2. QED
    BY <2>1 DEF IInv, RequestsTypeOK
<1>14. k \in Nat
  BY <1>2, EntriesType DEF IInv, RequestsTypeOK
<1>15. /\ row \in RequestRow /\ row.busy /\ row.todo = todo /\ row.held = request[c].held
       /\ row.written = request[c].written /\ row.marked = {k}
  BY <1>1, <1>2, <1>12, <1>14 DEF RequestRow, Compensating
<1> HIDE DEF row
<1>16. \A j \in DOMAIN row.written : j \in DOMAIN request[c].written /\ ~row.written[j].undone
  BY <1>15 DEF IInv, FlagsClear
<1>17. \A d \in Client : d # c => row.held \cap request[d].held = {}
  BY <1>15 DEF IInv, LocksExclusive
<1>18. PhaseOK(row)
  <2>1. Writing(row, k)
    BY <1>2, <1>7, <1>10, <1>11, <1>15 DEF Writing, Compensating, NoUndoWritten
  <2>2. QED
    BY <1>2, <1>15, <2>1 DEF PhaseOK, Undoing
<1>19. nextId' \in Nat /\ nextId <= nextId' /\ log' = log /\ ledger' = ledger
  BY <1>8 DEF IInv, RequestsTypeOK
<1>20. QED
  BY <1>13, <1>15, <1>16, <1>17, <1>18, <1>19, OneRequest

\* A rollback: nothing of the request is left.
LEMMA CloseInv ==
  ASSUME IInv, NEW c \in Client, Close(c), UNCHANGED <<ledger, log, nextId>>
  PROVE  IInv'
<1>1. <<>> \in Entries /\ DOMAIN <<>> = {}
  <2>1. <<>> \in [{} -> LogEntry(Nat, BOOLEAN)] /\ {} \in SUBSET (Nat \ {0})
    OBVIOUS
  <2>2. QED
    BY <2>1 DEF Entries
<1>2. /\ Idle \in RequestRow /\ Idle.held = {} /\ DOMAIN Idle.written = {}
      /\ \A k \in DOMAIN Idle.written : k \in DOMAIN request[c].written /\ ~Idle.written[k].undone
  BY <1>1 DEF Idle, RequestRow, NoChange, Statements, Locked, Deltas
<1>3. PhaseOK(Idle)
  BY <1>1 DEF PhaseOK, Operating, Idle, NoUndoWritten
<1>4. nextId' \in Nat /\ nextId <= nextId' /\ log' = log /\ ledger' = ledger
  BY DEF IInv, RequestsTypeOK
<1>5. \A d \in Client : d # c => Idle.held \cap request[d].held = {}
  BY <1>2
<1>6. request' = [request EXCEPT ![c] = Idle]
  BY DEF Close
<1>7. QED
  BY <1>2, <1>3, <1>4, <1>5, <1>6, OneRequest

-----------------------------------------------------------------------------
(* The commit: what a request wrote joins the log.                         *)

\* A request with nothing left to do has undone nothing, or k, with one entry.
LEMMA AtCommit ==
  ASSUME IInv, NEW c \in Client, request[c].todo = <<>>
  PROVE  \/ request[c].marked = {} /\ NoUndoWritten(request[c])
         \/ \E k \in DOMAIN log : /\ Written(request[c], k) /\ ~log[k].undone
                                  /\ <<"log", k>> \in request[c].held
<1>1. \A x : <<x>> # <<>>
  OBVIOUS
<1>2. \A x, y : <<x, y>> # <<>>
  OBVIOUS
<1>3. \A k : /\ ~Asking(request[c], k) /\ ~Reading(request[c], k)
             /\ ~Compensating(request[c], k) /\ ~Writing(request[c], k)
  BY <1>1, <1>2 DEF Asking, Reading, Compensating, Writing, UndoTransaction
<1>4. QED
  BY <1>3 DEF IInv, PhaseOK, Operating, Undoing

\* The log after a commit.
LEMMA CommittedLog ==
  ASSUME IInv, NEW c \in Client, Commit(c)
  PROVE  /\ log' \in Entries /\ DOMAIN log' = DOMAIN log \cup DOMAIN request[c].written
         /\ \A j \in DOMAIN log :
              /\ j \notin DOMAIN request[c].written /\ log'[j].undoOf = log[j].undoOf
              /\ log'[j].undone <=> log[j].undone \/ j \in request[c].marked
         /\ \A j \in DOMAIN request[c].written :
              /\ j \notin DOMAIN log /\ log'[j].undoOf = request[c].written[j].undoOf
              /\ ~log'[j].undone
<1> DEFINE written == request[c].written
           marked == request[c].marked
           ids == DOMAIN log \cup DOMAIN written
           added(j) == IF j \in DOMAIN written THEN written[j] ELSE log[j]
<1>1. log' = [j \in ids |-> [added(j) EXCEPT !.undone = @ \/ j \in marked]]
  BY DEF Commit, Added
<1>2. /\ DOMAIN log \subseteq Nat \ {0}
      /\ \A k \in DOMAIN log : log[k] \in LogEntry(Nat, BOOLEAN)
  BY EntriesType DEF IInv, RequestsTypeOK
<1>3. /\ DOMAIN written \subseteq Nat \ {0}
      /\ \A k \in DOMAIN written : written[k] \in LogEntry(Nat, BOOLEAN)
  BY EntriesType DEF IInv, RequestsTypeOK, RequestRow
<1>4. \A j \in DOMAIN written : j \notin DOMAIN log /\ ~written[j].undone
  BY DEF IInv, IdsOnce, FlagsClear
<1>5. marked \subseteq DOMAIN log
  BY AtCommit DEF Commit, Written
<1>6. \A e \in LogEntry(Nat, BOOLEAN) : \A b \in BOOLEAN :
        /\ [e EXCEPT !.undone = @ \/ b] \in LogEntry(Nat, BOOLEAN)
        /\ [e EXCEPT !.undone = @ \/ b].undoOf = e.undoOf
        /\ [e EXCEPT !.undone = @ \/ b].undone <=> e.undone \/ b
  BY DEF LogEntry
<1> HIDE DEF written, marked
<1>7. ASSUME NEW j \in ids
      PROVE  /\ added(j) \in LogEntry(Nat, BOOLEAN)
             /\ log'[j] = [added(j) EXCEPT !.undone = @ \/ j \in marked]
             /\ log'[j] \in LogEntry(Nat, BOOLEAN) /\ log'[j].undoOf = added(j).undoOf
             /\ log'[j].undone <=> added(j).undone \/ j \in marked
  <2>1. added(j) \in LogEntry(Nat, BOOLEAN)
    BY <1>2, <1>3
  <2> HIDE DEF added
  <2>2. log'[j] = [added(j) EXCEPT !.undone = @ \/ j \in marked]
    BY <1>1
  <2> DEFINE mark == j \in marked
             e == added(j)
  <2>3. mark \in BOOLEAN /\ e \in LogEntry(Nat, BOOLEAN)
    BY <2>1
  <2> HIDE DEF mark, e
  <2>4. /\ [e EXCEPT !.undone = @ \/ mark] \in LogEntry(Nat, BOOLEAN)
        /\ [e EXCEPT !.undone = @ \/ mark].undoOf = e.undoOf
        /\ [e EXCEPT !.undone = @ \/ mark].undone <=> e.undone \/ mark
    BY <1>6, <2>3, Zenon
  <2>5. QED
    BY <2>1, <2>2, <2>4, Zenon DEF mark, e
<1>8. log' \in Entries /\ DOMAIN log' = ids
  <2> HIDE DEF added
  <2>1. DOMAIN log' = ids /\ log' = [j \in ids |-> log'[j]]
    BY <1>1
  <2>2. log' \in [ids -> LogEntry(Nat, BOOLEAN)]
    BY <1>7, <2>1
  <2>3. ids \in SUBSET (Nat \ {0})
    BY <1>2, <1>3
  <2>4. QED
    BY <2>1, <2>2, <2>3 DEF Entries
<1>9. ASSUME NEW j \in DOMAIN log
      PROVE  /\ j \notin DOMAIN written /\ log'[j].undoOf = log[j].undoOf
             /\ log'[j].undone <=> log[j].undone \/ j \in marked
  <2>1. j \in ids /\ j \notin DOMAIN written /\ added(j) = log[j]
    BY <1>4
  <2> HIDE DEF added
  <2>2. QED
    BY <1>7, <2>1
<1>10. ASSUME NEW j \in DOMAIN written
       PROVE  /\ j \notin DOMAIN log /\ log'[j].undoOf = written[j].undoOf
              /\ ~log'[j].undone
  <2>1. j \in ids /\ j \notin DOMAIN log /\ j \notin marked /\ added(j) = written[j]
    BY <1>4, <1>5
  <2> HIDE DEF added
  <2>2. ~written[j].undone
    BY <1>4
  <2>3. QED
    BY <1>7, <2>1, <2>2
<1>11. QED
  BY <1>8, <1>9, <1>10 DEF written, marked

\* Each undone entry still has one entry that undoes it: k was not undone, its
\* lock was held since that was read, and nobody else could commit an undo of it.
LEMMA CommitUndo == ASSUME IInv, NEW c \in Client, Commit(c) PROVE UndoneByOne'
<1> DEFINE q == request[c]
<1>1. /\ DOMAIN log' = DOMAIN log \cup DOMAIN q.written
      /\ \A j \in DOMAIN log : /\ j \notin DOMAIN q.written /\ log'[j].undoOf = log[j].undoOf
                               /\ log'[j].undone <=> log[j].undone \/ j \in q.marked
      /\ \A j \in DOMAIN q.written : /\ j \notin DOMAIN log /\ ~log'[j].undone
                                     /\ log'[j].undoOf = q.written[j].undoOf
  BY CommittedLog
<1>2. DOMAIN log \subseteq Nat \ {0} /\ DOMAIN q.written \subseteq Nat \ {0}
  BY EntriesType DEF IInv, RequestsTypeOK, RequestRow
<1>3. /\ \A j \in DOMAIN log : log[j].undoOf \in DOMAIN log \cup {NotUndo}
      /\ \A k \in DOMAIN log :
           /\ log[k].undone <=> \E j \in DOMAIN log : log[j].undoOf = k
           /\ \A i, j \in DOMAIN log : log[i].undoOf = k /\ log[j].undoOf = k => i = j
  BY DEF IInv, UndoneByOne, Compensates
<1>4. \/ q.marked = {} /\ NoUndoWritten(q)
      \/ \E k \in DOMAIN log : Written(q, k) /\ ~log[k].undone
  BY AtCommit DEF Commit
<1> HIDE DEF q
<1>5. CASE q.marked = {} /\ NoUndoWritten(q)
  <2>1. \A j \in DOMAIN q.written : log'[j].undoOf = 0
    BY <1>1, <1>5 DEF NoUndoWritten, NotUndo
  <2>2. \A j \in DOMAIN log' : log'[j].undoOf \in DOMAIN log' \cup {0}
    BY <1>1, <1>3, <2>1 DEF NotUndo
  <2>3. ASSUME NEW k \in DOMAIN log'
        PROVE  /\ log'[k].undone <=> \E j \in DOMAIN log' : log'[j].undoOf = k
               /\ \A i, j \in DOMAIN log' : log'[i].undoOf = k /\ log'[j].undoOf = k => i = j
    <3>1. k # 0
      BY <1>1, <1>2
    <3>2. CASE k \in DOMAIN log
      BY <1>1, <1>3, <1>5, <2>1, <3>1, <3>2
    <3>3. CASE k \in DOMAIN q.written
      BY <1>1, <1>3, <2>1, <3>1, <3>3 DEF NotUndo
    <3>4. QED
      BY <1>1, <3>2, <3>3
  <2>4. QED
    BY <2>2, <2>3 DEF UndoneByOne, Compensates, NotUndo
<1>6. ASSUME NEW u \in DOMAIN log, Written(q, u), ~log[u].undone PROVE UndoneByOne'
  <2>1. PICK w \in DOMAIN q.written :
          /\ q.written[w].undoOf = u
          /\ \A m \in DOMAIN q.written \ {w} : q.written[m].undoOf = NotUndo
    BY <1>6 DEF Written
  <2>2. q.marked = {u}
    BY <1>6 DEF Written
  <2>3. log'[w].undoOf = u /\ \A m \in DOMAIN q.written \ {w} : log'[m].undoOf = 0
    BY <1>1, <2>1 DEF NotUndo
  <2>4. \A j \in DOMAIN log : log[j].undoOf # u
    BY <1>3, <1>6
  <2>5. \A j \in DOMAIN log' : log'[j].undoOf \in DOMAIN log' \cup {0}
    BY <1>1, <1>3, <2>3 DEF NotUndo
  <2>6. ASSUME NEW k \in DOMAIN log'
        PROVE  /\ log'[k].undone <=> \E j \in DOMAIN log' : log'[j].undoOf = k
               /\ \A i, j \in DOMAIN log' : log'[i].undoOf = k /\ log'[j].undoOf = k => i = j
    <3>1. k # 0
      BY <1>1, <1>2
    <3>2. CASE k = u
      <4>1. \A j \in DOMAIN log' : log'[j].undoOf = u <=> j = w
        BY <1>1, <1>2, <2>3, <2>4
      <4>2. log'[u].undone
        BY <1>1, <2>2
      <4>3. QED
        BY <1>1, <3>2, <4>1, <4>2
    <3>3. CASE k \in DOMAIN log /\ k # u
      <4>1. \A j \in DOMAIN log' : log'[j].undoOf = k <=> j \in DOMAIN log /\ log[j].undoOf = k
        BY <1>1, <2>3, <3>1, <3>3
      <4>2. log'[k].undone <=> log[k].undone
        BY <1>1, <2>2, <3>3
      <4>3. QED
        BY <1>1, <1>3, <3>3, <4>1, <4>2
    <3>4. CASE k \in DOMAIN q.written
      <4>1. k \notin DOMAIN log /\ ~log'[k].undone
        BY <1>1, <3>4
      <4>2. \A j \in DOMAIN log' : log'[j].undoOf # k
        BY <1>1, <1>3, <2>3, <3>1, <4>1 DEF NotUndo
      <4>3. QED
        BY <4>1, <4>2
    <3>5. QED
      BY <1>1, <3>2, <3>3, <3>4
  <2>7. QED
    BY <2>5, <2>6 DEF UndoneByOne, Compensates, NotUndo
<1>7. QED
  BY <1>4, <1>5, <1>6

\* The commit as a whole: other undos hold other locks, so what they have read
\* of their entries stays true.
LEMMA CommitInv == ASSUME IInv, NEW c \in Client, Commit(c) PROVE IInv'
<1> DEFINE q == request[c]
<1>1. /\ log' \in Entries /\ DOMAIN log' = DOMAIN log \cup DOMAIN q.written
      /\ \A j \in DOMAIN log : log'[j].undone <=> log[j].undone \/ j \in q.marked
  BY CommittedLog
<1>2. /\ request'[c] = Idle /\ \A d \in Client : d # c => request'[d] = request[d]
      /\ nextId' = nextId /\ nextId \in Nat \ {0}
      /\ \A d \in Client : request[d] \in RequestRow
  BY DEF Commit, IInv, RequestsTypeOK
<1>3. Idle \in RequestRow /\ Idle.held = {} /\ DOMAIN Idle.written = {}
  <2>1. <<>> \in [{} -> LogEntry(Nat, BOOLEAN)] /\ {} \in SUBSET (Nat \ {0})
    OBVIOUS
  <2>2. <<>> \in Entries
    BY <2>1 DEF Entries
  <2>3. QED
    BY <2>1, <2>2 DEF Idle, RequestRow, NoChange, Statements, Locked, Deltas
<1>4. RequestsTypeOK'
  <2>1. q.delta \in Deltas
    BY DEF IInv, RequestsTypeOK, RequestRow
  <2>2. ledger' \in [Item -> [Location -> Int]]
    BY <2>1 DEF Commit, Plus, Deltas, IInv, RequestsTypeOK
  <2>3. request' \in [Client -> RequestRow]
    BY <1>3 DEF Commit, IInv, RequestsTypeOK
  <2>4. QED
    BY <1>1, <1>2, <2>2, <2>3 DEF RequestsTypeOK
<1>5. LocksExclusive'
  BY <1>2, <1>3 DEF IInv, LocksExclusive
<1>6. IdsOnce'
  <2>1. \A k \in DOMAIN log' : k < nextId'
    BY <1>1, <1>2 DEF IInv, IdsOnce
  <2>2. ASSUME NEW d \in Client, NEW k \in DOMAIN request'[d].written
        PROVE  k < nextId' /\ k \notin DOMAIN log'
    <3>1. d # c /\ k \in DOMAIN request[d].written
      BY <1>2, <1>3, <2>2
    <3>2. QED
      BY <1>1, <1>2, <3>1 DEF IInv, IdsOnce
  <2>3. \A d, e \in Client : d # e =>
          DOMAIN request'[d].written \cap DOMAIN request'[e].written = {}
    BY <1>2, <1>3 DEF IInv, IdsOnce
  <2>4. QED
    BY <2>1, <2>2, <2>3 DEF IdsOnce
<1>7. UndoneByOne'
  BY CommitUndo
<1>8. FlagsClear' /\ FreeIsIdle'
  BY <1>2, <1>3 DEF IInv, FlagsClear, FreeIsIdle
<1>9. ASSUME NEW d \in Client PROVE PhaseOK(request[d])'
  <2>1. CASE d = c
    <3>1. Operating(Idle)
      BY <1>3 DEF Operating, Idle, NoUndoWritten
    <3>2. QED
      BY <1>2, <2>1, <3>1 DEF PhaseOK
  <2>2. CASE d # c
    <3>1. \A k \in DOMAIN log : <<"log", k>> \in request[d].held => k \notin q.marked
      <4>1. q.marked = {} \/ \E u : q.marked = {u} /\ <<"log", u>> \in q.held
        BY AtCommit DEF Commit, Written
      <4>2. q.held \cap request[d].held = {}
        BY <2>2 DEF IInv, LocksExclusive
      <4>3. QED
        BY <4>1, <4>2
    <3>2. CASE Operating(request[d])
      BY <1>2, <2>2, <3>2 DEF PhaseOK
    <3>3. ASSUME NEW k \in DOMAIN log, Undoing(request[d], k) PROVE PhaseOK(request[d])'
      <4>1. \/ Asking(request[d], k)
            \/ Reading(request[d], k) /\ <<"log", k>> \in request[d].held
            \/ /\ Compensating(request[d], k) \/ Writing(request[d], k) \/ Written(request[d], k)
               /\ <<"log", k>> \in request[d].held /\ ~log'[k].undone
        BY <1>1, <3>1, <3>3 DEF Undoing
      <4>2. k \in DOMAIN log' /\ request'[d] = request[d]
        BY <1>1, <1>2, <2>2
      <4>3. QED
        BY <4>1, <4>2 DEF PhaseOK, Undoing
    <3>4. QED
      BY <3>2, <3>3 DEF IInv, PhaseOK
  <2>3. QED
    BY <2>1, <2>2
<1>10. QED
  BY <1>4, <1>5, <1>6, <1>7, <1>8, <1>9 DEF IInv

-----------------------------------------------------------------------------
(* The invariant, and what follows.                                        *)

\* ... and every step keeps it.
LEMMA Step_IInv == ASSUME IInv, [Next]_vars PROVE IInv'
<1>1. CASE UNCHANGED vars
  BY <1>1 DEF vars, IInv, RequestsTypeOK, LocksExclusive, IdsOnce, UndoneByOne, Compensates,
              FlagsClear, FreeIsIdle, PhaseOK, Undoing
<1>2. ASSUME NEW c \in Client, BeginBatch(c) PROVE IInv'
  BY <1>2, BeginInv, RequestsAssumption DEF BeginBatch
<1>3. ASSUME NEW c \in Client, BeginDisassembly(c) PROVE IInv'
  BY <1>3, BeginInv, DisassemblyShape DEF BeginDisassembly, IInv
<1>4. ASSUME NEW c \in Client, BeginUndo(c) PROVE IInv'
  BY <1>4, BeginInv DEF BeginUndo
<1>5. ASSUME NEW c \in Client, Step(c) PROVE IInv'
  <2>1. CASE Acquire(c)
    BY <2>1, AcquireInv
  <2>2. CASE ChangeRow(c)
    BY <2>2, ChangeRowInv
  <2>3. CASE WriteEntry(c)
    BY <2>3, WriteEntryInv
  <2>4. CASE UndoRead(c)
    BY <2>4, UndoReadInv
  <2>5. CASE Compensate(c)
    BY <2>5, CompensateInv
  <2>6. CASE Commit(c)
    BY <2>6, CommitInv
  <2>7. CASE Reject(c) \/ DeadlockVictim(c)
    BY <2>7, CloseInv DEF Reject, DeadlockVictim
  <2>8. QED
    BY <1>5, <2>1, <2>2, <2>3, <2>4, <2>5, <2>6, <2>7 DEF Step
<1>6. ASSUME NEW c \in Client, Abort(c) PROVE IInv'
  BY <1>6, CloseInv DEF Abort
<1>7. QED
  BY <1>1, <1>2, <1>3, <1>4, <1>5, <1>6 DEF Next

\* The inductive invariant of the requests: types, locks, ids, and where each
\* request that batches, disassembles or undoes is between its statements.
THEOREM RequestsInvariant == Spec => []IInv
<1>1. Init => IInv
  BY InitInv
<1>2. IInv /\ [Next]_vars => IInv'
  BY Step_IInv
<1>3. QED
  BY <1>1, <1>2, PTL DEF Spec

\* A lock is held by one request at a time: pg_advisory_xact_lock and the row
\* locks of the UPDATEs keep what a request has read and changed its own.
THEOREM LocksAreExclusive == Spec => []LocksExclusive
<1>1. IInv => LocksExclusive
  BY DEF IInv
<1>2. QED
  BY <1>1, RequestsInvariant, PTL

\* _undo_transaction_once: however many requests undo an entry at once, and
\* whichever are rolled back, one compensating entry is there when the entry is
\* marked undone, and none when it is not.
THEOREM UndoIsOnce == Spec => []UndoneOnce
<1>1. ASSUME IInv PROVE UndoneOnce
  <2>1. SUFFICES ASSUME NEW k \in DOMAIN log
                 PROVE  Cardinality({ j \in DOMAIN log : log[j].undoOf = k })
                          = IF log[k].undone THEN 1 ELSE 0
    BY DEF UndoneOnce
  <2>2. /\ log[k].undone <=> \E j \in DOMAIN log : log[j].undoOf = k
        /\ \A i, j \in DOMAIN log : log[i].undoOf = k /\ log[j].undoOf = k => i = j
    BY <1>1 DEF IInv, UndoneByOne, Compensates
  <2>3. CASE log[k].undone
    <3>1. PICK j \in DOMAIN log : log[j].undoOf = k
      BY <2>2, <2>3
    <3>2. { i \in DOMAIN log : log[i].undoOf = k } = {j}
      BY <2>2, <3>1
    <3>3. QED
      BY <2>3, <3>2, FS_Singleton
  <2>4. CASE ~log[k].undone
    <3>1. { i \in DOMAIN log : log[i].undoOf = k } = {}
      BY <2>2, <2>4
    <3>2. QED
      BY <2>4, <3>1, FS_EmptySet
  <2>5. QED
    BY <2>3, <2>4
<1>2. QED
  BY <1>1, RequestsInvariant, PTL

-----------------------------------------------------------------------------
(* The ledger.  What entries come to on a row, and what a request has      *)
(* changed but not written yet.                                            *)

Net(entries, i, l, n) == Brought(entries, i, l, n) - Taken(entries, i, l, n)

Gave(e, i, l) == IF e.item = i /\ e.to = l THEN e.quantity ELSE 0

Took(e, i, l) == IF e.item = i /\ e.from = l THEN e.quantity ELSE 0

Names(e, i, l) == e.item = i /\ (e.to = l \/ e.from = l)

FiniteEntries == { e \in Entries : IsFiniteSet(DOMAIN e) }

GaveUpTo(e, i, l, n) == [k \in DOMAIN e |-> IF k <= n THEN Gave(e[k], i, l) ELSE 0]

TookUpTo(e, i, l, n) == [k \in DOMAIN e |-> IF k <= n THEN Took(e[k], i, l) ELSE 0]

\* Entries give and take natural quantities.
LEMMA GaveType ==
  ASSUME NEW x \in LogEntry(Nat, BOOLEAN), NEW i, NEW l
  PROVE  /\ Gave(x, i, l) \in Nat /\ Took(x, i, l) \in Nat
         /\ ~Names(x, i, l) => Gave(x, i, l) = 0 /\ Took(x, i, l) = 0
BY DEF Gave, Took, Names, LogEntry

\* The net effect of entries is the difference of two totals.
LEMMA NetType ==
  ASSUME NEW e \in FiniteEntries, NEW i, NEW l, NEW n \in Nat
  PROVE  /\ GaveUpTo(e, i, l, n) \in [DOMAIN e -> Nat]
         /\ TookUpTo(e, i, l, n) \in [DOMAIN e -> Nat]
         /\ Total(GaveUpTo(e, i, l, n)) \in Nat /\ Total(TookUpTo(e, i, l, n)) \in Nat
         /\ Net(e, i, l, n) = Total(GaveUpTo(e, i, l, n)) - Total(TookUpTo(e, i, l, n))
         /\ Net(e, i, l, n) \in Int
<1>1. /\ IsFiniteSet(DOMAIN e) /\ DOMAIN e \subseteq Nat
      /\ \A k \in DOMAIN e : e[k] \in LogEntry(Nat, BOOLEAN)
  BY EntriesType DEF FiniteEntries
<1> DEFINE g == GaveUpTo(e, i, l, n)
           t == TookUpTo(e, i, l, n)
<1>2. g \in [DOMAIN e -> Nat] /\ t \in [DOMAIN e -> Nat]
  <2>1. \A k \in DOMAIN e : Gave(e[k], i, l) \in Nat /\ Took(e[k], i, l) \in Nat
    BY <1>1, GaveType
  <2>2. QED
    BY <2>1 DEF GaveUpTo, TookUpTo
<1>3. Net(e, i, l, n) = Total(g) - Total(t)
  <2>1. g = [k \in DOMAIN e |->
               IF k <= n /\ e[k].item = i /\ e[k].to = l THEN e[k].quantity ELSE 0]
    BY DEF GaveUpTo, Gave
  <2>2. t = [k \in DOMAIN e |->
               IF k <= n /\ e[k].item = i /\ e[k].from = l THEN e[k].quantity ELSE 0]
    BY DEF TookUpTo, Took
  <2> HIDE DEF g, t
  <2>3. QED
    BY <2>1, <2>2, Zenon DEF Net, Brought, Taken
<1> HIDE DEF g, t
<1>4. Total(g) \in Nat /\ Total(t) \in Nat
  BY <1>1, <1>2, TotalType
<1>5. QED
  BY <1>2, <1>3, <1>4 DEF g, t

\* Entries that do not name a row do nothing to it.
LEMMA NetNone ==
  ASSUME NEW e \in FiniteEntries, NEW i, NEW l, NEW n \in Nat,
         \A k \in DOMAIN e : k <= n => ~Names(e[k], i, l)
  PROVE  Net(e, i, l, n) = 0
<1> DEFINE g == GaveUpTo(e, i, l, n)
           t == TookUpTo(e, i, l, n)
<1>1. IsFiniteSet(DOMAIN e) /\ \A k \in DOMAIN e : e[k] \in LogEntry(Nat, BOOLEAN)
  BY EntriesType DEF FiniteEntries
<1>2. \A k \in DOMAIN e : k <= n => Gave(e[k], i, l) = 0 /\ Took(e[k], i, l) = 0
  BY <1>1, GaveType
<1>3. /\ g \in [DOMAIN e -> Nat] /\ t \in [DOMAIN e -> Nat]
      /\ Net(e, i, l, n) = Total(g) - Total(t)
  BY NetType
<1>4. \A k \in DOMAIN e : g[k] = 0 /\ t[k] = 0
  BY <1>2 DEF GaveUpTo, TookUpTo
<1> HIDE DEF g, t
<1>5. Total(g) = 0 /\ Total(t) = 0
  BY <1>1, <1>3, <1>4, TotalZero
<1>6. QED
  BY <1>3, <1>5

\* Only the entries that name a row matter to it.
LEMMA NetSame ==
  ASSUME NEW e \in FiniteEntries, NEW i, NEW l, NEW m \in Nat, NEW n \in Nat,
         \A k \in DOMAIN e : Names(e[k], i, l) => (k <= m <=> k <= n)
  PROVE  Net(e, i, l, m) = Net(e, i, l, n)
<1>1. \A k \in DOMAIN e : e[k] \in LogEntry(Nat, BOOLEAN)
  BY EntriesType DEF FiniteEntries
<1>2. \A k \in DOMAIN e : ~Names(e[k], i, l) => Gave(e[k], i, l) = 0 /\ Took(e[k], i, l) = 0
  BY <1>1, GaveType
<1>3. GaveUpTo(e, i, l, m) = GaveUpTo(e, i, l, n) /\ TookUpTo(e, i, l, m) = TookUpTo(e, i, l, n)
  BY <1>2 DEF GaveUpTo, TookUpTo
<1>4. QED
  BY <1>3, NetType

\* Entries that say the same of rows, but for the undone flag.
SameRow(x, y) ==
  x.item = y.item /\ x.from = y.from /\ x.to = y.to /\ x.quantity = y.quantity

\* The effects of two sets of entries add up.
LEMMA NetUnion ==
  ASSUME NEW e \in FiniteEntries, NEW f \in FiniteEntries, NEW g \in Entries,
         DOMAIN e \cap DOMAIN f = {}, DOMAIN g = DOMAIN e \cup DOMAIN f,
         \A k \in DOMAIN e : SameRow(g[k], e[k]),
         \A k \in DOMAIN f : SameRow(g[k], f[k])
  PROVE  /\ g \in FiniteEntries
         /\ \A i, l : \A n \in Nat : Net(g, i, l, n) = Net(e, i, l, n) + Net(f, i, l, n)
<1>1. IsFiniteSet(DOMAIN e) /\ IsFiniteSet(DOMAIN f)
  BY DEF FiniteEntries
<1>2. IsFiniteSet(DOMAIN g)
  BY <1>1, FS_Union
<1>3. g \in FiniteEntries
  BY <1>2 DEF FiniteEntries
<1>4. ASSUME NEW i, NEW l, NEW n \in Nat
      PROVE  Net(g, i, l, n) = Net(e, i, l, n) + Net(f, i, l, n)
  <2> DEFINE gg == GaveUpTo(g, i, l, n)
             tg == TookUpTo(g, i, l, n)
             ge == GaveUpTo(e, i, l, n)
             te == TookUpTo(e, i, l, n)
             gf == GaveUpTo(f, i, l, n)
             tf == TookUpTo(f, i, l, n)
             D == DOMAIN e
             F == DOMAIN f
             S == DOMAIN g
  <2>1. /\ gg \in [S -> Nat] /\ tg \in [S -> Nat] /\ Total(gg) \in Nat /\ Total(tg) \in Nat
        /\ Net(g, i, l, n) = Total(gg) - Total(tg)
    BY <1>3, NetType
  <2>2. /\ Total(ge) \in Nat /\ Total(te) \in Nat
        /\ Net(e, i, l, n) = Total(ge) - Total(te)
    BY NetType
  <2>3. /\ Total(gf) \in Nat /\ Total(tf) \in Nat
        /\ Net(f, i, l, n) = Total(gf) - Total(tf)
    BY NetType
  <2>4. D \in SUBSET S /\ S \ D = F
    OBVIOUS
  <2>5. /\ \A k \in D : Gave(g[k], i, l) = Gave(e[k], i, l) /\ Took(g[k], i, l) = Took(e[k], i, l)
        /\ \A k \in F : Gave(g[k], i, l) = Gave(f[k], i, l) /\ Took(g[k], i, l) = Took(f[k], i, l)
    BY DEF SameRow, Gave, Took
  <2>6. /\ [k \in D |-> gg[k]] = ge /\ [k \in D |-> tg[k]] = te
        /\ [k \in F |-> gg[k]] = gf /\ [k \in F |-> tg[k]] = tf
    BY <2>5 DEF GaveUpTo, TookUpTo
  <2>7. /\ Total(gg) = Total([k \in D |-> gg[k]]) + Total([k \in S \ D |-> gg[k]])
        /\ Total(tg) = Total([k \in D |-> tg[k]]) + Total([k \in S \ D |-> tg[k]])
    <3> HIDE DEF gg, tg, D, S
    <3> QED BY <1>2, <2>1, <2>4, TotalSplitSet DEF S
  <2>8. Total(gg) = Total(ge) + Total(gf) /\ Total(tg) = Total(te) + Total(tf)
    BY <2>4, <2>6, <2>7, Zenon
  <2> HIDE DEF gg, tg, ge, te, gf, tf
  <2>9. QED
    BY <2>1, <2>2, <2>3, <2>8
<1>5. QED
  BY <1>3, <1>4

\* No entries, no effect.
LEMMA NetOfNothing ==
  /\ <<>> \in FiniteEntries
  /\ \A i, l : \A n \in Nat : Net(<<>>, i, l, n) = 0
<1>1. <<>> \in [{} -> LogEntry(Nat, BOOLEAN)] /\ {} \in SUBSET (Nat \ {0}) /\ DOMAIN <<>> = {}
  OBVIOUS
<1>2. <<>> \in FiniteEntries
  BY <1>1, FS_EmptySet DEF Entries, FiniteEntries
<1>3. QED
  BY <1>1, <1>2, NetNone

\* An entry with a new id adds its own effect.
LEMMA NetAdded ==
  ASSUME NEW e \in FiniteEntries, NEW id \in Nat \ {0}, id \notin DOMAIN e,
         NEW x \in LogEntry(Nat, BOOLEAN)
  PROVE  /\ WithEntry(e, id, x) \in FiniteEntries
         /\ \A i, l : \A n \in Nat :
              Net(WithEntry(e, id, x), i, l, n)
                = Net(e, i, l, n) + (IF id <= n THEN Gave(x, i, l) - Took(x, i, l) ELSE 0)
<1> DEFINE f == [k \in {id} |-> x]
           g == WithEntry(e, id, x)
<1>1. e \in Entries
  BY DEF FiniteEntries
<1>2. /\ g \in Entries /\ DOMAIN g = DOMAIN e \cup {id} /\ g[id] = x
      /\ \A k \in DOMAIN e \ {id} : g[k] = e[k]
  <2>1. \A m \in Nat \ {0} : \A y \in LogEntry(Nat, BOOLEAN) :
          /\ WithEntry(e, m, y) \in Entries /\ DOMAIN WithEntry(e, m, y) = DOMAIN e \cup {m}
          /\ WithEntry(e, m, y)[m] = y
          /\ \A k \in DOMAIN e \ {m} : WithEntry(e, m, y)[k] = e[k]
    BY <1>1, AddedType
  <2>2. QED
    BY <2>1
<1>3. f \in FiniteEntries /\ DOMAIN f = {id} /\ f[id] = x
  <2>1. f \in [{id} -> LogEntry(Nat, BOOLEAN)] /\ {id} \in SUBSET (Nat \ {0}) /\ DOMAIN f = {id}
    OBVIOUS
  <2>2. f \in Entries
    BY <2>1 DEF Entries
  <2>3. QED
    BY <2>1, <2>2, FS_Singleton DEF FiniteEntries
<1> HIDE DEF f, g
<1>4. /\ DOMAIN e \cap DOMAIN f = {} /\ DOMAIN g = DOMAIN e \cup DOMAIN f
      /\ \A k \in DOMAIN e : SameRow(g[k], e[k])
      /\ \A k \in DOMAIN f : SameRow(g[k], f[k])
  BY <1>2, <1>3 DEF SameRow
<1>5. /\ g \in FiniteEntries
      /\ \A i, l : \A n \in Nat : Net(g, i, l, n) = Net(e, i, l, n) + Net(f, i, l, n)
  BY <1>2, <1>3, <1>4, NetUnion
<1>6. ASSUME NEW i, NEW l, NEW n \in Nat
      PROVE  Net(f, i, l, n) = IF id <= n THEN Gave(x, i, l) - Took(x, i, l) ELSE 0
  <2> DEFINE a == GaveUpTo(f, i, l, n)
             b == TookUpTo(f, i, l, n)
  <2>1. a \in [{id} -> Nat] /\ b \in [{id} -> Nat] /\ Net(f, i, l, n) = Total(a) - Total(b)
    BY <1>3, NetType
  <2>2. /\ a[id] = IF id <= n THEN Gave(x, i, l) ELSE 0
        /\ b[id] = IF id <= n THEN Took(x, i, l) ELSE 0
    BY <1>3 DEF GaveUpTo, TookUpTo
  <2> HIDE DEF a, b
  <2>3. Total(a) = a[id] /\ Total(b) = b[id]
    <3>1. IsFiniteSet({id}) /\ id \in {id} /\ \A y \in {id} : y = id
      BY FS_Singleton
    <3>2. QED
      BY <2>1, <3>1, TotalSingle
  <2>4. Gave(x, i, l) \in Nat /\ Took(x, i, l) \in Nat
    BY GaveType
  <2>5. QED
    BY <2>1, <2>2, <2>3, <2>4
<1>7. QED
  BY <1>5, <1>6 DEF g

-----------------------------------------------------------------------------
(* Where a request is in the statements of an entry.                       *)

RowKey(i, l) == <<"row", i, l>>

\* What is changed on a row and not in an entry yet: all of the entry that is
\* written next, or what it takes when what it gives is changed next.
Halfway(todo) ==
  /\ Len(todo) > 1 /\ todo[1].do = "change" /\ todo[2].do = "write"
  /\ todo[2].entry.from # NoLocation /\ todo[2].entry.to # NoLocation

Pending(todo, i, l) ==
  IF todo # <<>> /\ todo[1].do = "write"
  THEN Gave(todo[1].entry, i, l) - Took(todo[1].entry, i, l)
  ELSE IF Halfway(todo) THEN -Took(todo[2].entry, i, l) ELSE 0

\* The rest of such statements: what is missing of the changes of an entry has
\* been made, and its rows are held.
Prepared(q) ==
  /\ \A n \in DOMAIN q.todo : q.todo[n].do = "write" =>
       \A j \in DOMAIN Changes(q.todo[n].entry) :
         LET changes == Changes(q.todo[n].entry)
             p       == n + j - Len(changes) - 1
         IN  IF p >= 1 THEN q.todo[p] = changes[j] ELSE changes[j].key \in q.held
  /\ \A n \in DOMAIN q.todo : q.todo[n].do = "change" =>
       \E m \in DOMAIN q.todo :
         n < m /\ q.todo[m].do = "write" /\ m <= n + Len(Changes(q.todo[m].entry))

Giving(x) == Change(x.item, x.to, x.quantity)

Taking(x) == Change(x.item, x.from, -x.quantity)

\* The changes of an entry: none, one or two.
LEMMA ChangesCases ==
  ASSUME NEW x
  PROVE  /\ Len(Changes(x)) \in 0 .. 2 /\ DOMAIN Changes(x) = 1 .. Len(Changes(x))
         /\ Len(Changes(x)) = 0 <=> x.from = NoLocation /\ x.to = NoLocation
         /\ Len(Changes(x)) = 2 <=> x.from # NoLocation /\ x.to # NoLocation
         /\ Len(Changes(x)) = 1 =>
              Changes(x)[1] = IF x.from = NoLocation THEN Giving(x) ELSE Taking(x)
         /\ Len(Changes(x)) = 2 => Changes(x)[1] = Taking(x) /\ Changes(x)[2] = Giving(x)
<1> DEFINE t == Taking(x)
           g == Giving(x)
           c == Changes(x)
<1>1. c = (IF x.from = NoLocation THEN <<>> ELSE <<t>>) \o (IF x.to = NoLocation THEN <<>> ELSE <<g>>)
  BY DEF Changes, Taking, Giving
<1> HIDE DEF t, g, c
<1>2. /\ <<>> \o <<>> = <<>> /\ <<>> \o <<g>> = <<g>> /\ <<t>> \o <<>> = <<t>>
      /\ LET s == <<t>> \o <<g>>
         IN  Len(s) = 2 /\ DOMAIN s = 1 .. 2 /\ s[1] = t /\ s[2] = g
  <2>1. \A a : <<>> \o <<a>> = <<a>> /\ <<a>> \o <<>> = <<a>>
    OBVIOUS
  <2>2. \A a, b : LET s == <<a>> \o <<b>>
                  IN  Len(s) = 2 /\ DOMAIN s = 1 .. 2 /\ s[1] = a /\ s[2] = b
    <3>1. SUFFICES ASSUME NEW a, NEW b
                   PROVE  LET s == <<a>> \o <<b>>
                          IN  Len(s) = 2 /\ DOMAIN s = 1 .. 2 /\ s[1] = a /\ s[2] = b
      OBVIOUS
    <3>2. <<a>> \in Seq({a, b}) /\ <<b>> \in Seq({a, b}) /\ Len(<<a>>) = 1 /\ Len(<<b>>) = 1
      OBVIOUS
    <3>3. QED
      BY <3>2
  <2>3. <<>> \o <<>> = <<>>
    OBVIOUS
  <2>4. QED
    BY <2>1, <2>2, <2>3, Zenon
<1>3. CASE x.from = NoLocation /\ x.to = NoLocation
  <2>1. c = <<>>
    BY <1>1, <1>2, <1>3
  <2>2. QED
    BY <1>3, <2>1 DEF c
<1>4. CASE x.from = NoLocation /\ x.to # NoLocation
  <2>1. c = <<g>>
    BY <1>1, <1>2, <1>4
  <2>2. QED
    BY <1>4, <2>1 DEF c, g
<1>5. CASE x.from # NoLocation /\ x.to = NoLocation
  <2>1. c = <<t>>
    BY <1>1, <1>2, <1>5
  <2>2. QED
    BY <1>5, <2>1 DEF c, t
<1>6. CASE x.from # NoLocation /\ x.to # NoLocation
  <2>1. Len(c) = 2 /\ DOMAIN c = 1 .. 2 /\ c[1] = t /\ c[2] = g
    BY <1>1, <1>2, <1>6
  <2>2. QED
    BY <1>6, <2>1 DEF c, t, g
<1>7. QED
  BY <1>3, <1>4, <1>5, <1>6

\* Its changes have a key and a number, and are changes.
LEMMA ChangeFields ==
  ASSUME NEW x
  PROVE  /\ Giving(x).do = "change" /\ Giving(x).key = RowKey(x.item, x.to)
         /\ Giving(x).delta = x.quantity
         /\ Taking(x).do = "change" /\ Taking(x).key = RowKey(x.item, x.from)
         /\ Taking(x).delta = -x.quantity
         /\ \A j \in DOMAIN Changes(x) : Changes(x)[j].do = "change"
<1>1. \A i, l, n : Change(i, l, n).do = "change" /\ Change(i, l, n).key = RowKey(i, l)
                   /\ Change(i, l, n).delta = n
  BY DEF Change, RowKey
<1>2. /\ Giving(x).do = "change" /\ Giving(x).key = RowKey(x.item, x.to)
      /\ Giving(x).delta = x.quantity
      /\ Taking(x).do = "change" /\ Taking(x).key = RowKey(x.item, x.from)
      /\ Taking(x).delta = -x.quantity
  BY <1>1 DEF Giving, Taking
<1>3. ASSUME NEW j \in DOMAIN Changes(x) PROVE Changes(x)[j].do = "change"
  <2>1. j \in 1 .. Len(Changes(x)) /\ Len(Changes(x)) \in 0 .. 2
    BY ChangesCases
  <2>2. CASE Len(Changes(x)) = 1
    <3>1. j = 1 /\ Changes(x)[1] \in {Giving(x), Taking(x)}
      BY <2>1, <2>2, ChangesCases
    <3>2. QED
      BY <1>2, <3>1
  <2>3. CASE Len(Changes(x)) = 2
    <3>1. j \in {1, 2} /\ Changes(x)[1] = Taking(x) /\ Changes(x)[2] = Giving(x)
      BY <2>1, <2>3, ChangesCases
    <3>2. QED
      BY <1>2, <3>1
  <2>4. QED
    BY <2>1, <2>2, <2>3
<1>4. QED
  BY <1>2, <1>3

\* An entry without a change does nothing to a row of the ledger.
LEMMA NoChanges ==
  ASSUME NEW x \in LogEntry(Nat, BOOLEAN), Len(Changes(x)) = 0, NEW i, NEW l \in Location
  PROVE  Gave(x, i, l) = 0 /\ Took(x, i, l) = 0
BY ChangesCases, RequestsAssumption DEF Gave, Took

\* Statements say what they do.
LEMMA StatementFields ==
  ASSUME NEW s \in OperationStatement \cup UndoStatement
  PROVE  /\ s.do = "write" => s.entry \in LogEntry(Nat, BOOLEAN)
         /\ s.do = "change" => /\ s.delta \in Int
                               /\ \E i \in Item, l \in Location : s.key = RowKey(i, l)
         /\ s.do \in {"lock", "change", "write", "undo", "compensate"}
<1>1. s.do = "write" => s.entry \in LogEntry(Nat, BOOLEAN)
  <2>1. {NotUndo} \in SUBSET Nat /\ Nat \in SUBSET Nat /\ {FALSE} \in SUBSET BOOLEAN
    BY DEF NotUndo
  <2>2. s.do = "write" => s.entry \in LogEntry({NotUndo}, {FALSE}) \/ s.entry \in LogEntry(Nat, {FALSE})
    BY WrittenEntry
  <2>3. QED
    BY <2>1, <2>2, EntryFields
<1>2. /\ s.do = "change" => /\ s.delta \in Int
                            /\ \E i \in Item, l \in Location : s.key = RowKey(i, l)
      /\ s.do \in {"lock", "change", "write", "undo", "compensate"}
  BY DEF OperationStatement, UndoStatement, RowKey
<1>3. QED
  BY <1>1, <1>2

\* Statements a request begins with, or an undo goes on with, leave nothing
\* pending and are prepared whatever is held.
LEMMA NothingPending ==
  ASSUME NEW todo \in Statements, EntriesFollowChanges(todo), NEW q, q.todo = todo
  PROVE  /\ Prepared(q)
         /\ \A i : \A l \in Location : Pending(todo, i, l) = 0
<1>1. /\ \A n \in DOMAIN todo : todo[n] \in OperationStatement \cup UndoStatement
      /\ DOMAIN todo = 1 .. Len(todo) /\ Len(todo) \in Nat /\ (todo # <<>> => Len(todo) > 0)
  BY DEF Statements
<1>2. ASSUME NEW n \in DOMAIN todo, todo[n].do = "write"
      PROVE  /\ todo[n].entry \in LogEntry(Nat, BOOLEAN)
             /\ \A j \in DOMAIN Changes(todo[n].entry) :
                  /\ n + j > Len(Changes(todo[n].entry)) + 1
                  /\ todo[n + j - Len(Changes(todo[n].entry)) - 1] = Changes(todo[n].entry)[j]
  BY <1>1, <1>2, StatementFields DEF EntriesFollowChanges
<1>3. \A n \in DOMAIN todo : todo[n].do = "change" =>
        \E m \in DOMAIN todo :
          n < m /\ todo[m].do = "write" /\ m <= n + Len(Changes(todo[m].entry))
  BY DEF EntriesFollowChanges
<1>4. Prepared(q)
  <2>1. ASSUME NEW n \in DOMAIN todo, todo[n].do = "write", NEW j \in DOMAIN Changes(todo[n].entry)
        PROVE  LET changes == Changes(todo[n].entry)
                   p       == n + j - Len(changes) - 1
               IN  IF p >= 1 THEN todo[p] = changes[j] ELSE changes[j].key \in q.held
    <3> DEFINE c == Changes(todo[n].entry)
               len == Len(c)
    <3>1. len \in 0 .. 2 /\ DOMAIN c = 1 .. len
      BY ChangesCases
    <3>2. n \in 1 .. Len(todo) /\ j \in DOMAIN c
      BY <1>1, <2>1
    <3>3. n + j > len + 1 /\ todo[n + j - len - 1] = c[j]
      BY <1>2, <2>1
    <3> HIDE DEF c, len
    <3>4. n \in Nat /\ j \in Nat /\ len \in Nat
      BY <1>1, <3>1, <3>2
    <3>5. n + j - len - 1 >= 1
      BY <3>3, <3>4
    <3>6. QED
      BY <3>3, <3>5 DEF c, len
  <2>2. QED
    BY <1>3, <2>1 DEF Prepared
<1>5. ASSUME NEW i, NEW l \in Location PROVE Pending(todo, i, l) = 0
  <2>1. CASE todo # <<>> /\ todo[1].do = "write"
    <3> DEFINE x == todo[1].entry
    <3>1. 1 \in DOMAIN todo
      BY <1>1, <2>1
    <3>2. /\ x \in LogEntry(Nat, BOOLEAN)
          /\ \A j \in DOMAIN Changes(x) : 1 + j > Len(Changes(x)) + 1
      BY <1>2, <2>1, <3>1
    <3> HIDE DEF x
    <3>3. Len(Changes(x)) = 0
      <4> DEFINE len == Len(Changes(x))
      <4>1. len \in 0 .. 2 /\ \A j \in 1 .. len : 1 + j > len + 1
        BY <3>2, ChangesCases
      <4> HIDE DEF len
      <4>2. len = 0
        BY <4>1
      <4>3. QED
        BY <4>2 DEF len
    <3>4. Gave(x, i, l) = 0 /\ Took(x, i, l) = 0
      BY <3>2, <3>3, NoChanges
    <3>5. Pending(todo, i, l) = Gave(x, i, l) - Took(x, i, l)
      BY <2>1 DEF Pending, x
    <3>6. QED
      BY <3>4, <3>5
  <2>2. CASE ~(todo # <<>> /\ todo[1].do = "write")
    <3>1. ~Halfway(todo)
      <4>1. SUFFICES ASSUME Halfway(todo) PROVE FALSE
        OBVIOUS
      <4> DEFINE x == todo[2].entry
      <4>2. 2 \in DOMAIN todo /\ todo[2].do = "write"
        BY <1>1, <4>1 DEF Halfway
      <4>3. \A j \in DOMAIN Changes(x) : 2 + j > Len(Changes(x)) + 1
        BY <1>2, <4>2
      <4>4. Len(Changes(x)) = 2 /\ DOMAIN Changes(x) = 1 .. Len(Changes(x))
        BY <4>1, ChangesCases DEF Halfway
      <4> HIDE DEF x
      <4>5. QED
        BY <4>3, <4>4
    <3>2. QED
      BY <2>2, <3>1 DEF Pending
  <2>3. QED
    BY <2>1, <2>2
<1>6. QED
  BY <1>4, <1>5

\* The statements of an entry follow each other.
LEMMA EntryFollows ==
  ASSUME NEW x \in LogEntry(Nat, {FALSE}), Changes(x) \o <<Write(x)>> \in Statements
  PROVE  EntriesFollowChanges(Changes(x) \o <<Write(x)>>)
<1> DEFINE c == Changes(x)
           w == Write(x)
           todo == c \o <<w>>
           len == Len(c)
<1>1. len \in 0 .. 2 /\ DOMAIN c = 1 .. len
  BY ChangesCases
<1>2. \A j \in 1 .. len : c[j].do = "change"
  BY <1>1, ChangeFields
<1>3. w.do = "write" /\ w.entry = x
  BY DEF Write
<1>4. /\ DOMAIN todo = 1 .. (len + 1) /\ todo[len + 1] = w
      /\ \A j \in 1 .. len : todo[j] = c[j]
  <2>1. c \in Seq({c[j] : j \in 1 .. len})
    <3>1. c = [j \in 1 .. len |-> c[j]]
      <4>1. CASE x.from = NoLocation /\ x.to = NoLocation
        BY <1>1, <4>1 DEF Changes
      <4>2. CASE ~(x.from = NoLocation /\ x.to = NoLocation)
        BY <1>1, <4>2 DEF Changes
      <4>3. QED
        BY <4>1, <4>2
    <3> HIDE DEF c, len
    <3>2. QED
      BY <1>1, <3>1
  <2> DEFINE S == {c[j] : j \in 1 .. len}
  <2>2. \A q \in Seq(S) : /\ DOMAIN (q \o <<w>>) = 1 .. (Len(q) + 1)
                          /\ (q \o <<w>>)[Len(q) + 1] = w
                          /\ \A j \in 1 .. Len(q) : (q \o <<w>>)[j] = q[j]
    <3>1. ASSUME NEW q \in Seq(S)
          PROVE  /\ DOMAIN (q \o <<w>>) = 1 .. (Len(q) + 1)
                 /\ (q \o <<w>>)[Len(q) + 1] = w
                 /\ \A j \in 1 .. Len(q) : (q \o <<w>>)[j] = q[j]
      <4> DEFINE T == S \cup {w}
      <4>1. q \in Seq(T) /\ <<w>> \in Seq(T) /\ Len(<<w>>) = 1 /\ <<w>>[1] = w
        OBVIOUS
      <4> HIDE DEF S, T, w
      <4>2. QED
        BY <4>1
    <3>2. QED
      BY <3>1
  <2> HIDE DEF c, S
  <2>3. QED
    BY <2>1, <2>2 DEF S
<1> HIDE DEF c, w, todo, len
<1>5. ASSUME NEW n \in DOMAIN todo, todo[n].do = "write" PROVE n = len + 1 /\ todo[n].entry = x
  <2>1. n \notin 1 .. len
    BY <1>2, <1>4, <1>5
  <2>2. n = len + 1
    BY <1>1, <1>4, <2>1
  <2>3. QED
    BY <1>3, <1>4, <2>2
<1>6. ASSUME NEW n \in DOMAIN todo, todo[n].do = "write", NEW j \in DOMAIN Changes(todo[n].entry)
      PROVE  /\ n + j > Len(Changes(todo[n].entry)) + 1
             /\ todo[n + j - Len(Changes(todo[n].entry)) - 1] = Changes(todo[n].entry)[j]
  <2>1. n = len + 1 /\ Changes(todo[n].entry) = c /\ Len(c) = len
    BY <1>5, <1>6 DEF c, len
  <2>2. j \in 1 .. len
    BY <1>1, <1>6, <2>1
  <2>3. n + j - len - 1 = j /\ n + j > len + 1
    BY <1>1, <2>1, <2>2
  <2>4. QED
    BY <1>4, <2>1, <2>2, <2>3
<1>7. ASSUME NEW n \in DOMAIN todo, todo[n].do = "change"
      PROVE  \E m \in DOMAIN todo :
               n < m /\ todo[m].do = "write" /\ m <= n + Len(Changes(todo[m].entry))
  <2>1. n # len + 1
    BY <1>3, <1>4, <1>7
  <2>2. n \in 1 .. len /\ len + 1 \in DOMAIN todo
    BY <1>1, <1>4, <2>1
  <2>3. todo[len + 1].do = "write" /\ Len(Changes(todo[len + 1].entry)) = len
    BY <1>3, <1>4 DEF c, len
  <2>4. n < len + 1 /\ len + 1 <= n + len
    BY <1>1, <2>2
  <2>5. QED
    BY <2>2, <2>3, <2>4
<1>8. EntriesFollowChanges(todo)
  BY <1>6, <1>7 DEF EntriesFollowChanges
<1>9. QED
  BY <1>8 DEF todo, c, w

\* Two statements of which none changes the ledger or writes.
LEMMA OthersFollow ==
  ASSUME NEW s, NEW t, s.do \notin {"change", "write"}, t.do \notin {"change", "write"}
  PROVE  EntriesFollowChanges(<<s, t>>)
BY DEF EntriesFollowChanges

\* The elements of a sequence put before another.
LEMMA Concatenated ==
  ASSUME NEW S, NEW s \in Seq(S), NEW t \in Seq(S)
  PROVE  /\ s \o t \in Seq(S) /\ Len(s \o t) = Len(s) + Len(t)
         /\ \A n \in 1 .. Len(s) : (s \o t)[n] = s[n]
         /\ \A n \in (Len(s) + 1) .. (Len(s) + Len(t)) : (s \o t)[n] = t[n - Len(s)]
OBVIOUS

\* The moves of a disassembly, one after the other.
LEMMA MoveStatements ==
  ASSUME NEW i \in Item, NEW n \in Nat, NEW a \in Location, NEW b \in Location
  PROVE  LET move  == MoveInventory(i, n, a, b)
             entry == Entry("MOVE", i, n, a, b, NotUndo)
         IN  /\ move[1].do = "lock"
             /\ move[2] = Taking(entry) /\ move[3] = Giving(entry)
             /\ move[4].do = "write" /\ move[4].entry = entry
             /\ entry.from # NoLocation /\ entry.to # NoLocation
<1> DEFINE entry == Entry("MOVE", i, n, a, b, NotUndo)
           x == Taking(entry)
           y == Giving(entry)
           u == ItemLock(i)
           w == Write(entry)
<1>1. a # NoLocation /\ b # NoLocation
  BY RequestsAssumption
<1>2. entry.from = a /\ entry.to = b
  BY DEF Entry
<1>3. MoveInventory(i, n, a, b) = <<u>> \o (<<x>> \o <<y>>) \o <<w>>
  BY <1>1, <1>2 DEF MoveInventory, Changes, Taking, Giving
<1>4. u.do = "lock" /\ w.do = "write" /\ w.entry = entry
  BY DEF ItemLock, Write
<1> HIDE DEF entry, x, y, u, w
<1>5. LET s == <<u>> \o (<<x>> \o <<y>>) \o <<w>>
      IN  s[1] = u /\ s[2] = x /\ s[3] = y /\ s[4] = w
  <2> DEFINE S == {u, x, y, w}
             su == <<u>>
             sx == <<x>>
             sy == <<y>>
             sw == <<w>>
             mid == sx \o sy
             front == su \o mid
             all == front \o sw
  <2>1. /\ su \in Seq(S) /\ sx \in Seq(S) /\ sy \in Seq(S) /\ sw \in Seq(S)
        /\ Len(su) = 1 /\ Len(sx) = 1 /\ Len(sy) = 1 /\ Len(sw) = 1
        /\ su[1] = u /\ sx[1] = x /\ sy[1] = y /\ sw[1] = w
    OBVIOUS
  <2> HIDE DEF S, su, sx, sy, sw
  <2>2. /\ mid \in Seq(S) /\ Len(mid) = 2 /\ mid[1] = x /\ mid[2] = y
    <3>1. /\ mid \in Seq(S) /\ Len(mid) = Len(sx) + Len(sy)
          /\ \A m \in 1 .. Len(sx) : mid[m] = sx[m]
          /\ \A m \in (Len(sx) + 1) .. (Len(sx) + Len(sy)) : mid[m] = sy[m - Len(sx)]
      BY <2>1, Concatenated
    <3> HIDE DEF mid
    <3>2. QED
      BY <2>1, <3>1
  <2> HIDE DEF mid
  <2>3. /\ front \in Seq(S) /\ Len(front) = 3
        /\ front[1] = u /\ front[2] = x /\ front[3] = y
    <3>1. /\ front \in Seq(S) /\ Len(front) = Len(su) + Len(mid)
          /\ \A m \in 1 .. Len(su) : front[m] = su[m]
          /\ \A m \in (Len(su) + 1) .. (Len(su) + Len(mid)) : front[m] = mid[m - Len(su)]
      BY <2>1, <2>2, Concatenated
    <3> HIDE DEF front
    <3>2. front \in Seq(S) /\ Len(front) = 3 /\ front[1] = u
      BY <2>1, <2>2, <3>1
    <3>3. \A m \in 2 .. 3 : front[m] = mid[m - 1]
      BY <2>1, <2>2, <3>1
    <3>4. front[2] = mid[1] /\ front[3] = mid[2]
      BY <3>3
    <3>5. QED
      BY <2>2, <3>2, <3>4
  <2> HIDE DEF front
  <2>4. all[1] = u /\ all[2] = x /\ all[3] = y /\ all[4] = w
    <3>1. /\ \A m \in 1 .. Len(front) : all[m] = front[m]
          /\ \A m \in (Len(front) + 1) .. (Len(front) + Len(sw)) : all[m] = sw[m - Len(front)]
      BY <2>1, <2>3, Concatenated
    <3> HIDE DEF all
    <3>2. /\ \A m \in 1 .. 3 : all[m] = front[m]
          /\ \A m \in 4 .. 4 : all[m] = sw[m - 3]
      BY <2>1, <2>3, <3>1, SMTT(30)
    <3>3. all[1] = front[1] /\ all[2] = front[2] /\ all[3] = front[3] /\ all[4] = sw[1]
      BY <3>2, SMTT(30)
    <3>4. QED
      BY <2>1, <2>3, <3>3
  <2>5. QED
    BY <2>4 DEF all, front, mid, su, sx, sy, sw
<1>6. QED
  BY <1>1, <1>2, <1>3, <1>4, <1>5 DEF entry, x, y, u, w

\* Which of the moves of four statements a statement is in, and where.
LEMMA Quarter ==
  /\ \A n \in Nat \ {0} :
       /\ (n + 3) \div 4 \in Nat \ {0}
       /\ 4 * ((n + 3) \div 4) - 3 <= n /\ n <= 4 * ((n + 3) \div 4)
  /\ \A m \in Nat \ {0} :
       /\ ((4 * m - 3) + 3) \div 4 = m /\ ((4 * m - 3) + 3) % 4 = 0
       /\ ((4 * m - 2) + 3) \div 4 = m /\ ((4 * m - 2) + 3) % 4 = 1
       /\ ((4 * m - 1) + 3) \div 4 = m /\ ((4 * m - 1) + 3) % 4 = 2
       /\ (4 * m + 3) \div 4 = m /\ (4 * m + 3) % 4 = 3
<1>1. \A n \in Nat \ {0} :
        /\ (n + 3) \div 4 \in Nat \ {0}
        /\ 4 * ((n + 3) \div 4) - 3 <= n /\ n <= 4 * ((n + 3) \div 4)
  OBVIOUS
<1>2. \A m \in Nat \ {0} :
        /\ ((4 * m - 3) + 3) \div 4 = m /\ ((4 * m - 3) + 3) % 4 = 0
        /\ ((4 * m - 2) + 3) \div 4 = m /\ ((4 * m - 2) + 3) % 4 = 1
        /\ ((4 * m - 1) + 3) \div 4 = m /\ ((4 * m - 1) + 3) % 4 = 2
        /\ (4 * m + 3) \div 4 = m /\ (4 * m + 3) % 4 = 3
  OBVIOUS
<1>3. QED
  BY <1>1, <1>2

\* Disassembling a location, each entry is written after its changes.
LEMMA DisassemblyFollows ==
  ASSUME RequestsTypeOK, NEW l \in Location, NEW todo \in DisassembleLocation(l)
  PROVE  EntriesFollowChanges(todo)
<1> DEFINE found == { i \in Item : ledger[i][l] > 0 }
           moves(s) == [n \in 1 .. (4 * Len(s)) |->
                          MoveInventory(s[(n + 3) \div 4], ledger[s[(n + 3) \div 4]][l],
                                        l, STOCK)[((n + 3) % 4) + 1]]
           move(i) == MoveInventory(i, ledger[i][l], l, STOCK)
           entry(i) == Entry("MOVE", i, ledger[i][l], l, STOCK, NotUndo)
<1>1. PICK s : /\ todo = moves(s)
               /\ s = <<>> \/ s \in [1 .. Cardinality(found) -> found]
  BY DEF DisassembleLocation
<1>2. Cardinality(found) \in Nat
  BY RequestsAssumption, FS_Subset, FS_CardinalityType
<1>3. s \in Seq(found)
  <2> HIDE DEF found, moves
  <2>1. \A n \in Nat : \A f \in [1 .. n -> found] : f \in Seq(found)
    OBVIOUS
  <2>2. <<>> \in Seq(found)
    OBVIOUS
  <2>3. QED
    BY <1>1, <1>2, <2>1, <2>2
<1>4. Len(s) \in Nat /\ \A n \in 1 .. Len(s) : s[n] \in Item /\ ledger[s[n]][l] \in Nat
  BY <1>3 DEF RequestsTypeOK
<1>5. /\ DOMAIN todo = 1 .. (4 * Len(s))
      /\ \A n \in 1 .. (4 * Len(s)) : todo[n] = move(s[(n + 3) \div 4])[((n + 3) % 4) + 1]
  BY <1>1
<1>6. ASSUME NEW m \in 1 .. Len(s)
      PROVE  LET x == entry(s[m])
             IN  /\ todo[4 * m - 3].do = "lock"
                 /\ todo[4 * m - 2] = Taking(x) /\ todo[4 * m - 1] = Giving(x)
                 /\ todo[4 * m].do = "write" /\ todo[4 * m].entry = x
                 /\ Len(Changes(x)) = 2 /\ DOMAIN Changes(x) = 1 .. 2
                 /\ Changes(x)[1] = Taking(x) /\ Changes(x)[2] = Giving(x)
  <2> DEFINE x == entry(s[m])
             a == move(s[m])
  <2>1. /\ a[1].do = "lock" /\ a[2] = Taking(x) /\ a[3] = Giving(x)
        /\ a[4].do = "write" /\ a[4].entry = x /\ x.from # NoLocation /\ x.to # NoLocation
    BY <1>4, MoveStatements, RequestsAssumption
  <2>2. /\ 4 * m - 3 \in 1 .. (4 * Len(s)) /\ 4 * m - 2 \in 1 .. (4 * Len(s))
        /\ 4 * m - 1 \in 1 .. (4 * Len(s)) /\ 4 * m \in 1 .. (4 * Len(s))
        /\ ((4 * m - 3) + 3) \div 4 = m /\ ((4 * m - 3) + 3) % 4 = 0
        /\ ((4 * m - 2) + 3) \div 4 = m /\ ((4 * m - 2) + 3) % 4 = 1
        /\ ((4 * m - 1) + 3) \div 4 = m /\ ((4 * m - 1) + 3) % 4 = 2
        /\ (4 * m + 3) \div 4 = m /\ (4 * m + 3) % 4 = 3
    <3>1. m \in Nat \ {0} /\ m <= Len(s)
      BY <1>4
    <3>2. QED
      BY <1>4, <3>1, Quarter
  <2> HIDE DEF moves, move, entry
  <2>3. todo[4 * m - 3] = a[1] /\ todo[4 * m - 2] = a[2] /\ todo[4 * m - 1] = a[3]
        /\ todo[4 * m] = a[4]
    <3> HIDE DEF a
    <3>1. \A n \in 1 .. (4 * Len(s)) : (n + 3) \div 4 = m => todo[n] = a[((n + 3) % 4) + 1]
      BY <1>5 DEF a
    <3>2. QED
      BY <2>2, <3>1
  <2> HIDE DEF a, x
  <2>4. /\ Len(Changes(x)) = 2 /\ DOMAIN Changes(x) = 1 .. 2
        /\ Changes(x)[1] = Taking(x) /\ Changes(x)[2] = Giving(x)
    BY <2>1, ChangesCases
  <2>5. QED
    BY <2>1, <2>3, <2>4 DEF x
<1> HIDE DEF moves, move, found, entry
<1>7. ASSUME NEW n \in DOMAIN todo
      PROVE  \E m \in 1 .. Len(s) : n \in {4 * m - 3, 4 * m - 2, 4 * m - 1, 4 * m}
  <2>1. n \in Nat /\ 1 <= n /\ n <= 4 * Len(s)
    BY <1>4, <1>5, <1>7
  <2> DEFINE m == (n + 3) \div 4
  <2>2. m \in Nat \ {0} /\ 4 * m - 3 <= n /\ n <= 4 * m
    BY <2>1, Quarter
  <2> HIDE DEF m
  <2>3. m \in 1 .. Len(s) /\ n \in {4 * m - 3, 4 * m - 2, 4 * m - 1, 4 * m}
    <3>1. Len(s) \in Nat
      BY <1>4
    <3>2. 4 * m <= 4 * Len(s) + 3
      BY <2>1, <2>2, <3>1
    <3>3. m <= Len(s)
      BY <2>2, <3>1, <3>2
    <3>4. QED
      BY <2>1, <2>2, <3>1, <3>3
  <2>4. QED
    BY <2>3
<1>8. \A x : Giving(x).do = "change" /\ Taking(x).do = "change"
  BY ChangeFields
<1>9. ASSUME NEW n \in DOMAIN todo, todo[n].do = "write", NEW j \in DOMAIN Changes(todo[n].entry)
      PROVE  /\ n + j > Len(Changes(todo[n].entry)) + 1
             /\ todo[n + j - Len(Changes(todo[n].entry)) - 1] = Changes(todo[n].entry)[j]
  <2>1. PICK m \in 1 .. Len(s) : n \in {4 * m - 3, 4 * m - 2, 4 * m - 1, 4 * m}
    BY <1>7
  <2> DEFINE x == entry(s[m])
             c == Changes(x)
  <2>2. /\ todo[4 * m - 3].do = "lock"
        /\ todo[4 * m - 2] = Taking(x) /\ todo[4 * m - 1] = Giving(x)
        /\ todo[4 * m].do = "write" /\ todo[4 * m].entry = x
        /\ Len(c) = 2 /\ DOMAIN c = 1 .. 2
        /\ c[1] = Taking(x) /\ c[2] = Giving(x)
    BY <1>6
  <2>3. n = 4 * m /\ todo[n].entry = x
    BY <1>8, <1>9, <2>1, <2>2
  <2>4. j \in 1 .. 2
    BY <1>9, <2>2, <2>3
  <2>5. m \in Nat /\ m >= 1
    BY <1>4
  <2> HIDE DEF x, c
  <2>6. n + j > 2 + 1 /\ todo[n + j - 2 - 1] = c[j]
    <3>1. CASE j = 1
      <4>1. n + j - 2 - 1 = 4 * m - 2
        BY <2>3, <2>5, <3>1
      <4>2. QED
        BY <2>2, <2>3, <2>5, <3>1, <4>1
    <3>2. CASE j = 2
      <4>1. n + j - 2 - 1 = 4 * m - 1
        BY <2>3, <2>5, <3>2
      <4>2. QED
        BY <2>2, <2>3, <2>5, <3>2, <4>1
    <3>3. QED
      BY <2>4, <3>1, <3>2
  <2>7. QED
    BY <2>2, <2>3, <2>6 DEF c
<1>10. ASSUME NEW n \in DOMAIN todo, todo[n].do = "change"
       PROVE  \E k \in DOMAIN todo :
                n < k /\ todo[k].do = "write" /\ k <= n + Len(Changes(todo[k].entry))
  <2>1. PICK m \in 1 .. Len(s) : n \in {4 * m - 3, 4 * m - 2, 4 * m - 1, 4 * m}
    BY <1>7
  <2> DEFINE x == entry(s[m])
  <2>2. /\ todo[4 * m - 3].do = "lock" /\ todo[4 * m].do = "write"
        /\ todo[4 * m].entry = x /\ Len(Changes(x)) = 2
    BY <1>6
  <2>3. n \in {4 * m - 2, 4 * m - 1}
    BY <1>10, <2>1, <2>2
  <2>4. 4 * m \in DOMAIN todo /\ n < 4 * m /\ 4 * m <= n + 2
    <3>1. Len(s) \in Nat /\ m \in Nat \ {0} /\ m <= Len(s)
      BY <1>4
    <3>2. 4 * m \in 1 .. (4 * Len(s))
      BY <3>1
    <3>3. n < 4 * m /\ 4 * m <= n + 2
      BY <2>3, <3>1
    <3>4. QED
      BY <1>5, <3>2, <3>3
  <2>5. QED
    BY <2>2, <2>4
<1>11. QED
  BY <1>9, <1>10 DEF EntriesFollowChanges

\* Past a statement that is no change, nothing is pending.
LEMMA PendingAfter ==
  ASSUME NEW q \in RequestRow, Prepared(q), q.todo # <<>>, q.todo[1].do # "change",
         NEW i, NEW l \in Location
  PROVE  Pending(Tail(q.todo), i, l) = 0
<1> DEFINE todo == q.todo
           rest == Tail(todo)
<1>1. /\ todo \in Seq(OperationStatement \cup UndoStatement) /\ todo # <<>>
      /\ todo[1].do # "change"
  BY DEF RequestRow, Statements
<1>2. /\ \A n \in DOMAIN todo : todo[n].do = "write" =>
           \A j \in DOMAIN Changes(todo[n].entry) :
             n + j - Len(Changes(todo[n].entry)) - 1 >= 1 =>
               todo[n + j - Len(Changes(todo[n].entry)) - 1] = Changes(todo[n].entry)[j]
  BY DEF Prepared
<1> HIDE DEF todo
<1>3. /\ Len(todo) \in Nat \ {0} /\ rest \in Seq(OperationStatement \cup UndoStatement)
      /\ Len(rest) = Len(todo) - 1 /\ DOMAIN todo = 1 .. Len(todo)
      /\ DOMAIN rest = 1 .. Len(rest)
      /\ \A n \in 1 .. (Len(todo) - 1) : rest[n] = todo[n + 1]
      /\ rest # <<>> => Len(rest) > 0
  BY <1>1, HeadAndRest
<1> HIDE DEF rest
<1>4. CASE rest # <<>> /\ rest[1].do = "write"
  <2> DEFINE x == rest[1].entry
             len == Len(Changes(x))
  <2>1. 2 \in DOMAIN todo /\ todo[2] = rest[1] /\ todo[2].do = "write" /\ todo[2].entry = x
    BY <1>3, <1>4
  <2>2. x \in LogEntry(Nat, BOOLEAN)
    <3>1. rest[1] \in OperationStatement \cup UndoStatement
      BY <1>3, <1>4
    <3>2. QED
      BY <1>4, <3>1, StatementFields
  <2>3. len \in 0 .. 2 /\ DOMAIN Changes(x) = 1 .. len
    BY ChangesCases
  <2> HIDE DEF x, len
  <2>4. len = 0
    <3>1. SUFFICES ASSUME len # 0 PROVE FALSE
      OBVIOUS
    <3>2. len \in 1 .. len /\ 2 + len - len - 1 = 1
      BY <2>3, <3>1
    <3>3. 2 + len - Len(Changes(x)) - 1 >= 1 =>
            todo[2 + len - Len(Changes(x)) - 1] = Changes(x)[len]
      BY <1>2, <2>1, <2>3, <3>2
    <3>4. todo[1] = Changes(x)[len]
      BY <3>2, <3>3 DEF len
    <3>5. Changes(x)[len].do = "change"
      BY <2>3, <3>2, ChangeFields
    <3>6. QED
      BY <1>1, <3>4, <3>5
  <2>5. Gave(x, i, l) = 0 /\ Took(x, i, l) = 0
    BY <2>2, <2>4, NoChanges DEF len
  <2>6. Pending(rest, i, l) = Gave(x, i, l) - Took(x, i, l)
    BY <1>4 DEF Pending, x
  <2>7. QED
    BY <2>5, <2>6 DEF rest, todo
<1>5. CASE ~(rest # <<>> /\ rest[1].do = "write")
  <2>1. ~Halfway(rest)
    <3>1. SUFFICES ASSUME Halfway(rest) PROVE FALSE
      OBVIOUS
    <3> DEFINE x == rest[2].entry
               c == Changes(x)
    <3>2. Len(rest) > 1 /\ rest[2].do = "write" /\ x.from # NoLocation /\ x.to # NoLocation
      BY <3>1 DEF Halfway
    <3>3. 3 \in DOMAIN todo /\ todo[3] = rest[2] /\ todo[3].do = "write" /\ todo[3].entry = x
      BY <1>3, <3>2
    <3>4. Len(c) = 2 /\ DOMAIN c = 1 .. 2
      BY <3>2, ChangesCases
    <3> HIDE DEF x
    <3>5. \A j \in DOMAIN c : 3 + j - Len(c) - 1 >= 1 => todo[3 + j - Len(c) - 1] = c[j]
      BY <1>2, <3>3
    <3>6. todo[1] = c[1] /\ c[1].do = "change"
      <4>1. c[1].do = "change"
        BY <3>4, ChangeFields
      <4> HIDE DEF c
      <4>2. QED
        BY <3>4, <3>5, <4>1
    <3>7. QED
      BY <1>1, <3>6
  <2>2. QED
    BY <1>5, <2>1 DEF Pending, rest, todo
<1>6. QED
  BY <1>4, <1>5

\* Past a change, it is pending too.
LEMMA PendingChange ==
  ASSUME NEW q \in RequestRow, Prepared(q), q.todo # <<>>, q.todo[1].do = "change",
         NEW i \in Item, NEW l \in Location
  PROVE  Pending(Tail(q.todo), i, l)
           = Pending(q.todo, i, l) + (IF q.todo[1].key = RowKey(i, l) THEN q.todo[1].delta ELSE 0)
<1> DEFINE todo == q.todo
           rest == Tail(todo)
           first == todo[1]
<1>1. /\ todo \in Seq(OperationStatement \cup UndoStatement) /\ todo # <<>>
      /\ first.do = "change"
  BY DEF RequestRow, Statements
<1>2. /\ \A n \in DOMAIN todo : todo[n].do = "write" =>
           \A j \in DOMAIN Changes(todo[n].entry) :
             n + j - Len(Changes(todo[n].entry)) - 1 >= 1 =>
               todo[n + j - Len(Changes(todo[n].entry)) - 1] = Changes(todo[n].entry)[j]
      /\ \A n \in DOMAIN todo : todo[n].do = "change" =>
           \E m \in DOMAIN todo :
             n < m /\ todo[m].do = "write" /\ m <= n + Len(Changes(todo[m].entry))
  BY DEF Prepared
<1> HIDE DEF todo
<1>3. /\ Len(todo) \in Nat \ {0} /\ rest \in Seq(OperationStatement \cup UndoStatement)
      /\ Len(rest) = Len(todo) - 1 /\ DOMAIN todo = 1 .. Len(todo)
      /\ DOMAIN rest = 1 .. Len(rest)
      /\ \A n \in 1 .. (Len(todo) - 1) : rest[n] = todo[n + 1]
  BY <1>1, HeadAndRest
<1> HIDE DEF rest
<1>3a. rest # <<>> <=> Len(rest) > 0
  BY <1>3
<1>4. PICK m \in DOMAIN todo :
        1 < m /\ todo[m].do = "write" /\ m <= 1 + Len(Changes(todo[m].entry))
  <2>1. 1 \in DOMAIN todo
    BY <1>3
  <2>2. QED
    BY <1>1, <1>2, <2>1
<1> DEFINE x == todo[m].entry
           c == Changes(x)
           len == Len(c)
           at(y) == IF y.key = RowKey(i, l) THEN y.delta ELSE 0
<1>5. /\ len \in 0 .. 2 /\ DOMAIN c = 1 .. len
      /\ len = 2 <=> x.from # NoLocation /\ x.to # NoLocation
      /\ len = 0 <=> x.from = NoLocation /\ x.to = NoLocation
      /\ len = 1 => c[1] = IF x.from = NoLocation THEN Giving(x) ELSE Taking(x)
      /\ len = 2 => c[1] = Taking(x) /\ c[2] = Giving(x)
  BY ChangesCases
<1>6. x \in LogEntry(Nat, BOOLEAN)
  <2>1. todo[m] \in OperationStatement \cup UndoStatement
    BY <1>1, <1>3, <1>4
  <2>2. QED
    BY <1>4, <2>1, StatementFields
<1>7. \A j \in 1 .. len : m + j - len - 1 >= 1 => todo[m + j - len - 1] = c[j]
  BY <1>2, <1>4, <1>5
<1>8. /\ x.from # NoLocation => at(Taking(x)) = -Took(x, i, l)
      /\ x.to # NoLocation => at(Giving(x)) = Gave(x, i, l)
      /\ x.from = NoLocation => Took(x, i, l) = 0
      /\ x.to = NoLocation => Gave(x, i, l) = 0
      /\ Gave(x, i, l) \in Nat /\ Took(x, i, l) \in Nat
  <2>1. x.quantity \in Nat /\ l # NoLocation
    BY <1>6, RequestsAssumption DEF LogEntry
  <2>2. /\ Taking(x).key = <<"row", x.item, x.from>> /\ Taking(x).delta = -x.quantity
        /\ Giving(x).key = <<"row", x.item, x.to>> /\ Giving(x).delta = x.quantity
    BY ChangeFields DEF RowKey
  <2> HIDE DEF x
  <2>3. QED
    BY <2>1, <2>2 DEF Gave, Took, RowKey
<1>9. m \in Nat /\ m <= 1 + len /\ m > 1 /\ m <= Len(todo)
  BY <1>3, <1>4
<1> HIDE DEF x, c, len, at
<1>10. CASE m = 2 /\ len = 1
  <2>1. first = c[1]
    BY <1>7, <1>10
  <2>2. ~Halfway(todo) /\ todo[1].do # "write"
    BY <1>1, <1>5, <1>10 DEF Halfway, x
  <2>3. Pending(todo, i, l) = 0
    BY <2>2 DEF Pending
  <2>4. rest # <<>> /\ rest[1].do = "write" /\ rest[1].entry = x
    BY <1>3, <1>4, <1>9, <1>10, <1>3a DEF x
  <2>5. Pending(rest, i, l) = Gave(x, i, l) - Took(x, i, l)
    BY <2>4 DEF Pending
  <2>6. at(first) = Gave(x, i, l) - Took(x, i, l)
    BY <1>5, <1>8, <1>10, <2>1
  <2>7. Pending(rest, i, l) = Pending(todo, i, l) + at(first)
    BY <1>8, <2>3, <2>5, <2>6
  <2>8. QED
    BY <2>7 DEF at, rest, first, todo
<1>11. CASE m = 2 /\ len = 2
  <2>1. first = c[2]
    BY <1>7, <1>11
  <2>2. Halfway(todo)
    BY <1>1, <1>4, <1>5, <1>9, <1>11 DEF Halfway, x
  <2>3. Pending(todo, i, l) = -Took(x, i, l)
    BY <1>1, <1>11, <2>2 DEF Pending, x
  <2>4. rest # <<>> /\ rest[1].do = "write" /\ rest[1].entry = x
    BY <1>3, <1>4, <1>9, <1>11, <1>3a DEF x
  <2>5. Pending(rest, i, l) = Gave(x, i, l) - Took(x, i, l)
    BY <2>4 DEF Pending
  <2>6. at(first) = Gave(x, i, l)
    BY <1>5, <1>8, <1>11, <2>1
  <2>7. Pending(rest, i, l) = Pending(todo, i, l) + at(first)
    BY <1>8, <2>3, <2>5, <2>6
  <2>8. QED
    BY <2>7 DEF at, rest, first, todo
<1>12. CASE m = 3 /\ len = 2
  <2>1. first = c[1] /\ todo[2] = c[2]
    <3>1. 1 \in 1 .. len /\ 2 \in 1 .. len /\ m + 1 - len - 1 = 1 /\ m + 2 - len - 1 = 2
      BY <1>12
    <3>2. QED
      BY <1>7, <3>1
  <2>2. todo[2].do = "change"
    <3>1. 2 \in 1 .. len
      BY <1>12
    <3>2. c[2].do = "change"
      BY <1>5, <3>1, ChangeFields DEF c
    <3>3. QED
      BY <2>1, <3>2
  <2>3. Pending(todo, i, l) = 0
    BY <1>1, <2>2 DEF Pending, Halfway
  <2>4. /\ Len(rest) > 1 /\ rest[1].do = "change" /\ rest[2].do = "write" /\ rest[2].entry = x
    BY <1>3, <1>4, <1>9, <1>12, <2>2 DEF x
  <2>5. Halfway(rest)
    BY <1>5, <1>12, <2>4 DEF Halfway
  <2>6. Pending(rest, i, l) = -Took(x, i, l)
    BY <2>4, <2>5 DEF Pending
  <2>7. at(first) = -Took(x, i, l)
    BY <1>5, <1>8, <1>12, <2>1
  <2>8. Pending(rest, i, l) = Pending(todo, i, l) + at(first)
    BY <1>8, <2>3, <2>6, <2>7
  <2>9. QED
    BY <2>8 DEF at, rest, first, todo
<1>13. QED
  BY <1>5, <1>9, <1>10, <1>11, <1>12

\* The rest of the statements is prepared when the key of a change is held.
LEMMA PreparedRest ==
  ASSUME NEW q \in RequestRow, Prepared(q), q.todo # <<>>, NEW row,
         row.todo = Tail(q.todo), q.held \subseteq row.held,
         q.todo[1].do = "change" => q.todo[1].key \in row.held
  PROVE  Prepared(row)
<1> DEFINE todo == q.todo
           rest == row.todo
<1>1. todo \in Seq(OperationStatement \cup UndoStatement) /\ todo # <<>>
  BY DEF RequestRow, Statements
<1>2. /\ rest = Tail(todo) /\ q.held \subseteq row.held
      /\ todo[1].do = "change" => todo[1].key \in row.held
  OBVIOUS
<1>3. /\ \A n \in DOMAIN todo : todo[n].do = "write" =>
           \A j \in DOMAIN Changes(todo[n].entry) :
             LET p == n + j - Len(Changes(todo[n].entry)) - 1
             IN  IF p >= 1 THEN todo[p] = Changes(todo[n].entry)[j]
                 ELSE Changes(todo[n].entry)[j].key \in q.held
      /\ \A n \in DOMAIN todo : todo[n].do = "change" =>
           \E m \in DOMAIN todo :
             n < m /\ todo[m].do = "write" /\ m <= n + Len(Changes(todo[m].entry))
  BY DEF Prepared
<1> HIDE DEF todo, rest
<1>4. /\ Len(todo) \in Nat \ {0} /\ rest \in Seq(OperationStatement \cup UndoStatement)
      /\ Len(rest) = Len(todo) - 1 /\ DOMAIN todo = 1 .. Len(todo)
      /\ DOMAIN rest = 1 .. Len(rest)
      /\ \A n \in 1 .. (Len(todo) - 1) : rest[n] = todo[n + 1]
  BY <1>1, <1>2, HeadAndRest
<1>5. ASSUME NEW n \in DOMAIN rest, rest[n].do = "write", NEW j \in DOMAIN Changes(rest[n].entry)
      PROVE  LET p == n + j - Len(Changes(rest[n].entry)) - 1
             IN  IF p >= 1 THEN rest[p] = Changes(rest[n].entry)[j]
                 ELSE Changes(rest[n].entry)[j].key \in row.held
  <2> DEFINE c == Changes(rest[n].entry)
             len == Len(c)
             p == n + j - len - 1
  <2>1. len \in 0 .. 2 /\ DOMAIN c = 1 .. len
    BY ChangesCases
  <2>2. \A k \in DOMAIN c : c[k].do = "change"
    BY ChangeFields
  <2>3. n + 1 \in DOMAIN todo /\ todo[n + 1] = rest[n] /\ n \in Nat
    BY <1>4, <1>5
  <2>4. LET r == (n + 1) + j - len - 1
        IN  IF r >= 1 THEN todo[r] = c[j] ELSE c[j].key \in q.held
    BY <1>3, <1>5, <2>3
  <2> HIDE DEF c, len
  <2>5. (n + 1) + j - len - 1 = p + 1 /\ p \in Int /\ j \in 1 .. len /\ p < n
    BY <1>5, <2>1, <2>3 DEF c
  <2>6. CASE p >= 1
    <3>1. todo[p + 1] = c[j]
      BY <2>4, <2>5, <2>6
    <3>2. rest[p] = todo[p + 1]
      BY <1>4, <1>5, <2>5, <2>6
    <3>3. QED
      BY <2>6, <3>1, <3>2 DEF c, len
  <2>7. CASE p = 0
    <3>1. todo[1] = c[j]
      BY <2>4, <2>5, <2>7
    <3>2. c[j].do = "change"
      BY <2>1, <2>2, <2>5
    <3>3. c[j].key \in row.held
      BY <1>2, <3>1, <3>2
    <3>4. QED
      BY <2>7, <3>3 DEF c, len
  <2>8. CASE p < 0
    <3>1. c[j].key \in row.held
      BY <1>2, <2>4, <2>5, <2>8
    <3>2. QED
      BY <2>5, <2>8, <3>1 DEF c, len
  <2>9. QED
    BY <2>5, <2>6, <2>7, <2>8
<1>6. ASSUME NEW n \in DOMAIN rest, rest[n].do = "change"
      PROVE  \E m \in DOMAIN rest :
               n < m /\ rest[m].do = "write" /\ m <= n + Len(Changes(rest[m].entry))
  <2>1. n + 1 \in DOMAIN todo /\ todo[n + 1] = rest[n]
    BY <1>4, <1>6
  <2>2. PICK m \in DOMAIN todo :
          n + 1 < m /\ todo[m].do = "write" /\ m <= n + 1 + Len(Changes(todo[m].entry))
    BY <1>3, <1>6, <2>1
  <2>3. m - 1 \in DOMAIN rest /\ rest[m - 1] = todo[m] /\ n \in Nat /\ m \in Nat
    BY <1>4, <1>6, <2>2
  <2>4. Len(Changes(todo[m].entry)) \in Nat
    BY ChangesCases
  <2>5. n < m - 1 /\ m - 1 <= n + Len(Changes(todo[m].entry))
    BY <2>2, <2>3, <2>4
  <2>6. QED
    BY <2>2, <2>3, <2>5
<1>7. QED
  BY <1>5, <1>6 DEF Prepared, rest

-----------------------------------------------------------------------------
(* The ledger and the log: the invariant.                                  *)

\* The committed ledger is the first one and what the entries did to it, and
\* so it was, without a shortage, at every id.
Explained(initial) ==
  \A i \in Item, l \in Location : \A n \in Nat :
    /\ (\A k \in DOMAIN log : k <= n) => ledger[i][l] = initial[i][l] + Net(log, i, l, n)
    /\ initial[i][l] + Net(log, i, l, n) >= 0

\* What a request did to the ledger is in its entries, or still pending.
Accounted(q) ==
  \A i \in Item, l \in Location : \A n \in Nat :
    (\A k \in DOMAIN q.written : k <= n) =>
      q.delta[i][l] = Net(q.written, i, l, n) + Pending(q.todo, i, l)

\* Its changes, and its entries up to any id, take no more than is there.
Covered(q) ==
  \A i \in Item, l \in Location :
    /\ ledger[i][l] + q.delta[i][l] >= 0
    /\ \A n \in Nat : ledger[i][l] + Net(q.written, i, l, n) >= 0

\* It holds every row it changed, and so the entries it wrote on a row come
\* after all that are committed on it.
Guarded(q) ==
  \A i \in Item, l \in Location :
    /\ q.delta[i][l] # 0 => RowKey(i, l) \in q.held
    /\ \A k \in DOMAIN q.written : Names(q.written[k], i, l) =>
         /\ RowKey(i, l) \in q.held
         /\ \A j \in DOMAIN log : Names(log[j], i, l) => j < k

OnLedger(q) == Prepared(q) /\ Accounted(q) /\ Covered(q) /\ Guarded(q)

NoShortage == \A i \in Item, l \in Location : ledger[i][l] >= 0

LedgerInv ==
  /\ \E initial \in InitialLedger : Explained(initial)
  /\ NoShortage
  /\ \A c \in Client : OnLedger(request[c])

-----------------------------------------------------------------------------
\* There are finitely many entries.
LEMMA EntriesFinite ==
  ASSUME IInv
  PROVE  /\ log \in FiniteEntries
         /\ \A c \in Client : request[c].written \in FiniteEntries
         /\ \A c \in Client : request[c] \in RequestRow
<1>1. nextId \in Nat /\ log \in Entries /\ \A c \in Client : request[c] \in RequestRow
  BY DEF IInv, RequestsTypeOK
<1>2. ASSUME NEW e \in Entries, \A k \in DOMAIN e : k < nextId PROVE e \in FiniteEntries
  <2>1. IsFiniteSet(1 .. nextId)
    BY <1>1, FS_Interval
  <2>2. DOMAIN e \subseteq 1 .. nextId
    <3>1. DOMAIN e \subseteq Nat \ {0}
      BY EntriesType
    <3>2. QED
      BY <1>1, <1>2, <3>1
  <2>3. IsFiniteSet(DOMAIN e)
    BY <2>1, <2>2, FS_Subset
  <2>4. QED
    BY <2>3 DEF FiniteEntries
<1>3. log \in FiniteEntries
  BY <1>1, <1>2 DEF IInv, IdsOnce
<1>4. ASSUME NEW c \in Client PROVE request[c].written \in FiniteEntries
  <2>1. request[c].written \in Entries
    BY <1>1 DEF RequestRow
  <2>2. \A k \in DOMAIN request[c].written : k < nextId
    BY DEF IInv, IdsOnce
  <2>3. QED
    BY <1>2, <2>1, <2>2
<1>5. QED
  BY <1>1, <1>3, <1>4

\* An idle connection is on the ledger.
LEMMA IdleOnLedger ==
  ASSUME NoShortage, ledger \in [Item -> [Location -> Int]]
  PROVE  OnLedger(Idle)
<1>1. /\ Idle.todo = <<>> /\ Idle.written = <<>> /\ Idle.held = {}
      /\ \A i \in Item, l \in Location : Idle.delta[i][l] = 0
      /\ DOMAIN <<>> = {}
  BY DEF Idle, NoChange
<1>2. \A i, l : Pending(<<>>, i, l) = 0
  BY DEF Pending, Halfway
<1>3. Prepared(Idle)
  BY <1>1 DEF Prepared
<1>4. Accounted(Idle)
  BY <1>1, <1>2, NetOfNothing DEF Accounted
<1>5. Covered(Idle)
  BY <1>1, NetOfNothing DEF Covered, NoShortage
<1>6. Guarded(Idle)
  BY <1>1 DEF Guarded
<1>7. QED
  BY <1>3, <1>4, <1>5, <1>6 DEF OnLedger

\* At the start.
LEMMA InitLedger == Init => LedgerInv
<1> SUFFICES ASSUME Init PROVE LedgerInv
  OBVIOUS
<1>1. ledger \in InitialLedger /\ ledger \in [Item -> [Location -> Nat]] /\ log = <<>>
      /\ DOMAIN <<>> = {}
  BY RequestsAssumption DEF Init
<1>2. NoShortage
  BY <1>1 DEF NoShortage
<1>3. Explained(ledger)
  BY <1>1, NetOfNothing DEF Explained
<1>4. ledger \in [Item -> [Location -> Int]]
  BY <1>1
<1>5. OnLedger(Idle)
  BY <1>2, <1>4, IdleOnLedger
<1>6. QED
  BY <1>1, <1>2, <1>3, <1>5 DEF LedgerInv, Init

\* A step of one request that commits nothing.
LEMMA OneOnLedger ==
  ASSUME IInv, LedgerInv, NEW c \in Client, NEW row, OnLedger(row),
         request' = [request EXCEPT ![c] = row], UNCHANGED <<ledger, log>>
  PROVE  LedgerInv'
<1>1. /\ request'[c] = row /\ \A d \in Client : d # c => request'[d] = request[d]
  BY DEF IInv, RequestsTypeOK
<1>2. PICK initial \in InitialLedger : Explained(initial)
  BY DEF LedgerInv
<1>3. Explained(initial)'
  BY <1>2 DEF Explained, Net, Brought, Taken
<1>4. NoShortage'
  BY DEF LedgerInv, NoShortage
<1>5. \A d \in Client : OnLedger(request'[d])
  BY <1>1 DEF LedgerInv
<1>6. ASSUME NEW d \in Client PROVE OnLedger(request[d])'
  <2>1. OnLedger(request'[d])
    BY <1>5
  <2>2. Prepared(request[d])' /\ Accounted(request[d])'
    BY <2>1 DEF OnLedger, Prepared, Accounted, Net, Brought, Taken, Pending, Halfway, Gave, Took
  <2>3. Covered(request[d])'
    BY <2>1 DEF OnLedger, Covered, Net, Brought, Taken
  <2>4. Guarded(request[d])'
    BY <2>1 DEF OnLedger, Guarded
  <2>5. QED
    BY <2>2, <2>3, <2>4 DEF OnLedger
<1>7. QED
  BY <1>2, <1>3, <1>4, <1>6 DEF LedgerInv

\* Statements in place of none, or of one that is no change.
LEMMA NewStatements ==
  ASSUME NEW q, OnLedger(q), \A i \in Item, l \in Location : Pending(q.todo, i, l) = 0,
         NEW row, row.todo \in Statements, EntriesFollowChanges(row.todo),
         row.written = q.written, row.delta = q.delta, row.held = q.held
  PROVE  OnLedger(row)
<1>1. Prepared(row) /\ \A i : \A l \in Location : Pending(row.todo, i, l) = 0
  BY NothingPending
<1>2. Accounted(row)
  BY <1>1 DEF OnLedger, Accounted
<1>3. Covered(row) /\ Guarded(row)
  BY DEF OnLedger, Covered, Guarded
<1>4. QED
  BY <1>1, <1>2, <1>3 DEF OnLedger

\* A request that begins.
LEMMA BeginOnLedger ==
  ASSUME IInv, LedgerInv, NEW c \in Client, NEW todo \in Statements, EntriesFollowChanges(todo),
         Begin(c, todo)
  PROVE  LedgerInv'
<1> DEFINE row == [request[c] EXCEPT !.busy = TRUE, !.todo = todo]
<1>1. request[c] = Idle /\ request[c] \in RequestRow /\ OnLedger(request[c])
  BY DEF IInv, FreeIsIdle, Begin, RequestsTypeOK, LedgerInv
<1>2. /\ row.todo = todo /\ row.written = request[c].written /\ row.delta = request[c].delta
      /\ row.held = request[c].held
  BY <1>1 DEF RequestRow
<1>3. \A i \in Item, l \in Location : Pending(request[c].todo, i, l) = 0
  BY <1>1 DEF Idle, Pending, Halfway
<1>4. request' = [request EXCEPT ![c] = row] /\ UNCHANGED <<ledger, log>>
  BY DEF Begin, IInv, RequestsTypeOK
<1> HIDE DEF row
<1>5. OnLedger(row)
  BY <1>1, <1>2, <1>3, NewStatements
<1>6. QED
  BY <1>4, <1>5, OneOnLedger

\* What is pending is a number.
LEMMA PendingType ==
  ASSUME NEW q \in RequestRow, NEW i, NEW l
  PROVE  Pending(q.todo, i, l) \in Int
<1> DEFINE todo == q.todo
<1>1. todo \in Seq(OperationStatement \cup UndoStatement)
  BY DEF RequestRow, Statements
<1> HIDE DEF todo
<1>2. \A n \in 1 .. Len(todo) : todo[n].do = "write" =>
        Gave(todo[n].entry, i, l) \in Nat /\ Took(todo[n].entry, i, l) \in Nat
  <2>1. SUFFICES ASSUME NEW n \in 1 .. Len(todo), todo[n].do = "write"
                 PROVE  Gave(todo[n].entry, i, l) \in Nat /\ Took(todo[n].entry, i, l) \in Nat
    OBVIOUS
  <2>2. todo[n] \in OperationStatement \cup UndoStatement
    BY <1>1
  <2>3. QED
    BY <2>1, <2>2, StatementFields, GaveType
<1>3. Len(todo) \in Nat /\ (todo # <<>> => Len(todo) > 0)
  BY <1>1
<1>4. CASE todo # <<>> /\ todo[1].do = "write"
  BY <1>2, <1>3, <1>4 DEF Pending, todo
<1>5. CASE ~(todo # <<>> /\ todo[1].do = "write") /\ Halfway(todo)
  <2>1. 2 \in 1 .. Len(todo) /\ todo[2].do = "write"
    BY <1>3, <1>5 DEF Halfway
  <2>2. Took(todo[2].entry, i, l) \in Nat
    BY <1>2, <2>1
  <2>3. Pending(todo, i, l) = -Took(todo[2].entry, i, l)
    BY <1>5 DEF Pending
  <2>4. QED
    BY <2>2, <2>3 DEF todo
<1>6. CASE ~(todo # <<>> /\ todo[1].do = "write") /\ ~Halfway(todo)
  BY <1>6 DEF Pending, todo
<1>7. QED
  BY <1>4, <1>5, <1>6

\* Who comes to write an entry holds the rows it names.
LEMMA WriterHolds ==
  ASSUME NEW q \in RequestRow, Prepared(q), q.todo # <<>>, q.todo[1].do = "write",
         NEW i, NEW l \in Location, Names(q.todo[1].entry, i, l)
  PROVE  RowKey(i, l) \in q.held
<1> DEFINE x == q.todo[1].entry
           c == Changes(x)
           len == Len(c)
<1>1. 1 \in DOMAIN q.todo
  BY DEF RequestRow, Statements
<1>2. \A j \in DOMAIN c :
        LET p == 1 + j - len - 1
        IN  IF p >= 1 THEN q.todo[p] = c[j] ELSE c[j].key \in q.held
  BY <1>1 DEF Prepared
<1>3. /\ len \in 0 .. 2 /\ DOMAIN c = 1 .. len
      /\ len = 0 <=> x.from = NoLocation /\ x.to = NoLocation
      /\ len = 2 <=> x.from # NoLocation /\ x.to # NoLocation
      /\ len = 1 => c[1] = IF x.from = NoLocation THEN Giving(x) ELSE Taking(x)
      /\ len = 2 => c[1] = Taking(x) /\ c[2] = Giving(x)
  BY ChangesCases
<1>4. x.item = i /\ (x.from = l \/ x.to = l) /\ l # NoLocation
  BY RequestsAssumption DEF Names
<1>5. Giving(x).key = RowKey(x.item, x.to) /\ Taking(x).key = RowKey(x.item, x.from)
  BY ChangeFields
<1> HIDE DEF x, c, len
<1>6. \A j \in 1 .. len : c[j].key \in q.held
  <2>1. \A j \in 1 .. len : ~(1 + j - len - 1 >= 1)
    BY <1>3
  <2>2. QED
    BY <1>2, <1>3, <2>1
<1>7. CASE len = 1
  <2>1. c[1].key = RowKey(i, l)
    BY <1>3, <1>4, <1>5, <1>7
  <2>2. QED
    BY <1>6, <1>7, <2>1
<1>8. CASE len = 2
  <2>1. c[1].key = RowKey(i, l) \/ c[2].key = RowKey(i, l)
    BY <1>3, <1>4, <1>5, <1>8
  <2>2. 1 \in 1 .. len /\ 2 \in 1 .. len
    BY <1>8
  <2>3. QED
    BY <1>6, <2>1, <2>2
<1>9. QED
  BY <1>3, <1>4, <1>7, <1>8

\* A request at a statement: it is on the ledger, its statement is the first.
LEMMA AtStatementOnLedger ==
  ASSUME IInv, LedgerInv, NEW c \in Client, request[c].todo # <<>>
  PROVE  /\ request[c] \in RequestRow /\ request[c].todo \in Statements
         /\ OnLedger(request[c]) /\ Statement(c) = request[c].todo[1]
         /\ Statement(c) \in OperationStatement \cup UndoStatement
         /\ Rest(c) = Tail(request[c].todo) /\ Rest(c) \in Statements
         /\ Statement(c).do \notin {"change", "write"} =>
              \A i \in Item, l \in Location : Pending(request[c].todo, i, l) = 0
<1>1. /\ request[c] \in RequestRow /\ request[c].todo \in Statements
      /\ Statement(c) = request[c].todo[1] /\ Rest(c) \in Statements
      /\ Statement(c) \in OperationStatement \cup UndoStatement
  BY AtWork
<1>2. OnLedger(request[c])
  BY DEF LedgerInv
<1>3. Statement(c).do \notin {"change", "write"} =>
        \A i \in Item, l \in Location : Pending(request[c].todo, i, l) = 0
  BY <1>1 DEF Pending, Halfway
<1>4. QED
  BY <1>1, <1>2, <1>3 DEF Rest

\* Taking a lock.
LEMMA AcquireOnLedger ==
  ASSUME IInv, LedgerInv, NEW c \in Client, Acquire(c)
  PROVE  LedgerInv'
<1> DEFINE q == request[c]
           row == [q EXCEPT !.todo = Rest(c), !.held = @ \cup {Statement(c).key}]
<1>1. q.todo # <<>> /\ Statement(c).do = "lock"
  BY DEF Acquire, AtStatement
<1>2. /\ q \in RequestRow /\ OnLedger(q) /\ Rest(c) = Tail(q.todo) /\ q.todo[1].do = "lock"
      /\ \A i \in Item, l \in Location : Pending(q.todo, i, l) = 0
  BY <1>1, AtStatementOnLedger
<1>3. /\ row.todo = Tail(q.todo) /\ row.held = q.held \cup {Statement(c).key}
      /\ row.written = q.written /\ row.delta = q.delta
  BY <1>2 DEF RequestRow
<1>4. request' = [request EXCEPT ![c] = row] /\ UNCHANGED <<ledger, log>>
  BY DEF Acquire, IInv, RequestsTypeOK
<1> HIDE DEF row, q
<1>5. Prepared(row)
  BY <1>1, <1>2, <1>3, PreparedRest DEF OnLedger
<1>6. \A i \in Item, l \in Location : Pending(row.todo, i, l) = 0
  BY <1>1, <1>2, <1>3, PendingAfter DEF OnLedger
<1>7. Accounted(row) /\ Covered(row) /\ Guarded(row)
  BY <1>2, <1>3, <1>6 DEF OnLedger, Accounted, Covered, Guarded
<1>8. OnLedger(row)
  BY <1>5, <1>7 DEF OnLedger
<1>9. QED
  BY <1>4, <1>8, OneOnLedger

\* Changing a row.
LEMMA ChangeRowOnLedger ==
  ASSUME IInv, LedgerInv, NEW c \in Client, ChangeRow(c)
  PROVE  LedgerInv'
<1> DEFINE q == request[c]
           s == Statement(c)
<1>1. q.todo # <<>> /\ s.do = "change"
  BY DEF ChangeRow, AtStatement
<1>2. /\ q \in RequestRow /\ OnLedger(q) /\ Rest(c) = Tail(q.todo) /\ q.todo[1] = s
      /\ s \in OperationStatement \cup UndoStatement
  BY <1>1, AtStatementOnLedger
<1>3. s.delta \in Int /\ \E i \in Item, l \in Location : s.key = RowKey(i, l)
  BY <1>1, <1>2, StatementFields
<1>4. PICK x \in Item, y \in Location : s.key = RowKey(x, y)
  BY <1>3
<1>5. s.key[2] = x /\ s.key[3] = y
  BY <1>4 DEF RowKey
<1> DEFINE d == [q.delta EXCEPT ![x][y] = @ + s.delta]
           row == [q EXCEPT !.todo = Rest(c), !.held = @ \cup {s.key}, !.delta = d]
<1>6. q.delta \in Deltas /\ q.held \in Locked
  BY <1>2 DEF RequestRow
<1>7. /\ d \in Deltas
      /\ \A i \in Item, l \in Location :
           d[i][l] = q.delta[i][l] + (IF i = x /\ l = y THEN s.delta ELSE 0)
  BY <1>3, <1>6 DEF Deltas
<1>8. request' = [request EXCEPT ![c] = row] /\ UNCHANGED <<ledger, log>>
  BY <1>2, <1>5 DEF ChangeRow, IInv, RequestsTypeOK, RequestRow
<1>9. ledger[x][y] + d[x][y] >= 0
  <2>1. Seen(c, x, y) + s.delta >= 0
    BY <1>5 DEF ChangeRow
  <2>2. ledger[x][y] \in Int /\ q.delta[x][y] \in Int
    BY <1>6 DEF IInv, RequestsTypeOK, Deltas
  <2>3. d[x][y] = q.delta[x][y] + s.delta
    BY <1>7
  <2> HIDE DEF d, s
  <2>4. QED
    BY <1>3, <2>1, <2>2, <2>3 DEF Seen
<1> HIDE DEF d
<1>10. /\ row.todo = Tail(q.todo) /\ row.held = q.held \cup {s.key}
       /\ row.written = q.written /\ row.delta = d
  BY <1>2 DEF RequestRow
<1> HIDE DEF row, q, s
<1>11. Prepared(row)
  BY <1>1, <1>2, <1>10, PreparedRest DEF OnLedger
<1>12. \A i \in Item, l \in Location :
         Pending(row.todo, i, l)
           = Pending(q.todo, i, l) + (IF i = x /\ l = y THEN s.delta ELSE 0)
  <2>1. \A i \in Item, l \in Location :
          Pending(Tail(q.todo), i, l)
            = Pending(q.todo, i, l) + (IF q.todo[1].key = RowKey(i, l) THEN q.todo[1].delta ELSE 0)
    BY <1>1, <1>2, PendingChange DEF OnLedger
  <2>2. \A i \in Item, l \in Location : RowKey(x, y) = RowKey(i, l) <=> i = x /\ l = y
    BY DEF RowKey
  <2>3. QED
    BY <1>2, <1>4, <1>10, <2>1, <2>2
<1>13. Accounted(row)
  <2>1. SUFFICES ASSUME NEW i \in Item, NEW l \in Location, NEW n \in Nat,
                        \A k \in DOMAIN q.written : k <= n
                 PROVE  d[i][l] = Net(q.written, i, l, n) + Pending(row.todo, i, l)
    BY <1>10 DEF Accounted
  <2> DEFINE a == IF i = x /\ l = y THEN s.delta ELSE 0
             p == Pending(q.todo, i, l)
             t == Net(q.written, i, l, n)
  <2>2. q.delta[i][l] = t + p
    BY <1>2, <2>1 DEF OnLedger, Accounted
  <2>3. Pending(row.todo, i, l) = p + a
    BY <1>12
  <2>4. d[i][l] = q.delta[i][l] + a
    BY <1>7
  <2>5. t \in Int /\ p \in Int /\ a \in Int
    <3>1. q.written \in FiniteEntries
      BY EntriesFinite DEF q
    <3>2. t \in Int
      BY <3>1, NetType
    <3>3. p \in Int
      BY <1>2, PendingType
    <3>4. QED
      BY <1>3, <3>2, <3>3
  <2> HIDE DEF a, p, t
  <2>6. QED
    BY <2>2, <2>3, <2>4, <2>5 DEF p, t
<1>14. Covered(row)
  <2>1. \A i \in Item, l \in Location : d[i][l] = q.delta[i][l] \/ (i = x /\ l = y)
    BY <1>6, <1>7 DEF Deltas
  <2>2. QED
    BY <1>2, <1>9, <1>10, <2>1 DEF OnLedger, Covered
<1>15. Guarded(row)
  <2>1. \A i \in Item, l \in Location : d[i][l] = q.delta[i][l] \/ (i = x /\ l = y)
    BY <1>6, <1>7 DEF Deltas
  <2>2. QED
    BY <1>2, <1>4, <1>10, <2>1 DEF OnLedger, Guarded
<1>16. OnLedger(row)
  BY <1>11, <1>13, <1>14, <1>15 DEF OnLedger
<1>17. QED
  BY <1>8, <1>16, OneOnLedger

\* Writing an entry.
LEMMA WriteOnLedger ==
  ASSUME IInv, LedgerInv, NEW c \in Client, WriteEntry(c)
  PROVE  LedgerInv'
<1> DEFINE q == request[c]
           x == Statement(c).entry
           w == WithEntry(q.written, nextId, x)
           row == [q EXCEPT !.todo = Rest(c), !.written = w]
<1>1. q.todo # <<>> /\ Statement(c).do = "write"
  BY DEF WriteEntry, AtStatement
<1>2. /\ q \in RequestRow /\ OnLedger(q) /\ Rest(c) = Tail(q.todo)
      /\ q.todo[1].do = "write" /\ q.todo[1].entry = x
      /\ Statement(c) \in OperationStatement \cup UndoStatement
  BY <1>1, AtStatementOnLedger
<1>3. x \in LogEntry(Nat, BOOLEAN)
  BY <1>1, <1>2, StatementFields
<1>4. /\ q.written \in FiniteEntries /\ nextId \in Nat \ {0}
      /\ \A k \in DOMAIN q.written : k < nextId /\ k \in Nat
      /\ \A k \in DOMAIN log : k < nextId
  <2>1. q.written \in FiniteEntries /\ nextId \in Nat \ {0}
    BY EntriesFinite DEF IInv, RequestsTypeOK
  <2>2. \A k \in DOMAIN q.written : k \in Nat
    BY <2>1, EntriesType DEF FiniteEntries
  <2>3. QED
    BY <2>1, <2>2 DEF IInv, IdsOnce
<1>5. request' = [request EXCEPT ![c] = row] /\ UNCHANGED <<ledger, log>>
  BY DEF WriteEntry, WithEntry, IInv, RequestsTypeOK
<1>6. row.todo = Tail(q.todo) /\ row.held = q.held /\ row.written = w /\ row.delta = q.delta
  BY <1>2 DEF RequestRow
<1> HIDE DEF row, q, x
<1>7. nextId \notin DOMAIN q.written
  BY <1>4
<1>8. \A i, l : \A n \in Nat :
        Net(w, i, l, n)
          = Net(q.written, i, l, n) + (IF nextId <= n THEN Gave(x, i, l) - Took(x, i, l) ELSE 0)
  BY <1>3, <1>4, <1>7, NetAdded
<1>9. /\ DOMAIN w = DOMAIN q.written \cup {nextId} /\ w[nextId] = x
      /\ \A k \in DOMAIN q.written : w[k] = q.written[k]
  <2>1. q.written \in Entries
    BY <1>4 DEF FiniteEntries
  <2>2. /\ DOMAIN w = DOMAIN q.written \cup {nextId} /\ w[nextId] = x
        /\ \A k \in DOMAIN q.written \ {nextId} : w[k] = q.written[k]
    BY <1>3, <1>4, <2>1, AddedType
  <2> HIDE DEF w
  <2>3. QED
    BY <1>7, <2>2
<1> HIDE DEF w
<1>10. Prepared(row)
  BY <1>1, <1>2, <1>6, PreparedRest DEF OnLedger
<1>11. \A i \in Item, l \in Location : Pending(row.todo, i, l) = 0
  BY <1>1, <1>2, <1>6, PendingAfter DEF OnLedger
<1>12. \A i \in Item, l \in Location :
         Pending(q.todo, i, l) = Gave(x, i, l) - Took(x, i, l)
  BY <1>1, <1>2 DEF Pending
<1>13. \A i, l : Gave(x, i, l) \in Nat /\ Took(x, i, l) \in Nat
  BY <1>3, GaveType
<1>14. Accounted(row)
  <2>1. SUFFICES ASSUME NEW i \in Item, NEW l \in Location, NEW n \in Nat,
                        \A k \in DOMAIN w : k <= n
                 PROVE  q.delta[i][l] = Net(w, i, l, n) + 0
    BY <1>6, <1>11 DEF Accounted
  <2> DEFINE g == Gave(x, i, l)
             t == Took(x, i, l)
             m == Net(q.written, i, l, n)
  <2>2. nextId <= n /\ \A k \in DOMAIN q.written : k <= n
    BY <1>9, <2>1
  <2>3. q.delta[i][l] = m + (g - t)
    BY <1>2, <1>12, <2>2 DEF OnLedger, Accounted
  <2>4. Net(w, i, l, n) = m + (g - t)
    BY <1>8, <2>2
  <2>5. m \in Int /\ g \in Nat /\ t \in Nat
    BY <1>4, <1>13, NetType
  <2> HIDE DEF g, t, m
  <2>6. QED
    BY <2>3, <2>4, <2>5
<1>15. Covered(row)
  <2>1. SUFFICES ASSUME NEW i \in Item, NEW l \in Location, NEW n \in Nat
                 PROVE  ledger[i][l] + q.delta[i][l] >= 0 /\ ledger[i][l] + Net(w, i, l, n) >= 0
    BY <1>6 DEF Covered
  <2>2. ledger[i][l] + q.delta[i][l] >= 0 /\ ledger[i][l] + Net(q.written, i, l, n) >= 0
    BY <1>2 DEF OnLedger, Covered
  <2>3. CASE nextId <= n
    <3>1. \A k \in DOMAIN q.written : k <= n
      BY <1>4, <2>3
    <3>2. q.delta[i][l] = Net(q.written, i, l, n) + (Gave(x, i, l) - Took(x, i, l))
      BY <1>2, <1>12, <3>1 DEF OnLedger, Accounted
    <3>3. Net(w, i, l, n) = q.delta[i][l]
      BY <1>8, <2>3, <3>2
    <3>4. QED
      BY <2>2, <3>3
  <2>4. CASE ~(nextId <= n)
    <3>1. Net(w, i, l, n) = Net(q.written, i, l, n) + 0
      BY <1>8, <2>4
    <3>2. Net(q.written, i, l, n) \in Int
      BY <1>4, NetType
    <3>3. QED
      BY <2>2, <3>1, <3>2
  <2>5. QED
    BY <2>3, <2>4
<1>16. Guarded(row)
  <2>1. SUFFICES ASSUME NEW i \in Item, NEW l \in Location, NEW k \in DOMAIN w, Names(w[k], i, l)
                 PROVE  /\ RowKey(i, l) \in q.held
                        /\ \A j \in DOMAIN log : Names(log[j], i, l) => j < k
    BY <1>2, <1>6 DEF OnLedger, Guarded
  <2>2. CASE k \in DOMAIN q.written
    BY <1>2, <1>9, <2>1, <2>2 DEF OnLedger, Guarded
  <2>3. CASE k = nextId
    <3>1. Names(x, i, l)
      BY <1>9, <2>1, <2>3
    <3>2. RowKey(i, l) \in q.held
      BY <1>1, <1>2, <3>1, WriterHolds DEF OnLedger
    <3>3. QED
      BY <1>4, <2>3, <3>2
  <2>4. QED
    BY <1>9, <2>1, <2>2, <2>3
<1>17. OnLedger(row)
  BY <1>10, <1>14, <1>15, <1>16 DEF OnLedger
<1>18. QED
  BY <1>5, <1>17, OneOnLedger

\* Reading the entry to undo: its item is locked next.
LEMMA UndoReadOnLedger ==
  ASSUME IInv, LedgerInv, NEW c \in Client, UndoRead(c)
  PROVE  LedgerInv'
<1> DEFINE q == request[c]
<1>1. q.todo # <<>> /\ Statement(c).do = "undo"
  BY DEF UndoRead, AtStatement
<1>2. /\ q \in RequestRow /\ OnLedger(q)
      /\ \A i \in Item, l \in Location : Pending(q.todo, i, l) = 0
  BY <1>1, AtStatementOnLedger
<1>3. PICK k \in DOMAIN log : Reading(q, k)
  <2>1. ~Operating(q)
    BY <1>1, OperatingFirst
  <2>2. \A k : ~Asking(q, k) /\ ~Compensating(q, k) /\ ~Writing(q, k)
    BY <1>1, AskingFirst, CompensatingFirst, WritingFirst
  <2>3. QED
    BY <1>1, <2>1, <2>2, AtPhase
<1>4. Statement(c).entry = k /\ Rest(c) = <<>>
  BY <1>3, ReadingFirst
<1> DEFINE s == ItemLock(log[k].item)
           t == [do |-> "compensate", entry |-> k]
           row == [q EXCEPT !.todo = <<s, t>>]
<1>5. s.do = "lock" /\ t.do = "compensate"
  BY DEF ItemLock
<1>6. s \in OperationStatement /\ t \in UndoStatement
  <2>1. k \in Nat /\ log[k] \in LogEntry(Nat, BOOLEAN)
    BY <1>3, EntriesType DEF IInv, RequestsTypeOK
  <2>2. log[k].item \in Item
    BY <2>1 DEF LogEntry
  <2>3. QED
    BY <2>1, <2>2 DEF ItemLock, OperationStatement, UndoStatement
<1>7. request' = [request EXCEPT ![c] = row] /\ UNCHANGED <<ledger, log>>
  <2>1. <<>> \o <<s, t>> = <<s, t>>
    <3> HIDE DEF s, t
    <3> QED OBVIOUS
  <2>2. request' = [request EXCEPT ![c].todo = <<>> \o <<s, t>>] /\ UNCHANGED <<ledger, log>>
    BY <1>4 DEF UndoRead
  <2> HIDE DEF s, t
  <2>3. QED
    BY <2>1, <2>2 DEF IInv, RequestsTypeOK
<1> HIDE DEF s, t
<1>8. <<s, t>> \in Statements /\ EntriesFollowChanges(<<s, t>>)
  <2>1. \A S : \A x, y \in S : <<x, y>> \in Seq(S)
    OBVIOUS
  <2>2. <<s, t>> \in Statements
    BY <1>6, <2>1 DEF Statements
  <2>3. EntriesFollowChanges(<<s, t>>)
    BY <1>5, OthersFollow
  <2>4. QED
    BY <2>2, <2>3
<1> DEFINE next == <<s, t>>
<1>9. /\ row.todo = next /\ row.written = q.written /\ row.delta = q.delta /\ row.held = q.held
      /\ next \in Statements /\ EntriesFollowChanges(next)
  BY <1>2, <1>8 DEF RequestRow
<1> HIDE DEF row, q, next
<1>10. OnLedger(row)
  BY <1>2, <1>9, NewStatements
<1>11. QED
  BY <1>7, <1>10, OneOnLedger

\* Compensating: the entry that takes back is made and written next.
LEMMA CompensateOnLedger ==
  ASSUME IInv, LedgerInv, NEW c \in Client, Compensate(c)
  PROVE  LedgerInv'
<1> DEFINE q == request[c]
<1>1. q.todo # <<>> /\ Statement(c).do = "compensate"
  BY DEF Compensate, AtStatement
<1>2. /\ q \in RequestRow /\ OnLedger(q)
      /\ \A i \in Item, l \in Location : Pending(q.todo, i, l) = 0
  BY <1>1, AtStatementOnLedger
<1>3. PICK k \in DOMAIN log : Compensating(q, k)
  <2>1. ~Operating(q)
    BY <1>1, OperatingFirst
  <2>2. \A k : ~Asking(q, k) /\ ~Reading(q, k) /\ ~Writing(q, k)
    BY <1>1, AskingFirst, ReadingFirst, WritingFirst
  <2>3. QED
    BY <1>1, <2>1, <2>2, AtPhase
<1>4. Statement(c).entry = k /\ Rest(c) = <<>>
  BY <1>1, <1>3, CompensatingFirst
<1> DEFINE entry == Compensation(c, k)
           changes == Changes(entry)
           last == Write(entry)
           todo == changes \o <<last>>
           row == [q EXCEPT !.todo = todo, !.marked = @ \cup {k}]
<1>5. entry \in LogEntry(Nat, {FALSE}) /\ entry \in LogEntry(Nat, BOOLEAN) /\ entry.undoOf = k
  BY <1>3, <1>4, CompensationType DEF Compensate, IInv
<1>6. changes \in Seq(ChangeStatement)
  BY <1>5, ChangesShape
<1>7. last \in UndoStatement
  <2> HIDE DEF entry
  <2>1. QED
    BY <1>5 DEF Write, UndoStatement
<1>8. UNCHANGED <<ledger, log>> /\
      request' = [request EXCEPT ![c].todo = <<>> \o changes \o <<last>>, ![c].marked = @ \cup {k}]
  BY <1>4, <1>5 DEF Compensate
<1>9. todo \in Statements
  <2> HIDE DEF changes, last
  <2>1. ChangeStatement \subseteq OperationStatement
    BY DEF ChangeStatement, OperationStatement
  <2>2. \A S, T, U : \A s \in Seq(S) : \A x \in U : S \subseteq T => s \o <<x>> \in Seq(T \cup U)
    OBVIOUS
  <2>3. QED
    BY <1>6, <1>7, <2>1, <2>2, Zenon DEF Statements
<1>10. EntriesFollowChanges(todo)
  <2> HIDE DEF entry
  <2>1. QED
    BY <1>5, <1>9, EntryFollows
<1> HIDE DEF entry, changes, last
<1>11. <<>> \o changes \o <<last>> = todo
  <2>1. \A s \in Seq(ChangeStatement) : \A x : <<>> \o s \o <<x>> = s \o <<x>>
    OBVIOUS
  <2>2. QED
    BY <1>6, <2>1
<1> HIDE DEF todo
<1>12. request' = [request EXCEPT ![c] = row]
  <2>1. request' = [request EXCEPT ![c].todo = todo, ![c].marked = @ \cup {k}]
    BY <1>8, <1>11
  <2>2. QED
    BY <2>1 DEF IInv, RequestsTypeOK
<1>13. row.todo = todo /\ row.written = q.written /\ row.delta = q.delta /\ row.held = q.held
  BY <1>2 DEF RequestRow
<1> HIDE DEF row, q
<1>14. OnLedger(row)
  BY <1>2, <1>9, <1>10, <1>13, NewStatements
<1>15. QED
  BY <1>8, <1>12, <1>14, OneOnLedger

\* A rollback.
LEMMA CloseOnLedger ==
  ASSUME IInv, LedgerInv, NEW c \in Client, Close(c), UNCHANGED <<ledger, log, nextId>>
  PROVE  LedgerInv'
<1>1. OnLedger(Idle)
  BY IdleOnLedger DEF LedgerInv, IInv, RequestsTypeOK
<1>2. request' = [request EXCEPT ![c] = Idle] /\ UNCHANGED <<ledger, log>>
  BY DEF Close
<1>3. QED
  BY <1>1, <1>2, OneOnLedger

\* What a commit does to the log and the ledger.
LEMMA CommittedRows ==
  ASSUME IInv, NEW c \in Client, Commit(c)
  PROVE  /\ \A j \in DOMAIN log : SameRow(log'[j], log[j])
         /\ \A j \in DOMAIN request[c].written : SameRow(log'[j], request[c].written[j])
         /\ \A i \in Item, l \in Location :
              ledger'[i][l] = ledger[i][l] + request[c].delta[i][l]
<1> DEFINE written == request[c].written
           marked == request[c].marked
           ids == DOMAIN log \cup DOMAIN written
           added(j) == IF j \in DOMAIN written THEN written[j] ELSE log[j]
<1>1. log' = [j \in ids |-> [added(j) EXCEPT !.undone = @ \/ j \in marked]]
  BY DEF Commit, Added
<1>2. \A k \in DOMAIN log : log[k] \in LogEntry(Nat, BOOLEAN)
  BY EntriesType DEF IInv, RequestsTypeOK
<1>3. \A k \in DOMAIN written : written[k] \in LogEntry(Nat, BOOLEAN)
  BY EntriesType DEF IInv, RequestsTypeOK, RequestRow
<1>4. \A j \in DOMAIN written : j \notin DOMAIN log
  BY DEF IInv, IdsOnce
<1>5. \A e \in LogEntry(Nat, BOOLEAN) : \A b \in BOOLEAN : SameRow([e EXCEPT !.undone = @ \/ b], e)
  BY DEF LogEntry, SameRow
<1> HIDE DEF written, marked
<1>6. ASSUME NEW j \in ids PROVE SameRow(log'[j], added(j))
  <2>1. added(j) \in LogEntry(Nat, BOOLEAN)
    BY <1>2, <1>3
  <2> HIDE DEF added
  <2>2. log'[j] = [added(j) EXCEPT !.undone = @ \/ j \in marked]
    BY <1>1
  <2> DEFINE mark == j \in marked
             e == added(j)
  <2>3. mark \in BOOLEAN /\ e \in LogEntry(Nat, BOOLEAN)
    BY <2>1
  <2> HIDE DEF mark, e
  <2>4. SameRow([e EXCEPT !.undone = @ \/ mark], e)
    BY <1>5, <2>3, Zenon
  <2>5. QED
    BY <2>2, <2>4, Zenon DEF mark, e
<1>7. \A j \in DOMAIN log : SameRow(log'[j], log[j])
  BY <1>4, <1>6
<1>8. \A j \in DOMAIN written : SameRow(log'[j], written[j])
  BY <1>6
<1>9. \A i \in Item, l \in Location : ledger'[i][l] = ledger[i][l] + request[c].delta[i][l]
  BY DEF Commit, Plus, IInv, RequestsTypeOK
<1>10. QED
  BY <1>7, <1>8, <1>9 DEF written

\* A commit.
LEMMA CommitOnLedger ==
  ASSUME IInv, LedgerInv, NEW c \in Client, Commit(c)
  PROVE  LedgerInv'
<1> DEFINE q == request[c]
           w == q.written
<1>1. /\ log \in FiniteEntries /\ w \in FiniteEntries /\ q \in RequestRow
      /\ \A d \in Client : request[d].written \in FiniteEntries
      /\ nextId \in Nat
  BY EntriesFinite DEF IInv, RequestsTypeOK
<1>2. /\ log' \in Entries /\ DOMAIN log' = DOMAIN log \cup DOMAIN w
      /\ \A j \in DOMAIN log : j \notin DOMAIN w
  BY CommittedLog
<1>3. /\ \A j \in DOMAIN log : SameRow(log'[j], log[j])
      /\ \A j \in DOMAIN w : SameRow(log'[j], w[j])
      /\ \A i \in Item, l \in Location : ledger'[i][l] = ledger[i][l] + q.delta[i][l]
  BY CommittedRows
<1>4. /\ request'[c] = Idle /\ \A d \in Client : d # c => request'[d] = request[d]
      /\ q.todo = <<>>
  BY DEF Commit, IInv, RequestsTypeOK
<1>5. OnLedger(q) /\ NoShortage /\ \A d \in Client : OnLedger(request[d])
  BY DEF LedgerInv
<1>6. \A i, l : Pending(q.todo, i, l) = 0
  BY <1>4 DEF Pending, Halfway
<1>7. /\ \A i \in Item, l \in Location : ledger[i][l] \in Int /\ q.delta[i][l] \in Int
      /\ \A d \in Client : \A i \in Item, l \in Location : request[d].delta[i][l] \in Int
      /\ \A d \in Client : d # c => q.held \cap request[d].held = {}
  BY DEF IInv, RequestsTypeOK, RequestRow, Deltas, LocksExclusive
<1>8. /\ \A k \in DOMAIN log : k <= nextId /\ k \in Nat
      /\ \A k \in DOMAIN w : k <= nextId /\ k \in Nat
  <2>1. /\ \A k \in DOMAIN log : k < nextId /\ k \in Nat
        /\ \A k \in DOMAIN w : k < nextId /\ k \in Nat
    BY <1>1, EntriesType DEF IInv, IdsOnce, FiniteEntries
  <2>2. QED
    BY <1>1, <2>1
<1> HIDE DEF q, w
<1>9. \A i, l : \A n \in Nat : Net(log', i, l, n) = Net(log, i, l, n) + Net(w, i, l, n)
  <2>1. DOMAIN log \cap DOMAIN w = {}
    BY <1>2
  <2>2. QED
    BY <1>1, <1>2, <1>3, <2>1, NetUnion
<1>10. \A i, l : \A n \in Nat : Net(log, i, l, n) \in Int /\ Net(w, i, l, n) \in Int
  BY <1>1, NetType
<1>11. \A i \in Item, l \in Location : ledger'[i][l] >= 0
  BY <1>3, <1>5 DEF OnLedger, Covered
<1>12. PICK initial \in InitialLedger : Explained(initial)
  BY DEF LedgerInv
<1>13. initial \in [Item -> [Location -> Nat]]
  BY RequestsAssumption
<1>14. ASSUME NEW i \in Item, NEW l \in Location, NEW n \in Nat
       PROVE  /\ (\A k \in DOMAIN log' : k <= n) => ledger'[i][l] = initial[i][l] + Net(log', i, l, n)
              /\ initial[i][l] + Net(log', i, l, n) >= 0
  <2> DEFINE a == initial[i][l]
             g == Net(log, i, l, n)
             h == Net(w, i, l, n)
             led == ledger[i][l]
  <2>1. a \in Nat /\ g \in Int /\ h \in Int /\ led \in Int /\ Net(log', i, l, n) = g + h
    BY <1>7, <1>9, <1>10, <1>13
  <2>2. (\A k \in DOMAIN log' : k <= n) => ledger'[i][l] = a + Net(log', i, l, n)
    <3>1. SUFFICES ASSUME \A k \in DOMAIN log' : k <= n
                   PROVE  ledger'[i][l] = a + Net(log', i, l, n)
      OBVIOUS
    <3>2. (\A k \in DOMAIN log : k <= n) /\ (\A k \in DOMAIN w : k <= n)
      BY <1>2, <3>1
    <3>3. led = a + g
      BY <1>12, <3>2 DEF Explained
    <3>4. q.delta[i][l] = h + 0
      BY <1>5, <1>6, <3>2 DEF OnLedger, Accounted, w
    <3>5. ledger'[i][l] = led + q.delta[i][l]
      BY <1>3
    <3> HIDE DEF a, g, h, led
    <3>6. QED
      BY <2>1, <3>3, <3>4, <3>5
  <2>3. CASE \E k \in DOMAIN w : k <= n /\ Names(w[k], i, l)
    <3>1. PICK k \in DOMAIN w : k <= n /\ Names(w[k], i, l)
      BY <2>3
    <3>2. \A j \in DOMAIN log : Names(log[j], i, l) => j < k
      BY <1>5, <3>1 DEF OnLedger, Guarded, w
    <3>3. \A j \in DOMAIN log : Names(log[j], i, l) => (j <= n <=> j <= nextId)
      BY <1>8, <3>1, <3>2
    <3>4. g = Net(log, i, l, nextId)
      BY <1>1, <3>3, NetSame
    <3>5. led = a + Net(log, i, l, nextId)
      BY <1>1, <1>8, <1>12 DEF Explained
    <3>6. led + h >= 0
      BY <1>5 DEF OnLedger, Covered, w
    <3> HIDE DEF a, g, h, led
    <3>7. a + (g + h) >= 0
      BY <2>1, <3>4, <3>5, <3>6
    <3>8. QED
      BY <2>1, <2>2, <3>7 DEF a
  <2>4. CASE ~\E k \in DOMAIN w : k <= n /\ Names(w[k], i, l)
    <3>1. h = 0
      BY <1>1, <2>4, NetNone
    <3>2. a + g >= 0
      BY <1>12 DEF Explained
    <3> HIDE DEF a, g, h, led
    <3>3. a + (g + h) >= 0
      BY <2>1, <3>1, <3>2
    <3>4. QED
      BY <2>1, <2>2, <3>3 DEF a
  <2>5. QED
    BY <2>3, <2>4
<1>15. Explained(initial)'
  BY <1>14 DEF Explained
<1>16. NoShortage'
  BY <1>11 DEF NoShortage
<1>17. ASSUME NEW d \in Client PROVE OnLedger(request[d])'
  <2> DEFINE r == request[d]
  <2>1. CASE d = c
    <3>1. /\ request'[d] = Idle
          /\ Idle.todo = <<>> /\ Idle.written = <<>> /\ Idle.held = {}
          /\ \A i \in Item, l \in Location : Idle.delta[i][l] = 0
          /\ DOMAIN <<>> = {}
      BY <1>4, <2>1 DEF Idle, NoChange
    <3>2. \A i, l : Pending(<<>>, i, l) = 0
      BY DEF Pending, Halfway
    <3>3. Prepared(request'[d])
      BY <3>1 DEF Prepared
    <3>4. Accounted(request'[d])
      BY <3>1, <3>2, NetOfNothing DEF Accounted
    <3>5. \A i \in Item, l \in Location : ledger'[i][l] + 0 >= 0
      BY <1>3, <1>7, <1>11
    <3>6. Covered(request[d])'
      BY <3>1, <3>5, NetOfNothing DEF Covered
    <3>7. Guarded(request[d])'
      BY <3>1 DEF Guarded
    <3>8. QED
      BY <3>3, <3>4, <3>6, <3>7 DEF OnLedger, Prepared, Accounted
  <2>2. CASE d # c
    <3>1. request'[d] = r /\ r.written \in FiniteEntries /\ OnLedger(r)
      BY <1>1, <1>4, <1>5, <2>2
    <3> HIDE DEF r
    <3>2. Prepared(request'[d]) /\ Accounted(request'[d])
      BY <3>1 DEF OnLedger
    <3>3. ASSUME NEW i \in Item, NEW l \in Location
          PROVE  /\ ledger'[i][l] + r.delta[i][l] >= 0
                 /\ \A n \in Nat : ledger'[i][l] + Net(r.written, i, l, n) >= 0
      <4>1. CASE RowKey(i, l) \in r.held
        <5>1. RowKey(i, l) \notin q.held
          BY <1>7, <2>2, <4>1 DEF q, r
        <5>2. q.delta[i][l] = 0
          BY <1>5, <5>1 DEF OnLedger, Guarded
        <5>3. ledger'[i][l] = ledger[i][l]
          BY <1>3, <1>7, <5>2
        <5>4. QED
          BY <3>1, <5>3 DEF OnLedger, Covered
      <4>2. CASE RowKey(i, l) \notin r.held
        <5>1. r.delta[i][l] = 0 /\ \A k \in DOMAIN r.written : ~Names(r.written[k], i, l)
          BY <3>1, <4>2 DEF OnLedger, Guarded
        <5>2. \A n \in Nat : Net(r.written, i, l, n) = 0
          BY <3>1, <5>1, NetNone
        <5>3. ledger'[i][l] >= 0 /\ ledger'[i][l] \in Int
          BY <1>3, <1>7, <1>11
        <5>4. QED
          BY <5>1, <5>2, <5>3
      <4>3. QED
        BY <4>1, <4>2
    <3>4. Covered(request[d])'
      BY <3>1, <3>3 DEF Covered
    <3>5. ASSUME NEW i \in Item, NEW l \in Location
          PROVE  /\ r.delta[i][l] # 0 => RowKey(i, l) \in r.held
                 /\ \A k \in DOMAIN r.written : Names(r.written[k], i, l) =>
                      /\ RowKey(i, l) \in r.held
                      /\ \A j \in DOMAIN log' : Names(log'[j], i, l) => j < k
      <4>1. /\ r.delta[i][l] # 0 => RowKey(i, l) \in r.held
            /\ \A k \in DOMAIN r.written : Names(r.written[k], i, l) =>
                 /\ RowKey(i, l) \in r.held
                 /\ \A j \in DOMAIN log : Names(log[j], i, l) => j < k
        BY <3>1 DEF OnLedger, Guarded
      <4>2. ASSUME NEW k \in DOMAIN r.written, Names(r.written[k], i, l),
                   NEW j \in DOMAIN log', Names(log'[j], i, l)
            PROVE  j < k
        <5>1. CASE j \in DOMAIN log
          <6>1. Names(log[j], i, l)
            BY <1>3, <4>2, <5>1 DEF SameRow, Names
          <6>2. QED
            BY <4>1, <4>2, <5>1, <6>1
        <5>2. CASE j \in DOMAIN w
          <6>1. Names(w[j], i, l)
            BY <1>3, <4>2, <5>2 DEF SameRow, Names
          <6>2. RowKey(i, l) \in q.held
            BY <1>5, <5>2, <6>1 DEF OnLedger, Guarded, w
          <6>3. RowKey(i, l) \in r.held
            BY <4>1, <4>2
          <6>4. QED
            BY <1>7, <2>2, <6>2, <6>3 DEF q, r
        <5>3. QED
          BY <1>2, <5>1, <5>2
      <4>3. QED
        BY <4>1, <4>2
    <3>6. Guarded(request[d])'
      BY <3>1, <3>5 DEF Guarded
    <3>7. QED
      BY <3>2, <3>4, <3>6 DEF OnLedger, Prepared, Accounted
  <2>3. QED
    BY <2>1, <2>2
<1>18. QED
  BY <1>12, <1>15, <1>16, <1>17 DEF LedgerInv

\* Every step keeps the ledger invariant.
LEMMA Step_LedgerInv == ASSUME IInv, LedgerInv, [Next]_vars PROVE LedgerInv'
<1>1. CASE UNCHANGED vars
  <2>1. PICK initial \in InitialLedger : Explained(initial)
    BY DEF LedgerInv
  <2>2. Explained(initial)' /\ NoShortage'
    BY <1>1, <2>1 DEF vars, Explained, LedgerInv, NoShortage
  <2>3. ASSUME NEW c \in Client PROVE OnLedger(request[c])'
    BY <1>1 DEF vars, LedgerInv, OnLedger, Prepared, Accounted, Covered, Guarded
  <2>4. QED
    BY <2>1, <2>2, <2>3 DEF LedgerInv
<1>2. ASSUME NEW c \in Client, BeginBatch(c) PROVE LedgerInv'
  <2>1. PICK todo \in Batch : Begin(c, todo)
    BY <1>2 DEF BeginBatch
  <2>2. todo \in Seq(OperationStatement) /\ EntriesFollowChanges(todo)
    BY RequestsAssumption
  <2>3. todo \in Statements
    BY <2>2 DEF Statements
  <2>4. QED
    BY <2>1, <2>2, <2>3, BeginOnLedger
<1>3. ASSUME NEW c \in Client, BeginDisassembly(c) PROVE LedgerInv'
  <2>1. PICK l \in Location : \E todo \in DisassembleLocation(l) : Begin(c, todo)
    BY <1>3 DEF BeginDisassembly
  <2>2. PICK todo \in DisassembleLocation(l) : Begin(c, todo)
    BY <2>1
  <2>3. todo \in Seq(OperationStatement) /\ EntriesFollowChanges(todo)
    BY DisassemblyShape, DisassemblyFollows DEF IInv
  <2>4. todo \in Statements
    BY <2>3 DEF Statements
  <2>5. QED
    BY <2>2, <2>3, <2>4, BeginOnLedger
<1>4. ASSUME NEW c \in Client, BeginUndo(c) PROVE LedgerInv'
  <2>1. PICK k \in DOMAIN log : Begin(c, UndoTransaction(k))
    BY <1>4 DEF BeginUndo
  <2> DEFINE s == LogLock(k)
             t == [do |-> "undo", entry |-> k]
  <2>2. s.do = "lock" /\ t.do = "undo" /\ UndoTransaction(k) = <<s, t>>
    BY DEF LogLock, UndoTransaction
  <2>3. s \in UndoStatement /\ t \in UndoStatement
    <3>1. k \in Nat
      BY EntriesType DEF IInv, RequestsTypeOK
    <3>2. QED
      BY <3>1 DEF LogLock, UndoStatement
  <2> HIDE DEF s, t
  <2>4. UndoTransaction(k) \in Statements
    <3>1. \A S : \A x, y \in S : <<x, y>> \in Seq(S)
      OBVIOUS
    <3>2. QED
      BY <2>2, <2>3, <3>1 DEF Statements
  <2>5. EntriesFollowChanges(UndoTransaction(k))
    BY <2>2, OthersFollow
  <2>6. QED
    BY <2>1, <2>4, <2>5, BeginOnLedger
<1>5. ASSUME NEW c \in Client, Step(c) PROVE LedgerInv'
  <2>1. CASE Acquire(c)
    BY <2>1, AcquireOnLedger
  <2>2. CASE ChangeRow(c)
    BY <2>2, ChangeRowOnLedger
  <2>3. CASE WriteEntry(c)
    BY <2>3, WriteOnLedger
  <2>4. CASE UndoRead(c)
    BY <2>4, UndoReadOnLedger
  <2>5. CASE Compensate(c)
    BY <2>5, CompensateOnLedger
  <2>6. CASE Commit(c)
    BY <2>6, CommitOnLedger
  <2>7. CASE Reject(c) \/ DeadlockVictim(c)
    BY <2>7, CloseOnLedger DEF Reject, DeadlockVictim
  <2>8. QED
    BY <1>5, <2>1, <2>2, <2>3, <2>4, <2>5, <2>6, <2>7 DEF Step
<1>6. ASSUME NEW c \in Client, Abort(c) PROVE LedgerInv'
  BY <1>6, CloseOnLedger DEF Abort
<1>7. QED
  BY <1>1, <1>2, <1>3, <1>4, <1>5, <1>6 DEF Next

\* The ledger invariant of the requests, with the locks and ids it rests on.
THEOREM RequestsKeepLedger == Spec => [](IInv /\ LedgerInv)
<1>1. Init => IInv /\ LedgerInv
  BY InitInv, InitLedger
<1>2. IInv /\ LedgerInv /\ [Next]_vars => (IInv /\ LedgerInv)'
  BY Step_IInv, Step_LedgerInv
<1>3. QED
  BY <1>1, <1>2, PTL DEF Spec

\* update_inventory_quantity and log_transaction: whatever batches, disassemblies
\* and undos overlap, whatever ids a rollback left unused and in whatever order
\* requests commit, the ledger is what the log makes of the first one, and the
\* entries in the order of their ids never take more than there is.
THEOREM LedgerIsExplained == Spec => []LogExplainsLedger
<1>1. ASSUME IInv, LedgerInv PROVE LogExplainsLedger
  <2>1. PICK initial \in InitialLedger : Explained(initial)
    BY <1>1 DEF LedgerInv
  <2>2. nextId \in Nat \ {0} /\ \A k \in DOMAIN log : k <= nextId - 1
    <3>1. nextId \in Nat \ {0} /\ log \in Entries
      BY <1>1 DEF IInv, RequestsTypeOK
    <3>2. \A k \in DOMAIN log : k < nextId /\ k \in Nat
      BY <1>1, <3>1, EntriesType DEF IInv, IdsOnce
    <3>3. QED
      BY <3>1, <3>2
  <2>3. \A i, l, n : Effect(i, l, n) = Net(log, i, l, n)
    BY DEF Effect, Net
  <2>4. nextId - 1 \in Nat /\ \A n \in 0 .. nextId - 1 : n \in Nat
    BY <2>2
  <2>5. \A i \in Item, l \in Location :
          /\ ledger[i][l] = initial[i][l] + Effect(i, l, nextId - 1)
          /\ \A n \in 0 .. nextId - 1 : initial[i][l] + Effect(i, l, n) >= 0
    BY <2>1, <2>2, <2>3, <2>4 DEF Explained
  <2>6. QED
    BY <2>5 DEF LogExplainsLedger
<1>2. QED
  BY <1>1, RequestsKeepLedger, PTL
=============================================================================
