------------------------- MODULE InventoryRequests -------------------------
(***************************************************************************)
(* Requests that change the stock of several items: a batch of operations, *)
(* the disassembly of a location and the undo of a log entry.  A request   *)
(* runs statement by statement.  It takes the advisory lock of each item   *)
(* when it comes to it, in the order of the operations, and PostgreSQL     *)
(* locks each ledger row it changes; all locks are held to the end of the  *)
(* transaction.  Nobody sees a change before the commit.  Two requests may *)
(* wait for each other: PostgreSQL then rolls one of them back.            *)
(*                                                                         *)
(* The ids of log entries come from a sequence, which no rollback and no   *)
(* commit order touches.                                                   *)
(***************************************************************************)
EXTENDS Integers, Sequences, FiniteSets, Quantities

CONSTANTS
  Item, Location, STOCK, NoLocation,
  InitialLedger,   \* the ledgers a history may begin with
  Batch,           \* the batches clients send: sequences of operations
  Client,          \* the connections of the pool
  MaxLog           \* bound: no request begins with more log ids given out

NotUndo == 0       \* no log entry

VARIABLES
  ledger,          \* stock by item and location, as committed
  log,             \* committed log entries by id
  nextId,          \* the sequence of log ids
  request          \* what each connection is doing

vars == <<ledger, log, nextId, request>>

-----------------------------------------------------------------------------
(* Statements.  An operation is the sequence of those it runs.             *)

ItemLock(i) == [do |-> "lock", key |-> <<"item", i>>]
LogLock(k)  == [do |-> "lock", key |-> <<"log", k>>]

Change(i, l, n) == [do |-> "change", key |-> <<"row", i, l>>, delta |-> n]

Entry(op, i, n, source, target, undoOf) ==
  [op |-> op, item |-> i, quantity |-> n, from |-> source, to |-> target,
   undoOf |-> undoOf, undone |-> FALSE]

Write(entry) == [do |-> "write", entry |-> entry]

\* What an entry does to the ledger rows it names: taken first, then added.
Changes(entry) ==
  (IF entry.from = NoLocation THEN <<>> ELSE <<Change(entry.item, entry.from, -entry.quantity)>>)
  \o (IF entry.to = NoLocation THEN <<>> ELSE <<Change(entry.item, entry.to, entry.quantity)>>)

\* Log entries by id, with those of one request added.
Added(entries, new) ==
  [k \in DOMAIN entries \cup DOMAIN new |-> IF k \in DOMAIN new THEN new[k] ELSE entries[k]]

\* Operations of a batch.
MoveInventory(i, n, source, target) ==
  LET entry == Entry("MOVE", i, n, source, target, NotUndo)
  IN  <<ItemLock(i)>> \o Changes(entry) \o <<Write(entry)>>

ConsumeInventory(i, n, source) ==
  LET entry == Entry("CONSUME", i, n, source, NoLocation, NotUndo)
  IN  <<ItemLock(i)>> \o Changes(entry) \o <<Write(entry)>>

\* delta is not 0.
AdjustInventory(i, delta, l) ==
  LET entry == IF delta > 0 THEN Entry("ADJUST", i, delta, NoLocation, l, NotUndo)
               ELSE Entry("ADJUST", i, -delta, l, NoLocation, NotUndo)
  IN  <<ItemLock(i)>> \o Changes(entry) \o <<Write(entry)>>

\* An arrival of a batch takes no item lock.
BatchArrival(i, n, l) ==
  LET entry == Entry("ARRIVAL", i, n, NoLocation, l, NotUndo)
  IN  Changes(entry) \o <<Write(entry)>>

\* Everything the ledger has at a location, as one SELECT sees it, is to move
\* to STOCK, in the order the rows come back: four statements for each item.
DisassembleLocation(l) ==
  LET found == { i \in Item : ledger[i][l] > 0 }
      order == { s \in [1 .. Cardinality(found) -> found] :
                   \A i \in found : \E n \in DOMAIN s : s[n] = i }
      moves(s) == [n \in 1 .. (4 * Len(s)) |->
                     LET i == s[(n + 3) \div 4]
                     IN  MoveInventory(i, ledger[i][l], l, STOCK)[((n + 3) % 4) + 1]]
  IN  { moves(s) : s \in IF l = STOCK THEN {<<>>} ELSE order }

\* Fault: the entry is read before its lock is taken.
ReadThenLock(k) == << [do |-> "undo", entry |-> k], LogLock(k) >>

UndoTransaction(k) == << LogLock(k), [do |-> "undo", entry |-> k] >>

\* What the operations of a batch may be made of.
LogEntry(ids, flags) ==
  [op : {"MOVE", "CONSUME", "ADJUST", "ARRIVAL"}, item : Item, quantity : Nat,
   from : Location \cup {NoLocation}, to : Location \cup {NoLocation},
   undoOf : ids, undone : flags]

OperationStatement ==
  [do : {"lock"}, key : {<<"item", i>> : i \in Item}]
  \cup [do : {"change"}, key : {<<"row", i, l>> : i \in Item, l \in Location}, delta : Int]
  \cup [do : {"write"}, entry : LogEntry({NotUndo}, {FALSE})]

\* Each log entry is written right after the changes it stands for, and every
\* change belongs to such an entry.
EntriesFollowChanges(s) ==
  /\ \A n \in DOMAIN s : s[n].do = "write" =>
       LET changes == Changes(s[n].entry)
       IN  \A j \in DOMAIN changes : /\ n + j > Len(changes) + 1
                                     /\ s[n + j - Len(changes) - 1] = changes[j]
  /\ \A n \in DOMAIN s : s[n].do = "change" =>
       \E m \in DOMAIN s : n < m /\ s[m].do = "write" /\ m <= n + Len(Changes(s[m].entry))

ASSUME RequestsAssumption ==
  /\ IsFiniteSet(Item) /\ STOCK \in Location /\ NoLocation \notin Location
  /\ InitialLedger \subseteq [Item -> [Location -> Nat]]
  /\ Batch \subseteq Seq(OperationStatement)
  /\ \A s \in Batch : EntriesFollowChanges(s)

-----------------------------------------------------------------------------
(* What a request sees, and what undoing an entry comes to.                *)

NoChange == [i \in Item |-> [l \in Location |-> 0]]

Idle == [busy |-> FALSE, todo |-> <<>>, held |-> {}, delta |-> NoChange,
         written |-> <<>>, marked |-> {}]

\* The committed quantity and what the request itself did to it.
Seen(c, i, l) == ledger[i][l] + request[c].delta[i][l]

\* The compensating entry: of what went to a location, what is still there.
Compensation(c, k) ==
  LET original == log[k]
      back     == IF original.to = NoLocation THEN original.quantity
                  ELSE Smaller(original.quantity, Seen(c, original.item, original.to))
      op       == CASE original.op = "ARRIVAL" -> "CONSUME"
                    [] original.op = "CONSUME" -> "ADJUST"
                    [] OTHER -> original.op
  IN  Entry(op, original.item, back, original.to, original.from, k)

-----------------------------------------------------------------------------
(* The steps of a request.                                                 *)

Init ==
  /\ ledger \in InitialLedger
  /\ log = <<>>
  /\ nextId = 1
  /\ request = [c \in Client |-> Idle]

Begin(c, todo) ==
  /\ ~request[c].busy
  /\ nextId <= MaxLog
  /\ request' = [request EXCEPT ![c].busy = TRUE, ![c].todo = todo]
  /\ UNCHANGED <<ledger, log, nextId>>

BeginBatch(c) == \E todo \in Batch : Begin(c, todo)

BeginDisassembly(c) == \E l \in Location : \E todo \in DisassembleLocation(l) : Begin(c, todo)

\* An undo of an entry there is.
BeginUndo(c) == \E k \in DOMAIN log : Begin(c, UndoTransaction(k))

Statement(c) == Head(request[c].todo)

AtStatement(c, kind) == request[c].todo # <<>> /\ Statement(c).do = kind

Rest(c) == Tail(request[c].todo)

Locks(c) == AtStatement(c, "lock") \/ AtStatement(c, "change")

WaitsFor(c, d) == c # d /\ Locks(c) /\ Statement(c).key \in request[d].held

Free(c) == \A d \in Client : ~WaitsFor(c, d)

Acquire(c) ==
  /\ AtStatement(c, "lock") /\ Free(c)
  /\ request' = [request EXCEPT ![c].todo = Rest(c), ![c].held = @ \cup {Statement(c).key}]
  /\ UNCHANGED <<ledger, log, nextId>>

\* Fault: the stock of the row is not part of the condition of the UPDATE.
ChangeAnyway(c) ==
  /\ AtStatement(c, "change") /\ Free(c)
  /\ request' = [request EXCEPT ![c].todo = Rest(c),
                                ![c].held = @ \cup {Statement(c).key},
                                ![c].delta[Statement(c).key[2]][Statement(c).key[3]] =
                                   @ + Statement(c).delta]
  /\ UNCHANGED <<ledger, log, nextId>>

\* UPDATE ... WHERE quantity + delta >= 0, or an insert or update of more.
ChangeRow(c) ==
  /\ AtStatement(c, "change") /\ Free(c)
  /\ LET i == Statement(c).key[2]
         l == Statement(c).key[3]
     IN  /\ Seen(c, i, l) + Statement(c).delta >= 0
         /\ request' = [request EXCEPT ![c].todo = Rest(c),
                                       ![c].held = @ \cup {Statement(c).key},
                                       ![c].delta[i][l] = @ + Statement(c).delta]
  /\ UNCHANGED <<ledger, log, nextId>>

WriteEntry(c) ==
  /\ AtStatement(c, "write")
  /\ nextId' = nextId + 1
  /\ request' = [request EXCEPT ![c].todo = Rest(c),
                                ![c].written = Added(@, [k \in {nextId} |-> Statement(c).entry])]
  /\ UNCHANGED <<ledger, log>>

\* The entry is read once and for all, then its item is locked.
UndoRead(c) ==
  /\ AtStatement(c, "undo")
  /\ ~log[Statement(c).entry].undone
  /\ request' = [request EXCEPT ![c].todo =
                   Rest(c) \o << ItemLock(log[Statement(c).entry].item),
                                 [do |-> "compensate", entry |-> Statement(c).entry] >>]
  /\ UNCHANGED <<ledger, log, nextId>>

\* With the item locked, what is there to take back is read and taken.
Compensate(c) ==
  /\ AtStatement(c, "compensate")
  /\ LET entry == Compensation(c, Statement(c).entry)
     IN  /\ entry.quantity > 0
         /\ request' = [request EXCEPT
                          ![c].todo = Rest(c) \o Changes(entry) \o <<Write(entry)>>,
                          ![c].marked = @ \cup {entry.undoOf}]
  /\ UNCHANGED <<ledger, log, nextId>>

Commit(c) ==
  /\ request[c].busy /\ request[c].todo = <<>>
  /\ ledger' = [i \in Item |-> Plus(ledger[i], request[c].delta[i])]
  /\ LET entries == Added(log, request[c].written)
     IN  log' = [k \in DOMAIN entries |->
                   [entries[k] EXCEPT !.undone = @ \/ k \in request[c].marked]]
  /\ request' = [request EXCEPT ![c] = Idle]
  /\ UNCHANGED nextId

\* Fault: the connection goes back to the pool with its locks.
KeepLocks(c) == request' = [request EXCEPT ![c] = [Idle EXCEPT !.held = request[c].held]]

\* Closing the connection rolls the transaction back and frees its locks.
Close(c) == request' = [request EXCEPT ![c] = Idle]

\* Not enough stock, already undone, or nothing left to take back.
Refused(c) ==
  \/ AtStatement(c, "change") /\ Seen(c, Statement(c).key[2], Statement(c).key[3]) + Statement(c).delta < 0
  \/ AtStatement(c, "undo") /\ log[Statement(c).entry].undone
  \/ AtStatement(c, "compensate") /\ Compensation(c, Statement(c).entry).quantity <= 0

Reject(c) == Refused(c) /\ Close(c) /\ UNCHANGED <<ledger, log, nextId>>

\* Requests that wait for each other in a circle.
Circle(waiting) ==
  /\ \A c \in waiting : \E d \in waiting : WaitsFor(c, d)
  /\ \A d \in waiting : \E c \in waiting : WaitsFor(c, d)

\* PostgreSQL finds the circle and fails the statement of one of its requests.
DeadlockVictim(c) ==
  /\ \E waiting \in SUBSET Client : c \in waiting /\ Circle(waiting)
  /\ Close(c)
  /\ UNCHANGED <<ledger, log, nextId>>

\* The client is gone, or a statement failed, at any moment.
Abort(c) == request[c].busy /\ Close(c) /\ UNCHANGED <<ledger, log, nextId>>

Step(c) ==
  \/ Acquire(c)
  \/ ChangeRow(c)
  \/ WriteEntry(c)
  \/ UndoRead(c)
  \/ Compensate(c)
  \/ Commit(c)
  \/ Reject(c)
  \/ DeadlockVictim(c)

Next ==
  \E c \in Client :
     \/ BeginBatch(c)
     \/ BeginDisassembly(c)
     \/ BeginUndo(c)
     \/ Step(c)
     \/ Abort(c)

\* A request that can go on does, and one that waits for a lock that is free
\* again and again is granted it: PostgreSQL queues those who wait.
Fairness == \A c \in Client : SF_vars(Step(c))

Spec == Init /\ [][Next]_vars /\ Fairness

-----------------------------------------------------------------------------
(* Properties.                                                             *)

\* What the entries with ids up to n brought to a row, and what they took from it.
Brought(entries, i, l, n) ==
  Total([k \in DOMAIN entries |->
           IF k <= n /\ entries[k].item = i /\ entries[k].to = l THEN entries[k].quantity ELSE 0])

Taken(entries, i, l, n) ==
  Total([k \in DOMAIN entries |->
           IF k <= n /\ entries[k].item = i /\ entries[k].from = l THEN entries[k].quantity ELSE 0])

Effect(i, l, n) == Brought(log, i, l, n) - Taken(log, i, l, n)

\* Each history begins with a ledger of its own; its entries explain the rest,
\* and played back in the order of their ids, whatever order their requests
\* committed in and whatever was rolled back in between, they never take from
\* a location more than it has.
LogExplainsLedger ==
  \E initial \in InitialLedger :
    \A i \in Item, l \in Location :
      /\ ledger[i][l] = initial[i][l] + Effect(i, l, nextId - 1)
      /\ \A n \in 0 .. nextId - 1 : initial[i][l] + Effect(i, l, n) >= 0

\* An entry is marked undone when one compensating entry is there, and there
\* is never a second one, however often and by however many it is asked for.
UndoneOnce ==
  \A k \in DOMAIN log :
    Cardinality({ j \in DOMAIN log : log[j].undoOf = k }) = IF log[k].undone THEN 1 ELSE 0

\* Every request ends: a circle of requests, each waiting for a lock the next
\* one holds, is broken, and those left go on.
EveryRequestEnds == \A c \in Client : request[c].busy ~> ~request[c].busy
=============================================================================
