# Verification of the materials management system

TLA+ models of the server of this repository (`src/backend/app`), TLC
configurations that check them on small instances, and TLAPS proofs of the core.
The program keeps stock by location, promises it (and what is still on order)
to reservations, receives order lines in full or in part, plans what projects
need, imports orders from files, and can undo what it did. What has to be right
is that these books agree with each other, whatever calls come, in whatever
order, from however many users at once.

## The system

One FastAPI process (several workers are possible) over PostgreSQL. A request
takes a connection from the pool, runs one or more functions of `service.py` in
one transaction and commits; closing the connection rolls back what was not
committed (`db.py` 230-298, `api.py` 292-300). Transactions are READ COMMITTED.
There are no background tasks, messages or callbacks: components interact
through the tables and through PostgreSQL's advisory locks.

| Component | State | Operations | Hard behaviour | What makes it correct |
|---|---|---|---|---|
| Reservations | `reservations`, `reservation_allocations`, `reservation_incoming_allocations` | create, release, consume (all or part) | concurrent requests for the same supply; rows split by partial calls; supply of several kinds and owners | a reservation counts exactly what backs it; nothing is promised twice; dedicated supply stays in its project |
| Order arrival | `orders`, `local_order_splits`, and the above | `process_order_arrival` | partial arrivals split two integer quantities; promises follow the rest of the line | promised supply becomes promised stock, none is lost or invented |
| Direct inventory calls | `inventory_ledger` | move, consume, adjust, arrive, disassemble; batches of these | ignore allocations; batches lock several items, in any order | the ledger never goes negative; the log explains every change |
| Log and undo | `transaction_log`, markers in the notes of rows | `undo_transaction` | undo after further calls, partial undo, undo of an undo, two undos at once | a call is taken back once, by no more than it did |
| Inventory snapshot | derived from ledger and log | replay to a past date | entries without locations, undo entries | the replay gives the ledger there was |
| Requests and locks | advisory locks 7101-7104, row locks, transactions | every write above | interleaving, stale reads, deadlock, abandoned requests | requests act one after the other, and each ends |
| Open order lines | `orders` | edit, postpone a part, merge, delete | edits without locks; lines that reservations or RFQ lines refer to | supply on order is conserved; arrived lines stay as they are |
| RFQ and procurement lines | `rfq_lines`, `procurement_lines`, `orders.project_id`, `project_id_manual` | quote, link to an order line, unlink | several owners of one order line | an order line has the project of its owner |
| Planning, allocation | derived from the tables | net demand against supply, confirm a plan | late supply recovers a backlog; the plan is stale when confirmed | no unit is counted twice; first come, first served; a confirmation keeps what was planned |
| Headers, quotations | `purchase_orders`, `quotations` | get or create, unlock, edit, remove with the last line | two imports create one header; an undo removes what others use | one header per number; no line without header |
| Import jobs (items, orders) | `import_jobs`, `import_job_effects` | import, undo, redo | undo of rows that changed since; a row changed several times by one job | an undo restores the state before, or changes nothing |
| Items, aliases | `items_master`, `supplier_item_aliases` | create, edit, delete, resolve | names that become aliases, aliases of deleted items | each name stands for one item |
| Users, registration | `users`, `registration_requests` | request, approve, reject, edit, deactivate, sign in | two administrators at once, no locks | a request tells of one decision; the approved account signs in |
| Categories, assemblies, storage, configuration, frontend, migrations, scripts | master data, files, environment, page drafts | single-row edits, input and output | category alias cycles | - |

`PROJECT.json` lists the components with their sources and status, the hazards
each at its line, the runs, the mutants and the lines every definition models.

## The modules

    Quantities                  sums of integers, first-fit draws
      Reservations              one item: reservations, allocations, arrivals   (core)
        OrderLines              + edits of order lines, RFQ and procurement owners
        AllocationRows          the same calls with rows, notes and the log; refines Reservations
          InventoryOperations   + direct inventory calls
            TransactionUndo     + undo_transaction
              InventorySnapshot + the snapshot of a past date, replayed from the log
        RequestLocks            + the same calls as requests with locks; refines Reservations
        ProjectPlanning         the planning snapshot over supply and projects
          ProjectAllocation     + the calls that change what is planned, confirmation of plans
      InventoryRequests         batches, disassembly and undo over items, statement by statement
    CatalogImports              items, aliases, item import jobs and their undo
      OrderImports              + headers, quotations, order lines, order import jobs
    Users                       users and registration requests
    QuantityLemmas              facts about sums and induction over numbers, proved
    ReservationsProofs, SupplyProofs, AllocationRowsProofs, TransactionUndoProofs,
    RequestLocksProofs, InventoryRequestsProofs, RecordsProofs   theorems, proved
    MC*                         instances for TLC

**Reservations** is the abstract specification of the core. An action is one
committed call. Rows are aggregated: `allocated[r][l]` is the sum of the ACTIVE
rows of reservation `r` at location `l`, `incoming[r][o]` the same for order
line `o`; index 0 of `incoming` stands for a NULL `order_id`. Stock is drawn
from STOCK first and from other locations in any order, which the code takes by
name; rows of one reservation are released and consumed in any order, which the
code takes by id. `AllocationRows` has those orders and is shown to implement it.

| Action | Code (`service.py`) |
|---|---|
| `CreateReservation` (`Reserve`) | `create_reservation` 10332, with `_list_item_available_inventory` 1730 and `_select_incoming_order_candidates` 1841 |
| `ReleaseReservation`, `ConsumeReservation` | `release_reservation` 10496, `consume_reservation` 10695 |
| `FullArrival`, `PartialArrival` | `process_order_arrival` 9584 |

**AllocationRows** keeps the rows with ids and statuses, `local_order_splits` and
the log. Of a note only the markers are kept (`[[tx:..]]`, `[[arrival_tx:..]]`),
because the undo finds rows by them. `moved` in a log entry is history: what the
call did to the ledger. Row timestamps ascend with row ids, so the order
"created_at, id" is that of the ids.

**InventoryOperations** adds the direct calls, which look at the ledger alone, and
**TransactionUndo** the branches of `undo_transaction` (15100), one action each:
`UndoMove`, `UndoIncrease`, `UndoDecrease`, `UndoConsumption`, `UndoRelease`,
`UndoReservationConsume`, `UndoCreate`, `UndoArrival`. The branch for an ADJUST
entry with two locations is left out: no call writes one. With an undo, the rows
of a call may come back on another line, merge into rows that are there, or be
split; a deleted row is kept with status "DELETED" and quantity 0, so that ids
stay positions.

**InventorySnapshot** is `get_inventory_snapshot` of a past date (15534): an
operator on the state of `TransactionUndo`, with its own ways to take back an
entry, which are not those of `undo_transaction`. A date is the point after entry
`k`. The property excludes, entry by entry, the three conventions the replay relies
on (`TakenForGranted`): an ARRIVAL goes to STOCK, a RESERVE moves from STOCK to
RESERVED, and a CONSUME says where from. Entries that reservations write break
them (a reservation moves no stock), so a snapshot from before such an entry is
not the ledger that was; what is checked is that nothing else goes wrong.

**RequestLocks** runs the calls on the connections of the pool: `Begin` (the row is
read for the item it is of), `Acquire` (one advisory lock, in the order the code
takes them), `Prepare` (everything read, checked and worked out), `Commit`,
`Reject` (an error response), `Abort` (a request that goes away at any moment).
What a request writes is kept as the code's SQL writes it: columns of an order
line, whole rows, and differences for `quantity = quantity + ?` in the ledger.
All writes become visible at the commit, as in PostgreSQL. Ids of new order lines
come from a sequence: what an earlier request in progress has taken, a later one
does not get. `LockedSpec` has the calls that lock and implements `Reservations`;
`RequestSpec` adds `update_order`, which reads and writes without a lock.

**InventoryRequests** goes one level lower, for requests over several items: a
request is a sequence of statements (an advisory lock, an UPDATE of a ledger row,
an INSERT of a log entry, the reads of an undo). A batch takes the lock of an item
when it comes to it; an arrival in a batch takes none and is held back by the row
lock of its UPDATE alone; a disassembly reads the stock of its location before any
lock. `DeadlockVictim` is PostgreSQL's deadlock detection, which rolls back one of
the requests that wait in a circle (external: the code handles the error as any
other, by closing the connection). Log ids come from a sequence, so rolled-back
requests leave gaps, and entries become visible in any order.

**OrderLines** has the edits as atomic calls: `EditLine`, `PostponePart` (both
`update_order` 6982), `DeleteLine` (7234), `MergeLines` (7265), and
`UpdateRfqLine` (13392) and `UpdateProcurementLine` (13777) with the syncs of the
order's project (13377, 13701). All lines are of one quotation, purchase order and
item number, so that any two with one project may be merged. `Keep` stands for a
request without `project_id`.

**ProjectPlanning** is the netting of one item over all committed projects and the
one that is looked at (11980-12160): the code's loop over supply events and
demands as a fold over their sequence, with what each project is covered by, on
time and late, source by source. The code plans item by item and the items share
nothing. **ProjectAllocation** adds the calls that change what is planned with
(`UpdateProject`, `CreateRfq`, `QuoteLine`, `ReserveRequirements` and the arrivals) and
the confirmation (`confirm_project_allocation` 12258), which locks no order line, in
steps: `ReadPlan` works out the plan a request is about, `ReadLine` reads a line it
takes from (`get_order` 12401), in any order, and `PersistPlan` writes: the reservation, the lines given whole and, for each line taken in part, the
rest (`LeftOf`: quantities computed from what was read replace what is there, 7157) and a
new line (`GivenTo`). Arrivals, reservations and other confirmations come in between.
The code reads a line once more in `update_order` (6983); one read stands for both. It
writes line by line, but nobody sees a write before the commit, so one step stands for
the writes; a confirmation that writes stock first holds the item's lock from then on
and keeps arrivals out, which the model does not count on. Both give others more time
than the code does. `DropPlan` is a write that fails, or a client that leaves.
`PlanningFails` is the guard of a KeyError in the code: supply dedicated to
a planned project that does not require the item. A plan is a function of what is
coming (`NettedPlan`); the code's is that of the supply there is now (`Snapshot`), and
`QuotesHelpEveryone` compares it with that of the same supply and one line more.

**CatalogImports** and **OrderImports** have the tables as sets of rows with ids and a
request as a function from the tables to the tables, the effects it recorded and
whether it stopped at an error: the effects are what an undo reads. A loop over the rows
of a file, or over the effects of a job, is a recursive function of how many are done. Imports, undos
and redos (`ImportItems`, `ImportOrders`, `UndoItemsJob`, `UndoOrdersJob`,
`RedoItemsJob`, `RedoOrdersJob`) run among the calls that change what they
created: edits and deletions of lines, quotations, headers, items and aliases,
arrivals and links. An import of orders is two steps (`CheckOrders`, `StoreOrders`):
it resolves its rows (8512) and looks for locked headers (8581) without a lock, and
takes the advisory lock of a number only when it stores the first row of it (8695).
`_get_or_create_purchase_order` (2671) then uses a header that is there and does not look
at `import_locked` again. So two imports may overlap, and `importing` holds what each
has found. The headers of `unlock_purchase_orders` are updated by the check, under their
locks (8567, 2775): an import stores only if they are still as it found them. A
quotation number or document url that both overlapping imports create is refused by a
unique index in the code unless the second reads after the commit of the first, which is
the order of `StoreOrders`. An item deleted since is refused by a foreign key
(`ItemsThere`). `DropOrders` is an import that fails or whose client leaves. A file with a
row no item is found for stores nothing (`ReportMissing`). The other requests are one
step.

**Users** has every call that reads first and writes later as two steps
(`ApproveRegistrationRequest`, then `WriteApproval` or `Conflict`), because nothing is
locked: between the two, any other call may run, and only the unique indexes of the
tables stand in its way. `CreateUser` and `DeactivateUser` are single statements.

### Abstractions and bounds

* One item in the modules over `Reservations`: reservations, arrivals, edits and
  plans touch the rows of one item. What requests over several items share, the
  locks and the log, is in `InventoryRequests`.
* Dates are numbers, 0 for NULL; only their order matters. Deadlines, purposes and
  suppliers decide nothing here. Names are normalised already: two names match or
  do not.
* `MaxReservation`, `MaxOrder`, `MaxLog`, `MaxQuote`, `MaxJob`, `MaxUser`,
  `MaxRequest` bound ids: an action that needs a new one is not enabled when they
  are used up. `MaxQuantity` bounds what one request asks for, `MaxEta` the dates,
  `MaxDirect` and `MaxCalls` the direct inventory calls and the calls beside imports,
  `MaxConfirming` the confirmations in progress, `MaxStock` (RequestLocks) the stock
  at which an unlocked edit may still begin, because a reopened line may arrive
  again and again. The instances start with one piece in stock and lines of one to four
  pieces, some in packs of two: enough for a reservation that mixes stock, a
  dedicated and a generic line, for a partial call on each row, for a line that splits
  twice, and for a split that is refused because a pack would be broken.
* `MCInventoryRequests`: two connections, two items, batches that name the items in
  opposite orders, and one whose arrival touches a row before its lock is taken: the
  smallest mix in which requests wait in a circle over item locks, log locks and
  rows.
* `MCOrderImports`: three order files and two item files on two numbers and one quotation,
  two connections that import, three jobs and two other calls: enough for a job to change
  what an earlier job created, for an undo of either, a redo, an edit in between, and for
  two imports of one number that overlap. Items have no notes to edit (`MaxNote = 0`) and
  aliases that are edited stand for one unit (`MaxUnits = 1`). Connections are
  interchangeable (`SYMMETRY`).
* `MCProjectAllocation`: two projects, of which the second must be confirmed first, two
  confirmations in progress (`MaxConfirming = 2`, at most one of each project), one unit of
  stock and a generic line that is taken in part, that is bought in a pack and cannot be
  split, or of which there are two, one managed by an ORDERED line (`Managed = {3}`).
* `MCUsers`: three spellings of two usernames, two e-mails, one subject, two
  connections. Connections are interchangeable and nothing checked there is about
  time, so the run uses their symmetry. The hosted domain of an account (513, 538, 1130)
  is left out: approvals create accounts without one, and where an administrator sets
  one it can only refuse a sign-in, not change which account it is to.
* Integers are unbounded. PostgreSQL's are 32 bits and an overflow is an error
  of the statement, which rolls the request back.
* Statuses "Unused" (no row yet) and "Deleted" (row deleted) are the model's.

## What the runs show

Deadlock is not checked in runs whose calls use up bounded ids. Sizes are
distinct states.

| Run | States | Shows |
|---|---|---|
| `reservations` | 142,074 | two reservations, two projects, three order lines: a reservation's quantity is its backing (`BackingMatchesQuantity`), no stock and no open line is promised beyond what it has (`StockCoversAllocations`, `OpenLineCoversIncoming`), dedicated supply stays in its project, only promised supply is consumed (`ConsumedSupplyWasPromised`), splits keep the pack size |
| `allocation_rows` | 66,738 | the rows, summed, implement `Reservations` |
| `transaction_undo` | 313,891 | histories of five calls and undos, one of them a direct inventory call (with two of these, `MaxDirect = 2`, there are 1,886,530 states and no violation either): an undo never moves more stock than its call did, nor the same way (`UndoReverses`); what an undone arrival takes from stock is on order again (`UndoneArrivalIsOnOrder`); ended reservations hold nothing, none is backed beyond its quantity, the markers of a call match its log entry until it is undone (`MarkersMatchLog`), undos leave one active row per line; the snapshot of a past date is the ledger of that date (`PastSnapshotIsLedger`) |
| `request_locks` | 411,404 | two connections: the requests implement `Reservations` (`RequestsAreSerial`) and never wait in a circle (`NoCircularWait`) |
| `unlocked_edits` | 223,143 | with unlocked order edits, quantity and backing still match (`BackingMatchesQuantity`), stock still covers its allocations (`StockCoversAllocations`), and every request ends (`EveryRequestEnds`) |
| `inventory_requests` | 71,716 | requests over two items: the log explains the ledger, entry by entry in the order of ids (`LogExplainsLedger`), an entry is undone once (`UndoneOnce`), and every request ends, those that wait in a circle included |
| `order_lines` | 417,044 | edits conserve what is on order, in pieces and in packs (`EditsConserveSupply`), and keep the two central invariants of `Reservations` |
| `order_ownership` | 44,520 | an order line that RFQ lines and procurement lines with a project are ORDERED on has the project of one of them, whatever is linked to it or to its parts, unlinked or edited (`OwnersKeepLine`) |
| `project_allocation` | 353,792 | every plan that can be asked for counts no unit of supply twice (`PlanUsesSupplyOnce`), gives each project at least what a first-come-first-served reference gives it (`FirstComeFirstServed`), and is no worse for anyone when a line is quoted (`QuotesHelpEveryone`); a confirmation whose lines nobody changed after it read them leaves as much on order as there was, whatever others did to other lines, and gives its project what a plan that is still current took, in time (`ConfirmationKeepsDates`) |
| `order_imports` | 906,246 | every line has its item, quotation and header and every alias its item, and no two rows share an id, number, name or document url (`TablesConsistent`; it says nothing of effects, nor of headers and quotations left without lines, which an undo with a deletion can leave); a purchase order is imported once by imports of which one checked its file when the other was done, unless somebody released or renumbered it (`ImportedOnce`); an undo that is accepted gives back what its import found (`UndoRestores`) |
| `users` | 992,765 | a request tells of one decision, however decisions overlap (`DecisionsAreWhole`); who was approved signs in to the approved account (`ApprovedSignsIn`) |

What `ImportedOnce` and `ConfirmationKeepsDates` leave out is what the code allows
when requests overlap on the same row; the two counterexamples below show it.

Each property has a mutant (an operator marked "Fault:" in its module, a
plausible bug) under which its run finds it violated.

`OpenLineCoversIncoming` and `DedicatedSupplyStaysInProject` hold for the calls of
`Reservations`. They are not claimed with the edits: a line may be shortened by
postponing a part, deleted, or given to another project whatever was promised
from it.

`UndoRestores` compares everything but the lock of a header: an import that was
allowed to unlock a header leaves it unlocked after its undo.

### Where code and documents disagree

The run `remaining_quantity` finds a counterexample, and `findings` in `PROJECT.json`
quotes the statement: reserve 1, release all of it, undo the release, and the
reservation is ACTIVE with quantity 2 and backing 1. The next release or
consumption of the whole fails.

Counterexamples to run by hand (`tlc -config <cfg> <module>`), each of one property,
a sentence of the documents or the code, or what the code gives when nothing overlaps:

| Configuration | Module | What happens |
|---|---|---|
| `MCUndoOfUndo` | `MCTransactionUndo` | the undo of a reservation's consumption logs a CONSUME entry without locations; undoing it adds the stock again |
| `MCArrivedIsFinal` | `MCRequestLocks` | an edit reads an open line, the line arrives, the edit writes: with `status` it is open again and can be received twice |
| `MCProcurementOwner` | `MCOrderLines` | an RFQ line and a procurement line own the same order line; the RFQ line is unlinked and the project is cleared |
| `MCConfirmedStaysCovered` | `MCProjectAllocation` | `documents/technical_documentation.md:142` and `documents/specification.md:1391` have a confirmation persist the project's on-time coverage; a project that is confirmed may be short afterwards of what it was covered by, since what it took from stock is reserved and its demand stays whole |
| `MCLatestJob` | `MCOrderImports` | `documents/source_current_state.md:231`: an undo "safely removes imported orders and restores/deletes related quotations and supplier aliases when current state still matches the recorded snapshots"; the newest job, with nothing done since, is refused an undo when it updated a quotation that lines of an earlier job are on |
| `MCImportsOverlap` | `MCOrderImports` | `documents/specification.md:382` has `import_locked` as what "Prevents duplicate re-import for the same supplier + purchase order number until manually released"; two imports of a new number that overlap both find no locked header, the second waits for the number's lock and puts its lines on the header of the first |
| `MCConfirmationsOverlap` | `MCProjectAllocation` | two confirmations read one line, or one reads it and it arrives, and each writes what is left of it as computed from what it read: afterwards there is more on order than before (with nothing in stock, so that the confirmation holds no item lock) |
| `MCDecisionIsFinal` | `MCUsers` | "Only pending registration requests can be approved" (`service.py` 849): two administrators read it pending, one rejects, the other approves |
| `MCDeactivationStays` | `MCUsers` | an edit of a user begun before a deactivation writes `is_active` back |

Three more behaviours are modelled as the code has them and bear on documents,
though no property is about them:

* Deleting an order line, or merging it away, sets the links of ORDERED RFQ lines
  to NULL (`Orphaned`); `documents/specification.md:580` says "`ORDERED` lines must
  link to an actual order row".
* The same leaves active incoming allocations on no line (`OrphanedFrom`), which no
  arrival converts; `documents/technical_documentation.md:604` has "each row linked
  to a specific open purchase-order line".
* `UndoRelease` makes incoming rows active again on the line they were on, even if
  it has arrived since.

### Fairness

Only the two properties `EveryRequestEnds` need it. `RequestLocks` and
`InventoryRequests` assume strong fairness of a request's steps: the worker thread
runs, and PostgreSQL queues those who wait for a lock, so a lock that is freed again
and again is granted. In `InventoryRequests` the steps of a request include being
chosen as the victim of a deadlock, which PostgreSQL looks for after
`deadlock_timeout`. `Abort` and `Begin` are not fair: clients need not disconnect
or ask.

## What is proved

`ReservationsProofs`, for all finite sets of locations, all projects, all bounds and
all initial ledgers and order lines that satisfy `ConstantsAssumption` (sets are
finite, STOCK and RESERVED differ, open lines have positive quantities, as the
tables require). These are all the properties of the run `reservations`:

| Theorem | States |
|---|---|
| `TypeCorrect` | `Spec => []TypeOK`: nothing becomes negative or fractional, ids stay in range |
| `BackingCorrect` | `Spec => []BackingMatchesQuantity` |
| `StockCorrect` | `Spec => []StockCoversAllocations` |
| `OpenLineCorrect` | `Spec => []OpenLineCoversIncoming` |
| `DedicatedCorrect` | `Spec => []DedicatedSupplyStaysInProject` |
| `SupplyKept` | `Spec => ConsumedSupplyWasPromised` |
| `PackSizeKept` | `Spec => SplitsKeepPackSize` |

Sums are the subject of nearly every step. `Total(f)` is defined as the number of
units `f` stands for, a cardinality, instead of a recursive sum, so that
`QuantityLemmas` can prove from the library's facts about finite sets how a total
changes with one entry (`TotalChange`), that it is additive (`TotalPlus`,
`TotalMinus`), monotone, and zero only for the zero function.

The argument of each: `TypeOK` is inductive, given that draws stay below their
bounds (`DrawType`). `BackingMatchesQuantity` is inductive with it: a creation draws
exactly what it promises (`CreateSplit`), a partial call reduces quantity and
backing alike, a conversion adds to stock what it takes from incoming rows.
`StockCoversAllocations` needs `TypeOK` and that a creation draws at most what is
available (`CreateTakesFree`); a consumption takes the same from ledger and
allocations, an arrival adds at least as much to the ledger as it converts.
`OpenLineCoversIncoming` is inductive with `TypeOK`: an arrival converts up to the
arrived quantity, so what is left of the promises fits the rest of the line, or
is nothing after a full arrival. `DedicatedSupplyStaysInProject` rests on it: the
line split from a dedicated one was no line before, so nothing waited for it that
its new project could be wrong for. The two action properties follow from `TypeOK`,
call by call: the totals of ledger, open lines and promises change by the same
quantity, and a split is only made where the division is exact (`ExactShare`).

`SupplyProofs`, with the edits of order lines and the links of RFQ and
procurement lines, from the same assumptions:

| Theorem | States |
|---|---|
| `LineTypeCorrect` | `LineSpec => []LineTypeOK` |
| `LineBackingCorrect`, `LineStockCorrect` | `LineSpec => []BackingMatchesQuantity` and `[]StockCoversAllocations` |
| `SupplyConserved` | `LineSpec => EditsConserveSupply` |
| `OwnershipCorrect` | `LineSpec => []OwnersKeepLine` |
| `RfqOwnerCorrect` | if no procurement line has a project, an order line has the project of the RFQ line ORDERED on it |

An edit touches neither reservations nor ledger, so the two central invariants carry
over from `ReservationsProofs`, call by call. `OwnersKeepLine` is inductive with
`LinksExist` (a line that is linked to is there, so that a new line has no link that
could already own it). The hypothesis of `RfqOwnerCorrect` is needed: without it
`MCProcurementOwner` shows an RFQ line's order with another project.

The same module proves of planning, from `PlanningAssumption` in addition (the projects
are a finite set of positive numbers, NULL is 0, rows have the types of their tables):

| Theorem | States |
|---|---|
| `AllocTypeCorrect` | `AllocSpec => []AllocTypeOK` |
| `PlansCorrect` | `AllocSpec => []PlanUsesSupplyOnce` |
| `ConfirmationCorrect` | `AllocSpec => ConfirmationKeepsDates` |
| `FirstServedCorrect` | `AllocSpec => []FirstComeFirstServed` |
| `QuotesCorrect` | `AllocSpec => []QuotesHelpEveryone` |

A plan is what is left of the opening plan after all events, so `PlansCorrect` is an
invariant inside a state, over the events netted so far. `Fits` says that what is counted
of a source (on time, late, waiting for its project and in the pool, over all projects)
is at most what has arrived of it, nothing of a source that has not come; that what waits
is its project's own and what is in the pool is nobody's; and that what covers a project
on time serves that project by its date (`Serves`). The third is what a demand needs of
the first two: it takes from what waits and from the pool, so from what came by its own
date. Each kind of event keeps it (`DedicatedFits`, `GenericFits`, `DemandFits`). The last
needs that events are netted in the order of their dates and each supply once:
`SortedIsList` has `Sorted` list every element once, by its key, because no two keys are
equal (`EventKeyType`) and a place is the number of those before. That the plans after each event
exist, as the recursive function in `NettedPlan` has them, is `StatesForward`
(`PlanningDefined`); that they fit up to the last is an induction over their number
(`StepwiseFits`, by `AllNumbers`), and `PlanFits` is its end.

`AllocTypeOK` is inductive: a confirmation skips a line that has become smaller than what
was planned of it (`Taken`), and fails when a line it writes is no longer open or does not
divide (`Writable`); so neither part of a line it splits becomes 0 (`DedicatedType`), also
when the plan is stale.
`ConfirmationCorrect` then counts order lines. A confirmation whose lines are as it read
them writes what it would write of the lines as they are (`ReadAsTheyAre`), however
much else has changed. The lines a confirmation adds correspond
one to one with those it takes in part (`DedicatedLines`), in quantity as well
(`GivenIsTaken`): the total on order stays. If the plan is still current, what it takes
are amounts of lines that are dedicated to nobody and arrive by the project's date
(`PlanTakesOpenLines`, from `SnapshotFits`), and afterwards they are the project's.

The last two are about how much, not of which source. The account of a plan (`Account`)
has the pool, what waits for each project and what each is owed as numbers, and `Books`
says what each kind of event does to them: what first-fit draws take in all is the
smaller of what is asked and what there is (`DrawTotal`), so supply that arrives covers
what is owed first, project by project in their sequence, and the rest is kept
(`PlanBooked`: every plan has such accounts, from the free stock to its last event).

`FirstServedCorrect` is an invariant of these accounts (`Served`): there is nothing in the
pool while anybody is owed anything; the pool and the needs of those that have asked
(`Needs`, what their own supply by their dates leaves) make up for what came for nobody
and what is owed; and who has not asked is owed nothing. When a project asks, all that is
there by its date has come, and those that asked are the ones before it in the sequence
(`AskedStep`, from the order of the events, `EventsAreOrderly`), so the pool is what the
property computes from supply and demand alone. The second part is an equation as long
as no supply of their own comes after a project asked; such supply is late
(`AfterAskingIsLate`) and turns it into an inequality in the projects' favour.

`QuotesCorrect` compares two plans event by event. `NoWorse` relates their accounts: the
pool and what waits are at least as large, what is owed and what was short at most.
An event both plans have keeps it (`SameEventNoWorse`), and so does the one event that a
quoted line adds (`ExtraEventNoWorse`), wherever in the order of events it comes: two
sorted lists of which one has one element more agree before and after it
(`InsertedListing`).

`AllocationRowsProofs`, for any shelf order that puts STOCK first, whatever the order of
the others (`RowsAssumption`, which implies `ConstantsAssumption`):

| Theorem | States |
|---|---|
| `RowsTypeCorrect` | `Spec => []TypeOK`, of rows, markers and log |
| `RowsImplementReservations` | `Spec => ImplementsReservations`: with rows summed, every call is a step of `Reservations` |

So what `ReservationsProofs` shows of the quantities holds of the rows. The abstract
call says what is drawn in sum; the code draws it row by row, in an order of its own,
ends some rows, splits one and appends others. What the refinement needs of the
rows is `RowsInv`: their types; rows are of reservations that exist, so that a new
reservation has none yet (`OfUsed`); ids are given out in order (`UsedInOrder`); and the
active incoming rows are in the order of their reservations (`InTurn`). The last is
why `ConvertedQuantities` of the abstract arrival, oldest reservation first, is what
a conversion in the order of row ids does (`ArrivalDraw`): a row re-pointed to the split
line keeps its id and a part that ends is no longer active, so no call breaks it.
Step by step: `CreateStep`, `ReleaseStep`, `ConsumeStep`, `FullArrivalStep` and
`PartialArrivalStep` show that each call takes `RowsInv` to itself and is the abstract
call of the same name. They rest on what a loop does in sum: `DrainDrains` (draining
rows takes from each reservation and place what was drawn there, and no more),
`NewRowsActive` (one row for each place drawn from), `ArrivedRowsActive` (one stock row for
each converted row). The lemmas on sums they need (of a regrouped or renamed
function, of a concatenation, of the first-fit draw `InOrder`) are in `QuantityLemmas`.

`TransactionUndoProofs`, from the same assumption, for histories of any calls and undos
(any `MaxDirect`), with undone undos among them:

| Theorem | States |
|---|---|
| `UndoTypeCorrect` | `UndoSpec => []TypeOK` |
| `UndoneEndedHoldsNothing`, `UndoNeverOverbacks` | `UndoSpec => []EndedHoldsNothing` and `[]NeverOverbacked` |
| `UndoOneActiveRowPerLine` | `UndoSpec => []OneActiveRowPerLine` |
| `UndoneArrivalReturns` | `UndoSpec => UndoneArrivalIsOnOrder` |
| `UndoMarkersMatchLog` | `UndoSpec => []MarkersMatchLog` |
| `UndoIsReversal` | `UndoSpec => UndoReverses` |
| `SnapshotCorrect` | `UndoSpec => []PastSnapshotIsLedger` |

None of them is inductive alone, and the equality of quantity and backing that
`ReservationsProofs` has is false here (`MCRemainingQuantity`). The invariant is `UndoInv`.
`Held` puts the second and third together: an active reservation holds at most its
quantity, one that ended nothing. So the undo of a full release, which adds the
quantity to a reservation that still has it, keeps the bound: nothing was held, and
what comes back is at most what was added. That a released quantity comes back once
and whole needs the rows that end up with it: `Restored` merges the marked rows of a
place into the active row there, or into the first of them (`HomeFacts`), and counts at each
place what the marked rows had (`RestoredAt`).

An undone arrival is the hard case. It takes from stock rows what it gives back to
incoming rows, `back[i]` for each row `i` that the arrival converted, out of the first
stock row that carries its marker, into the first active row of its reservation on the
reopened line. Were two converted rows to share a stock row, or two reservations a
marker, one of them would lose what another gets. `Linked` excludes it: of the rows
that one arrival converted, no two are of one reservation or carry one marker, and a
stock row with the marker of a converted row is of its reservation. An arrival
establishes that because a reservation has one active row on its line (`OnePerLine`), so
`OnePerLine`, which a split, a re-pointing or a restoration could break, carries the
other two. With it every reservation's stock loses exactly what its
incoming rows gain (`StockReturns`, `IncomingReturns`), and its backing does not change. `EntriesOK` and
`LinesUsed` say that what an undo reads of an entry is there, and that rows are on lines
that exist, so that a line taken for a rest has none yet. `InTurn`, which the
refinement rests on, does not hold once an arrival is undone; nothing here needs it.

That an undone arrival is on order again, in the quantity that leaves stock, is about
the order lines. An undo reopens at most what the line has (`Smaller` in `ReopenLine`),
and nothing when the line is open; so it could take stock and reopen less. It does not,
because of `ArrivalsStand`: the line of an arrival that is not undone has arrived, still
has the quantity logged, and is the line of no other such arrival. Undoing another
arrival reopens that one's line only, adds a part to an open sibling or to a line
nothing had used, and leaves the other arrived lines of the split alone; every step that
is neither an arrival nor the undo of one names no line and undoes no arrival
(`PlainSteps`).

The last two are about what a call left behind for its own undo. A release or a
consumption writes its log id into the notes of the rows it ends (`Marks`), and its undo
finds the rows again by that id; everything in between must leave them alone, whatever
it splits, converts, merges or appends (`KeepsMarks`, one lemma per loop: a loop draws
only from active rows, and a marked row is not active, or it gives back the rows of
another id). That the marked rows add up to what was drawn, although a row drawn in part
splits in two and only the new half is marked, is `EndedMarks`: the rows a drain marked
and the rows it drew from correspond one to one. `MarkersInv` says so of each entry that
is not undone (`MarkersFit`), of a consumption location by location; that ids not yet
given out mark nothing; and that an entry which is no undo names the locations its call
moved stock between, in the direction it moved it (`MovesAsLogged`). With it an undo that
follows the entry (`ShiftReversed`) or the marked rows (`UndoReservationConsumeFits`)
reverses the call, or less of it where too little of the stock is left. Of undone undos this is
false, which `MCUndoOfUndo` shows, hence `undoOf = 0` in the property.

`SnapshotCorrect` is about a log of any length. The past snapshot takes the entries after
`k` back from the ledger as it is now, last entry first, by rules of its own in which
a quantity that falls to 0 or below is dropped; the ledger after entry `k` is what is left
when what the entries did (`moved`) is taken back. `SnapshotInv` adds two facts. Entries that undo others, like
the calls themselves, name the locations that they moved stock between and the quantity
(`NamesMoves`): an undo may move less than the entry it takes back says, and then logs the
lesser quantity. And there is a sequence of ledgers, one after each entry, none negative,
that ends in the present one (`Ledgers`), so nothing is dropped that was there; a call adds one entry and one ledger to it
(`LedgersGrow`). Both replays are recursive functions on `0 .. Len(log)`; that the functions
exist is `StatesBack`, and that they agree from `k` up to the end, because one step
back does not tell them apart (`RevertedIs`), is `SameBack`. Both are inductions over
numbers: `QuantityLemmas` has induction with a set in the place of the predicate
(`AllNumbers`), from the well-foundedness of `<`, since a theorem that takes a predicate as
a parameter cannot be used by these provers. The entries `TakenForGranted` leaves out
are left out of the theorem as well.

`RequestLocksProofs`, for any number of connections:

| Theorem | States |
|---|---|
| `NoDeadlock`, `NoLockedDeadlock` | `RequestSpec => []NoCircularWait`, and the same of `LockedSpec` |
| `LockedIsSerial` | `LockedSpec => RequestsAreSerial`: a refinement of `Reservations` |
| `EditsKeepBacking`, `EditsKeepStock` | `RequestSpec => []BackingMatchesQuantity` and `[]StockCoversAllocations`, with unlocked edits |
| `RequestTypeCorrect`, `LockedTypeCorrect` | `RequestTypeOK` in both |

`NoDeadlock` rests on `LockInv`: locks are held by one request each, and those a request
holds are a beginning of the sequence its call takes. A request that waits for
the item's lock holds at most the lock of a row, and one that waits for the lock of
a row holds none, so nobody waits for someone who waits for him. For `LockedIsSerial`
the invariant `SerialInv` says that whoever is about to write holds the item's lock and
that what he is about to write is what his call would write if it were made now:
nothing he read can have changed. So a commit is a step of `Reservations` and all
else is a stutter. With unlocked edits that is false; what is left is `Kept`, the part of
what a prepared request worked out that no edit can change (reservations,
allocations, the ledger), and `EditInv` with it gives the two invariants back.

`InventoryRequestsProofs`, for any finite set of items, any locations, batches and
number of connections (`RequestsAssumption`: STOCK is a location, NULL is none,
initial ledgers are natural numbers, batches are made of the statements that the
operations of a batch run):

| Theorem | States |
|---|---|
| `UndoIsOnce` | `Spec => []UndoneOnce` |
| `LocksAreExclusive` | `Spec => []LocksExclusive`, on which it rests |
| `LedgerIsExplained` | `Spec => []LogExplainsLedger` |
| `RequestsKeepLedger` | the inductive invariant behind it |

The property speaks of the committed log only, so it is far from inductive: an undo
reads that `k` is not undone several statements before it commits. The invariant
`IInv` says at which point of which operation each request is (`PhaseOK`): among the
statements of a batch or a disassembly, or at one of the points of the undo of a `k`,
and from the read of `k` on it holds the lock of `k` and `k` is not undone
(`Undoing`). A commit of another request cannot change that, since it would hold
the same lock; so at its own commit no entry undoes `k` yet. Ids are given out once
(`IdsOnce`), so entries of two requests never collide, and a rollback leaves nothing
(`FreeIsIdle`).

That the committed ledger is what the committed log explains, and that the log overdraws
no row at any point of it, is about three things a unit test never sees together. What
an open request has changed is what the entries it wrote say, and the one change whose
entry it is about to write (`Accounted`). It holds the row lock of each ledger row it
changed, so what it read there is still what is committed, and its entries on that row
have larger ids than all that are committed there (`Guarded`), although ids are given out
in an order that is not that of the commits. So a commit puts its entries at the end of
the history of each row it touched, and inside a history that nothing overdraws
(`Covered`). `RequestsAssumption` says of the statements of a batch that the entry of each
change comes right after it (`EntriesFollowChanges`), as each operation of the code writes
its log entry after its ledger changes and before it returns.

`RecordsProofs`, of users, for any usernames, e-mails and subjects, any number of connections and
rows (`UsersAssumption`: NULL is no value, administrators write rows of the table's
type):

| Theorem | States |
|---|---|
| `DecisionsCorrect` | `Spec => []DecisionsAreWhole` |
| `SignInCorrect` | `Spec => []ApprovedSignsIn` |

The inductive invariant `IInv` adds to the first property what calls in progress have
read (`JobOK`: the rows they will write to are there, and no call deletes one) and the
unique index on subjects (`SubjectsDiffer`), which the three writes of a user keep
because `UserFits` is checked when they write, not when they read. That an approval
gives the request a user no other request has follows from the id being new.

The same module proves of imports, for any files of items and of orders with any number
of rows, any names, numbers and urls, any number of jobs and of other calls
(`ImportsAssumption`: files have rows of their types, and the items there are at first
have ids up to their number and different names, as the table requires):

| Theorem | States |
|---|---|
| `TablesCorrect` | `ImportSpec => []TablesConsistent` |
| `ImportedOnceCorrect` | `ImportSpec => []ImportedOnce` |
| `UndoRestoresCorrect` | `ImportSpec => UndoRestores` |

All three follow from one invariant, `ImportInv`. `Sound` is what the tables
promise each other, with types and with ids no larger than the last one given, so that a
new row refers to nothing old and nothing old refers to it. That alone is not inductive,
because an undo puts back rows that were recorded long ago, among rows that have changed
since. `EffectSound` says what makes this harmless: a recorded row has the id and the key
of the row it is put in place of, and a header that gets back its former state gets no url
(an import only ever adds one where there was none), so none that another header may
have by now. It also had been released. `Guarded` is the other half of `ImportedOnce`: a
header that can be imported to has been released once, which holds because headers are
created locked and, besides an unlock that is noted, only an undo gives a header an
earlier lock. `ImportedOnceEver` speaks of all headers there ever were, since ids are not
given twice, and is what a new job extends: the lines it creates are on headers with ids
given in the job, on released ones, or on headers that were created after its check, on
which no job that was done by then has lines (`LinesFresh`). The last needs to be known
of imports in progress: `ImportsFound` says that a header of a number an import will use
is released, or has no line of a job that was done when the import checked, and every step
of the others keeps it so.

`JobTells` is what an undo relies on: of the effects of a job on a row, the first has the
row as it was before the import, but for the lock that an unlock in the same file takes
away, and all effects are on the tables of the job's kind, in the order of which an undo
takes them back. While an import works, `Tells` says this of its effects so far, and that
rows without an effect are what they were; a second effect on a row changes nothing of
it, because only the first has to tell. An undo goes through the effects newest first.
`Undone` says what holds after the first n: the row of each effect that no later one of
these n touches is what that effect found, and rows that none touches are as before the
undo. So at the end a row is what its first effect found (`FirstTouch`), which is what it
was before the import. `UndoRestoresCorrect` follows since no other step marks a job
undone (`NotedUndoesNone`, `CallsUndoNone`).

The loops over rows and effects are recursive functions; that what a loop starts with
stays true to its end is one lemma (`LoopStays`, by `AllNumbers`), and then there is one
lemma for each kind of row, each kind of effect and each call.

Only model-checked: the liveness property `EveryRequestEnds`, which is out of the prover's
reach. Every other property of a passing run is stated by a theorem above.

## Not modelled

* Previews of imports, which write nothing; parsing of CSV files, file paths and the
  artifacts they leave; the CSV imports of inventory and of reservations; rows from
  before purchase-order numbers (NULL); suppliers and manufacturers (one of each).
* `update_reservation` (purpose, deadline), statuses of RFQ and procurement batches,
  external order mirrors and lineage events other than their part in an undo.
* The inventory snapshot of a future date, which adds open lines to the ledger.
* Requests that reserve several items at once: one requirement at a time is modelled.
* Category aliases, assemblies' components and location usage: single-row edits with
  a guard of two lines.
* What a role may call, the verification of tokens and the bootstrap of the first
  administrator: the first is a table, the others are external.
* The limit of the connection pool, whose `Begin` has one connection per client.
* Files, pages, scripts and configuration have no state the properties above see.

What could be added next: requests that reserve several items, as lists of the calls of
`RequestLocks`; the future snapshot against the planning snapshot; category aliases.
