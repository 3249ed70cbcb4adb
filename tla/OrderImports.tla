---------------------------- MODULE OrderImports ----------------------------
(***************************************************************************)
(* Import jobs of items and of orders, undone and redone among the calls   *)
(* that edit what they created: purchase-order headers, quotations, order  *)
(* lines, items and aliases.  A request that fails leaves no trace, not    *)
(* even its job.                                                           *)
(*                                                                         *)
(* An import of orders looks up items and locked headers without a lock,   *)
(* before it waits for the advisory locks of its purchase-order numbers,   *)
(* and does not look again: the check is one step, what it stores is       *)
(* another, and other imports may come between.  The headers it unlocks    *)
(* are updated by the check: nobody else changes them till its end.        *)
(* Every other request is one step.                                        *)
(***************************************************************************)
EXTENDS CatalogImports

CONSTANTS
  ItemFile, OrderFile,   \* the files that are imported
  Number,                \* purchase-order numbers
  QuotationNumber,
  MaxUrl,                \* document urls 1 .. MaxUrl; 0 is none
  MaxUnits,              \* units per order of an alias that is edited
  Importer, NoImport,    \* the order imports in progress at once
  MaxJob, MaxCalls,      \* bounds on jobs and on other calls
  InitialItems

VARIABLES
  tables,            \* items, aliases, quotations, headers, lines; the last id
  history,           \* lines with lineage events, lines with a link to an RFQ or
                     \* procurement line, headers ever released or renumbered
  jobs,              \* import_jobs with their effects
  importing,         \* what order imports in progress found when they checked
  calls              \* calls other than imports so far

importVars == <<tables, history, jobs, importing, calls>>

Urls == 0 .. MaxUrl

TableName == {"items", "aliases", "quotations", "headers", "lines"}

ItemRecord == [id : Nat, name : Name, note : 0 .. MaxNote]

AliasRecord == [id : Nat, name : Name, item : Nat, units : Nat]

QuotationRecord == [id : Nat, number : QuotationNumber, url : Urls]

HeaderRecord == [id : Nat, number : Number, url : Urls, locked : BOOLEAN]

LineRecord ==
  [id : Nat, item : Nat, amount : Nat, eta : Nat, status : {"Ordered", "Arrived"},
   quotation : Nat, header : Nat]

ItemFileRow ==
  [type : {"item"}, name : Name]
    \cup [type : {"alias"}, name : Name, canonical : Name, units : Nat]

\* override and save are 0 for a row that overrides nothing, or saves no alias.
OrderFileRow ==
  [name : Name, quotation : QuotationNumber, qurl : Urls, number : Number, url : Urls,
   override : Nat, units : Nat, save : Nat]

ASSUME ImportsAssumption ==
  /\ IsFiniteSet(Importer)
  /\ MaxNote \in Nat /\ MaxUrl \in Nat /\ MaxUnits \in Nat /\ MaxJob \in Nat /\ MaxCalls \in Nat
  /\ InitialItems \subseteq ItemRecord /\ IsFiniteSet(InitialItems)
  /\ \A r, s \in InitialItems : /\ r.id \in 1 .. Cardinality(InitialItems)
                               /\ (r.id = s.id \/ r.name = s.name => r = s)
  /\ \A file \in ItemFile : file.rows \in Seq(ItemFileRow) /\ file.continue \in BOOLEAN
  /\ \A file \in OrderFile : file.rows \in Seq(OrderFileRow) /\ file.unlock \subseteq Number

ImportInit ==
  /\ tables = [items |-> InitialItems, aliases |-> {}, quotations |-> {}, headers |-> {},
               lines |-> {}, lastId |-> Cardinality(InitialItems)]
  /\ history = [lineage |-> {}, linked |-> {}, released |-> {}, renumbered |-> {}]
  /\ jobs = <<>>
  /\ importing = [r \in Importer |-> NoImport]
  /\ calls = 0

Kept(db) ==
  [items |-> db.items, aliases |-> db.aliases, quotations |-> db.quotations,
   headers |-> db.headers, lines |-> db.lines, lastId |-> db.lastId]

-----------------------------------------------------------------------------
(* Headers and quotations.                                                 *)

Numbered(table, number) == { row \in table : row.number = number }

WithUrl(db, url) == { row \in db.headers : url # 0 /\ row.url = url }

\* Fault: a new header may be imported to again.
UnlockedHeader(db, number, url) ==
  [id |-> db.lastId + 1, number |-> number, url |-> url, locked |-> FALSE]

NewHeader(db, number, url) ==
  [id |-> db.lastId + 1, number |-> number, url |-> url, locked |-> TRUE]

\* The header a number and document url stand for, as it is to be stored; none
\* when they are of two headers, or the header has another url.  A line that is
\* edited (current) goes to the header that has the url, or changes its own.
GetOrCreatePurchaseOrder(db, number, url, current) ==
  LET existing == Numbered(db.headers, number)
      header   == TheRow(existing)
      others   == WithUrl(db, url) \ existing
      isCurrent == current # 0 /\ existing # NoRow /\ header.id = current
  IN  CASE existing = NoRow ->
             IF others = NoRow THEN { NewHeader(db, number, url) } ELSE {}
        [] existing # NoRow /\ others # NoRow -> IF isCurrent THEN others ELSE {}
        [] existing # NoRow /\ others = NoRow ->
             CASE isCurrent \/ header.url = 0 -> { [header EXCEPT !.url = url] }
               [] ~isCurrent /\ header.url # 0 -> IF url \in {0, header.url} THEN existing ELSE {}

\* COALESCE: a quotation keeps its url when the row has none.
QuotationRow(db, number, url) ==
  LET before == Numbered(db.quotations, number)
      row    == TheRow(before)
  IN  IF before = NoRow THEN [id |-> db.lastId + 1, number |-> number, url |-> url]
      ELSE IF url = 0 THEN row ELSE [row EXCEPT !.url = url]

LinesOf(db, column, id) == { line \in db.lines : line[column] = id }

\* Headers among ids without a line are removed.
WithoutOrphans(db, table, column, ids) ==
  [db EXCEPT ![table] = { row \in @ : row.id \in ids => LinesOf(db, column, row.id) # {} }]

-----------------------------------------------------------------------------
(* Importing orders.                                                       *)

Overridden(db, row) ==
  IF row.override = 0 THEN ResolveOrderItem(db, row.name)
  ELSE { [item |-> row.override,
          units |-> IF row.units # 0 THEN row.units
                    ELSE IF \E match \in ResolveOrderItem(db, row.name) : match.item = row.override
                         THEN TheRow(ResolveOrderItem(db, row.name)).units
                         ELSE 1] }

\* An override, and an alias to be saved, name an item that is there.
OverridesExist(db, file) ==
  \A n \in DOMAIN file.rows :
    file.rows[n].override # 0 \/ file.rows[n].save # 0 =>
      WithId(db.items, file.rows[n].override) # NoRow

Missing(db, file) == \E n \in DOMAIN file.rows : Overridden(db, file.rows[n]) = {}

NumbersOf(file) == { file.rows[n].number : n \in DOMAIN file.rows }

UnlocksFound(db, file) ==
  /\ file.unlock \subseteq NumbersOf(file)
  /\ \A number \in file.unlock : Numbered(db.headers, number) # NoRow

Locked(db, file) ==
  \E row \in db.headers : row.locked /\ row.number \in NumbersOf(file) \ file.unlock

\* What an import finds when it checks its file: the items its rows mean and
\* the headers it unlocks.  job is the job it redoes, or 0.
Checked(file, job) ==
  [file |-> file, job |-> job, checked |-> Len(jobs),
   matches |-> [n \in DOMAIN file.rows |-> TheRow(Overridden(tables, file.rows[n]))],
   opens |-> { row \in tables.headers : row.number \in file.unlock }]

\* A saved alias of an item's own number would never be used: it is skipped.
AliasSaved(db, row) ==
  IF row.save = 0 \/ Named(db.items, row.name) # NoRow THEN db
  ELSE RecordedIfChanged(db, "aliases", Named(db.aliases, row.name),
                         AliasRow(db, row.name, row.override, row.save))

\* Of two rows that save an alias of one name, the later counts.
SavedAgain(file, n) ==
  \E m \in (n + 1) .. Len(file.rows) :
    file.rows[m].save # 0 /\ file.rows[m].name = file.rows[n].name

AliasesSaved(db, file) ==
  LET after[n \in 0 .. Len(file.rows)] ==
        IF n = 0 THEN db
        ELSE IF SavedAgain(file, n) THEN after[n - 1]
        ELSE AliasSaved(after[n - 1], file.rows[n])
  IN  after[Len(file.rows)]

\* The first row of a quotation in a file stores it.
QuotationImported(db, row) ==
  IF row.quotation \in db.seenQuotations THEN db
  ELSE RecordedIfChanged([db EXCEPT !.seenQuotations = @ \cup {row.quotation}], "quotations",
         Numbered(db.quotations, row.quotation), QuotationRow(db, row.quotation, row.qurl))

HeaderImported(db, row) ==
  LET found == GetOrCreatePurchaseOrder(db, row.number, row.url, 0)
  IN  IF row.number \in db.seenNumbers THEN db
      ELSE IF found = {} THEN Stopped(db)
      ELSE RecordedIfChanged([db EXCEPT !.seenNumbers = @ \cup {row.number}], "headers",
                             Numbered(db.headers, row.number), TheRow(found))

LineImported(db, row, match) ==
  Recorded(db, "lines", NoRow,
    [id |-> db.lastId + 1, item |-> match.item, amount |-> match.units, eta |-> 0,
     status |-> "Ordered",
     quotation |-> TheRow(Numbered(db.quotations, row.quotation)).id,
     header    |-> TheRow(Numbered(db.headers, row.number)).id])

RowImported(db, row, match) ==
  LET headed == HeaderImported(QuotationImported(db, row), row)
  IN  CASE db.stopped                      -> db
        [] ~db.stopped /\ headed.stopped  -> headed
        [] ~db.stopped /\ ~headed.stopped -> LineImported(headed, row, match)

\* The rows stand for what they were resolved to by the check.
RowsImported(db, import) ==
  LET file == import.file
      after[n \in 0 .. Len(file.rows)] ==
        IF n = 0 THEN AliasesSaved(db, file)
        ELSE RowImported(after[n - 1], file.rows[n], import.matches[n])
  IN  after[Len(file.rows)]

Unlocked(db, rows) ==
  [db EXCEPT !.headers = { IF row \in rows THEN [row EXCEPT !.locked = FALSE] ELSE row : row \in @ }]

OrdersImported(db, import) == RowsImported(Emptied(Unlocked(db, import.opens)), import)

-----------------------------------------------------------------------------
(* Undoing a job.                                                          *)

\* A line goes when it is as imported, and nobody split, merged or linked it.
LineReverted(db, effect) ==
  IF \/ effect.after \notin db.lines
     \/ effect.after.id \in history.lineage \cup history.linked
  THEN Stopped(db)
  ELSE [db EXCEPT !.lines = @ \ {effect.after}]

\* Fault: a quotation or header goes though other lines are on it.
HeadRevertedAnyway(db, effect, column) ==
  IF effect.after \notin db[effect.table] THEN Stopped(db)
  ELSE [db EXCEPT ![effect.table] = (@ \ {effect.after}) \cup effect.before]

HeadReverted(db, effect, column) ==
  IF effect.after \notin db[effect.table] \/ LinesOf(db, column, effect.after.id) # {}
  THEN Stopped(db)
  ELSE [db EXCEPT ![effect.table] = (@ \ {effect.after}) \cup effect.before]

Reverted(db, effect) ==
  CASE effect.table = "lines" -> LineReverted(db, effect)
    [] effect.table = "quotations" -> HeadReverted(db, effect, "quotation")
    [] effect.table = "headers" -> HeadReverted(db, effect, "header")
    [] effect.table = "aliases" -> AliasReverted(db, effect)
    [] effect.table = "items" -> ItemReverted(db, effect)

\* What a job did to one table is taken back, newest first.
TableReverted(db, effects, table) ==
  LET newest == Newest(effects)
      after[n \in 0 .. Len(effects)] ==
        IF n = 0 THEN db
        ELSE IF after[n - 1].stopped \/ newest[n].table # table THEN after[n - 1]
        ELSE Reverted(after[n - 1], newest[n])
  IN  after[Len(effects)]

ItemsReverted(db, effects) ==
  TableReverted(TableReverted(Emptied(db), effects, "aliases"), effects, "items")

OrdersReverted(db, effects) ==
  LET lines   == TableReverted(Emptied(db), effects, "lines")
      quoted  == TableReverted(lines, effects, "quotations")
      headers == TableReverted(quoted, effects, "headers")
  IN  TableReverted(headers, effects, "aliases")

-----------------------------------------------------------------------------
(* Jobs.                                                                   *)

\* checked: how many jobs there were when it looked for locked headers.
Job(kind, file, checked, effects) ==
  [kind |-> kind, file |-> file, checked |-> checked, undone |-> FALSE, redo |-> 0,
   effects |-> effects, was |-> tables]

\* The jobs after one more of file, which redoes job (0 for none).
Noted(job, new) ==
  Append([j \in DOMAIN jobs |-> IF j = job THEN [jobs[j] EXCEPT !.redo = Len(jobs) + 1]
                                ELSE jobs[j]], new)

Busy == { r \in Importer : importing[r] # NoImport }

\* Bound: imports in progress have room to be noted.
RoomForJob == Len(jobs) + Cardinality(Busy) < MaxJob

RunItems(file, job) ==
  LET db == ItemsImported(tables, file)
  IN  /\ RoomForJob
      /\ tables' = Kept(db)
      /\ jobs' = Noted(job, Job("items", file, Len(jobs), db.effects))
      /\ UNCHANGED <<history, importing, calls>>

\* A file with a row that no item is found for stores nothing.
ReportMissing(file, job) ==
  /\ RoomForJob
  /\ OverridesExist(tables, file)
  /\ Missing(tables, file)
  /\ jobs' = Noted(job, Job("orders", file, Len(jobs), <<>>))
  /\ UNCHANGED <<tables, history, importing, calls>>

CheckOrders(r, file, job) ==
  /\ importing[r] = NoImport
  /\ RoomForJob
  /\ OverridesExist(tables, file)
  /\ ~Missing(tables, file)
  /\ UnlocksFound(tables, file)
  /\ ~Locked(tables, file)
  /\ importing' = [importing EXCEPT ![r] = Checked(file, job)]
  /\ UNCHANGED <<tables, history, jobs, calls>>

\* Foreign keys refuse a line of an item that has been deleted since.
ItemsThere(db, import) ==
  \A n \in DOMAIN import.file.rows : WithId(db.items, import.matches[n].item) # NoRow

StoreOrders(r) ==
  LET import == importing[r]
      db     == OrdersImported(tables, import)
  IN  /\ import # NoImport
      /\ import.opens \subseteq tables.headers
      /\ ItemsThere(tables, import)
      /\ ~db.stopped
      /\ tables' = Kept(db)
      /\ jobs' = Noted(import.job, Job("orders", import.file, import.checked, db.effects))
      /\ history' = [history EXCEPT !.released = @ \cup { row.id : row \in import.opens }]
      /\ importing' = [importing EXCEPT ![r] = NoImport]
      /\ UNCHANGED calls

\* An import fails, or its client leaves.
DropOrders(r) ==
  /\ importing[r] # NoImport
  /\ importing' = [importing EXCEPT ![r] = NoImport]
  /\ UNCHANGED <<tables, history, jobs, calls>>

ImportItems(file) == RunItems(file, 0)

ImportOrders(r, file) == ReportMissing(file, 0) \/ CheckOrders(r, file, 0)

Undo(j, db) ==
  /\ ~jobs[j].undone
  /\ ~db.stopped
  /\ tables' = Kept(db)
  /\ jobs' = [jobs EXCEPT ![j].undone = TRUE]
  /\ UNCHANGED <<history, importing, calls>>

UndoItemsJob(j) == jobs[j].kind = "items" /\ Undo(j, ItemsReverted(tables, jobs[j].effects))

UndoOrdersJob(j) == jobs[j].kind = "orders" /\ Undo(j, OrdersReverted(tables, jobs[j].effects))

RedoItemsJob(j) == jobs[j].kind = "items" /\ jobs[j].undone /\ RunItems(jobs[j].file, j)

RedoOrdersJob(r, j) ==
  /\ jobs[j].kind = "orders" /\ jobs[j].undone
  /\ ReportMissing(jobs[j].file, j) \/ CheckOrders(r, jobs[j].file, j)

-----------------------------------------------------------------------------
(* Calls that change what imports created.                                 *)

Call(db) ==
  /\ calls < MaxCalls
  /\ calls' = calls + 1
  /\ tables' = Kept(db)
  /\ UNCHANGED <<jobs, importing>>

Open(line) == line \in tables.lines /\ line.status = "Ordered"

Replaced(table, row, new) == [tables EXCEPT ![table] = (@ \ {row}) \cup {new}]

\* A new date is noted in the lineage of the line.
EditLine(line, eta) ==
  /\ Open(line)
  /\ eta # line.eta
  /\ Call(Replaced("lines", line, [line EXCEPT !.eta = eta]))
  /\ history' = [history EXCEPT !.lineage = @ \cup {line.id}]

\* The line's header gets the url, or the line moves to the header that has it.
EditLineDocument(line, url) ==
  LET header == TheRow(WithId(tables.headers, line.header))
      found  == GetOrCreatePurchaseOrder(tables, header.number, url, header.id)
      target == TheRow(found)
      stored == Stored(tables, "headers", WithId(tables.headers, target.id), target)
      moved  == [stored EXCEPT !.lines = (@ \ {line}) \cup {[line EXCEPT !.header = target.id]}]
  IN  /\ Open(line)
      /\ found # {}
      /\ Call(IF target.id = header.id THEN stored
              ELSE WithoutOrphans(moved, "headers", "header", {header.id}))
      /\ UNCHANGED history

ReceiveLine(line) ==
  /\ Open(line)
  /\ Call(Replaced("lines", line, [line EXCEPT !.status = "Arrived"]))
  /\ UNCHANGED history

\* An RFQ or procurement line is ORDERED on the line, or no longer.
LinkLine(line) ==
  /\ line \in tables.lines
  /\ Call(tables)
  /\ history' = [history EXCEPT
       !.linked = IF line.id \in @ THEN @ \ {line.id} ELSE @ \cup {line.id}]

\* Lines are deleted with their headers and quotations, if these are of no
\* other line.
Deleted(db, gone) ==
  LET rest == [db EXCEPT !.lines = @ \ gone]
  IN  WithoutOrphans(WithoutOrphans(rest, "headers", "header", { l.header : l \in gone }),
                     "quotations", "quotation", { l.quotation : l \in gone })

DeleteLines(db, gone) ==
  /\ \A line \in gone : line.status = "Ordered"
  /\ Call(Deleted(db, gone))
  /\ history' = [history EXCEPT !.linked = @ \ { l.id : l \in gone }]

DeleteOrder(line) == line \in tables.lines /\ DeleteLines(tables, {line})

DeleteQuotation(quotation) ==
  /\ quotation \in tables.quotations
  /\ DeleteLines([tables EXCEPT !.quotations = @ \ {quotation}],
                 LinesOf(tables, "quotation", quotation.id))

DeletePurchaseOrder(header) ==
  /\ header \in tables.headers
  /\ DeleteLines([tables EXCEPT !.headers = @ \ {header}],
                 LinesOf(tables, "header", header.id))

UpdateQuotation(quotation, url) ==
  /\ quotation \in tables.quotations
  /\ Call(Replaced("quotations", quotation,
                   [quotation EXCEPT !.url = IF url = 0 THEN @ ELSE url]))
  /\ UNCHANGED history

UpdatePurchaseOrder(header, number, url, locked) ==
  /\ header \in tables.headers
  /\ Numbered(tables.headers, number) \subseteq {header}
  /\ WithUrl(tables, url) \subseteq {header}
  /\ Call(Replaced("headers", header,
       [header EXCEPT !.number = number, !.url = url, !.locked = locked]))
  /\ history' = [history EXCEPT
       !.released = IF locked THEN @ ELSE @ \cup {header.id},
       !.renumbered = IF number = header.number THEN @ ELSE @ \cup {header.id}]

\* An item in use keeps its number.
UpdateItem(item, name, note) ==
  /\ item \in tables.items
  /\ name # item.name => ~Referenced(tables, item.id)
  /\ Named(tables.items, name) \subseteq {item}
  /\ Call(Replaced("items", item, [item EXCEPT !.name = name, !.note = note]))
  /\ UNCHANGED history

DeleteItem(item) ==
  /\ item \in tables.items
  /\ ~Referenced(tables, item.id)
  /\ Call([tables EXCEPT !.items = @ \ {item}])
  /\ UNCHANGED history

UpsertAlias(name, item, units) ==
  /\ MayAlias(tables, name, item.id)
  /\ Call(Stored(tables, "aliases", Named(tables.aliases, name),
                 AliasRow(tables, name, item.id, units)))
  /\ UNCHANGED history

DeleteAlias(alias) ==
  /\ alias \in tables.aliases
  /\ Call([tables EXCEPT !.aliases = @ \ {alias}])
  /\ UNCHANGED history

-----------------------------------------------------------------------------
JobStep ==
  \/ \E file \in ItemFile : ImportItems(file)
  \/ \E r \in Importer, file \in OrderFile : ImportOrders(r, file)
  \/ \E r \in Importer : StoreOrders(r)
  \/ \E r \in Importer : DropOrders(r)
  \/ \E j \in DOMAIN jobs : UndoItemsJob(j)
  \/ \E j \in DOMAIN jobs : UndoOrdersJob(j)
  \/ \E j \in DOMAIN jobs : RedoItemsJob(j)
  \/ \E r \in Importer, j \in DOMAIN jobs : RedoOrdersJob(r, j)

LineStep ==
  \/ \E line \in tables.lines, eta \in 0 .. 1 : EditLine(line, eta)
  \/ \E line \in tables.lines, url \in Urls : EditLineDocument(line, url)
  \/ \E line \in tables.lines : ReceiveLine(line)
  \/ \E line \in tables.lines : LinkLine(line)
  \/ \E line \in tables.lines : DeleteOrder(line)

HeaderStep ==
  \/ \E quotation \in tables.quotations : DeleteQuotation(quotation)
  \/ \E header \in tables.headers : DeletePurchaseOrder(header)
  \/ \E quotation \in tables.quotations, url \in Urls : UpdateQuotation(quotation, url)
  \/ \E header \in tables.headers, number \in Number, url \in Urls, locked \in BOOLEAN :
        UpdatePurchaseOrder(header, number, url, locked)

CatalogStep ==
  \/ \E item \in tables.items, name \in Name, note \in 0 .. MaxNote : UpdateItem(item, name, note)
  \/ \E item \in tables.items : DeleteItem(item)
  \/ \E name \in Name, item \in tables.items, units \in 1 .. MaxUnits : UpsertAlias(name, item, units)
  \/ \E alias \in tables.aliases : DeleteAlias(alias)

ImportNext == JobStep \/ LineStep \/ HeaderStep \/ CatalogStep

ImportSpec == ImportInit /\ [][ImportNext]_importVars

-----------------------------------------------------------------------------
(* Properties.                                                             *)

Ids(table) == { row.id : row \in table }

\* What the tables promise each other: a line has its item, quotation and
\* header, an alias its item, and no two rows share an id, a number, a name or
\* a document url.
TablesConsistent ==
  /\ \A line \in tables.lines :
       /\ line.item \in Ids(tables.items)
       /\ line.quotation \in Ids(tables.quotations)
       /\ line.header \in Ids(tables.headers)
  /\ \A alias \in tables.aliases : alias.item \in Ids(tables.items)
  /\ \A table \in TableName : \A r, s \in tables[table] :
       /\ r.id = s.id => r = s
       /\ table \in {"headers", "quotations"} /\ r.number = s.number => r = s
       /\ table \in {"items", "aliases"} /\ r.name = s.name => r = s
  /\ \A r, s \in tables.headers : r.url # 0 /\ r.url = s.url => r = s

\* The lines a job created on header h.
LinesOn(job, h) ==
  { n \in DOMAIN job.effects : job.effects[n].table = "lines" /\ job.effects[n].after.header = h }

\* A purchase order is imported once: a job that checked its file when another
\* was done, redone jobs among them, puts lines on the header of the other only
\* if somebody released it or gave it another number.
ImportedOnce ==
  \A i, j \in DOMAIN jobs : \A h \in Ids(tables.headers) :
    i <= jobs[j].checked /\ LinesOn(jobs[i], h) # {} /\ LinesOn(jobs[j], h) # {}
      => h \in history.released \cup history.renumbered

\* "import_locked ... prevents duplicate re-import for the same supplier + purchase
\* order number until manually released": of imports in progress at once, too.
NeverImportedTwice ==
  \A i, j \in DOMAIN jobs : \A h \in Ids(tables.headers) :
    i # j /\ LinesOn(jobs[i], h) # {} /\ LinesOn(jobs[j], h) # {}
      => h \in history.released \cup history.renumbered

Touched(job, table) ==
  { job.effects[n].after.id : n \in { m \in DOMAIN job.effects : job.effects[m].table = table } }

Among(table, ids) == { row \in table : row.id \in ids }

\* The lock of a header that an import released stays released.
ButForLocks(rows, table) ==
  IF table = "headers" THEN { [row EXCEPT !.locked = FALSE] : row \in rows } ELSE rows

\* Undoing a job leaves each row it touched as it was before the import, and
\* no other row changed, whatever other jobs and calls came between.
UndoRestores ==
  [][\A j \in DOMAIN jobs : jobs'[j].undone /\ ~jobs[j].undone =>
       \A table \in TableName :
         LET touched == Touched(jobs[j], table)
         IN  /\ ButForLocks(Among(tables'[table], touched), table)
                = ButForLocks(Among(jobs[j].was[table], touched), table)
             /\ tables'[table] \ Among(tables'[table], touched)
                = tables[table] \ Among(tables[table], touched)]_importVars

\* The rows a job left are there as it left them, and its lines are untouched.
StillMatches(job) ==
  \A n \in DOMAIN job.effects :
    /\ job.effects[n].after \in tables[job.effects[n].table]
    /\ job.effects[n].table = "lines" =>
         job.effects[n].after.id \notin history.lineage \cup history.linked

\* The newest order job can be undone while its rows are as it left them.
LatestJobUndoes ==
  \A j \in DOMAIN jobs :
    /\ j = Len(jobs) /\ jobs[j].kind = "orders" /\ ~jobs[j].undone
    /\ StillMatches(jobs[j])
    => ~OrdersReverted(tables, jobs[j].effects).stopped
=============================================================================
