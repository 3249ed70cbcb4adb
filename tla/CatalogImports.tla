--------------------------- MODULE CatalogImports ---------------------------
(***************************************************************************)
(* Items and supplier aliases, and the jobs that import them from a file:  *)
(* every change of a job is recorded as an effect, with the row before and *)
(* after, so that the job can be undone while its rows are as it left them.*)
(*                                                                         *)
(* A table is a set of rows with ids that are never used again.  There is  *)
(* one supplier and one manufacturer; names are normalised already, so     *)
(* that two names match or do not.                                         *)
(***************************************************************************)
EXTENDS Integers, Sequences, FiniteSets, SequencesExt

CONSTANTS
  Name,              \* item numbers, and the numbers suppliers use for them
  MaxNote            \* versions of an item's metadata: 0 .. MaxNote

\* What a request works on: the tables, the last id that was given, the
\* effects it recorded, the alias rows it put aside, the quotations and headers
\* it has met in its file, and whether it stopped at an error.
Emptied(tables) ==
  [items |-> tables.items, aliases |-> tables.aliases, quotations |-> tables.quotations,
   headers |-> tables.headers, lines |-> tables.lines, lastId |-> tables.lastId,
   effects |-> <<>>, deferred |-> <<>>, seenQuotations |-> {}, seenNumbers |-> {},
   stopped |-> FALSE]

NoRow == {}

\* A row replaces what was there of it: nothing, when it is new.
Stored(db, table, before, row) ==
  [db EXCEPT ![table] = (@ \ before) \cup {row},
             !.lastId = IF before = NoRow THEN @ + 1 ELSE @]

\* Fault: effects are read back in the order they were recorded.
Oldest(effects) == effects

\* ORDER BY effect_id DESC
Newest(effects) == Reverse(effects)

Recorded(db, table, before, row) ==
  [Stored(db, table, before, row) EXCEPT
     !.effects = Append(@, [table |-> table, before |-> before, after |-> row])]

RecordedIfChanged(db, table, before, row) ==
  IF before = {row} THEN db ELSE Recorded(db, table, before, row)

Stopped(db) == [db EXCEPT !.stopped = TRUE]

Named(table, name) == { row \in table : row.name = name }

TheRow(rows) == CHOOSE row \in rows : TRUE

WithId(table, id) == { row \in table : row.id = id }

-----------------------------------------------------------------------------
(* Items and aliases.                                                      *)

\* The item a supplier's number stands for, with the units of one order, if
\* there is one: an item's own number comes first.
ResolveOrderItem(db, name) ==
  IF Named(db.items, name) # NoRow
  THEN { [item |-> row.id, units |-> 1] : row \in Named(db.items, name) }
  ELSE { [item |-> row.item, units |-> row.units] : row \in Named(db.aliases, name) }

NewItem(db, name) == [id |-> db.lastId + 1, name |-> name, note |-> 0]

MayAlias(db, name, item) ==
  /\ Named(db.items, name) = NoRow
  /\ WithId(db.items, item) # NoRow

\* The row an upsert leaves.
AliasRow(db, name, item, units) ==
  LET before == Named(db.aliases, name)
  IN  [id |-> IF before = NoRow THEN db.lastId + 1 ELSE TheRow(before).id,
       name |-> name, item |-> item, units |-> units]

\* What keeps an item: aliases and order lines.
Referenced(db, item) ==
  \/ \E row \in db.aliases : row.item = item
  \/ \E row \in db.lines : row.item = item

-----------------------------------------------------------------------------
(* An item file: its item rows first, then the aliases, which may name the *)
(* items of the file.  A row that fails is skipped, or ends its loop.      *)

ItemNumbers(file) ==
  { file.rows[n].name : n \in { m \in DOMAIN file.rows : file.rows[m].type = "item" } }

Skipped(db, file) == IF file.continue THEN db ELSE Stopped(db)

ItemRow(db, file, row) ==
  IF Named(db.items, row.name) # NoRow THEN Skipped(db, file)
  ELSE Recorded(db, "items", NoRow, NewItem(db, row.name))

AliasAccepted(db, file, row) ==
  /\ row.name \notin ItemNumbers(file)
  /\ Named(db.items, row.name) = NoRow
  /\ Named(db.items, row.canonical) # NoRow \/ row.canonical \in ItemNumbers(file)

FirstRow(db, file, row) ==
  CASE db.stopped -> db
    [] ~db.stopped /\ row.type = "item" -> ItemRow(db, file, row)
    [] ~db.stopped /\ row.type = "alias" ->
         IF AliasAccepted(db, file, row) THEN [db EXCEPT !.deferred = Append(@, row)]
         ELSE Skipped(db, file)

\* The first loop: items are created, aliases put aside.
FirstPass(tables, file) ==
  LET after[n \in 0 .. Len(file.rows)] ==
        IF n = 0 THEN Emptied(tables) ELSE FirstRow(after[n - 1], file, file.rows[n])
  IN  after[Len(file.rows)]

DeferredAlias(db, file, row) ==
  LET canonical == Named(db.items, row.canonical)
  IN  CASE db.stopped -> db
        [] ~db.stopped /\ (canonical = NoRow \/ Named(db.items, row.name) # NoRow) ->
             Skipped(db, file)
        [] OTHER -> Recorded(db, "aliases", Named(db.aliases, row.name),
                             AliasRow(db, row.name, TheRow(canonical).id, row.units))

\* Both loops; the second starts though the first was cut short.
ItemsImported(tables, file) ==
  LET first == FirstPass(tables, file)
      after[n \in 0 .. Len(first.deferred)] ==
        IF n = 0 THEN [first EXCEPT !.stopped = FALSE]
        ELSE DeferredAlias(after[n - 1], file, first.deferred[n])
  IN  after[Len(first.deferred)]

-----------------------------------------------------------------------------
(* Undoing an item file.  Stopped when a row has changed since, or is in   *)
(* use.                                                                    *)

AliasReverted(db, effect) ==
  IF \/ effect.after \notin db.aliases
     \/ \E row \in effect.before : ~MayAlias(db, row.name, row.item)
  THEN Stopped(db)
  ELSE [db EXCEPT !.aliases = (@ \ {effect.after}) \cup effect.before]

ItemReverted(db, effect) ==
  IF effect.after \notin db.items \/ Referenced(db, effect.after.id) THEN Stopped(db)
  ELSE [db EXCEPT !.items = @ \ {effect.after}]
=============================================================================
