------------------------- MODULE InventorySnapshot -------------------------
(***************************************************************************)
(* get_inventory_snapshot of a past date: the entries the log has after    *)
(* that date are taken back, the last one first, from what the ledger has  *)
(* now.  The date is the point after entry k.                              *)
(***************************************************************************)
EXTENDS TransactionUndo

\* A quantity that falls to 0 or below leaves the snapshot.
Applied(state, l, delta) ==
  [state EXCEPT ![l] = IF @ + delta > 0 THEN @ + delta ELSE 0]

\* NULL is no location of the snapshot.
AppliedAt(state, l, delta) ==
  IF l = NoLocation THEN state ELSE Applied(state, l, delta)

\* Fault: what an adjustment took away is not given back.
OneSided(state, entry) ==
  AppliedAt(state, entry.to, -entry.quantity)

\* MOVE and ADJUST are taken back at both ends they name.
BothEnds(state, entry) ==
  AppliedAt(AppliedAt(state, entry.to, -entry.quantity), entry.from, entry.quantity)

Reverted(state, entry) ==
  CASE entry.op \in {"MOVE", "ADJUST"} -> BothEnds(state, entry)
    [] entry.op = "CONSUME" -> AppliedAt(state, entry.from, entry.quantity)
    [] entry.op = "RESERVE" ->
         Applied(Applied(state, RESERVED, -entry.quantity), STOCK, entry.quantity)
    [] entry.op = "ARRIVAL" -> Applied(state, STOCK, -entry.quantity)

PastSnapshot(k) ==
  LET state[n \in 0 .. Len(log)] ==
        IF n = Len(log) THEN onHand ELSE Reverted(state[n + 1], log[n + 1])
  IN  state[k]

\* The ledger as it was after entry k.
LedgerAfter(k) ==
  LET ledger[n \in 0 .. Len(log)] ==
        IF n = Len(log) THEN onHand
        ELSE [l \in Location |-> ledger[n + 1][l] - log[n + 1].moved[l]]
  IN  ledger[k]

\* What the replay takes for granted of entries that name fewer locations than
\* they concern: a reserving call moves stock from STOCK to RESERVED, an
\* arrival goes to STOCK, and a consumption says where from.
TakenForGranted(entry) ==
  /\ entry.op = "ARRIVAL" => entry.to = STOCK
  /\ entry.op = "RESERVE" => entry.from = STOCK /\ entry.to = RESERVED
  /\ entry.op = "CONSUME" => entry.from # NoLocation

\* The snapshot of a past date is the ledger of that date, through undone
\* calls and undone undos, calls in part and stock that went to 0, as long as
\* no entry since then is one the replay is wrong about by itself.
PastSnapshotIsLedger ==
  \A k \in 0 .. Len(log) :
    (\A j \in (k + 1) .. Len(log) : TakenForGranted(log[j])) => PastSnapshot(k) = LedgerAfter(k)
=============================================================================
