----------------------------- MODULE OrderLines -----------------------------
(***************************************************************************)
(* Open order lines as the purchasing side edits them, beside reservations *)
(* and arrivals: update_order (date, project, postponing a part to a later *)
(* date), delete_order, merge_open_orders, and the RFQ and procurement     *)
(* lines, which own the project of the order line they are ORDERED on.     *)
(* The edits know nothing of incoming allocations; what a deleted line had *)
(* promised is left on no line (ON DELETE SET NULL).                       *)
(*                                                                         *)
(* All lines are of one quotation, purchase order and item number, and     *)
(* managed locally.                                                        *)
(***************************************************************************)
EXTENDS Reservations, FiniteSets

CONSTANTS
  RfqLine,           \* rfq_lines of the item
  RfqProject,        \* the project of the batch of each
  ProcurementLine,   \* procurement_lines of the item
  SourceProject,     \* source_project_id of each, or NoProject
  Keep               \* a request that does not name project_id

ASSUME LinesAssumption ==
  /\ IsFiniteSet(RfqLine) /\ IsFiniteSet(ProcurementLine)
  /\ RfqProject \in [RfqLine -> Project]
  /\ SourceProject \in [ProcurementLine -> Project \cup {NoProject}]

VARIABLES
  manual,            \* project_id_manual, by order line
  rfq,               \* status = 'ORDERED' and linked_order_id, by RFQ line
  procurement        \* the same, by procurement line

ownership == <<manual, rfq, procurement>>

lineVars == <<vars, ownership>>

Link == [ordered : BOOLEAN, order : Source]

Unlinked == [ordered |-> FALSE, order |-> NoOrder]

\* Lines that are dedicated when they are first seen were assigned by hand.
LineInit ==
  /\ Init
  /\ manual = [o \in Order |-> orders[o].project # NoProject]
  /\ rfq = [n \in RfqLine |-> Unlinked]
  /\ procurement = [n \in ProcurementLine |-> Unlinked]

-----------------------------------------------------------------------------
(* Who owns the project of an order line.                                  *)

On(links, o) == { n \in DOMAIN links : links[n].ordered /\ links[n].order = o }

RfqOwners(links, o) == { RfqProject[n] : n \in On(links, o) }

ProcurementOwners(links, o) == { SourceProject[n] : n \in On(links, o) } \ {NoProject}

\* Two owners are a conflict, which fails the call.
AtMostOne(owners) == Cardinality(owners) <= 1

OwnerAmong(owners) == IF owners = {} THEN NoProject ELSE CHOOSE p \in owners : TRUE

FirstOwner(owners, others) == OwnerAmong(IF owners # {} THEN owners ELSE others)

\* The project of o after a sync that found this owner.
Synced(o, owner) ==
  IF owner # NoProject THEN owner
  ELSE IF manual[o] THEN orders[o].project ELSE NoProject

SetProjects(touched, owner) ==
  orders' = [o \in Order |-> IF o \in touched
                             THEN [orders[o] EXCEPT !.project = Synced(o, owner[o])]
                             ELSE orders[o]]

\* The order lines a changed link was on, and is on.
Touched(old, new) == IF old = new THEN {} ELSE {old.order, new.order} \ {NoOrder}

Exists(o) == orders[o].status \in {"Ordered", "Arrived"}

\* An order line of another project is not taken over.
Linkable(o, project, owners) ==
  /\ Exists(o)
  /\ AtMostOne(owners)
  /\ owners \subseteq {project}
  /\ orders[o].project \in {project, NoProject}

\* RFQ line n is ORDERED on o, or is not ORDERED when o is NoOrder.
UpdateRfqLine(n, o) ==
  LET new   == [ordered |-> o # NoOrder, order |-> o]
      links == [rfq EXCEPT ![n] = new]
  IN  /\ o # NoOrder => /\ Linkable(o, RfqProject[n], RfqOwners(rfq, o))
                        /\ orders[o].eta # NoEta
      /\ \A t \in Touched(rfq[n], new) : AtMostOne(RfqOwners(links, t))
      /\ rfq' = links
      /\ SetProjects(Touched(rfq[n], new), [t \in Order |-> OwnerAmong(RfqOwners(links, t))])
      /\ UNCHANGED <<onHand, reservations, allocated, incoming, manual, procurement>>

\* The same for procurement line n, which may be of no project; an order line
\* it leaves goes back to the RFQ line that is ORDERED on it, if any.
UpdateProcurementLine(n, o) ==
  LET new   == [ordered |-> o # NoOrder, order |-> o]
      links == [procurement EXCEPT ![n] = new]
  IN  /\ o # NoOrder =>
           /\ Exists(o)
           /\ AtMostOne(ProcurementOwners(procurement, o))
           /\ SourceProject[n] # NoProject =>
                Linkable(o, SourceProject[n], ProcurementOwners(procurement, o))
      /\ \A t \in Touched(procurement[n], new) :
           /\ AtMostOne(ProcurementOwners(links, t))
           /\ ProcurementOwners(links, t) = {} => AtMostOne(RfqOwners(rfq, t))
      /\ procurement' = links
      /\ SetProjects(Touched(procurement[n], new),
           [t \in Order |-> FirstOwner(ProcurementOwners(links, t), RfqOwners(rfq, t))])
      /\ UNCHANGED <<onHand, reservations, allocated, incoming, manual, rfq>>

-----------------------------------------------------------------------------
(* Edits of order lines.                                                   *)

Owners(o) == <<ProcurementOwners(procurement, o), RfqOwners(rfq, o)>>

\* Fault: the owner of the line is not looked up.
AnyoneMaySet(o, project) == TRUE

\* An owned line may only be given the project it has an owner for.
MaySetProject(o, project) ==
  project # Keep =>
    /\ AtMostOne(Owners(o)[1]) /\ AtMostOne(Owners(o)[2])
    /\ FirstOwner(Owners(o)[1], Owners(o)[2]) \in {NoProject, project}

ProjectSet(o, project) == IF project = Keep THEN orders[o].project ELSE project

ManualSet(o, project) == IF project = Keep THEN manual[o] ELSE project # NoProject

EditLine(o, eta, project) ==
  /\ orders[o].status = "Ordered"
  /\ MaySetProject(o, project)
  /\ orders' = [orders EXCEPT ![o].eta = eta, ![o].project = ProjectSet(o, project)]
  /\ manual' = [manual EXCEPT ![o] = ManualSet(o, project)]
  /\ UNCHANGED <<onHand, reservations, allocated, incoming, rfq, procurement>>

\* Fault: the postponed part takes the whole ordered quantity with it.
RestKeepingOrdered(o, part) == [orders[o] EXCEPT !.amount = @ - part]

\* What is left of a line when part of it is postponed.
Shortened(o, part) ==
  [orders[o] EXCEPT !.amount = @ - part, !.ordered = @ - OrderedShare(o, part)]

\* Part of a line is postponed: a new line with the later date, of no project
\* when the line has an owner.
PostponePart(o, child, part, eta, project) ==
  LET owned == UNION {Owners(o)[1], Owners(o)[2]} # {}
  IN  /\ orders[o].status = "Ordered"
      /\ MaySetProject(o, project)
      /\ AtMostOne(Owners(o)[2])
      /\ Owners(o)[2] = {} => AtMostOne(Owners(o)[1])
      /\ NextUnused(orders, child)
      /\ eta # NoEta
      /\ IntegerSafeSplit(o, part)
      /\ orders' = [orders EXCEPT
           ![o] = [Shortened(o, part) EXCEPT !.project = ProjectSet(o, project)],
           ![child] = [LineOf(o, "Ordered", part, OrderedShare(o, part)) EXCEPT
                         !.eta     = eta,
                         !.project = IF owned THEN NoProject ELSE ProjectSet(o, project)]]
      /\ manual' = [manual EXCEPT
           ![o] = ManualSet(o, project),
           ![child] = ~owned /\ ManualSet(o, project)]
      /\ UNCHANGED <<onHand, reservations, allocated, incoming, rfq, procurement>>

\* Fault: the allocations of a deleted line go with it.
CascadedFrom(o) == [r \in Reservation |-> [incoming[r] EXCEPT ![o] = 0]]

\* The foreign keys to a deleted line become NULL.
OrphanedFrom(o) ==
  [r \in Reservation |-> [incoming[r] EXCEPT ![o] = 0, ![NoOrder] = @ + incoming[r][o]]]

Orphaned(links, o) ==
  [n \in DOMAIN links |-> IF links[n].order = o THEN [links[n] EXCEPT !.order = NoOrder]
                          ELSE links[n]]

Gone(o) ==
  /\ incoming' = OrphanedFrom(o)
  /\ rfq' = Orphaned(rfq, o)
  /\ procurement' = Orphaned(procurement, o)

DeleteLine(o) ==
  /\ orders[o].status = "Ordered"
  /\ orders' = [orders EXCEPT ![o].status = "Deleted"]
  /\ Gone(o)
  /\ UNCHANGED <<onHand, reservations, allocated, manual>>

\* The target takes the quantities and keeps its date, unless the request has
\* one or it has none.
MergeLines(source, target, eta) ==
  /\ source # target
  /\ orders[source].status = "Ordered" /\ orders[target].status = "Ordered"
  /\ orders[source].project = orders[target].project
  /\ orders' = [orders EXCEPT
       ![source].status  = "Deleted",
       ![target].amount  = @ + orders[source].amount,
       ![target].ordered = @ + orders[source].ordered,
       ![target].eta     = CASE eta # NoEta -> eta
                             [] eta = NoEta /\ @ # NoEta -> @
                             [] OTHER -> orders[source].eta]
  /\ Gone(source)
  /\ UNCHANGED <<onHand, reservations, allocated, manual>>

-----------------------------------------------------------------------------
\* The rest of a line that arrives in part keeps who assigned its project.
PartialArrivalOfLine(o, child, quantity, l) ==
  /\ PartialArrival(o, child, quantity, l)
  /\ manual' = [manual EXCEPT ![child] = manual[o]]
  /\ UNCHANGED <<rfq, procurement>>

ReservationSteps ==
  \/ \E r \in Reservation, q \in 1 .. MaxQuantity, p \in Project \cup {NoProject},
        o \in Source : CreateReservation(r, q, p, o)
  \/ \E r \in Reservation, q \in 1 .. MaxQuantity : ReleaseReservation(r, q)
  \/ \E r \in Reservation, q \in 1 .. MaxQuantity : ConsumeReservation(r, q)
  \/ \E o \in Order, l \in Location : FullArrival(o, l)

Requested == Project \cup {NoProject, Keep}

EditSteps ==
  \/ \E o \in Order, eta \in 0 .. MaxEta, p \in Requested : EditLine(o, eta, p)
  \/ \E o \in Order, c \in Order, q \in 1 .. MaxQuantity, eta \in 1 .. MaxEta,
        p \in Requested : PostponePart(o, c, q, eta, p)
  \/ \E o \in Order : DeleteLine(o)
  \/ \E s \in Order, t \in Order, eta \in 0 .. MaxEta : MergeLines(s, t, eta)

LinkSteps ==
  \/ \E n \in RfqLine, o \in Source : UpdateRfqLine(n, o)
  \/ \E n \in ProcurementLine, o \in Source : UpdateProcurementLine(n, o)

LineNext ==
  \/ ReservationSteps /\ UNCHANGED ownership
  \/ \E o \in Order, c \in Order, q \in 1 .. MaxQuantity, l \in Location :
        PartialArrivalOfLine(o, c, q, l)
  \/ EditSteps
  \/ LinkSteps

LineSpec == LineInit /\ [][LineNext]_lineVars

-----------------------------------------------------------------------------
(* Properties.  BackingMatchesQuantity and StockCoversAllocations of       *)
(* Reservations are checked here too, with the edits among the calls.      *)

Open == { o \in Order : orders[o].status = "Ordered" }

\* Types, and what the checks of the orders table ask of an open line: both
\* of its quantities are positive.
LineTypeOK ==
  /\ TypeOK
  /\ \A o \in Open : orders[o].amount > 0 /\ orders[o].ordered > 0
  /\ manual \in [Order -> BOOLEAN]
  /\ rfq \in [RfqLine -> Link]
  /\ procurement \in [ProcurementLine -> Link]

OnOrder == Total([o \in Open |-> orders[o].amount])

OrderedQuantity == Total([o \in Open |-> orders[o].ordered])

\* Postponing, merging and arriving in part lose and invent nothing that is
\* on order, in either unit; only a line deleted alone is lost, as a whole.
EditsConserveSupply ==
  [][ \/ OnOrder' + Total(onHand') = OnOrder + Total(onHand)
         /\ (onHand' = onHand => OrderedQuantity' = OrderedQuantity)
      \/ onHand' # onHand /\ orders' = orders
      \/ \E o \in Open : orders' = [orders EXCEPT ![o].status = "Deleted"] ]_lineVars

\* An order line has the project of the RFQ line ORDERED on it, or of a
\* procurement line ORDERED on it: no edit, split, merge, arrival or link of
\* another line gives it to a third project or to none.
OwnersKeepLine ==
  \A n \in RfqLine, o \in Order :
    rfq[n].ordered /\ rfq[n].order = o
      => orders[o].project \in {RfqProject[n]} \cup ProcurementOwners(procurement, o)

\* The same of procurement lines that have a project; a changed RFQ link forgets
\* them.
ProcurementOwnerKeepsLine ==
  \A n \in ProcurementLine : \A o \in Order :
    /\ procurement[n].ordered /\ procurement[n].order = o
    /\ SourceProject[n] # NoProject
    => orders[o].project = SourceProject[n]
=============================================================================
