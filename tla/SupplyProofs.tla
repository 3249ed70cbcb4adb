----------------------------- MODULE SupplyProofs -----------------------------
(***************************************************************************)
(* Theorems about what is on order and what is planned with it, for every  *)
(* set of lines, links, projects and dates.                                *)
(*                                                                         *)
(* Of OrderLines: what the calls of Reservations keep, the purchasing      *)
(* side's edits keep too, although they know nothing of reservations; an   *)
(* edit loses no supply; and an order line keeps the project of its RFQ    *)
(* line.  Of ProjectAllocation: a plan counts no unit of supply twice;     *)
(* each project sees what first come, first served leaves it; a line that  *)
(* is QUOTED makes no shortage larger; and a confirmation, of a stale plan *)
(* too, loses no supply and gives a project what the plan took for it.     *)
(***************************************************************************)
EXTENDS OrderLines, ProjectAllocation, ReservationsProofs

\* The calls that are not edits are the calls of Reservations.
LEMMA CallsAreReservationCalls ==
  /\ ReservationSteps => Next
  /\ \A o \in Order, c \in Order, q \in 1 .. MaxQuantity, l \in Location :
       PartialArrivalOfLine(o, c, q, l) => Next
BY DEF ReservationSteps, PartialArrivalOfLine, Next

-----------------------------------------------------------------------------
(* Owners.                                                                 *)

LEMMA OwnerAmongMember ==
  ASSUME NEW owners
  PROVE  /\ owners = {} => OwnerAmong(owners) = NoProject
         /\ owners # {} => OwnerAmong(owners) \in owners
BY DEF OwnerAmong

\* RFQ lines have projects, and so do the owners among procurement lines.
LEMMA OwnersType ==
  ASSUME NEW o
  PROVE  /\ \A links \in [RfqLine -> Link] : RfqOwners(links, o) \subseteq Project
         /\ \A links \in [ProcurementLine -> Link] : ProcurementOwners(links, o) \subseteq Project
BY LinesAssumption DEF RfqOwners, ProcurementOwners, On

LEMMA FirstOwnerType ==
  ASSUME NEW o, NEW rfqLinks \in [RfqLine -> Link], NEW links \in [ProcurementLine -> Link]
  PROVE  /\ OwnerAmong(RfqOwners(rfqLinks, o)) \in Project \cup {NoProject}
         /\ FirstOwner(ProcurementOwners(links, o), RfqOwners(rfqLinks, o))
              \in Project \cup {NoProject}
<1>1. RfqOwners(rfqLinks, o) \subseteq Project /\ ProcurementOwners(links, o) \subseteq Project
  BY OwnersType
<1>2. QED
  BY <1>1, OwnerAmongMember DEF FirstOwner

\* Giving lines another project changes nothing else of them.
LEMMA SetProjectsType ==
  ASSUME TypeOK, NEW touched, NEW owner \in [Order -> Project \cup {NoProject}],
         SetProjects(touched, owner)
  PROVE  /\ orders' \in [Order -> OrderLine]
         /\ \A o \in Order : /\ orders'[o].status = orders[o].status
                             /\ orders'[o].amount = orders[o].amount
                             /\ orders'[o].ordered = orders[o].ordered
                             /\ orders'[o].project = IF o \in touched THEN Synced(o, owner[o])
                                                     ELSE orders[o].project
<1>1. \A o \in Order : Synced(o, owner[o]) \in Project \cup {NoProject}
  BY DEF Synced, TypeOK, OrderLine
<1>2. ASSUME NEW o \in Order
      PROVE  /\ orders'[o] \in OrderLine
             /\ orders'[o].status = orders[o].status
             /\ orders'[o].amount = orders[o].amount
             /\ orders'[o].ordered = orders[o].ordered
             /\ orders'[o].project = IF o \in touched THEN Synced(o, owner[o])
                                     ELSE orders[o].project
  <2>1. orders[o] \in OrderLine
    BY DEF TypeOK
  <2>2. orders'[o] = IF o \in touched
                     THEN [orders[o] EXCEPT !.project = Synced(o, owner[o])]
                     ELSE orders[o]
    BY DEF SetProjects
  <2>3. QED
    BY <1>1, <2>1, <2>2 DEF OrderLine
<1>3. orders' = [o \in Order |-> orders'[o]]
  BY DEF SetProjects
<1>4. QED
  BY <1>2, <1>3, Zenon

-----------------------------------------------------------------------------
(* Typing, edit by edit.                                                   *)

Positive == \A o \in Order :
  orders[o].status = "Ordered" => orders[o].amount > 0 /\ orders[o].ordered > 0

LinksType == /\ manual \in [Order -> BOOLEAN]
             /\ rfq \in [RfqLine -> Link]
             /\ procurement \in [ProcurementLine -> Link]

LEMMA LineTypeParts == LineTypeOK <=> TypeOK /\ Positive /\ LinksType
BY DEF LineTypeOK, Positive, LinksType, Open

LEMMA LineTypePartsAfter == TypeOK' /\ Positive' /\ LinksType' => LineTypeOK'
BY DEF LineTypeOK, Positive, LinksType, Open

LEMMA LinkIsLink == \A o \in Source : [ordered |-> o # NoOrder, order |-> o] \in Link
BY DEF Link

LEMMA UpdateRfqLineType ==
  ASSUME LineTypeOK, NEW n \in RfqLine, NEW o \in Source, UpdateRfqLine(n, o)
  PROVE  LineTypeOK'
<1> DEFINE new     == [ordered |-> o # NoOrder, order |-> o]
           links   == [rfq EXCEPT ![n] = new]
           touched == Touched(rfq[n], new)
           owner   == [t \in Order |-> OwnerAmong(RfqOwners(links, t))]
<1>0. TypeOK /\ Positive /\ LinksType
  BY LineTypeParts
<1>1. links \in [RfqLine -> Link]
  BY <1>0, LinkIsLink DEF LinksType
<1>2. owner \in [Order -> Project \cup {NoProject}]
  <2> HIDE DEF links
  <2> QED BY <1>0, <1>1, FirstOwnerType DEF LinksType
<1>3. /\ rfq' = links /\ SetProjects(touched, owner)
      /\ UNCHANGED <<onHand, reservations, allocated, incoming, manual, procurement>>
  BY DEF UpdateRfqLine
<1>4. /\ orders' \in [Order -> OrderLine]
      /\ \A t \in Order : /\ orders'[t].status = orders[t].status
                          /\ orders'[t].amount = orders[t].amount
                          /\ orders'[t].ordered = orders[t].ordered
  <2> HIDE DEF touched, owner
  <2> QED BY <1>0, <1>2, <1>3, SetProjectsType
<1>5. TypeOK' /\ Positive'
  BY <1>0, <1>3, <1>4 DEF TypeOK, Positive
<1>6. LinksType'
  <2> HIDE DEF links
  <2> QED BY <1>0, <1>1, <1>3 DEF LinksType
<1>7. QED
  BY <1>5, <1>6, LineTypePartsAfter

LEMMA UpdateProcurementLineType ==
  ASSUME LineTypeOK, NEW n \in ProcurementLine, NEW o \in Source, UpdateProcurementLine(n, o)
  PROVE  LineTypeOK'
<1> DEFINE new     == [ordered |-> o # NoOrder, order |-> o]
           links   == [procurement EXCEPT ![n] = new]
           touched == Touched(procurement[n], new)
           owner   == [t \in Order |-> FirstOwner(ProcurementOwners(links, t), RfqOwners(rfq, t))]
<1>0. TypeOK /\ Positive /\ LinksType
  BY LineTypeParts
<1>1. links \in [ProcurementLine -> Link]
  BY <1>0, LinkIsLink DEF LinksType
<1>2. owner \in [Order -> Project \cup {NoProject}]
  <2> HIDE DEF links
  <2> QED BY <1>0, <1>1, FirstOwnerType DEF LinksType
<1>3. /\ procurement' = links /\ SetProjects(touched, owner)
      /\ UNCHANGED <<onHand, reservations, allocated, incoming, manual, rfq>>
  BY DEF UpdateProcurementLine
<1>4. /\ orders' \in [Order -> OrderLine]
      /\ \A t \in Order : /\ orders'[t].status = orders[t].status
                          /\ orders'[t].amount = orders[t].amount
                          /\ orders'[t].ordered = orders[t].ordered
  <2> HIDE DEF touched, owner
  <2> QED BY <1>0, <1>2, <1>3, SetProjectsType
<1>5. TypeOK' /\ Positive'
  BY <1>0, <1>3, <1>4 DEF TypeOK, Positive
<1>6. LinksType'
  <2> HIDE DEF links
  <2> QED BY <1>0, <1>1, <1>3 DEF LinksType
<1>7. QED
  BY <1>5, <1>6, LineTypePartsAfter

LEMMA ProjectSetType ==
  ASSUME LineTypeOK, NEW o \in Order, NEW p \in Requested
  PROVE  ProjectSet(o, p) \in Project \cup {NoProject} /\ ManualSet(o, p) \in BOOLEAN
BY DEF ProjectSet, ManualSet, Requested, LineTypeOK, TypeOK, OrderLine

LEMMA EditLineType ==
  ASSUME LineTypeOK, NEW o \in Order, NEW eta \in 0 .. MaxEta, NEW p \in Requested,
         EditLine(o, eta, p)
  PROVE  LineTypeOK'
<1>0. TypeOK /\ Positive /\ LinksType
  BY LineTypeParts
<1>1. ProjectSet(o, p) \in Project \cup {NoProject} /\ ManualSet(o, p) \in BOOLEAN
  BY ProjectSetType
<1>2. /\ orders' = [orders EXCEPT ![o].eta = eta, ![o].project = ProjectSet(o, p)]
      /\ manual' = [manual EXCEPT ![o] = ManualSet(o, p)]
      /\ UNCHANGED <<onHand, reservations, allocated, incoming, rfq, procurement>>
  BY DEF EditLine
<1>3. orders' \in [Order -> OrderLine]
  <2> DEFINE edited == [orders[o] EXCEPT !.eta = eta, !.project = ProjectSet(o, p)]
  <2>1. orders \in [Order -> OrderLine]
    BY <1>0 DEF TypeOK
  <2>2. edited \in OrderLine
    BY <1>1, <2>1 DEF OrderLine
  <2>3. orders' = [orders EXCEPT ![o] = edited]
    BY <1>2, <2>1
  <2> HIDE DEF edited
  <2> QED BY <2>1, <2>2, <2>3
<1>4. TypeOK' /\ Positive'
  BY <1>0, <1>2, <1>3 DEF TypeOK, Positive
<1>5. LinksType'
  BY <1>0, <1>1, <1>2 DEF LinksType
<1>6. QED
  BY <1>4, <1>5, LineTypePartsAfter

\* The parts of a postponed line: what is left of it, and the new line.
LEMMA PostponedParts ==
  ASSUME TypeOK, Positive, NEW o \in Order, NEW child \in Order, NEW part \in 1 .. MaxQuantity,
         NEW eta \in 1 .. MaxEta, NEW p \in Requested, PostponePart(o, child, part, eta, p)
  PROVE  /\ child # o /\ orders[o].status = "Ordered" /\ orders[child].status = "Unused"
         /\ orders'[o].status = "Ordered" /\ orders'[child].status = "Ordered"
         /\ orders'[o].amount = orders[o].amount - part
         /\ orders'[o].ordered = orders[o].ordered - OrderedShare(o, part)
         /\ orders'[child].amount = part
         /\ orders'[child].ordered = OrderedShare(o, part)
         /\ orders'[o].project = ProjectSet(o, p)
         /\ \A s \in Order : s # o /\ s # child => orders'[s] = orders[s]
         /\ orders' \in [Order -> OrderLine]
<1> DEFINE owned == UNION {Owners(o)[1], Owners(o)[2]} # {}
           left  == [Shortened(o, part) EXCEPT !.project = ProjectSet(o, p)]
           rest  == [LineOf(o, "Ordered", part, OrderedShare(o, part)) EXCEPT
                       !.eta = eta, !.project = IF owned THEN NoProject ELSE ProjectSet(o, p)]
<1>1. child # o /\ orders[o].status = "Ordered" /\ orders[child].status = "Unused"
  BY DEF PostponePart, NextUnused
<1>2. orders' = [orders EXCEPT ![o] = left, ![child] = rest]
  BY DEF PostponePart
<1>3. orders'[o] = left /\ orders'[child] = rest
      /\ \A s \in Order : s # o /\ s # child => orders'[s] = orders[s]
  <2> HIDE DEF left, rest
  <2> QED BY <1>1, <1>2 DEF TypeOK
<1>4. ProjectSet(o, p) \in Project \cup {NoProject}
  BY DEF ProjectSet, Requested, TypeOK, OrderLine
<1>5. /\ OrderedShare(o, part) \in Nat /\ orders[o].ordered - OrderedShare(o, part) \in Nat
      /\ part \in Nat /\ orders[o].amount - part \in Nat
  BY SplitType DEF PostponePart
<1>6. orders[o] \in OrderLine
  BY DEF TypeOK
<1>7. /\ left \in OrderLine /\ left.status = orders[o].status
      /\ left.amount = orders[o].amount - part
      /\ left.ordered = orders[o].ordered - OrderedShare(o, part)
      /\ left.project = ProjectSet(o, p)
  <2> DEFINE short == Shortened(o, part)
  <2>1. /\ short \in OrderLine /\ short.status = orders[o].status
        /\ short.amount = orders[o].amount - part
        /\ short.ordered = orders[o].ordered - OrderedShare(o, part)
    BY <1>5, <1>6 DEF Shortened, OrderLine
  <2> HIDE DEF short
  <2>2. left = [short EXCEPT !.project = ProjectSet(o, p)]
    BY DEF short
  <2> HIDE DEF left
  <2>3. QED
    BY <1>4, <2>1, <2>2 DEF OrderLine
<1>8. /\ rest \in OrderLine /\ rest.status = "Ordered"
      /\ rest.amount = part /\ rest.ordered = OrderedShare(o, part)
  <2> DEFINE whole   == LineOf(o, "Ordered", part, OrderedShare(o, part))
             project == IF owned THEN NoProject ELSE ProjectSet(o, p)
  <2>1. /\ whole \in OrderLine /\ whole.status = "Ordered"
        /\ whole.amount = part /\ whole.ordered = OrderedShare(o, part)
    BY <1>5, <1>6 DEF LineOf, OrderLine
  <2>2. project \in Project \cup {NoProject} /\ eta \in 0 .. MaxEta
    BY <1>4
  <2>3. rest = [whole EXCEPT !.eta = eta, !.project = project]
    OBVIOUS
  <2> HIDE DEF whole, project, rest
  <2>4. QED
    BY <2>1, <2>2, <2>3 DEF OrderLine
<1>10. orders' \in [Order -> OrderLine]
  <2> HIDE DEF left, rest
  <2> QED BY <1>2, <1>7, <1>8 DEF TypeOK
<1>11. QED
  <2> HIDE DEF left, rest
  <2> QED BY <1>1, <1>3, <1>7, <1>8, <1>10

LEMMA PostponePartType ==
  ASSUME LineTypeOK, NEW o \in Order, NEW child \in Order, NEW part \in 1 .. MaxQuantity,
         NEW eta \in 1 .. MaxEta, NEW p \in Requested, PostponePart(o, child, part, eta, p)
  PROVE  LineTypeOK'
<1>0. TypeOK /\ Positive /\ LinksType
  BY LineTypeParts
<1>1. /\ child # o /\ orders[o].status = "Ordered"
      /\ orders'[o].amount = orders[o].amount - part
      /\ orders'[o].ordered = orders[o].ordered - OrderedShare(o, part)
      /\ orders'[child].amount = part /\ orders'[child].ordered = OrderedShare(o, part)
      /\ \A s \in Order : s # o /\ s # child => orders'[s] = orders[s]
      /\ orders' \in [Order -> OrderLine]
  BY <1>0, PostponedParts
<1>2. UNCHANGED <<onHand, reservations, allocated, incoming, rfq, procurement>>
  BY DEF PostponePart
<1>3. TypeOK'
  BY <1>0, <1>1, <1>2 DEF TypeOK
<1>4. IntegerSafeSplit(o, part)
  BY DEF PostponePart
<1>5. Positive'
  <2> SUFFICES ASSUME NEW s \in Order, orders'[s].status = "Ordered"
               PROVE  orders'[s].amount > 0 /\ orders'[s].ordered > 0
    BY DEF Positive
  <2>1. /\ OrderedShare(o, part) > 0 /\ OrderedShare(o, part) < orders[o].ordered
        /\ part < orders[o].amount
    BY <1>4 DEF IntegerSafeSplit
  <2>2. /\ part \in Nat /\ part > 0 /\ OrderedShare(o, part) \in Nat
        /\ orders[o].amount \in Nat /\ orders[o].ordered \in Nat
    BY <1>0, <1>4, SplitType, ConstantsAssumption DEF TypeOK, OrderLine
  <2>3. CASE s = o
    BY <1>1, <2>1, <2>2, <2>3
  <2>4. CASE s = child
    BY <1>1, <2>1, <2>2, <2>4
  <2>5. CASE s # o /\ s # child
    BY <1>0, <1>1, <2>5 DEF Positive
  <2>6. QED
    BY <2>3, <2>4, <2>5
<1>6. LinksType'
  <2> DEFINE owned == UNION {Owners(o)[1], Owners(o)[2]} # {}
             kept  == ManualSet(o, p)
             given == ~owned /\ ManualSet(o, p)
  <2>1. manual' = [manual EXCEPT ![o] = kept, ![child] = given]
    BY DEF PostponePart
  <2>2. kept \in BOOLEAN /\ given \in BOOLEAN
    BY ProjectSetType
  <2> HIDE DEF kept, given
  <2>3. manual' \in [Order -> BOOLEAN]
    BY <1>0, <2>1, <2>2, Zenon DEF LinksType
  <2>4. QED
    BY <1>0, <1>2, <2>3 DEF LinksType
<1>7. QED
  BY <1>3, <1>5, <1>6, LineTypePartsAfter

\* A line that is gone leaves its links and its promises on no line; what a
\* reservation waits for in all is as before.
LEMMA GoneType ==
  ASSUME TypeOK, LinksType, NEW o \in Order, Gone(o)
  PROVE  /\ incoming' \in [Reservation -> [Source -> Nat]]
         /\ \A r \in Reservation : Total(incoming'[r]) = Total(incoming[r])
         /\ rfq' \in [RfqLine -> Link] /\ procurement' \in [ProcurementLine -> Link]
<1>1. o \in Source /\ NoOrder \in Source /\ o # NoOrder
  BY DEF Source, Order, NoOrder
<1>2. ASSUME NEW r \in Reservation
      PROVE  incoming'[r] \in [Source -> Nat] /\ Total(incoming'[r]) = Total(incoming[r])
  <2>1. incoming[r] \in [Source -> Nat]
    BY DEF TypeOK
  <2>2. incoming'[r] = [incoming[r] EXCEPT ![o] = 0, ![NoOrder] = @ + incoming[r][o]]
    BY DEF Gone, OrphanedFrom
  <2>3. /\ incoming'[r] \in [Source -> Nat]
        /\ \A s \in Source : s # o /\ s # NoOrder => incoming'[r][s] = incoming[r][s]
        /\ incoming'[r][o] + incoming'[r][NoOrder] = incoming[r][o] + incoming[r][NoOrder]
    BY <1>1, <2>1, <2>2
  <2>4. QED
    BY <1>1, <2>1, <2>3, Finite, TotalMoved
<1>3. incoming' = [r \in Reservation |-> incoming'[r]]
  BY DEF Gone, OrphanedFrom
<1>4. incoming' \in [Reservation -> [Source -> Nat]]
  BY <1>2, <1>3, Zenon
<1>5. ASSUME NEW link \in Link PROVE [link EXCEPT !.order = NoOrder] \in Link
  BY <1>1 DEF Link
<1>6. rfq' \in [RfqLine -> Link] /\ procurement' \in [ProcurementLine -> Link]
  BY <1>5 DEF Gone, Orphaned, LinksType
<1>7. QED
  BY <1>2, <1>4, <1>6

LEMMA DeleteLineType ==
  ASSUME LineTypeOK, NEW o \in Order, DeleteLine(o)
  PROVE  LineTypeOK'
<1>0. TypeOK /\ Positive /\ LinksType
  BY LineTypeParts
<1>1. /\ orders' = [orders EXCEPT ![o].status = "Deleted"] /\ Gone(o)
      /\ UNCHANGED <<onHand, reservations, allocated, manual>>
  BY DEF DeleteLine
<1>2. orders' \in [Order -> OrderLine] /\ Positive'
  BY <1>0, <1>1 DEF TypeOK, OrderLine, Positive
<1>3. /\ incoming' \in [Reservation -> [Source -> Nat]]
      /\ rfq' \in [RfqLine -> Link] /\ procurement' \in [ProcurementLine -> Link]
  BY <1>0, <1>1, GoneType
<1>4. TypeOK' /\ LinksType'
  BY <1>0, <1>1, <1>2, <1>3 DEF TypeOK, LinksType
<1>5. QED
  BY <1>2, <1>4, LineTypePartsAfter

\* The lines of a merge afterwards.
LEMMA MergedParts ==
  ASSUME TypeOK, NEW source \in Order, NEW target \in Order, NEW eta \in 0 .. MaxEta,
         MergeLines(source, target, eta)
  PROVE  /\ source # target
         /\ orders[source].status = "Ordered" /\ orders[target].status = "Ordered"
         /\ orders'[source].status = "Deleted" /\ orders'[target].status = "Ordered"
         /\ orders'[target].amount = orders[target].amount + orders[source].amount
         /\ orders'[target].ordered = orders[target].ordered + orders[source].ordered
         /\ orders'[target].project = orders[target].project
         /\ \A s \in Order : s # source /\ s # target => orders'[s] = orders[s]
         /\ orders' \in [Order -> OrderLine]
<1> DEFINE date == CASE eta # NoEta -> eta
                     [] eta = NoEta /\ orders[target].eta # NoEta -> orders[target].eta
                     [] OTHER -> orders[source].eta
           gone == [orders[source] EXCEPT !.status = "Deleted"]
           sum  == [orders[target] EXCEPT !.amount  = @ + orders[source].amount,
                                          !.ordered = @ + orders[source].ordered,
                                          !.eta     = date]
<1>1. source # target /\ orders[source].status = "Ordered" /\ orders[target].status = "Ordered"
  BY DEF MergeLines
<1>2. orders[source] \in OrderLine /\ orders[target] \in OrderLine
  BY DEF TypeOK
<1>3. date \in 0 .. MaxEta
  BY <1>2 DEF OrderLine
<1>4. /\ orders'[source] = gone /\ orders'[target] = sum
      /\ \A s \in Order : s # source /\ s # target => orders'[s] = orders[s]
      /\ DOMAIN orders' = Order /\ orders' = [s \in Order |-> orders'[s]]
  BY <1>1 DEF MergeLines, TypeOK
<1>5. /\ gone \in OrderLine /\ gone.status = "Deleted"
  BY <1>2 DEF OrderLine
<1>6. /\ sum \in OrderLine /\ sum.status = "Ordered"
      /\ sum.amount = orders[target].amount + orders[source].amount
      /\ sum.ordered = orders[target].ordered + orders[source].ordered
      /\ sum.project = orders[target].project
  <2> HIDE DEF date
  <2> DEFINE line  == orders[target]
             added == orders[source]
  <2>1. /\ line \in OrderLine /\ line.status = "Ordered"
        /\ line.amount + added.amount \in Nat /\ line.ordered + added.ordered \in Nat
    BY <1>1, <1>2 DEF OrderLine
  <2>2. sum = [line EXCEPT !.amount = line.amount + added.amount,
                           !.ordered = line.ordered + added.ordered, !.eta = date]
    BY <1>2 DEF OrderLine
  <2> HIDE DEF line, sum
  <2>3. /\ sum \in OrderLine /\ sum.status = line.status
        /\ sum.amount = line.amount + added.amount
        /\ sum.ordered = line.ordered + added.ordered
        /\ sum.project = line.project
    BY <1>3, <2>1, <2>2 DEF OrderLine
  <2>4. QED
    BY <2>1, <2>3 DEF line
<1> HIDE DEF gone, sum
<1>7. \A s \in Order : orders'[s] \in OrderLine
  BY <1>4, <1>5, <1>6 DEF TypeOK
<1>8. orders' \in [Order -> OrderLine]
  BY <1>4, <1>7, Zenon
<1>9. QED
  BY <1>1, <1>4, <1>5, <1>6, <1>8

LEMMA MergeLinesType ==
  ASSUME LineTypeOK, NEW source \in Order, NEW target \in Order, NEW eta \in 0 .. MaxEta,
         MergeLines(source, target, eta)
  PROVE  LineTypeOK'
<1>0. TypeOK /\ Positive /\ LinksType
  BY LineTypeParts
<1>1. Gone(source) /\ UNCHANGED <<onHand, reservations, allocated, manual>>
  BY DEF MergeLines
<1>2. /\ source # target
      /\ orders[source].status = "Ordered" /\ orders[target].status = "Ordered"
      /\ orders'[source].status = "Deleted"
      /\ orders'[target].amount = orders[target].amount + orders[source].amount
      /\ orders'[target].ordered = orders[target].ordered + orders[source].ordered
      /\ \A s \in Order : s # source /\ s # target => orders'[s] = orders[s]
      /\ orders' \in [Order -> OrderLine]
  BY <1>0, MergedParts
<1>3. Positive'
  <2>1. \A s \in Order : orders[s].amount \in Nat /\ orders[s].ordered \in Nat
    BY <1>0 DEF TypeOK, OrderLine
  <2>2. QED
    BY <1>0, <1>2, <2>1 DEF Positive
<1>4. /\ incoming' \in [Reservation -> [Source -> Nat]]
      /\ rfq' \in [RfqLine -> Link] /\ procurement' \in [ProcurementLine -> Link]
  BY <1>0, <1>1, GoneType
<1>5. TypeOK' /\ LinksType'
  BY <1>0, <1>1, <1>2, <1>4 DEF TypeOK, LinksType
<1>6. QED
  BY <1>3, <1>5, LineTypePartsAfter

\* Arrivals, too, leave lines of positive quantities open only.
LEMMA CallsKeepPositive ==
  ASSUME TypeOK, Positive, Next
  PROVE  Positive'
<1>1. ASSUME orders' = orders PROVE Positive'
  BY <1>1 DEF Positive
<1>2. ASSUME NEW o \in Order, NEW l \in Location, FullArrival(o, l) PROVE Positive'
  BY <1>2 DEF FullArrival, LineOf, Positive, TypeOK
<1>3. ASSUME NEW o \in Order, NEW c \in Order, NEW q \in 1 .. MaxQuantity, NEW l \in Location,
             PartialArrival(o, c, q, l)
      PROVE  Positive'
  <2>1. /\ IntegerSafeSplit(o, q) /\ c # o
        /\ orders' = [orders EXCEPT
             ![o] = LineOf(o, "Arrived", q, OrderedShare(o, q)),
             ![c] = LineOf(o, "Ordered", orders[o].amount - q,
                           orders[o].ordered - OrderedShare(o, q))]
    BY <1>3 DEF PartialArrival, NextUnused
  <2>2. /\ orders'[o].status = "Arrived"
        /\ orders'[c].amount = orders[o].amount - q
        /\ orders'[c].ordered = orders[o].ordered - OrderedShare(o, q)
        /\ \A s \in Order : s # o /\ s # c => orders'[s] = orders[s]
    BY <2>1 DEF LineOf, TypeOK
  <2>3. orders[o].amount - q > 0 /\ orders[o].ordered - OrderedShare(o, q) > 0
    <3>1. /\ q \in Nat /\ OrderedShare(o, q) \in Nat
          /\ orders[o].amount \in Nat /\ orders[o].ordered \in Nat
      BY <2>1, SplitType DEF TypeOK, OrderLine
    <3>2. QED
      BY <2>1, <3>1 DEF IntegerSafeSplit
  <2>4. QED
    BY <2>2, <2>3 DEF Positive
<1>4. QED
  BY <1>1, <1>2, <1>3 DEF Next, CreateReservation, ReleaseReservation, ConsumeReservation

LEMMA ReservationStepsType ==
  ASSUME LineTypeOK, ReservationSteps, UNCHANGED ownership
  PROVE  LineTypeOK'
<1>1. TypeOK /\ Positive /\ LinksType
  BY LineTypeParts
<1>2. Next
  BY CallsAreReservationCalls
<1>3. TypeOK' /\ Positive'
  BY <1>1, <1>2, TypeStep, CallsKeepPositive
<1>4. LinksType'
  BY <1>1 DEF LinksType, ownership
<1>5. QED
  BY <1>3, <1>4, LineTypePartsAfter

LEMMA PartialArrivalOfLineType ==
  ASSUME LineTypeOK, NEW o \in Order, NEW c \in Order, NEW q \in 1 .. MaxQuantity,
         NEW l \in Location, PartialArrivalOfLine(o, c, q, l)
  PROVE  LineTypeOK'
<1>1. TypeOK /\ Positive /\ LinksType
  BY LineTypeParts
<1>2. Next
  BY CallsAreReservationCalls
<1>3. TypeOK' /\ Positive'
  BY <1>1, <1>2, TypeStep, CallsKeepPositive
<1>4. LinksType'
  BY <1>1 DEF LinksType, PartialArrivalOfLine
<1>5. QED
  BY <1>3, <1>4, LineTypePartsAfter

LEMMA LineTypeStep == LineTypeOK /\ [LineNext]_lineVars => LineTypeOK'
<1> SUFFICES ASSUME LineTypeOK, [LineNext]_lineVars PROVE LineTypeOK'
  OBVIOUS
<1>1. CASE ReservationSteps /\ UNCHANGED ownership
  BY <1>1, ReservationStepsType
<1>2. CASE \E o \in Order, c \in Order, q \in 1 .. MaxQuantity, l \in Location :
             PartialArrivalOfLine(o, c, q, l)
  BY <1>2, PartialArrivalOfLineType
<1>3. CASE EditSteps
  <2>1. ASSUME NEW o \in Order, NEW eta \in 0 .. MaxEta, NEW p \in Requested,
               EditLine(o, eta, p)
        PROVE  LineTypeOK'
    BY <2>1, EditLineType
  <2>2. ASSUME NEW o \in Order, NEW c \in Order, NEW q \in 1 .. MaxQuantity,
               NEW eta \in 1 .. MaxEta, NEW p \in Requested, PostponePart(o, c, q, eta, p)
        PROVE  LineTypeOK'
    BY <2>2, PostponePartType
  <2>3. ASSUME NEW o \in Order, DeleteLine(o) PROVE LineTypeOK'
    BY <2>3, DeleteLineType
  <2>4. ASSUME NEW s \in Order, NEW t \in Order, NEW eta \in 0 .. MaxEta, MergeLines(s, t, eta)
        PROVE  LineTypeOK'
    BY <2>4, MergeLinesType
  <2>5. QED
    BY <1>3, <2>1, <2>2, <2>3, <2>4 DEF EditSteps
<1>4. CASE LinkSteps
  BY <1>4, UpdateRfqLineType, UpdateProcurementLineType DEF LinkSteps
<1>5. CASE UNCHANGED lineVars
  BY <1>5 DEF lineVars, vars, ownership, LineTypeOK, TypeOK, Open
<1>6. QED
  BY <1>1, <1>2, <1>3, <1>4, <1>5 DEF LineNext

\* Whatever is edited, split, merged, deleted and linked, every open line has
\* positive quantities, as the checks of the orders table demand: no call
\* fails on one of them halfway.
THEOREM LineTypeCorrect == LineSpec => []LineTypeOK
<1>1. LineInit => LineTypeOK
  <2> SUFFICES ASSUME LineInit PROVE TypeOK /\ Positive /\ LinksType
    BY LineTypeParts
  <2>1. TypeOK
    BY ConstantsAssumption DEF LineInit, Init, TypeOK, ReservationRow
  <2>2. Positive
    BY ConstantsAssumption DEF LineInit, Init, Positive
  <2>3. LinksType
    BY DEF LineInit, LinksType, Link, Unlinked, Source
  <2>4. QED
    BY <2>1, <2>2, <2>3
<1>2. QED
  BY <1>1, LineTypeStep, PTL DEF LineSpec

-----------------------------------------------------------------------------
(* Reservations among the edits.                                           *)

\* An edit of lines or links leaves stock, reservations and stock allocations
\* alone, and what each reservation waits for in all.
LEMMA EditsLeaveBacking ==
  ASSUME LineTypeOK, EditSteps \/ LinkSteps
  PROVE  /\ UNCHANGED <<onHand, reservations, allocated>>
         /\ \A r \in Reservation : Total(incoming'[r]) = Total(incoming[r])
<1>0. TypeOK /\ LinksType
  BY LineTypeParts
<1>1. ASSUME incoming' = incoming
      PROVE  \A r \in Reservation : Total(incoming'[r]) = Total(incoming[r])
  BY <1>1
<1>2. ASSUME NEW o \in Order, DeleteLine(o)
      PROVE  /\ UNCHANGED <<onHand, reservations, allocated>>
             /\ \A r \in Reservation : Total(incoming'[r]) = Total(incoming[r])
  BY <1>0, <1>2, GoneType DEF DeleteLine
<1>3. ASSUME NEW s \in Order, NEW t \in Order, NEW eta \in 0 .. MaxEta, MergeLines(s, t, eta)
      PROVE  /\ UNCHANGED <<onHand, reservations, allocated>>
             /\ \A r \in Reservation : Total(incoming'[r]) = Total(incoming[r])
  BY <1>0, <1>3, GoneType DEF MergeLines
<1>4. CASE LinkSteps
  BY <1>1, <1>4 DEF LinkSteps, UpdateRfqLine, UpdateProcurementLine
<1>5. ASSUME NEW o \in Order, NEW eta \in 0 .. MaxEta, NEW p \in Requested, EditLine(o, eta, p)
      PROVE  UNCHANGED <<onHand, reservations, allocated, incoming>>
  BY <1>5 DEF EditLine
<1>6. ASSUME NEW o \in Order, NEW c \in Order, NEW q \in 1 .. MaxQuantity,
             NEW eta \in 1 .. MaxEta, NEW p \in Requested, PostponePart(o, c, q, eta, p)
      PROVE  UNCHANGED <<onHand, reservations, allocated, incoming>>
  BY <1>6 DEF PostponePart
<1>7. CASE EditSteps
  BY <1>1, <1>2, <1>3, <1>5, <1>6, <1>7 DEF EditSteps
<1>8. QED
  BY <1>4, <1>7

\* A step is a call of Reservations, leaves its variables alone, or is an edit.
LEMMA LineStepKinds ==
  [LineNext]_lineVars => [Next]_vars \/ EditSteps \/ LinkSteps
BY CallsAreReservationCalls DEF LineNext, lineVars

LEMMA LineBackingStep ==
  LineTypeOK /\ BackingMatchesQuantity /\ [LineNext]_lineVars => BackingMatchesQuantity'
<1> SUFFICES ASSUME LineTypeOK, BackingMatchesQuantity, [LineNext]_lineVars
             PROVE  BackingMatchesQuantity'
  OBVIOUS
<1>1. CASE [Next]_vars
  BY <1>1, BackingStep, LineTypeParts
<1>2. CASE EditSteps \/ LinkSteps
  <2>1. /\ UNCHANGED <<onHand, reservations, allocated>>
        /\ \A r \in Reservation : Total(incoming'[r]) = Total(incoming[r])
    BY <1>2, EditsLeaveBacking
  <2>2. QED
    BY <2>1 DEF BackingMatchesQuantity
<1>3. QED
  BY <1>1, <1>2, LineStepKinds

\* The quantity of an ACTIVE reservation is what its allocations add up to,
\* also when the line it waits for was postponed, merged away or deleted.
THEOREM LineBackingCorrect == LineSpec => []BackingMatchesQuantity
<1>1. LineInit => BackingMatchesQuantity
  BY BackingInit DEF LineInit
<1>2. QED
  BY <1>1, LineBackingStep, LineTypeCorrect, PTL DEF LineSpec

LEMMA LineStockStep ==
  LineTypeOK /\ BackingMatchesQuantity /\ StockCoversAllocations /\ [LineNext]_lineVars
    => StockCoversAllocations'
<1> SUFFICES ASSUME LineTypeOK, BackingMatchesQuantity, StockCoversAllocations,
                    [LineNext]_lineVars
             PROVE  StockCoversAllocations'
  OBVIOUS
<1>1. CASE [Next]_vars
  BY <1>1, StockStep, LineTypeParts
<1>2. CASE EditSteps \/ LinkSteps
  <2>1. UNCHANGED <<onHand, reservations, allocated>>
    BY <1>2, EditsLeaveBacking
  <2>2. QED
    BY <2>1 DEF StockCoversAllocations, AllocatedAt
<1>3. QED
  BY <1>1, <1>2, LineStepKinds

\* No edit of an order line makes reservations promise more stock than there
\* is: what arrives on postponed and merged lines converts at most itself.
THEOREM LineStockCorrect == LineSpec => []StockCoversAllocations
<1>1. LineInit => StockCoversAllocations
  BY StockInit DEF LineInit
<1>2. QED
  BY <1>1, LineStockStep, LineTypeCorrect, LineBackingCorrect, PTL DEF LineSpec

-----------------------------------------------------------------------------
(* What is on order.                                                       *)

OpenOrdered == [o \in Order |-> IF orders[o].status = "Ordered" THEN orders[o].ordered ELSE 0]

OpenLinesType == /\ OpenAmounts \in [Order -> Nat] /\ OpenOrdered \in [Order -> Nat]
                 /\ OnOrder = Total(OpenAmounts) /\ OrderedQuantity = Total(OpenOrdered)

\* The totals of the open lines are totals over all lines, the others as 0.
LEMMA OpenTotals == TypeOK => OpenLinesType
<1> SUFFICES ASSUME TypeOK PROVE OpenLinesType
  OBVIOUS
<1>1. OpenAmounts \in [Order -> Nat] /\ OpenOrdered \in [Order -> Nat]
  BY DEF TypeOK, OrderLine, OpenAmounts, OpenOrdered
<1>2. /\ Open \subseteq Order
      /\ \A o \in Order \ Open : OpenAmounts[o] = 0 /\ OpenOrdered[o] = 0
  BY DEF Open, OpenAmounts, OpenOrdered
<1>3. /\ [o \in Open |-> orders[o].amount] = [o \in Open |-> OpenAmounts[o]]
      /\ [o \in Open |-> orders[o].ordered] = [o \in Open |-> OpenOrdered[o]]
  BY DEF Open, OpenAmounts, OpenOrdered
<1>4. Total([o \in Open |-> OpenAmounts[o]]) = Total(OpenAmounts)
  BY <1>1, <1>2, TotalRestricted
<1>5. Total([o \in Open |-> OpenOrdered[o]]) = Total(OpenOrdered)
  BY <1>1, <1>2, TotalRestricted
<1>6. QED
  BY <1>1, <1>3, <1>4, <1>5 DEF OpenLinesType, OnOrder, OrderedQuantity

LEMMA OpenTotalsAfter ==
  TypeOK' => /\ OpenAmounts' \in [Order -> Nat] /\ OpenOrdered' \in [Order -> Nat]
             /\ OnOrder' = Total(OpenAmounts') /\ OrderedQuantity' = Total(OpenOrdered')
<1>1. (TypeOK => OpenLinesType)'
  BY OpenTotals, PTL
<1>2. QED
  BY <1>1 DEF OpenLinesType

\* Where one line takes what another gives, the totals stay.
LEMMA MovedOnOrder ==
  ASSUME TypeOK, TypeOK', NEW a \in Order, NEW b \in Order, a # b,
         \A o \in Order : o # a /\ o # b => orders'[o] = orders[o],
         OpenAmounts'[a] + OpenAmounts'[b] = OpenAmounts[a] + OpenAmounts[b],
         OpenOrdered'[a] + OpenOrdered'[b] = OpenOrdered[a] + OpenOrdered[b]
  PROVE  OnOrder' = OnOrder /\ OrderedQuantity' = OrderedQuantity
<1>1. /\ OpenAmounts \in [Order -> Nat] /\ OpenOrdered \in [Order -> Nat]
      /\ OnOrder = Total(OpenAmounts) /\ OrderedQuantity = Total(OpenOrdered)
  BY OpenTotals DEF OpenLinesType
<1>2. /\ OpenAmounts' \in [Order -> Nat] /\ OpenOrdered' \in [Order -> Nat]
      /\ OnOrder' = Total(OpenAmounts') /\ OrderedQuantity' = Total(OpenOrdered')
  BY OpenTotalsAfter
<1>3. \A o \in Order : o # a /\ o # b => /\ OpenAmounts'[o] = OpenAmounts[o]
                                         /\ OpenOrdered'[o] = OpenOrdered[o]
  BY DEF OpenAmounts, OpenOrdered
<1>4. Total(OpenAmounts') = Total(OpenAmounts)
  BY <1>1, <1>2, <1>3, Finite, TotalMoved
<1>5. Total(OpenOrdered') = Total(OpenOrdered)
  BY <1>1, <1>2, <1>3, Finite, TotalMoved
<1>6. QED
  BY <1>1, <1>2, <1>4, <1>5

LEMMA PostponeConserves ==
  ASSUME LineTypeOK, NEW o \in Order, NEW child \in Order, NEW part \in 1 .. MaxQuantity,
         NEW eta \in 1 .. MaxEta, NEW p \in Requested, PostponePart(o, child, part, eta, p)
  PROVE  OnOrder' = OnOrder /\ OrderedQuantity' = OrderedQuantity
<1>0. TypeOK /\ Positive /\ TypeOK'
  BY LineTypeParts, PostponePartType DEF LineTypeOK
<1>1. /\ child # o /\ orders[o].status = "Ordered" /\ orders[child].status = "Unused"
      /\ orders'[o].status = "Ordered" /\ orders'[child].status = "Ordered"
      /\ orders'[o].amount = orders[o].amount - part
      /\ orders'[o].ordered = orders[o].ordered - OrderedShare(o, part)
      /\ orders'[child].amount = part
      /\ orders'[child].ordered = OrderedShare(o, part)
      /\ \A s \in Order : s # o /\ s # child => orders'[s] = orders[s]
  BY <1>0, PostponedParts
<1>2. /\ part \in Nat /\ OrderedShare(o, part) \in Nat
      /\ orders[o].amount \in Nat /\ orders[o].ordered \in Nat
  BY <1>0, SplitType DEF PostponePart, TypeOK, OrderLine
<1>3. /\ OpenAmounts'[o] + OpenAmounts'[child] = OpenAmounts[o] + OpenAmounts[child]
      /\ OpenOrdered'[o] + OpenOrdered'[child] = OpenOrdered[o] + OpenOrdered[child]
  BY <1>1, <1>2 DEF OpenAmounts, OpenOrdered
<1>4. QED
  BY <1>0, <1>1, <1>3, MovedOnOrder

LEMMA MergeConserves ==
  ASSUME LineTypeOK, NEW source \in Order, NEW target \in Order, NEW eta \in 0 .. MaxEta,
         MergeLines(source, target, eta)
  PROVE  OnOrder' = OnOrder /\ OrderedQuantity' = OrderedQuantity
<1>0. TypeOK /\ TypeOK'
  BY LineTypeParts, MergeLinesType DEF LineTypeOK
<1>1. /\ source # target
      /\ orders[source].status = "Ordered" /\ orders[target].status = "Ordered"
      /\ orders'[source].status = "Deleted" /\ orders'[target].status = "Ordered"
      /\ orders'[target].amount = orders[target].amount + orders[source].amount
      /\ orders'[target].ordered = orders[target].ordered + orders[source].ordered
      /\ \A s \in Order : s # source /\ s # target => orders'[s] = orders[s]
  BY <1>0, MergedParts
<1>2. \A s \in Order : orders[s].amount \in Nat /\ orders[s].ordered \in Nat
  BY <1>0 DEF TypeOK, OrderLine
<1>3. /\ OpenAmounts'[source] + OpenAmounts'[target] = OpenAmounts[source] + OpenAmounts[target]
      /\ OpenOrdered'[source] + OpenOrdered'[target] = OpenOrdered[source] + OpenOrdered[target]
  BY <1>1, <1>2 DEF OpenAmounts, OpenOrdered
<1>4. QED
  BY <1>0, <1>1, <1>3, MovedOnOrder

\* A line whose status and quantities stay is on order as before.
LEMMA SameOnOrder ==
  ASSUME TypeOK, TypeOK',
         \A o \in Order : /\ orders'[o].status = orders[o].status
                          /\ orders'[o].amount = orders[o].amount
                          /\ orders'[o].ordered = orders[o].ordered
  PROVE  OnOrder' = OnOrder /\ OrderedQuantity' = OrderedQuantity
<1>1. OpenAmounts' = OpenAmounts /\ OpenOrdered' = OpenOrdered
  BY DEF OpenAmounts, OpenOrdered
<1>2. QED
  BY <1>1, OpenTotals, OpenTotalsAfter DEF OpenLinesType

LEMMA LinksConserve ==
  ASSUME LineTypeOK, LinkSteps
  PROVE  OnOrder' = OnOrder /\ OrderedQuantity' = OrderedQuantity
<1>0. TypeOK /\ TypeOK' /\ LinksType
  BY LineTypeParts, UpdateRfqLineType, UpdateProcurementLineType DEF LineTypeOK, LinkSteps
<1>1. ASSUME NEW n \in RfqLine, NEW o \in Source, UpdateRfqLine(n, o)
      PROVE  \A t \in Order : /\ orders'[t].status = orders[t].status
                              /\ orders'[t].amount = orders[t].amount
                              /\ orders'[t].ordered = orders[t].ordered
  <2> SUFFICES ASSUME NEW t \in Order
               PROVE  /\ orders'[t].status = orders[t].status
                      /\ orders'[t].amount = orders[t].amount
                      /\ orders'[t].ordered = orders[t].ordered
    OBVIOUS
  <2>1. orders[t] \in OrderLine
    BY <1>0 DEF TypeOK
  <2>2. PICK project : orders'[t] = [orders[t] EXCEPT !.project = project] \/ orders'[t] = orders[t]
    BY <1>1 DEF UpdateRfqLine, SetProjects
  <2>3. QED
    BY <2>1, <2>2 DEF OrderLine
<1>2. ASSUME NEW n \in ProcurementLine, NEW o \in Source, UpdateProcurementLine(n, o)
      PROVE  \A t \in Order : /\ orders'[t].status = orders[t].status
                              /\ orders'[t].amount = orders[t].amount
                              /\ orders'[t].ordered = orders[t].ordered
  <2> SUFFICES ASSUME NEW t \in Order
               PROVE  /\ orders'[t].status = orders[t].status
                      /\ orders'[t].amount = orders[t].amount
                      /\ orders'[t].ordered = orders[t].ordered
    OBVIOUS
  <2>1. orders[t] \in OrderLine
    BY <1>0 DEF TypeOK
  <2>2. PICK project : orders'[t] = [orders[t] EXCEPT !.project = project] \/ orders'[t] = orders[t]
    BY <1>2 DEF UpdateProcurementLine, SetProjects
  <2>3. QED
    BY <2>1, <2>2 DEF OrderLine
<1>3. QED
  BY <1>0, <1>1, <1>2, SameOnOrder DEF LinkSteps

LEMMA EditLineConserves ==
  ASSUME LineTypeOK, NEW o \in Order, NEW eta \in 0 .. MaxEta, NEW p \in Requested,
         EditLine(o, eta, p)
  PROVE  OnOrder' = OnOrder /\ OrderedQuantity' = OrderedQuantity
<1>0. TypeOK /\ TypeOK'
  BY LineTypeParts, EditLineType DEF LineTypeOK
<1>1. \A t \in Order : /\ orders'[t].status = orders[t].status
                       /\ orders'[t].amount = orders[t].amount
                       /\ orders'[t].ordered = orders[t].ordered
  BY <1>0 DEF EditLine, TypeOK, OrderLine
<1>2. QED
  BY <1>0, <1>1, SameOnOrder

\* Supply in Reservations is stock and what is on order together.
LEMMA SupplyIsStockAndOrders ==
  ASSUME TypeOK, TypeOK'
  PROVE  /\ Supply = Total(onHand) + OnOrder /\ Supply' = Total(onHand') + OnOrder'
         /\ Total(onHand) \in Nat /\ OnOrder \in Nat
         /\ Total(onHand') \in Nat /\ OnOrder' \in Nat
<1>1. onHand \in [Location -> Nat] /\ onHand' \in [Location -> Nat]
  BY DEF TypeOK
<1>2. Total(onHand) \in Nat /\ Total(onHand') \in Nat
  BY <1>1, Finite, TotalType
<1>3. OnOrder = Total(OpenAmounts) /\ OnOrder' = Total(OpenAmounts')
  BY OpenTotals, OpenTotalsAfter DEF OpenLinesType
<1>4. OnOrder \in Nat /\ OnOrder' \in Nat
  BY <1>3, OpenTotals, OpenTotalsAfter, Finite, TotalType DEF OpenLinesType
<1>5. Supply = Total(onHand) + OnOrder /\ Supply' = Total(onHand') + OnOrder'
  BY <1>3 DEF Supply, OpenAmounts
<1>6. QED
  BY <1>2, <1>4, <1>5

Conserved ==
  \/ OnOrder' + Total(onHand') = OnOrder + Total(onHand)
     /\ (onHand' = onHand => OrderedQuantity' = OrderedQuantity)
  \/ onHand' # onHand /\ orders' = orders
  \/ \E o \in Open : orders' = [orders EXCEPT ![o].status = "Deleted"]

\* Calls: a consumption takes stock only, an arrival turns what it takes from
\* the line into stock.
LEMMA CallsConserve ==
  ASSUME LineTypeOK, Next
  PROVE  Conserved
<1>0. TypeOK /\ TypeOK' /\ Positive
  BY LineTypeParts, TypeStep
<1>1. ASSUME UNCHANGED <<onHand, orders>> PROVE Conserved
  BY <1>1 DEF Conserved, OnOrder, OrderedQuantity, Open
<1>2. ASSUME NEW r \in Reservation, NEW q \in 1 .. MaxQuantity, ConsumeReservation(r, q)
      PROVE  Conserved
  <2>1. Supply' < Supply /\ orders' = orders
    BY <1>0, <1>2, ConsumeSupply DEF ConsumeReservation
  <2>2. onHand' # onHand
    <3>1. SUFFICES ASSUME onHand' = onHand PROVE FALSE
      OBVIOUS
    <3>2. Supply' = Supply
      BY <2>1, <3>1 DEF Supply
    <3>3. Supply \in Nat
      BY <1>0, SupplyIsStockAndOrders
    <3>4. QED
      BY <2>1, <3>2, <3>3
  <2>3. QED
    BY <2>1, <2>2 DEF Conserved
<1>3. ASSUME Supply' = Supply, onHand' # onHand PROVE Conserved
  <2>1. OnOrder' + Total(onHand') = OnOrder + Total(onHand)
    BY <1>0, <1>3, SupplyIsStockAndOrders
  <2>2. QED
    BY <1>3, <2>1 DEF Conserved
<1>4. ASSUME NEW o \in Order, NEW l \in Location, FullArrival(o, l)
      PROVE  Conserved
  <2>1. Supply' = Supply
    BY <1>0, <1>4, FullArrivalSupply
  <2>2. onHand'[l] = onHand[l] + orders[o].amount /\ onHand[l] \in Nat
        /\ orders[o].amount \in Nat /\ orders[o].amount > 0
    BY <1>0, <1>4 DEF FullArrival, TypeOK, OrderLine
  <2>3. QED
    BY <1>3, <2>1, <2>2
<1>5. ASSUME NEW o \in Order, NEW c \in Order, NEW q \in 1 .. MaxQuantity, NEW l \in Location,
             PartialArrival(o, c, q, l)
      PROVE  Conserved
  <2>1. Supply' = Supply
    BY <1>0, <1>5, PartialArrivalSupply
  <2>2. onHand'[l] = onHand[l] + q /\ onHand[l] \in Nat /\ q \in Nat /\ q > 0
    BY <1>0, <1>5, ConstantsAssumption DEF PartialArrival, TypeOK
  <2>3. QED
    BY <1>3, <2>1, <2>2
<1>6. QED
  BY <1>1, <1>2, <1>4, <1>5 DEF Next, CreateReservation, ReleaseReservation

\* No edit, link or arrival loses or invents what is on order; only a deletion
\* drops a line, and then the whole of it.
THEOREM SupplyConserved == LineSpec => EditsConserveSupply
<1>1. LineTypeOK /\ [LineNext]_lineVars => [Conserved]_lineVars
  <2> SUFFICES ASSUME LineTypeOK, LineNext PROVE Conserved
    OBVIOUS
  <2>1. ASSUME OnOrder' = OnOrder, OrderedQuantity' = OrderedQuantity, onHand' = onHand
        PROVE  Conserved
    BY <2>1 DEF Conserved
  <2>2. CASE EditSteps
    <3>0. onHand' = onHand
      BY <2>2, EditsLeaveBacking
    <3>1. ASSUME NEW o \in Order, NEW eta \in 0 .. MaxEta, NEW p \in Requested,
                 EditLine(o, eta, p)
          PROVE  Conserved
      BY <2>1, <3>0, <3>1, EditLineConserves
    <3>2. ASSUME NEW o \in Order, NEW c \in Order, NEW q \in 1 .. MaxQuantity,
                 NEW eta \in 1 .. MaxEta, NEW p \in Requested, PostponePart(o, c, q, eta, p)
          PROVE  Conserved
      BY <2>1, <3>0, <3>2, PostponeConserves
    <3>3. ASSUME NEW o \in Order, DeleteLine(o) PROVE Conserved
      BY <3>3 DEF Conserved, DeleteLine, Open
    <3>4. ASSUME NEW s \in Order, NEW t \in Order, NEW eta \in 0 .. MaxEta,
                 MergeLines(s, t, eta)
          PROVE  Conserved
      BY <2>1, <3>0, <3>4, MergeConserves
    <3>5. QED
      BY <2>2, <3>1, <3>2, <3>3, <3>4 DEF EditSteps
  <2>3. CASE LinkSteps
    BY <2>1, <2>3, LinksConserve, EditsLeaveBacking
  <2>4. CASE Next
    BY <2>4, CallsConserve
  <2>5. QED
    BY <2>2, <2>3, <2>4, CallsAreReservationCalls DEF LineNext
<1>2. QED
  BY <1>1, LineTypeCorrect, PTL DEF LineSpec, EditsConserveSupply, Conserved

-----------------------------------------------------------------------------
(* Ownership.                                                              *)

\* An RFQ line is linked to a line that was ordered and not deleted.
LinksExist == \A n \in RfqLine : rfq[n].order # NoOrder => Exists(rfq[n].order)

Ownership == LinksExist /\ OwnersKeepLine

LEMMA RfqOwnersOf ==
  ASSUME NEW links \in [RfqLine -> Link], NEW o, NEW n \in RfqLine,
         links[n].ordered, links[n].order = o, AtMostOne(RfqOwners(links, o))
  PROVE  RfqOwners(links, o) = {RfqProject[n]}
<1> DEFINE owners == RfqOwners(links, o)
<1>1. RfqProject[n] \in owners
  BY DEF RfqOwners, On
<1>2. IsFiniteSet(owners)
  <2> DEFINE on == On(links, o)
             name == [m \in on |-> RfqProject[m]]
  <2>1. on \subseteq RfqLine
    BY DEF On
  <2>2. IsFiniteSet(on)
    <3> HIDE DEF on
    <3> QED BY <2>1, LinesAssumption, FS_Subset
  <2>3. name \in Surjection(on, owners)
    BY DEF Surjection, RfqOwners
  <2>4. QED
    <3> HIDE DEF on, name, owners
    <3> QED BY <2>2, <2>3, FS_Surjection
<1>3. Cardinality({RfqProject[n]}) = 1 /\ {RfqProject[n]} \subseteq owners
  BY <1>1, FS_Singleton
<1>4. Cardinality(owners) <= 1 /\ Cardinality(owners) \in Nat
  <2> HIDE DEF owners
  <2>1. Cardinality(owners) \in Nat
    BY <1>2, FS_CardinalityType
  <2>2. QED
    BY <2>1 DEF AtMostOne, owners
<1>5. QED
  <2> HIDE DEF owners
  <2>1. Cardinality({RfqProject[n]}) <= Cardinality(owners)
    BY <1>2, <1>3, FS_Subset
  <2>2. Cardinality({RfqProject[n]}) = Cardinality(owners)
    BY <1>3, <1>4, <2>1
  <2>3. {RfqProject[n]} = owners
    BY <1>2, <1>3, <2>2, FS_Subset
  <2>4. QED
    BY <2>3 DEF owners

\* Steps that leave the links and the projects of the lines there are.
LEMMA SameOwnership ==
  ASSUME LineTypeOK, Ownership, UNCHANGED <<rfq, procurement>>,
         \A o \in Order : Exists(o) => Exists(o)' /\ orders'[o].project = orders[o].project
  PROVE  Ownership'
<1>1. rfq \in [RfqLine -> Link]
  BY DEF LineTypeOK
<1>2. ASSUME NEW n \in RfqLine, rfq[n].order # NoOrder
      PROVE  rfq[n].order \in Order /\ Exists(rfq[n].order)
  BY <1>1, <1>2 DEF Link, Source, Ownership, LinksExist
<1>3. LinksExist'
  BY <1>2 DEF LinksExist
<1>4. OwnersKeepLine'
  <2> SUFFICES ASSUME NEW n \in RfqLine, NEW o \in Order, rfq[n].ordered, rfq[n].order = o
               PROVE  orders'[o].project \in {RfqProject[n]} \cup ProcurementOwners(procurement, o)
    BY DEF OwnersKeepLine
  <2>1. o # NoOrder
    BY DEF Order, NoOrder
  <2>2. orders'[o].project = orders[o].project
    BY <1>2, <2>1
  <2>3. QED
    BY <2>2 DEF Ownership, OwnersKeepLine
<1>5. QED
  BY <1>3, <1>4 DEF Ownership

LEMMA CallsKeepProjects ==
  ASSUME TypeOK, Next, NEW s \in Order, Exists(s)
  PROVE  Exists(s)' /\ orders'[s].project = orders[s].project
<1>1. ASSUME orders' = orders
      PROVE  Exists(s)' /\ orders'[s].project = orders[s].project
  BY <1>1 DEF Exists
<1>2. ASSUME NEW o \in Order, NEW l \in Location, FullArrival(o, l)
      PROVE  Exists(s)' /\ orders'[s].project = orders[s].project
  BY <1>2 DEF FullArrival, LineOf, Exists, TypeOK
<1>3. ASSUME NEW o \in Order, NEW c \in Order, NEW q \in 1 .. MaxQuantity, NEW l \in Location,
             PartialArrival(o, c, q, l)
      PROVE  Exists(s)' /\ orders'[s].project = orders[s].project
  BY <1>3 DEF PartialArrival, NextUnused, LineOf, Exists, TypeOK
<1>4. QED
  BY <1>1, <1>2, <1>3 DEF Next, CreateReservation, ReleaseReservation, ConsumeReservation

\* The project a request may give a line is that of its first owner.
LEMMA MaySetOwned ==
  ASSUME LineTypeOK, OwnersKeepLine, NEW n \in RfqLine, NEW o \in Order, NEW p \in Requested,
         rfq[n].ordered, rfq[n].order = o, MaySetProject(o, p)
  PROVE  ProjectSet(o, p) \in {RfqProject[n]} \cup ProcurementOwners(procurement, o)
<1>1. CASE p = Keep
  BY <1>1 DEF ProjectSet, OwnersKeepLine
<1>2. CASE p # Keep
  <2> DEFINE first == FirstOwner(ProcurementOwners(procurement, o), RfqOwners(rfq, o))
  <2>1. AtMostOne(RfqOwners(rfq, o)) /\ first \in {NoProject, p}
    BY <1>2 DEF MaySetProject, Owners
  <2>2. RfqOwners(rfq, o) = {RfqProject[n]}
    BY <2>1, RfqOwnersOf DEF LineTypeOK
  <2>3. first \in {RfqProject[n]} \cup ProcurementOwners(procurement, o)
    BY <2>2, OwnerAmongMember DEF FirstOwner
  <2>4. first # NoProject
    <3>1. ProcurementOwners(procurement, o) \subseteq Project /\ RfqProject[n] \in Project
      BY OwnersType, LinesAssumption DEF LineTypeOK
    <3>2. QED
      <4> HIDE DEF first
      <4> QED BY <2>3, <3>1, ConstantsAssumption
  <2>5. QED
    BY <1>2, <2>1, <2>3, <2>4 DEF ProjectSet
<1>3. QED
  BY <1>1, <1>2

LEMMA EditLineOwnership ==
  ASSUME LineTypeOK, Ownership, NEW o \in Order, NEW eta \in 0 .. MaxEta, NEW p \in Requested,
         EditLine(o, eta, p)
  PROVE  Ownership'
<1>1. /\ MaySetProject(o, p) /\ UNCHANGED <<rfq, procurement>>
      /\ orders' = [orders EXCEPT ![o].eta = eta, ![o].project = ProjectSet(o, p)]
  BY DEF EditLine
<1>2. orders \in [Order -> OrderLine]
  BY DEF LineTypeOK, TypeOK
<1>3. \A s \in Order : /\ orders'[s].status = orders[s].status
                       /\ orders'[s].project = IF s = o THEN ProjectSet(o, p) ELSE orders[s].project
  BY <1>1, <1>2 DEF OrderLine
<1>4. LinksExist'
  <2>1. \A n \in RfqLine : rfq[n].order \in Order \cup {NoOrder}
    BY DEF LineTypeOK, Link, Source
  <2>2. QED
    <3>1. \A s \in Order : orders'[s].status = orders[s].status
      BY <1>3
    <3> QED BY <1>1, <2>1, <3>1 DEF Ownership, LinksExist, Exists
<1>5. OwnersKeepLine'
  <2> SUFFICES ASSUME NEW n \in RfqLine, NEW s \in Order, rfq[n].ordered, rfq[n].order = s
               PROVE  orders'[s].project \in {RfqProject[n]} \cup ProcurementOwners(procurement, s)
    BY <1>1 DEF OwnersKeepLine
  <2>1. CASE s = o
    <3>1. ProjectSet(o, p) \in {RfqProject[n]} \cup ProcurementOwners(procurement, o)
      BY <1>1, <2>1, MaySetOwned DEF Ownership
    <3>2. QED
      BY <1>3, <2>1, <3>1
  <2>2. CASE s # o
    BY <1>3, <2>2 DEF Ownership, OwnersKeepLine
  <2>3. QED
    BY <2>1, <2>2
<1>6. QED
  BY <1>4, <1>5 DEF Ownership

LEMMA PostponePartOwnership ==
  ASSUME LineTypeOK, Ownership, NEW o \in Order, NEW child \in Order,
         NEW part \in 1 .. MaxQuantity, NEW eta \in 1 .. MaxEta, NEW p \in Requested,
         PostponePart(o, child, part, eta, p)
  PROVE  Ownership'
<1>0. TypeOK /\ Positive
  BY LineTypeParts
<1>1. MaySetProject(o, p) /\ UNCHANGED <<rfq, procurement>>
  BY DEF PostponePart
<1>2. /\ child # o /\ orders[child].status = "Unused"
      /\ orders'[o].status = "Ordered" /\ orders'[child].status = "Ordered"
      /\ orders'[o].project = ProjectSet(o, p)
      /\ \A s \in Order : s # o /\ s # child => orders'[s] = orders[s]
  BY <1>0, PostponedParts
<1>3. \A n \in RfqLine : rfq[n].order \in Order \cup {NoOrder} /\ rfq[n].order # child
  <2>1. \A n \in RfqLine : rfq[n].order \in Order \cup {NoOrder}
    BY DEF LineTypeOK, Link, Source
  <2>2. child # NoOrder
    BY DEF Order, NoOrder
  <2>3. QED
    BY <1>2, <2>1, <2>2 DEF Ownership, LinksExist, Exists
<1>4. LinksExist'
  BY <1>1, <1>2, <1>3 DEF Ownership, LinksExist, Exists
<1>5. OwnersKeepLine'
  <2> SUFFICES ASSUME NEW n \in RfqLine, NEW s \in Order, rfq[n].ordered, rfq[n].order = s
               PROVE  orders'[s].project \in {RfqProject[n]} \cup ProcurementOwners(procurement, s)
    BY <1>1 DEF OwnersKeepLine
  <2>1. CASE s = o
    BY <1>1, <1>2, <2>1, MaySetOwned DEF Ownership
  <2>2. CASE s # o
    BY <1>2, <1>3, <2>2 DEF Ownership, OwnersKeepLine
  <2>3. QED
    BY <2>1, <2>2
<1>6. QED
  BY <1>4, <1>5 DEF Ownership

\* The links of a line that is gone are on no line; the others keep theirs.
LEMMA GoneOwnership ==
  ASSUME LineTypeOK, Ownership, NEW o \in Order, Gone(o),
         \A s \in Order : s # o /\ Exists(s)
           => Exists(s)' /\ orders'[s].project = orders[s].project
  PROVE  Ownership'
<1>0. rfq \in [RfqLine -> Link] /\ procurement \in [ProcurementLine -> Link] /\ o # NoOrder
  BY DEF LineTypeOK, Order, NoOrder
<1>1. rfq' = Orphaned(rfq, o) /\ procurement' = Orphaned(procurement, o)
  BY DEF Gone
<1>2. ASSUME NEW n \in RfqLine
      PROVE  /\ rfq'[n].ordered = rfq[n].ordered
             /\ rfq'[n].order = IF rfq[n].order = o THEN NoOrder ELSE rfq[n].order
             /\ rfq[n].order \in Order \cup {NoOrder}
  BY <1>0, <1>1 DEF Orphaned, Link, Source
<1>3. LinksExist'
  BY <1>2 DEF Ownership, LinksExist
<1>4. ASSUME NEW s \in Order, s # o
      PROVE  ProcurementOwners(procurement', s) = ProcurementOwners(procurement, s)
  <2>1. \A n \in ProcurementLine :
          /\ procurement'[n].ordered = procurement[n].ordered
          /\ procurement'[n].order = IF procurement[n].order = o THEN NoOrder
                                     ELSE procurement[n].order
    BY <1>0, <1>1 DEF Orphaned, Link, Source
  <2>2. s # NoOrder /\ DOMAIN procurement = ProcurementLine /\ DOMAIN procurement' = ProcurementLine
    BY <1>0, <1>1 DEF Order, NoOrder, Orphaned
  <2>3. On(procurement', s) = On(procurement, s)
    BY <1>4, <2>1, <2>2 DEF On
  <2>4. QED
    BY <2>3 DEF ProcurementOwners
<1>5. OwnersKeepLine'
  <2> SUFFICES ASSUME NEW n \in RfqLine, NEW s \in Order, rfq'[n].ordered, rfq'[n].order = s
               PROVE  orders'[s].project \in {RfqProject[n]} \cup ProcurementOwners(procurement', s)
    BY DEF OwnersKeepLine
  <2>1. s # NoOrder
    BY DEF Order, NoOrder
  <2>2. s # o /\ rfq[n].ordered /\ rfq[n].order = s
    BY <1>2, <2>1
  <2>3. orders'[s].project = orders[s].project
    BY <2>1, <2>2 DEF Ownership, LinksExist
  <2>4. QED
    BY <1>4, <2>2, <2>3 DEF Ownership, OwnersKeepLine
<1>6. QED
  BY <1>3, <1>5 DEF Ownership

\* A line that a changed RFQ link leaves or reaches gets the project of the
\* RFQ lines then on it.
LEMMA UpdateRfqLineOwnership ==
  ASSUME LineTypeOK, Ownership, NEW n \in RfqLine, NEW o \in Source, UpdateRfqLine(n, o)
  PROVE  Ownership'
<1> DEFINE new     == [ordered |-> o # NoOrder, order |-> o]
           links   == [rfq EXCEPT ![n] = new]
           touched == Touched(rfq[n], new)
           owner   == [t \in Order |-> OwnerAmong(RfqOwners(links, t))]
<1>0. TypeOK /\ rfq \in [RfqLine -> Link] /\ new \in Link
  BY LinkIsLink DEF LineTypeOK
<1>1. /\ links \in [RfqLine -> Link]
      /\ links[n] = new /\ \A m \in RfqLine : m # n => links[m] = rfq[m]
  BY <1>0
<1>2. /\ rfq' = links /\ SetProjects(touched, owner) /\ procurement' = procurement
      /\ \A t \in touched : AtMostOne(RfqOwners(links, t))
      /\ o # NoOrder => Exists(o)
  BY DEF UpdateRfqLine, Linkable
<1>3. owner \in [Order -> Project \cup {NoProject}]
  <2> HIDE DEF links
  <2> QED BY <1>1, FirstOwnerType DEF LineTypeOK
<1>4. \A s \in Order : /\ orders'[s].status = orders[s].status
                       /\ orders'[s].project = IF s \in touched THEN Synced(s, owner[s])
                                               ELSE orders[s].project
  <2> HIDE DEF touched, owner
  <2> QED BY <1>0, <1>2, <1>3, SetProjectsType
<1>5. LinksExist'
  <2> SUFFICES ASSUME NEW m \in RfqLine, links[m].order # NoOrder
               PROVE  orders'[links[m].order].status \in {"Ordered", "Arrived"}
    BY <1>2 DEF LinksExist, Exists
  <2>1. links[m].order \in Order /\ Exists(links[m].order)
    <3>1. CASE m = n
      <4>1. links[m].order = o
        BY <1>1, <3>1
      <4>2. QED
        BY <1>2, <4>1 DEF Source
    <3>2. CASE m # n
      BY <1>0, <1>1, <3>2 DEF Ownership, LinksExist, Link, Source
    <3>3. QED
      BY <3>1, <3>2
  <2>2. QED
    <3> HIDE DEF links
    <3> QED BY <1>4, <2>1 DEF Exists
<1>6. OwnersKeepLine'
  <2> SUFFICES ASSUME NEW m \in RfqLine, NEW s \in Order, links[m].ordered, links[m].order = s
               PROVE  orders'[s].project \in {RfqProject[m]} \cup ProcurementOwners(procurement, s)
    BY <1>2 DEF OwnersKeepLine
  <2>1. CASE s \in touched
    <3>1. RfqOwners(links, s) = {RfqProject[m]}
      <4>1. AtMostOne(RfqOwners(links, s))
        BY <1>2, <2>1
      <4> HIDE DEF links
      <4>2. QED
        BY <1>1, <4>1, RfqOwnersOf
    <3>2. owner[s] = RfqProject[m]
      <4>1. OwnerAmong({RfqProject[m]}) = RfqProject[m]
        BY OwnerAmongMember
      <4> HIDE DEF links
      <4>2. QED
        BY <3>1, <4>1
    <3>3. RfqProject[m] # NoProject
      BY LinesAssumption, ConstantsAssumption
    <3>4. QED
      <4> HIDE DEF owner, links, touched
      <4> QED BY <1>4, <2>1, <3>2, <3>3 DEF Synced
  <2>2. CASE s \notin touched
    <3>1. rfq[m].ordered /\ rfq[m].order = s
      <4>1. CASE m = n
        <5>1. new.order = s /\ s # NoOrder
          BY <1>1, <4>1 DEF Order, NoOrder
        <5>2. rfq[n] = new
          <6> HIDE DEF new
          <6> QED BY <2>2, <5>1 DEF Touched
        <5>3. QED
          BY <1>1, <4>1, <5>2
      <4>2. CASE m # n
        BY <1>1, <4>2
      <4>3. QED
        BY <4>1, <4>2
    <3>2. orders'[s].project = orders[s].project
      <4> HIDE DEF touched, owner
      <4> QED BY <1>4, <2>2
    <3>3. QED
      BY <3>1, <3>2 DEF Ownership, OwnersKeepLine
  <2>3. QED
    BY <2>1, <2>2
<1>7. QED
  BY <1>5, <1>6 DEF Ownership

LEMMA UpdateProcurementLineOwnership ==
  ASSUME LineTypeOK, Ownership, NEW n \in ProcurementLine, NEW o \in Source,
         UpdateProcurementLine(n, o)
  PROVE  Ownership'
<1> DEFINE new     == [ordered |-> o # NoOrder, order |-> o]
           links   == [procurement EXCEPT ![n] = new]
           touched == Touched(procurement[n], new)
           owner   == [t \in Order |-> FirstOwner(ProcurementOwners(links, t), RfqOwners(rfq, t))]
<1>0. /\ TypeOK /\ rfq \in [RfqLine -> Link]
      /\ procurement \in [ProcurementLine -> Link] /\ new \in Link
  BY LinkIsLink DEF LineTypeOK
<1>1. /\ links \in [ProcurementLine -> Link]
      /\ links[n] = new /\ \A m \in ProcurementLine : m # n => links[m] = procurement[m]
  BY <1>0
<1>2. /\ procurement' = links /\ SetProjects(touched, owner) /\ rfq' = rfq
      /\ \A t \in touched :
           ProcurementOwners(links, t) = {} => AtMostOne(RfqOwners(rfq, t))
  BY DEF UpdateProcurementLine
<1>3. owner \in [Order -> Project \cup {NoProject}]
  <2> HIDE DEF links
  <2> QED BY <1>0, <1>1, FirstOwnerType
<1>4. \A s \in Order : /\ orders'[s].status = orders[s].status
                       /\ orders'[s].project = IF s \in touched THEN Synced(s, owner[s])
                                               ELSE orders[s].project
  <2> HIDE DEF touched, owner
  <2> QED BY <1>0, <1>2, <1>3, SetProjectsType
<1>5. LinksExist'
  <2>1. \A m \in RfqLine : rfq[m].order \in Order \cup {NoOrder}
    BY <1>0 DEF Link, Source
  <2>2. QED
    <3> HIDE DEF touched, owner
    <3> QED BY <1>2, <1>4, <2>1 DEF Ownership, LinksExist, Exists
<1>6. OwnersKeepLine'
  <2> SUFFICES ASSUME NEW m \in RfqLine, NEW s \in Order, rfq[m].ordered, rfq[m].order = s
               PROVE  orders'[s].project \in {RfqProject[m]} \cup ProcurementOwners(links, s)
    BY <1>2 DEF OwnersKeepLine
  <2>1. CASE s \in touched
    <3> DEFINE owners == ProcurementOwners(links, s)
    <3>1. owner[s] = FirstOwner(owners, RfqOwners(rfq, s))
      OBVIOUS
    <3>2. owner[s] \in {RfqProject[m]} \cup owners
      <4>1. CASE owners = {}
        <5>1. RfqOwners(rfq, s) = {RfqProject[m]}
          BY <1>0, <1>2, <2>1, <4>1, RfqOwnersOf
        <5> HIDE DEF owners, owner
        <5>2. QED
          BY <3>1, <4>1, <5>1, OwnerAmongMember DEF FirstOwner
      <4>2. CASE owners # {}
        <5> HIDE DEF owners, owner
        <5> QED BY <3>1, <4>2, OwnerAmongMember DEF FirstOwner
      <4>3. QED
        BY <4>1, <4>2
    <3>3. owner[s] # NoProject
      <4>1. owners \subseteq Project /\ RfqProject[m] \in Project
        <5> HIDE DEF links
        <5> QED BY <1>1, OwnersType, LinesAssumption
      <4> HIDE DEF owners, owner
      <4>2. QED
        BY <3>2, <4>1, ConstantsAssumption
    <3>4. QED
      <4> HIDE DEF owner, links, touched
      <4> QED BY <1>4, <2>1, <3>2, <3>3 DEF Synced
  <2>2. CASE s \notin touched
    <3>1. ProcurementOwners(links, s) = ProcurementOwners(procurement, s)
      <4>1. s # NoOrder
        BY DEF Order, NoOrder
      <4>2. procurement[n] = new \/ (procurement[n].order # s /\ new.order # s)
        <5> HIDE DEF new
        <5> QED BY <2>2, <4>1 DEF Touched
      <4>3. On(links, s) = On(procurement, s)
        <5> HIDE DEF new
        <5>1. links = [procurement EXCEPT ![n] = new]
          OBVIOUS
        <5> HIDE DEF links
        <5>2. QED
          BY <1>0, <1>1, <4>2, <5>1 DEF On
      <4> HIDE DEF links
      <4>4. QED
        BY <4>3 DEF ProcurementOwners
    <3>2. orders'[s].project = orders[s].project
      <4> HIDE DEF touched, owner
      <4> QED BY <1>4, <2>2
    <3>3. QED
      <4> HIDE DEF links
      <4> QED BY <3>1, <3>2 DEF Ownership, OwnersKeepLine
  <2>3. QED
    BY <2>1, <2>2
<1>7. QED
  BY <1>5, <1>6 DEF Ownership

LEMMA OwnershipStep == LineTypeOK /\ Ownership /\ [LineNext]_lineVars => Ownership'
<1> SUFFICES ASSUME LineTypeOK, Ownership, [LineNext]_lineVars PROVE Ownership'
  OBVIOUS
<1>1. ASSUME Next, UNCHANGED <<rfq, procurement>> PROVE Ownership'
  <2>1. \A s \in Order : Exists(s) => Exists(s)' /\ orders'[s].project = orders[s].project
    BY <1>1, CallsKeepProjects DEF LineTypeOK
  <2>2. QED
    BY <1>1, <2>1, SameOwnership
<1>2. CASE ReservationSteps /\ UNCHANGED ownership
  BY <1>1, <1>2, CallsAreReservationCalls DEF ownership
<1>3. ASSUME NEW o \in Order, NEW c \in Order, NEW q \in 1 .. MaxQuantity, NEW l \in Location,
             PartialArrivalOfLine(o, c, q, l)
      PROVE  Ownership'
  <2>1. UNCHANGED <<rfq, procurement>>
    BY <1>3 DEF PartialArrivalOfLine
  <2>2. QED
    BY <1>1, <1>3, <2>1, CallsAreReservationCalls
<1>4. ASSUME NEW o \in Order, DeleteLine(o) PROVE Ownership'
  <2>1. \A s \in Order : s # o /\ Exists(s)
          => Exists(s)' /\ orders'[s].project = orders[s].project
    BY <1>4 DEF DeleteLine, Exists, LineTypeOK, TypeOK
  <2>2. QED
    BY <1>4, <2>1, GoneOwnership DEF DeleteLine
<1>5. ASSUME NEW a \in Order, NEW b \in Order, NEW eta \in 0 .. MaxEta, MergeLines(a, b, eta)
      PROVE  Ownership'
  <2>1. /\ orders[b].status = "Ordered" /\ orders'[b].status = "Ordered"
        /\ orders'[b].project = orders[b].project
        /\ \A s \in Order : s # a /\ s # b => orders'[s] = orders[s]
    BY <1>5, MergedParts DEF LineTypeOK
  <2>2. \A s \in Order : s # a /\ Exists(s)
          => Exists(s)' /\ orders'[s].project = orders[s].project
    BY <2>1 DEF Exists
  <2>3. QED
    BY <1>5, <2>2, GoneOwnership DEF MergeLines
<1>6. CASE EditSteps
  BY <1>4, <1>5, <1>6, EditLineOwnership, PostponePartOwnership DEF EditSteps
<1>7. CASE LinkSteps
  BY <1>7, UpdateRfqLineOwnership, UpdateProcurementLineOwnership DEF LinkSteps
<1>8. CASE UNCHANGED lineVars
  <2>1. UNCHANGED <<orders, rfq, procurement>>
    BY <1>8 DEF lineVars, vars, ownership
  <2>2. QED
    BY <2>1, SameOwnership DEF Exists
<1>9. QED
  BY <1>2, <1>3, <1>6, <1>7, <1>8 DEF LineNext

\* An order line that an RFQ line is ORDERED on stays with an owner that is
\* linked to it, whichever edits, splits, merges and links come between.
THEOREM OwnershipCorrect == LineSpec => []OwnersKeepLine
<1>1. LineInit => Ownership
  BY DEF LineInit, Ownership, LinksExist, OwnersKeepLine, Unlinked
<1>2. Ownership => OwnersKeepLine
  BY DEF Ownership
<1>3. QED
  BY <1>1, <1>2, OwnershipStep, LineTypeCorrect, PTL DEF LineSpec

\* An order line has the project of the RFQ line ORDERED on it, and so never
\* two of them.
RfqOwnerKeepsLine ==
  \A n \in RfqLine, o \in Order :
    rfq[n].ordered /\ rfq[n].order = o => orders[o].project = RfqProject[n]

\* So where no procurement line brings a project of its own, the order line
\* keeps the project of its RFQ line.  Where one does, the code does not keep
\* it: RFQ lines of two projects may take turns on an order line whose
\* procurement line is of the first.
THEOREM RfqOwnerCorrect ==
  ASSUME \A n \in ProcurementLine : SourceProject[n] = NoProject
  PROVE  LineSpec => []RfqOwnerKeepsLine
<1>1. LineTypeOK /\ OwnersKeepLine => RfqOwnerKeepsLine
  <2> SUFFICES ASSUME LineTypeOK, OwnersKeepLine, NEW n \in RfqLine, NEW o \in Order,
                      rfq[n].ordered, rfq[n].order = o
               PROVE  orders[o].project = RfqProject[n]
    BY DEF RfqOwnerKeepsLine
  <2>1. ProcurementOwners(procurement, o) = {}
    BY DEF ProcurementOwners, On, LineTypeOK
  <2>2. QED
    BY <2>1 DEF OwnersKeepLine
<1>2. QED
  BY <1>1, OwnershipCorrect, LineTypeCorrect, PTL

-----------------------------------------------------------------------------
(* Lists in order.                                                         *)

\* A row of numbers is not before itself; of two rows one is; before is
\* transitive.
Rows(n) == [1 .. n -> Int]

LEMMA EarlierIsOrder ==
  ASSUME NEW n \in Nat
  PROVE  /\ \A a \in Rows(n) : ~Earlier(a, a)
         /\ \A a, b \in Rows(n) : a # b => Earlier(a, b) \/ Earlier(b, a)
         /\ \A a, b, c \in Rows(n) : Earlier(a, b) /\ Earlier(b, c) => Earlier(a, c)
<1>1. \A a \in Rows(n) : ~Earlier(a, a)
  BY DEF Rows, Earlier
<1>2. ASSUME NEW a \in Rows(n), NEW b \in Rows(n), a # b
      PROVE  Earlier(a, b) \/ Earlier(b, a)
  <2> DEFINE T == { i \in 1 .. n : a[i] # b[i] }
  <2>1. T \subseteq Nat /\ T # {}
    BY <1>2 DEF Rows
  <2>2. PICK i \in T : \A m \in T : i <= m
    <3> HIDE DEF T
    <3> QED BY <2>1, LeastNumber
  <2>3. i \in 1 .. n /\ a[i] # b[i] /\ \A j \in 1 .. (i - 1) : a[j] = b[j]
    BY <2>2
  <2>4. a[i] < b[i] \/ b[i] < a[i]
    BY <2>3 DEF Rows
  <2>5. DOMAIN a = 1 .. n /\ DOMAIN b = 1 .. n
    BY DEF Rows
  <2>6. QED
    BY <2>3, <2>4, <2>5 DEF Earlier
<1>3. ASSUME NEW a \in Rows(n), NEW b \in Rows(n), NEW c \in Rows(n),
             Earlier(a, b), Earlier(b, c)
      PROVE  Earlier(a, c)
  <2>1. PICK i \in 1 .. n : a[i] < b[i] /\ \A j \in 1 .. (i - 1) : a[j] = b[j]
    BY <1>3 DEF Earlier, Rows
  <2>2. PICK k \in 1 .. n : b[k] < c[k] /\ \A j \in 1 .. (k - 1) : b[j] = c[j]
    BY <1>3 DEF Earlier, Rows
  <2> DEFINE m == Smaller(i, k)
  <2>3. m \in 1 .. n /\ m <= i /\ m <= k /\ (m = i \/ m = k)
    BY DEF Smaller
  <2>4. a[m] <= b[m] /\ b[m] <= c[m] /\ (a[m] < b[m] \/ b[m] < c[m])
    <3>1. CASE m < i
      <4>1. a[m] = b[m] /\ m = k
        BY <2>1, <2>3, <3>1
      <4>2. b[m] < c[m] /\ a[m] \in Int /\ b[m] \in Int /\ c[m] \in Int
        BY <2>2, <2>3, <4>1 DEF Rows
      <4> HIDE DEF m
      <4> QED BY <4>1, <4>2
    <3>2. CASE m = i
      <4>1. a[i] < b[i] /\ i <= k /\ a[i] \in Int /\ b[i] \in Int /\ c[i] \in Int
        BY <2>1, <2>3, <3>2 DEF Rows
      <4>2. i = k \/ i \in 1 .. (k - 1)
        BY <4>1
      <4>3. b[i] < c[i] \/ b[i] = c[i]
        BY <2>2, <4>2
      <4> HIDE DEF m
      <4> QED BY <3>2, <4>1, <4>3
    <3> QED BY <2>3, <3>1, <3>2
  <2>5. a[m] < c[m]
    <3>1. a[m] \in Int /\ b[m] \in Int /\ c[m] \in Int
      BY <2>3 DEF Rows
    <3> HIDE DEF m
    <3> QED BY <2>4, <3>1
  <2>6. \A j \in 1 .. (m - 1) : a[j] = c[j]
    BY <2>1, <2>2, <2>3
  <2>7. DOMAIN a = 1 .. n
    BY DEF Rows
  <2>8. QED
    BY <2>3, <2>5, <2>6, <2>7 DEF Earlier
<1>4. QED
  BY <1>1, <1>2, <1>3

\* The sequence a set is listed as, by the number of those before.
IsList(S, before, list) ==
  \E place \in [S -> Nat] :
    /\ \A x \in S : place[x] = 1 + Cardinality({ y \in S : <<y, x>> \in before })
    /\ list = [i \in 1 .. Cardinality(S) |-> CHOOSE x \in S : place[x] = i]

Listed(S, before, list) ==
  /\ Cardinality(S) \in Nat /\ list \in [1 .. Cardinality(S) -> S]
  /\ \A x \in S : \E i \in 1 .. Cardinality(S) : list[i] = x
  /\ \A i, j \in 1 .. Cardinality(S) : i < j => <<list[i], list[j]>> \in before
  /\ \A i, j \in 1 .. Cardinality(S) : list[i] = list[j] => i = j

\* It has each element once, in order.
LEMMA ListInOrder ==
  ASSUME NEW S, IsFiniteSet(S), NEW before, StrictlyOrders(before, S),
         NEW list, IsList(S, before, list)
  PROVE  Listed(S, before, list)
<1> DEFINE N == Cardinality(S)
           Ahead(x) == { y \in S : <<y, x>> \in before }
<1>1. PICK place \in [S -> Nat] :
        /\ \A x \in S : place[x] = 1 + Cardinality(Ahead(x))
        /\ list = [i \in 1 .. N |-> CHOOSE x \in S : place[x] = i]
  BY DEF IsList
<1>2. N \in Nat
  BY FS_CardinalityType
<1>3. ASSUME NEW x \in S
      PROVE  IsFiniteSet(Ahead(x)) /\ Cardinality(Ahead(x)) \in Nat /\ Cardinality(Ahead(x)) < N
  <2>1. Ahead(x) \in SUBSET S /\ x \notin Ahead(x)
    BY DEF StrictlyOrders
  <2> HIDE DEF Ahead
  <2>2. Ahead(x) # S
    BY <2>1
  <2>3. /\ IsFiniteSet(Ahead(x)) /\ Cardinality(Ahead(x)) <= Cardinality(S)
        /\ Cardinality(Ahead(x)) # Cardinality(S)
    BY <2>1, <2>2, FS_Subset
  <2>4. QED
    BY <1>2, <2>3, FS_CardinalityType
<1>4. ASSUME NEW x \in S, NEW y \in S, <<x, y>> \in before
      PROVE  place[x] < place[y]
  <2>1. Ahead(x) \in SUBSET Ahead(y) /\ x \in Ahead(y) /\ x \notin Ahead(x)
    BY <1>4 DEF StrictlyOrders
  <2>2. IsFiniteSet(Ahead(x)) /\ IsFiniteSet(Ahead(y))
    BY <1>3
  <2> HIDE DEF Ahead
  <2>3. Ahead(x) # Ahead(y)
    BY <2>1
  <2>4. Cardinality(Ahead(x)) <= Cardinality(Ahead(y)) /\ Cardinality(Ahead(x)) # Cardinality(Ahead(y))
    BY <2>1, <2>2, <2>3, FS_Subset
  <2>5. Cardinality(Ahead(x)) \in Nat /\ Cardinality(Ahead(y)) \in Nat
    BY <2>2, FS_CardinalityType
  <2>6. QED
    BY <1>1, <2>4, <2>5
<1> HIDE DEF Ahead, N
<1>5. \A x \in S : place[x] \in 1 .. N
  BY <1>1, <1>2, <1>3
<1>6. \A x, y \in S : place[x] = place[y] => x = y
  <2>1. \A x \in S : place[x] \in Nat
    BY <1>1
  <2>2. \A x, y \in S : x # y => <<x, y>> \in before \/ <<y, x>> \in before
    BY DEF StrictlyOrders
  <2>3. SUFFICES ASSUME NEW x \in S, NEW y \in S, place[x] = place[y], x # y PROVE FALSE
    OBVIOUS
  <2>4. place[x] < place[y] \/ place[y] < place[x]
    BY <1>4, <2>2, <2>3
  <2> QED BY <2>1, <2>3, <2>4
<1>7. place \in Injection(S, 1 .. N)
  BY <1>1, <1>5, <1>6 DEF Injection, IsInjective
<1>8. IsFiniteSet(1 .. N) /\ Cardinality(1 .. N) = N
  BY <1>2, FS_Interval
<1>9. place \in Surjection(S, 1 .. N)
  BY <1>7, <1>8, FS_Injection DEF N
<1>10. \A i \in 1 .. N : \E x \in S : place[x] = i
  BY <1>9 DEF Surjection
<1>11. \A i \in 1 .. N : list[i] \in S /\ place[list[i]] = i
  BY <1>1, <1>10
<1>12. \A x \in S : list[place[x]] = x
  BY <1>5, <1>6, <1>11
<1>13. ASSUME NEW i \in 1 .. N, NEW j \in 1 .. N, i < j
       PROVE  <<list[i], list[j]>> \in before
  <2>1. list[i] \in S /\ list[j] \in S /\ place[list[i]] = i /\ place[list[j]] = j
    BY <1>11
  <2>2. list[i] # list[j] /\ ~(place[list[j]] < place[list[i]])
    BY <1>13, <2>1
  <2>3. <<list[i], list[j]>> \in before \/ <<list[j], list[i]>> \in before
    BY <2>1, <2>2 DEF StrictlyOrders
  <2> QED BY <1>4, <2>1, <2>2, <2>3
<1>14. \A i, j \in 1 .. N : list[i] = list[j] => i = j
  BY <1>11
<1>15. list \in [1 .. N -> S]
  BY <1>1, <1>11
<1>16. QED
  BY <1>2, <1>5, <1>11, <1>12, <1>13, <1>14, <1>15 DEF Listed, N

\* What a sort key makes of the order of a set.
SortOrder(S, key) == { p \in S \X S : Earlier(key[p[1]], key[p[2]]) }

\* Different elements have different keys, rows of n numbers.
IsKey(S, n, key) ==
  /\ n \in Nat /\ \A x \in S : key[x] \in Rows(n)
  /\ \A x, y \in S : key[x] = key[y] => x = y

LEMMA KeyOrders ==
  ASSUME NEW S, NEW n, NEW key, IsKey(S, n, key)
  PROVE  StrictlyOrders(SortOrder(S, key), S)
<1>1. n \in Nat /\ \A x \in S : key[x] \in Rows(n)
  BY DEF IsKey
<1>2. \A x, y \in S : <<x, y>> \in SortOrder(S, key) <=> Earlier(key[x], key[y])
  BY DEF SortOrder
<1>3. ASSUME NEW x \in S PROVE <<x, x>> \notin SortOrder(S, key)
  BY <1>1, <1>2, EarlierIsOrder
<1>4. ASSUME NEW x \in S, NEW y \in S, x # y
      PROVE  <<x, y>> \in SortOrder(S, key) \/ <<y, x>> \in SortOrder(S, key)
  <2>1. key[x] # key[y]
    BY <1>4 DEF IsKey
  <2> QED BY <1>1, <1>2, <2>1, EarlierIsOrder
<1>5. ASSUME NEW x \in S, NEW y \in S, NEW z \in S,
             <<x, y>> \in SortOrder(S, key), <<y, z>> \in SortOrder(S, key)
      PROVE  <<x, z>> \in SortOrder(S, key)
  <2>1. Earlier(key[x], key[y]) /\ Earlier(key[y], key[z])
    BY <1>2, <1>5
  <2> QED BY <1>1, <1>2, <2>1, EarlierIsOrder
<1>6. QED
  BY <1>3, <1>4, <1>5 DEF StrictlyOrders

\* Sorted lists a set in the order of its keys.
LEMMA SortedIsList ==
  ASSUME NEW S, IsFiniteSet(S), NEW n, NEW key, IsKey(S, n, key)
  PROVE  Listed(S, SortOrder(S, key), Sorted(S, key))
<1> DEFINE before == SortOrder(S, key)
           counts == [x \in S |-> 1 + Cardinality({ y \in S : Earlier(key[y], key[x]) })]
           place  == CHOOSE f \in {counts} : f \in [S -> Nat]
<1>1. ASSUME NEW x \in S
      PROVE  /\ { y \in S : Earlier(key[y], key[x]) } = { y \in S : <<y, x>> \in before }
             /\ Cardinality({ y \in S : Earlier(key[y], key[x]) }) \in Nat
  <2>1. { y \in S : Earlier(key[y], key[x]) } = { y \in S : <<y, x>> \in before }
    BY DEF SortOrder
  <2>2. { y \in S : Earlier(key[y], key[x]) } \in SUBSET S
    OBVIOUS
  <2>3. QED
    BY <2>1, <2>2, FS_Subset, FS_CardinalityType
<1>2. counts \in [S -> Nat]
  BY <1>1
<1>3. place = counts
  <2> HIDE DEF counts
  <2> QED BY <1>2
<1>4. \A x \in S : counts[x] = 1 + Cardinality({ y \in S : <<y, x>> \in before })
  BY <1>1
<1>5. Sorted(S, key) = [i \in 1 .. Cardinality(S) |-> CHOOSE x \in S : counts[x] = i]
  <2>1. Sorted(S, key) = [i \in 1 .. Cardinality(S) |-> CHOOSE x \in S : place[x] = i]
    BY Zenon DEF Sorted
  <2> HIDE DEF place, counts
  <2> QED BY <1>3, <2>1
<1>6. IsList(S, before, Sorted(S, key))
  <2> HIDE DEF counts, before
  <2> QED BY <1>2, <1>4, <1>5 DEF IsList
<1>7. StrictlyOrders(before, S)
  BY KeyOrders
<1>8. QED
  <2> HIDE DEF before
  <2> QED BY <1>6, <1>7, ListInOrder DEF before

-----------------------------------------------------------------------------
(* What is coming, and in which order.                                     *)

LEMMA Numbers ==
  /\ \A p \in Project : p \in Int
  /\ \A s \in Src : s \in Int
  /\ \A date \in 0 .. MaxEta : date \in Int
<1>1. Project \subseteq Nat \ {0}
  BY PlanningAssumption
<1>2. \A p \in Project : p \in Int
  BY <1>1
<1>3. \A s \in Src : s \in Int
  BY DEF Src
<1>4. \A date \in 0 .. MaxEta : date \in Int
  OBVIOUS
<1>5. QED
  BY <1>2, <1>3, <1>4

PlanningOK ==
  /\ TypeOK
  /\ projects \in [Project -> ProjectRow]
  /\ quotes \in [Quote -> QuoteRow]

LEMMA SourcesFinite == IsFiniteSet(Src) /\ IsFiniteSet(Project) /\ Src \subseteq Nat
<1>1. 0 \in Int /\ MaxOrder + MaxQuote \in Int
  BY ConstantsAssumption, PlanningAssumption
<1>2. QED
  BY <1>1, FS_Interval, PlanningAssumption DEF Src

\* What is coming: quantities of sources, their owners and dates.
SupplyRows ==
  [ Src \ {Stock} -> [quantity : Nat, owner : Project \cup {NoProject}, date : 0 .. MaxEta] ]

LEMMA ComingType ==
  ASSUME NEW coming \in SupplyRows, NEW s \in Src \ {Stock}
  PROVE  /\ coming[s].quantity \in Nat
         /\ coming[s].owner \in Project \cup {NoProject}
         /\ coming[s].date \in 0 .. MaxEta
BY DEF SupplyRows

LEMMA ComingIsSupply ==
  ASSUME PlanningOK, NEW lines \in [Quote -> QuoteRow]
  PROVE  ComingWith(lines) \in SupplyRows
<1> DEFINE coming == ComingWith(lines)
           Arrival == [quantity : Nat, owner : Project \cup {NoProject}, date : 0 .. MaxEta]
<1>1. ASSUME NEW s \in Src \ {Stock} PROVE coming[s] \in Arrival
  <2>1. CASE s <= MaxOrder
    <3>1. s \in Order
      BY <2>1, SourcesFinite, ConstantsAssumption DEF Order, Src, Stock
    <3>2. orders[s] \in OrderLine
      BY <3>1 DEF PlanningOK, TypeOK
    <3>3. coming[s] = [quantity |-> IF orders[s].status = "Ordered" /\ orders[s].eta # NoEta
                                    THEN orders[s].amount ELSE 0,
                       owner |-> orders[s].project, date |-> orders[s].eta]
      BY <2>1 DEF ComingWith
    <3> HIDE DEF coming
    <3> QED BY <3>2, <3>3 DEF OrderLine
  <2>2. CASE ~(s <= MaxOrder)
    <3> DEFINE q == lines[s - MaxOrder]
    <3>1. s - MaxOrder \in Quote
      BY <2>2, SourcesFinite, ConstantsAssumption, PlanningAssumption DEF Quote, Src, Stock
    <3>2. q \in QuoteRow
      BY <3>1
    <3>3. coming[s] = [quantity |-> IF q.status = "QUOTED" /\ q.eta # NoEta THEN q.quantity ELSE 0,
                       owner |-> q.project, date |-> q.eta]
      BY <2>2 DEF ComingWith
    <3> HIDE DEF q, coming
    <3> QED BY <3>2, <3>3 DEF QuoteRow
  <2> QED BY <2>1, <2>2
<1>2. coming = [s \in Src \ {Stock} |-> coming[s]]
  BY DEF ComingWith
<1> HIDE DEF coming
<1>3. coming \in [Src \ {Stock} -> Arrival]
  BY <1>1, <1>2
<1>4. QED
  BY <1>3 DEF coming, SupplyRows

LEMMA KeyType ==
  ASSUME NEW coming \in SupplyRows, PlanningOK, NEW s \in Src \ {Stock}
  PROVE  /\ Key(coming, s) \in Rows(3) /\ Key(coming, s)[1] = coming[s].date /\ Key(coming, s)[2] \in Int
         /\ Key(coming, s)[3] = s
<1> DEFINE second == IF s <= MaxOrder THEN s ELSE s - MaxOrder
<1>1. coming[s].date \in Int
  BY ComingType, ConstantsAssumption
<1>2. s \in Int /\ second \in Int
  BY SourcesFinite, ConstantsAssumption
<1>3. Key(coming, s) = <<coming[s].date, second, s>>
  BY DEF Key
<1> HIDE DEF second
<1>4. QED
  BY <1>1, <1>2, <1>3 DEF Rows

\* Draws take stock first, then what comes earlier.
LEMMA BeforeOrders ==
  ASSUME NEW coming \in SupplyRows, PlanningOK
  PROVE  StrictlyOrders(Before(coming), Src)
<1>1. \A x, y \in Src : <<x, y>> \in Before(coming) <=>
        y # Stock /\ (x = Stock \/ Earlier(Key(coming, x), Key(coming, y)))
  BY DEF Before
<1>2. \A x \in Src \ {Stock} : Key(coming, x) \in Rows(3)
  BY KeyType
<1>3. \A x, y \in Src \ {Stock} : Key(coming, x) = Key(coming, y) => x = y
  BY KeyType
<1>4. \A x \in Src : <<x, x>> \notin Before(coming)
  BY <1>1, <1>2, EarlierIsOrder
<1>5. ASSUME NEW x \in Src, NEW y \in Src, x # y
      PROVE  <<x, y>> \in Before(coming) \/ <<y, x>> \in Before(coming)
  BY <1>1, <1>2, <1>3, <1>5, EarlierIsOrder
<1>6. ASSUME NEW x \in Src, NEW y \in Src, NEW z \in Src,
             <<x, y>> \in Before(coming), <<y, z>> \in Before(coming)
      PROVE  <<x, z>> \in Before(coming)
  BY <1>1, <1>2, <1>6, EarlierIsOrder
<1>7. QED
  BY <1>4, <1>5, <1>6 DEF StrictlyOrders

StartDate(target) == target \in 0 .. MaxEta

LEMMA StartType ==
  ASSUME PlanningOK, NEW sel, NEW target, StartDate(target), NEW p \in Project
  PROVE  Start(sel, target, p) \in 0 .. MaxEta
BY ConstantsAssumption, PlanningAssumption DEF Start, PlanningOK, ProjectRow, StartDate

LEMMA PlannedType ==
  ASSUME NEW sel \in Project
  PROVE  Planned(sel) \subseteq Project /\ IsFiniteSet(Planned(sel))
<1>1. Planned(sel) \subseteq Project
  BY DEF Planned
<1>2. QED
  BY <1>1, SourcesFinite, FS_Subset

\* Each planned project has one place in the sequence.
Sequenced(sel, sequence) ==
  /\ Cardinality(Planned(sel)) \in Nat
  /\ DOMAIN sequence = 1 .. Cardinality(Planned(sel))
  /\ \A i \in DOMAIN sequence : sequence[i] \in Planned(sel)
  /\ \A p \in Planned(sel) : \E i \in DOMAIN sequence : sequence[i] = p
  /\ \A i, j \in DOMAIN sequence : sequence[i] = sequence[j] => i = j

LEMMA SequenceIsSequenced ==
  ASSUME PlanningOK, NEW sel \in Project, NEW target, StartDate(target)
  PROVE  Sequenced(sel, Sequence(sel, target))
<1> DEFINE S   == Planned(sel)
           key == [p \in S |-> <<Start(sel, target, p), p>>]
<1>1. S \subseteq Project /\ IsFiniteSet(S)
  BY PlannedType
<1>2. ASSUME NEW p \in S PROVE key[p] \in Rows(2) /\ key[p][2] = p
  <2>1. p \in Project /\ p \in Int
    BY <1>1, Numbers
  <2>2. Start(sel, target, p) \in Int
    <3>1. Start(sel, target, p) \in 0 .. MaxEta
      BY <2>1, StartType
    <3> QED BY <3>1, Numbers
  <2> QED BY <2>1, <2>2 DEF Rows
<1>3. IsKey(S, 2, key)
  <2> HIDE DEF S, key
  <2> QED BY <1>2 DEF IsKey
<1>4. Sequence(sel, target) = Sorted(S, key)
  BY DEF Sequence
<1>5. Listed(S, SortOrder(S, key), Sorted(S, key))
  <2> HIDE DEF S, key
  <2> QED BY <1>1, <1>3, SortedIsList
<1> HIDE DEF key
<1>6. QED
  BY <1>4, <1>5 DEF Listed, Sequenced

\* An event is of a planned project, or of supply of its own date.
SupplyEvent(coming, sel, e) ==
  /\ e.kind \in {"dedicated", "generic"} /\ e.subject \in Src \ {Stock}
  /\ e.date = coming[e.subject].date
  /\ e.kind = "generic" => coming[e.subject].owner = NoProject
  /\ e.kind = "dedicated" => coming[e.subject].owner \in Planned(sel)

DemandEvent(sel, target, e) ==
  /\ e.kind = "demand" /\ e.subject \in Planned(sel)
  /\ e.date = Start(sel, target, e.subject)

LEMMA EventShape ==
  ASSUME NEW coming \in SupplyRows, NEW sel \in Project, NEW target
  PROVE  /\ \A e \in SupplyEvents(coming, sel) : SupplyEvent(coming, sel, e)
         /\ \A e \in DemandEvents(sel, target) : DemandEvent(sel, target, e)
         /\ \A d, e \in SupplyEvents(coming, sel) : d.subject = e.subject => d = e
         /\ \A d, e \in DemandEvents(sel, target) : d.subject = e.subject => d = e
<1>1. NoProject \notin Planned(sel)
  BY PlannedType, ConstantsAssumption
<1>2. \A e \in SupplyEvents(coming, sel) : \E s \in Src \ {Stock} :
        /\ e = [kind |-> IF coming[s].owner = NoProject THEN "generic" ELSE "dedicated",
                date |-> coming[s].date, subject |-> s]
        /\ coming[s].owner \in Planned(sel) \cup {NoProject}
  BY DEF SupplyEvents
<1>3. \A e \in DemandEvents(sel, target) : \E p \in Planned(sel) :
        e = [kind |-> "demand", date |-> Start(sel, target, p), subject |-> p]
  BY DEF DemandEvents
<1>4. QED
  BY <1>1, <1>2, <1>3 DEF SupplyEvent, DemandEvent

LEMMA EventsFinite ==
  ASSUME NEW coming \in SupplyRows, NEW sel \in Project, NEW target
  PROVE  IsFiniteSet(SupplyEvents(coming, sel) \cup DemandEvents(sel, target))
<1> DEFINE S == SupplyEvents(coming, sel)
           D == DemandEvents(sel, target)
           f == [e \in S |-> e.subject]
           g == [e \in D |-> e.subject]
<1>1. /\ \A e \in S : e.subject \in Src
      /\ \A e \in D : e.subject \in Project
      /\ \A d, e \in S : d.subject = e.subject => d = e
      /\ \A d, e \in D : d.subject = e.subject => d = e
  BY EventShape, PlannedType DEF SupplyEvent, DemandEvent
<1> HIDE DEF S, D
<1>2. f \in Injection(S, Src) /\ g \in Injection(D, Project)
  BY <1>1 DEF Injection, IsInjective
<1>3. IsFiniteSet(S) /\ IsFiniteSet(D)
  <2> HIDE DEF f, g
  <2> QED BY <1>2, SourcesFinite, FS_Injection
<1>4. IsFiniteSet(S \cup D)
  BY <1>3, FS_Union
<1>5. QED
  BY <1>4 DEF S, D

LEMMA EventKeyType ==
  ASSUME NEW coming \in SupplyRows, PlanningOK, NEW sel \in Project, NEW target, StartDate(target),
         NEW sequence, Sequenced(sel, sequence), NEW e,
         SupplyEvent(coming, sel, e) \/ DemandEvent(sel, target, e)
  PROVE  /\ EventKey(coming, e, sequence) \in Rows(5) /\ EventKey(coming, e, sequence)[1] = e.date
         /\ EventKey(coming, e, sequence)[2] = (CASE e.kind = "dedicated" -> 0
                                          [] e.kind = "generic" -> 1
                                          [] OTHER -> 2)
         /\ e.subject = IF e.kind = "demand" THEN EventKey(coming, e, sequence)[4]
                        ELSE EventKey(coming, e, sequence)[5]
<1> DEFINE rank(p) == CHOOSE i \in DOMAIN sequence : sequence[i] = p
<1>1. \A p \in Planned(sel) : rank(p) \in Int
  BY DEF Sequenced
<1>2. ASSUME SupplyEvent(coming, sel, e) PROVE Key(coming, e.subject)[2] \in Int /\ e.subject \in Int /\ e.date \in Int
  <2>1. e.subject \in Src \ {Stock} /\ e.date = coming[e.subject].date
    BY <1>2 DEF SupplyEvent
  <2>2. Key(coming, e.subject)[2] \in Int /\ coming[e.subject].date \in 0 .. MaxEta
    BY <2>1, KeyType, ComingType
  <2> QED BY <2>1, <2>2, Numbers
<1>3. ASSUME DemandEvent(sel, target, e) PROVE e.subject \in Int /\ e.date \in Int
  <2>1. e.subject \in Project /\ e.date = Start(sel, target, e.subject)
    BY <1>3, PlannedType DEF DemandEvent
  <2>2. Start(sel, target, e.subject) \in 0 .. MaxEta
    BY <2>1, StartType
  <2> QED BY <2>1, <2>2, Numbers
<1>4. CASE SupplyEvent(coming, sel, e) /\ e.kind = "dedicated"
  <2>1. EventKey(coming, e, sequence)
          = <<e.date, 0, rank(coming[e.subject].owner), Key(coming, e.subject)[2], e.subject>>
    BY <1>4 DEF EventKey
  <2>2. rank(coming[e.subject].owner) \in Int
    BY <1>1, <1>4 DEF SupplyEvent
  <2> HIDE DEF rank
  <2> QED BY <1>2, <1>4, <2>1, <2>2 DEF Rows
<1>5. CASE SupplyEvent(coming, sel, e) /\ e.kind = "generic"
  <2>1. EventKey(coming, e, sequence) = <<e.date, 1, 0, Key(coming, e.subject)[2], e.subject>>
    BY <1>5 DEF EventKey
  <2> QED BY <1>2, <1>5, <2>1 DEF Rows
<1>6. CASE DemandEvent(sel, target, e)
  <2>1. EventKey(coming, e, sequence) = <<e.date, 2, rank(e.subject), e.subject, 0>> /\ e.kind = "demand"
    BY <1>6 DEF EventKey, DemandEvent
  <2>2. rank(e.subject) \in Int
    BY <1>1, <1>6 DEF DemandEvent
  <2> HIDE DEF rank
  <2> QED BY <1>3, <1>6, <2>1, <2>2 DEF Rows
<1>7. QED
  BY <1>4, <1>5, <1>6 DEF SupplyEvent

EventOK(coming, sel, target, e) == SupplyEvent(coming, sel, e) \/ DemandEvent(sel, target, e)

\* The events, in the order of their keys.
EventSet(coming, sel, target) == SupplyEvents(coming, sel) \cup DemandEvents(sel, target)

EventOrder(coming, sel, target) ==
  SortOrder(EventSet(coming, sel, target),
            [e \in EventSet(coming, sel, target) |-> EventKey(coming, e, Sequence(sel, target))])

LEMMA EventsListed ==
  ASSUME NEW coming \in SupplyRows, PlanningOK, NEW sel \in Project, NEW target, StartDate(target)
  PROVE  /\ IsFiniteSet(EventSet(coming, sel, target))
         /\ StrictlyOrders(EventOrder(coming, sel, target), EventSet(coming, sel, target))
         /\ Listed(EventSet(coming, sel, target), EventOrder(coming, sel, target),
                   Events(coming, sel, target))
         /\ Len(Events(coming, sel, target)) = Cardinality(EventSet(coming, sel, target))
         /\ \A e \in EventSet(coming, sel, target) :
              /\ EventOK(coming, sel, target, e)
              /\ EventKey(coming, e, Sequence(sel, target)) \in Rows(5)
<1> DEFINE sequence == Sequence(sel, target)
           S   == SupplyEvents(coming, sel)
           D   == DemandEvents(sel, target)
           E   == S \cup D
           key == [e \in E |-> EventKey(coming, e, sequence)]
           events == Events(coming, sel, target)
<1>1. Sequenced(sel, sequence) /\ IsFiniteSet(E)
  BY SequenceIsSequenced, EventsFinite
<1>2. ASSUME NEW e \in E PROVE EventOK(coming, sel, target, e)
  BY <1>2, EventShape DEF EventOK
<1>3. \A d, e \in S : d.subject = e.subject => d = e
  BY EventShape
<1>4. \A d, e \in D : d.subject = e.subject => d = e
  BY EventShape
<1>5. \A e \in S : e.kind # "demand"
  BY EventShape DEF SupplyEvent
<1>6. \A e \in D : e.kind = "demand"
  BY EventShape DEF DemandEvent
<1>7. events = Sorted(E, key)
  BY DEF Events
<1>20. E = EventSet(coming, sel, target)
  BY DEF EventSet
<1>21. EventOrder(coming, sel, target) = SortOrder(E, key)
  BY DEF EventOrder, EventSet
<1> HIDE DEF sequence, S, D, events
<1>8. ASSUME NEW e \in E
      PROVE  /\ key[e] \in Rows(5) /\ key[e][1] = e.date
             /\ key[e][2] = (CASE e.kind = "dedicated" -> 0 [] e.kind = "generic" -> 1 [] OTHER -> 2)
             /\ e.subject = IF e.kind = "demand" THEN key[e][4] ELSE key[e][5]
             /\ e.kind \in {"dedicated", "generic", "demand"}
             /\ EventKey(coming, e, sequence) \in Rows(5)
  <2>1. key[e] = EventKey(coming, e, sequence) /\ EventOK(coming, sel, target, e)
    BY <1>2
  <2> HIDE DEF key
  <2>2. e.kind \in {"dedicated", "generic", "demand"}
    BY <2>1 DEF EventOK, SupplyEvent, DemandEvent
  <2> QED BY <1>1, <2>1, <2>2, EventKeyType DEF EventOK
<1> HIDE DEF key
<1>9. ASSUME NEW d \in E, NEW e \in E, key[d] = key[e] PROVE d = e
  <2>1. d.kind = e.kind
    BY <1>8, <1>9
  <2>2. d.subject = e.subject
    BY <1>8, <1>9, <2>1
  <2> QED BY <1>3, <1>4, <1>5, <1>6, <2>1, <2>2
<1>10. IsKey(E, 5, key)
  <2> HIDE DEF E
  <2> QED BY <1>8, <1>9 DEF IsKey
<1>11. Listed(E, SortOrder(E, key), events) /\ StrictlyOrders(SortOrder(E, key), E)
  <2> HIDE DEF E
  <2> QED BY <1>1, <1>7, <1>10, SortedIsList, KeyOrders
<1>13. Len(events) = Cardinality(E)
  <2>1. events \in [1 .. Cardinality(E) -> E] /\ Cardinality(E) \in Nat
    <3> HIDE DEF E
    <3> QED BY <1>11 DEF Listed
  <2> HIDE DEF E
  <2> QED BY <2>1
<1>14. \A e \in E : EventOK(coming, sel, target, e) /\ EventKey(coming, e, sequence) \in Rows(5)
  BY <1>2, <1>8
<1> HIDE DEF E
<1>15. QED
  BY <1>1, <1>11, <1>13, <1>14, <1>20, <1>21 DEF sequence, events

\* Events come by date, each source's once.
Timed(coming, sel, target, events) ==
  /\ Len(events) \in Nat
  /\ \A i \in 1 .. Len(events) : EventOK(coming, sel, target, events[i])
  /\ \A i, j \in 1 .. Len(events) : i < j => events[i].date <= events[j].date
  /\ \A i, j \in 1 .. Len(events) :
       SupplyEvent(coming, sel, events[i]) /\ SupplyEvent(coming, sel, events[j])
         /\ events[i].subject = events[j].subject => i = j

LEMMA EventsAreTimed ==
  ASSUME NEW coming \in SupplyRows, PlanningOK, NEW sel \in Project, NEW target, StartDate(target)
  PROVE  Timed(coming, sel, target, Events(coming, sel, target))
<1> DEFINE events == Events(coming, sel, target)
           E      == EventSet(coming, sel, target)
           key(e) == EventKey(coming, e, Sequence(sel, target))
           N      == Len(events)
<1>1. /\ N \in Nat /\ \A i \in 1 .. N : events[i] \in E
      /\ \A i, j \in 1 .. N : i < j => <<events[i], events[j]>> \in EventOrder(coming, sel, target)
      /\ \A i, j \in 1 .. N : events[i] = events[j] => i = j
      /\ \A e \in E : EventOK(coming, sel, target, e) /\ key(e) \in Rows(5)
  BY EventsListed DEF Listed
<1>2. \A d, e \in E : <<d, e>> \in EventOrder(coming, sel, target) => Earlier(key(d), key(e))
  BY DEF EventOrder, SortOrder
<1> HIDE DEF events, E
<1>3. \A e \in E : key(e)[1] = e.date
  <2>1. Sequenced(sel, Sequence(sel, target))
    BY SequenceIsSequenced
  <2> QED BY <1>1, <2>1, EventKeyType DEF EventOK
<1> HIDE DEF key
<1>4. ASSUME NEW a \in Rows(5), NEW b \in Rows(5), Earlier(a, b) PROVE a[1] <= b[1]
  <2>1. PICK i \in 1 .. 5 : a[i] < b[i] /\ \A j \in 1 .. (i - 1) : a[j] = b[j]
    BY <1>4 DEF Earlier, Rows
  <2>2. a[1] \in Int /\ b[1] \in Int
    BY DEF Rows
  <2>3. CASE i = 1
    BY <2>1, <2>2, <2>3
  <2>4. CASE i # 1
    <3>1. 1 \in 1 .. (i - 1)
      BY <2>4
    <3> QED BY <2>1, <2>2, <3>1
  <2> QED BY <2>3, <2>4
<1>5. ASSUME NEW i \in 1 .. N, NEW j \in 1 .. N, i < j PROVE events[i].date <= events[j].date
  <2> DEFINE x == key(events[i])
             y == key(events[j])
  <2>1. /\ x \in Rows(5) /\ y \in Rows(5) /\ Earlier(x, y)
        /\ x[1] = events[i].date /\ y[1] = events[j].date
    BY <1>1, <1>2, <1>3, <1>5
  <2> HIDE DEF x, y
  <2> QED BY <1>4, <2>1
<1>6. ASSUME NEW i \in 1 .. N, NEW j \in 1 .. N,
             SupplyEvent(coming, sel, events[i]), SupplyEvent(coming, sel, events[j]),
             events[i].subject = events[j].subject
      PROVE  i = j
  <2>1. \A e \in DemandEvents(sel, target) : e.kind = "demand"
    BY DEF DemandEvents
  <2>2. events[i] \in SupplyEvents(coming, sel) /\ events[j] \in SupplyEvents(coming, sel)
    BY <1>1, <1>6, <2>1 DEF E, EventSet, SupplyEvent
  <2>3. events[i] = events[j]
    BY <1>6, <2>2, EventShape
  <2> QED BY <1>1, <2>3
<1>7. Timed(coming, sel, target, events)
  BY <1>1, <1>5, <1>6 DEF Timed
<1>8. QED
  BY <1>7 DEF events

-----------------------------------------------------------------------------
(* A plan, event by event.                                                 *)

AmountOf(coming, s) == IF s = Stock THEN Total(Available) ELSE coming[s].quantity

ThereBy(coming, s, date) == s = Stock \/ coming[s].date <= date

\* What project p is given of source s, or will be.
ShareOf(plan, p, s) == plan.onTime[p][s] + plan.late[p][s] + plan.ready[p][s]

Counted(plan, s) == Total([p \in Project |-> ShareOf(plan, p, s)]) + plan.pool[s]

\* What may cover p on time.
Serves(coming, sel, target, p, s) ==
  /\ ThereBy(coming, s, Start(sel, target, p))
  /\ s # Stock => coming[s].owner \in {p, NoProject}

Limit(coming, arrived, s) == IF s \in arrived THEN AmountOf(coming, s) ELSE 0

OwnersKept(coming, plan) ==
  /\ \A p \in Project, s \in Src : plan.ready[p][s] > 0 => s # Stock /\ coming[s].owner = p
  /\ \A s \in Src : plan.pool[s] > 0 => s = Stock \/ coming[s].owner = NoProject

\* A plan of the supply that has arrived so far.
Fits(coming, sel, target, arrived, plan) ==
  /\ plan \in Plan
  /\ \A s \in Src : Counted(plan, s) <= Limit(coming, arrived, s)
  /\ OwnersKept(coming, plan)
  /\ \A p \in Project, s \in Src : plan.onTime[p][s] > 0 => Serves(coming, sel, target, p, s)

LEMMA PlanFields ==
  ASSUME NEW plan \in Plan
  PROVE  /\ plan.pool \in [Src -> Nat]
         /\ plan.ready \in [Project -> [Src -> Nat]]
         /\ plan.onTime \in [Project -> [Src -> Nat]]
         /\ plan.late \in [Project -> [Src -> Nat]]
         /\ plan.poolSeen \in [Project -> Nat]
         /\ plan.backlog \in [Project -> Nat]
         /\ plan.shortage \in [Project -> Nat]
BY DEF Plan

LEMMA PlanIs ==
  ASSUME NEW plan,
         plan = [pool |-> plan.pool, ready |-> plan.ready, onTime |-> plan.onTime,
                 late |-> plan.late, poolSeen |-> plan.poolSeen, backlog |-> plan.backlog,
                 shortage |-> plan.shortage],
         /\ plan.pool \in [Src -> Nat] /\ plan.onTime \in [Project -> [Src -> Nat]]
         /\ plan.poolSeen \in [Project -> Nat] /\ plan.shortage \in [Project -> Nat]
         /\ plan.backlog \in [Project -> Nat]
         /\ plan.late \in [Project -> [Src -> Nat]]
         /\ plan.ready \in [Project -> [Src -> Nat]]
  PROVE  plan \in Plan
BY DEF Plan

LEMMA ShareType ==
  ASSUME NEW plan \in Plan
  PROVE  /\ \A p \in Project, s \in Src :
              /\ plan.onTime[p][s] \in Nat /\ plan.late[p][s] \in Nat /\ plan.ready[p][s] \in Nat
              /\ ShareOf(plan, p, s) \in Nat /\ plan.pool[s] \in Nat
         /\ \A s \in Src : /\ [p \in Project |-> ShareOf(plan, p, s)] \in [Project -> Nat]
                           /\ plan.pool[s] \in Nat
                           /\ Total([p \in Project |-> ShareOf(plan, p, s)]) \in Nat
                           /\ Counted(plan, s) \in Nat
<1>1. ASSUME NEW p \in Project, NEW s \in Src
      PROVE  /\ plan.onTime[p][s] \in Nat /\ plan.late[p][s] \in Nat /\ plan.ready[p][s] \in Nat
             /\ ShareOf(plan, p, s) \in Nat /\ plan.pool[s] \in Nat
  BY PlanFields DEF ShareOf
<1>2. ASSUME NEW s \in Src
      PROVE  /\ [p \in Project |-> ShareOf(plan, p, s)] \in [Project -> Nat]
             /\ plan.pool[s] \in Nat
             /\ Total([p \in Project |-> ShareOf(plan, p, s)]) \in Nat
             /\ Counted(plan, s) \in Nat
  <2> DEFINE f == [p \in Project |-> ShareOf(plan, p, s)]
  <2>1. f \in [Project -> Nat] /\ plan.pool[s] \in Nat
    BY <1>1, PlanFields
  <2>2. Total(f) \in Nat
    <3> HIDE DEF f
    <3> QED BY <2>1, SourcesFinite, TotalType
  <2>3. Counted(plan, s) = Total(f) + plan.pool[s]
    BY DEF Counted
  <2> HIDE DEF f
  <2>4. QED
    BY <2>1, <2>2, <2>3 DEF f
<1>3. QED
  BY <1>1, <1>2

LEMMA QuantityType ==
  ASSUME NEW coming \in SupplyRows, PlanningOK, NEW s \in Src
  PROVE  AmountOf(coming, s) \in Nat
<1>1. Total(Available) \in Nat
  BY ReadsType, Finite, TotalType DEF PlanningOK
<1>2. QED
  BY <1>1, ComingType DEF AmountOf

\* Of a source that has not arrived nothing is counted.
LEMMA NothingCounted ==
  ASSUME NEW plan \in Plan, NEW s \in Src, Counted(plan, s) <= 0
  PROVE  /\ plan.pool[s] = 0
         /\ \A p \in Project : /\ plan.onTime[p][s] = 0 /\ plan.late[p][s] = 0
                               /\ plan.ready[p][s] = 0 /\ ShareOf(plan, p, s) = 0
<1> DEFINE f == [p \in Project |-> ShareOf(plan, p, s)]
<1>1. /\ f \in [Project -> Nat] /\ plan.pool[s] \in Nat /\ Total(f) \in Nat
      /\ Counted(plan, s) = Total(f) + plan.pool[s]
  BY ShareType DEF Counted
<1>2. Total(f) = 0 /\ plan.pool[s] = 0
  <2> HIDE DEF f
  <2> QED BY <1>1
<1>3. \A p \in Project : f[p] = 0
  <2> HIDE DEF f
  <2> QED BY <1>1, <1>2, SourcesFinite, TotalZero
<1>4. \A p \in Project : ShareOf(plan, p, s) = 0
  BY <1>3
<1>5. \A p \in Project : /\ plan.onTime[p][s] \in Nat /\ plan.late[p][s] \in Nat
                         /\ plan.ready[p][s] \in Nat
  BY ShareType
<1>6. ASSUME NEW p \in Project
      PROVE  plan.onTime[p][s] = 0 /\ plan.late[p][s] = 0 /\ plan.ready[p][s] = 0
  <2> DEFINE a == plan.onTime[p][s]
             b == plan.late[p][s]
             c == plan.ready[p][s]
  <2>1. a + b + c = 0
    BY <1>4 DEF ShareOf
  <2>2. a \in Nat /\ b \in Nat /\ c \in Nat
    BY <1>5
  <2>3. a = 0 /\ b = 0 /\ c = 0
    <3> HIDE DEF a, b, c
    <3> QED BY <2>1, <2>2
  <2> QED BY <2>3
<1>7. QED
  BY <1>2, <1>4, <1>6

LEMMA OpeningFits ==
  ASSUME NEW coming \in SupplyRows, PlanningOK, NEW sel \in Project, NEW target
  PROVE  Fits(coming, sel, target, {Stock}, Opening)
<1>1. Stock \in Src /\ Total(Available) \in Nat
  <2>1. Stock \in Src
    BY ConstantsAssumption, PlanningAssumption DEF Src, Stock
  <2> QED BY <2>1, QuantityType DEF AmountOf
<1>2. Opening \in Plan
  BY <1>1 DEF Opening, Plan, Nothing
<1>3. ASSUME NEW s \in Src
      PROVE  /\ Opening.pool[s] = IF s = Stock THEN Total(Available) ELSE 0
             /\ \A p \in Project : /\ Opening.onTime[p][s] = 0 /\ Opening.late[p][s] = 0
                                   /\ Opening.ready[p][s] = 0
  BY DEF Opening, Nothing
<1>4. ASSUME NEW s \in Src PROVE Counted(Opening, s) <= Limit(coming, {Stock}, s)
  <2> DEFINE f == [p \in Project |-> ShareOf(Opening, p, s)]
  <2>1. f \in [Project -> Nat] /\ \A p \in Project : f[p] = 0
    BY <1>3 DEF ShareOf
  <2>2. Total(f) = 0
    <3> HIDE DEF f
    <3> QED BY <2>1, SourcesFinite, TotalZero
  <2>3. Counted(Opening, s) = Opening.pool[s]
    BY <1>1, <1>3, <2>2 DEF Counted
  <2> QED BY <1>1, <1>3, <2>3 DEF Limit, AmountOf
<1>5. OwnersKept(coming, Opening)
  BY <1>3 DEF OwnersKept
<1>6. \A p \in Project, s \in Src : ~(Opening.onTime[p][s] > 0)
  BY <1>3
<1>7. QED
  BY <1>2, <1>4, <1>5, <1>6 DEF Fits

\* Supply of a project, when it comes.
LEMMA DedicatedFits ==
  ASSUME NEW coming \in SupplyRows, PlanningOK, NEW sel \in Project, NEW target, NEW arrived, NEW plan,
         Fits(coming, sel, target, arrived, plan), NEW s \in Src \ {Stock}, s \notin arrived,
         coming[s].owner \in Project
  PROVE  Fits(coming, sel, target, arrived \cup {s}, DedicatedArrives(coming, plan, s))
<1> DEFINE p    == coming[s].owner
           q    == coming[s].quantity
           n    == Smaller(q, plan.backlog[p])
           next == DedicatedArrives(coming, plan, s)
<1>1. plan \in Plan /\ q \in Nat /\ plan.backlog[p] \in Nat /\ p \in Project
  BY ComingType, PlanFields DEF Fits
<1>2. n \in Nat /\ n <= q /\ n <= plan.backlog[p] /\ q - n \in Nat /\ plan.backlog[p] - n \in Nat
  <2> HIDE DEF q, p
  <2> QED BY <1>1 DEF Smaller
<1>3. next = [plan EXCEPT !.backlog[p] = @ - n, !.late[p][s] = @ + n, !.ready[p][s] = q - n]
  BY Zenon DEF DedicatedArrives
<1>4. Counted(plan, s) <= 0
  BY DEF Fits, Limit
<1>5. plan.pool[s] = 0 /\ \A t \in Project : /\ plan.onTime[t][s] = 0 /\ plan.late[t][s] = 0
                                             /\ plan.ready[t][s] = 0
  BY <1>1, <1>4, NothingCounted
<1> HIDE DEF p, q, n, next
<1>6. /\ next.pool = plan.pool /\ next.onTime = plan.onTime
      /\ next.poolSeen = plan.poolSeen /\ next.shortage = plan.shortage
      /\ next.backlog = [plan.backlog EXCEPT ![p] = @ - n]
      /\ next.late = [plan.late EXCEPT ![p][s] = @ + n]
      /\ next.ready = [plan.ready EXCEPT ![p][s] = q - n]
      /\ next = [pool |-> next.pool, ready |-> next.ready, onTime |-> next.onTime,
                 late |-> next.late, poolSeen |-> next.poolSeen, backlog |-> next.backlog,
                 shortage |-> next.shortage]
  BY <1>1, <1>3 DEF Plan
<1>7. /\ next.pool \in [Src -> Nat] /\ next.onTime \in [Project -> [Src -> Nat]]
      /\ next.poolSeen \in [Project -> Nat] /\ next.shortage \in [Project -> Nat]
      /\ next.backlog \in [Project -> Nat]
      /\ next.late \in [Project -> [Src -> Nat]]
      /\ next.ready \in [Project -> [Src -> Nat]]
  <2>1. /\ plan.pool \in [Src -> Nat] /\ plan.onTime \in [Project -> [Src -> Nat]]
        /\ plan.poolSeen \in [Project -> Nat] /\ plan.shortage \in [Project -> Nat]
        /\ plan.backlog \in [Project -> Nat]
        /\ plan.late \in [Project -> [Src -> Nat]]
        /\ plan.ready \in [Project -> [Src -> Nat]]
    BY <1>1, PlanFields
  <2>2. plan.late[p][s] \in Nat /\ s \in Src
    BY <1>1, <2>1
  <2> QED BY <1>1, <1>2, <1>6, <2>1, <2>2
<1>8. next \in Plan
  BY <1>6, <1>7, PlanIs
<1>9. ASSUME NEW t \in Project, NEW u \in Src
      PROVE  /\ next.onTime[t][u] = plan.onTime[t][u] /\ next.pool[u] = plan.pool[u]
             /\ next.late[t][u] = IF t = p /\ u = s THEN plan.late[t][u] + n ELSE plan.late[t][u]
             /\ next.ready[t][u] = IF t = p /\ u = s THEN q - n ELSE plan.ready[t][u]
  <2>1. /\ plan.late \in [Project -> [Src -> Nat]] /\ plan.ready \in [Project -> [Src -> Nat]]
        /\ plan.late[t] \in [Src -> Nat] /\ plan.ready[t] \in [Src -> Nat]
    BY <1>1, PlanFields
  <2>2. next.onTime[t][u] = plan.onTime[t][u] /\ next.pool[u] = plan.pool[u]
    BY <1>6
  <2>3. next.late[t][u] = IF t = p /\ u = s THEN plan.late[t][u] + n ELSE plan.late[t][u]
    BY <1>1, <1>6, <2>1
  <2>4. next.ready[t][u] = IF t = p /\ u = s THEN q - n ELSE plan.ready[t][u]
    BY <1>1, <1>6, <2>1
  <2> QED BY <2>2, <2>3, <2>4
<1>10. ASSUME NEW u \in Src PROVE Counted(next, u) <= Limit(coming, arrived \cup {s}, u)
  <2> DEFINE f == [t \in Project |-> ShareOf(plan, t, u)]
             g == [t \in Project |-> ShareOf(next, t, u)]
  <2>1. /\ f \in [Project -> Nat] /\ g \in [Project -> Nat]
        /\ Counted(plan, u) = Total(f) + plan.pool[u]
        /\ Counted(next, u) = Total(g) + next.pool[u]
    BY <1>1, <1>8, ShareType DEF Counted
  <2>2. CASE u # s
    <3>1. \A t \in Project : f[t] = g[t]
      BY <1>9, <2>2 DEF ShareOf
    <3>2. f = g
      BY <2>1, <3>1
    <3>3. Counted(next, u) = Counted(plan, u)
      <4> HIDE DEF f, g
      <4> QED BY <1>6, <2>1, <3>2
    <3> QED BY <2>2, <3>3 DEF Fits, Limit
  <2>3. CASE u = s
    <3>1. \A t \in Project : t # p => g[t] = 0
      BY <1>5, <1>9, <2>3 DEF ShareOf
    <3>2. g[p] = q
      BY <1>1, <1>2, <1>5, <1>9, <2>3 DEF ShareOf
    <3>3. Total(g) = q
      <4> HIDE DEF g
      <4> QED BY <1>1, <2>1, <3>1, <3>2, SourcesFinite, TotalSingle
    <3>4. Counted(next, u) = q
      <4>1. next.pool[u] = 0
        BY <1>5, <1>6, <2>3
      <4>2. Counted(next, u) = Total(g) + next.pool[u]
        BY <2>1
      <4> HIDE DEF f, g
      <4> QED BY <1>1, <3>3, <4>1, <4>2
    <3>5. Limit(coming, arrived \cup {s}, u) = q
      BY <2>3 DEF Limit, AmountOf, q
    <3> HIDE DEF f, g
    <3>6. q <= q
      BY <1>1
    <3> QED BY <3>4, <3>5, <3>6
  <2> QED BY <2>2, <2>3
<1>11. OwnersKept(coming, next)
  <2>1. OwnersKept(coming, plan)
    BY DEF Fits
  <2>2. ASSUME NEW t \in Project, NEW u \in Src, next.ready[t][u] > 0
        PROVE  u # Stock /\ coming[u].owner = t
    <3>1. CASE t = p /\ u = s
      BY <3>1 DEF p
    <3>2. CASE ~(t = p /\ u = s)
      <4>1. next.ready[t][u] = plan.ready[t][u]
        BY <1>9, <3>2
      <4> QED BY <2>1, <2>2, <4>1 DEF OwnersKept
    <3> QED BY <3>1, <3>2
  <2>3. ASSUME NEW u \in Src, next.pool[u] > 0
        PROVE  u = Stock \/ coming[u].owner = NoProject
    BY <1>6, <2>1, <2>3 DEF OwnersKept
  <2> QED BY <2>2, <2>3 DEF OwnersKept
<1>12. \A t \in Project, u \in Src : next.onTime[t][u] > 0 => Serves(coming, sel, target, t, u)
  BY <1>6 DEF Fits
<1>13. Fits(coming, sel, target, arrived \cup {s}, next)
  BY <1>8, <1>10, <1>11, <1>12 DEF Fits
<1>14. QED
  BY <1>13 DEF next

Given(sequence, drawn) ==
  [p \in Project |-> Total([i \in { j \in DOMAIN sequence : sequence[j] = p } |-> drawn[i]])]

\* What each project is given of drawn adds up to what was drawn, and is no
\* more than the one place it has in the sequence was drawn for.
LEMMA GivenFits ==
  ASSUME NEW sel \in Project, NEW sequence, Sequenced(sel, sequence),
         NEW backlog \in [Project -> Nat], NEW drawn \in [DOMAIN sequence -> Nat],
         \A i \in DOMAIN sequence : drawn[i] <= backlog[sequence[i]],
         NEW given, given = Given(sequence, drawn)
  PROVE  /\ given \in [Project -> Nat] /\ Total(given) = Total(drawn)
         /\ \A p \in Project : given[p] <= backlog[p]
<1> DEFINE S == DOMAIN sequence
           g == [i \in S |-> sequence[i]]
<1>1. IsFiniteSet(S) /\ Planned(sel) \subseteq Project /\ g \in [S -> Project]
  <2>1. S = 1 .. Cardinality(Planned(sel)) /\ Cardinality(Planned(sel)) \in Int
    BY DEF Sequenced
  <2>2. IsFiniteSet(S)
    <3> HIDE DEF S
    <3> QED BY <2>1, FS_Interval
  <2>3. Planned(sel) \subseteq Project
    BY PlannedType
  <2>4. \A i \in S : sequence[i] \in Project
    BY <2>3 DEF Sequenced
  <2> QED BY <2>2, <2>3, <2>4
<1>2. ASSUME NEW p \in Project
      PROVE  given[p] = Total(Part(drawn, Where(g, p)))
  <2> DEFINE T == { j \in S : sequence[j] = p }
  <2>1. T \in SUBSET S /\ T = Where(g, p)
    BY DEF Where
  <2>2. given[p] = Total([i \in T |-> drawn[i]])
    BY DEF Given
  <2> HIDE DEF T, S
  <2>3. Total([i \in T |-> drawn[i]]) = Total(Part(drawn, T))
    BY <2>1, TotalOfPart DEF S
  <2> QED BY <2>1, <2>2, <2>3
<1>3. given = Grouped(drawn, g, Project)
  <2> HIDE DEF g
  <2>1. given = [p \in Project |-> given[p]]
    BY DEF Given
  <2> QED BY <1>2, <2>1 DEF Grouped
<1>4. given \in [Project -> Nat] /\ Total(given) = Total(drawn)
  <2>1. drawn \in [S -> Nat]
    OBVIOUS
  <2> HIDE DEF g, S
  <2> QED BY <1>1, <1>3, <2>1, SourcesFinite, TotalGrouped
<1>5. ASSUME NEW p \in Project PROVE given[p] <= backlog[p]
  <2> DEFINE T == { j \in S : sequence[j] = p }
             f == [i \in T |-> drawn[i]]
  <2>1. given[p] = Total(f) /\ f \in [T -> Nat] /\ backlog[p] \in Nat
    BY DEF Given
  <2>2. IsFiniteSet(T)
    <3>1. T \in SUBSET S
      OBVIOUS
    <3> HIDE DEF T
    <3> QED BY <1>1, <3>1, FS_Subset
  <2>3. CASE T = {}
    <3>1. \A i \in T : f[i] = 0
      BY <2>3
    <3>2. Total(f) = 0
      <4> HIDE DEF f, T
      <4> QED BY <2>1, <2>2, <3>1, TotalZero
    <3> HIDE DEF f
    <3> QED BY <2>1, <3>2
  <2>4. CASE T # {}
    <3>1. PICK i \in T : TRUE
      BY <2>4
    <3>2. i \in S /\ sequence[i] = p /\ \A j \in T : j = i
      BY <3>1 DEF Sequenced
    <3>3. f[i] = drawn[i] /\ drawn[i] <= backlog[p]
      BY <3>2
    <3>4. Total(f) = f[i]
      <4> HIDE DEF f, T
      <4> QED BY <2>1, <2>2, <3>1, <3>2, TotalSingle
    <3> HIDE DEF f
    <3> QED BY <2>1, <3>3, <3>4
  <2> QED BY <2>3, <2>4
<1>6. QED
  BY <1>4, <1>5

\* Supply of no project, when it comes.
LEMMA GenericFits ==
  ASSUME NEW coming \in SupplyRows, PlanningOK, NEW sel \in Project, NEW target, NEW arrived, NEW plan,
         Fits(coming, sel, target, arrived, plan), NEW s \in Src \ {Stock}, s \notin arrived,
         coming[s].owner = NoProject, NEW sequence, Sequenced(sel, sequence)
  PROVE  Fits(coming, sel, target, arrived \cup {s}, GenericArrives(coming, plan, s, sequence))
<1> DEFINE D       == DOMAIN sequence
           q       == coming[s].quantity
           waiting == [i \in D |-> plan.backlog[sequence[i]]]
           before  == { p \in D \X D : p[1] < p[2] }
           drawn   == InOrder(waiting, q, before)
           given   == [p \in Project |-> Total([i \in { j \in D : sequence[j] = p } |-> drawn[i]])]
           next    == GenericArrives(coming, plan, s, sequence)
           late    == [p \in Project |-> [plan.late[p] EXCEPT ![s] = @ + given[p]]]
<1>1. /\ plan \in Plan /\ q \in Nat /\ plan.backlog \in [Project -> Nat]
      /\ plan.late \in [Project -> [Src -> Nat]]
  BY ComingType, PlanFields DEF Fits
<1>2. IsFiniteSet(D) /\ \A i \in D : i \in Nat /\ sequence[i] \in Project
  <2>1. D = 1 .. Cardinality(Planned(sel)) /\ Cardinality(Planned(sel)) \in Int
    BY DEF Sequenced
  <2>2. Planned(sel) \subseteq Project
    BY PlannedType
  <2>3. \A i \in D : i \in Nat /\ sequence[i] \in Project
    BY <2>1, <2>2 DEF Sequenced
  <2> HIDE DEF D
  <2> QED BY <2>1, <2>3, FS_Interval
<1>3. waiting \in [D -> Nat]
  <2> HIDE DEF D
  <2> QED BY <1>1, <1>2
<1>4. StrictlyOrders(before, { i \in D : waiting[i] > 0 })
  <2>1. \A i, j \in D : <<i, j>> \in before <=> i < j
    OBVIOUS
  <2> HIDE DEF D, waiting, before
  <2> QED BY <1>2, <2>1 DEF StrictlyOrders
<1>5. /\ drawn \in [D -> Nat]
      /\ \A i \in D : drawn[i] <= waiting[i] /\ drawn[i] <= q
      /\ Total(drawn) = Smaller(q, Total(waiting))
      /\ \A i, j \in D : <<i, j>> \in before /\ drawn[j] > 0 => drawn[i] = waiting[i]
  <2>1. q \in Nat /\ IsFiniteSet(D)
    BY <1>1, <1>2
  <2> HIDE DEF D, waiting, before, q
  <2> QED BY <1>3, <1>4, <2>1, InOrderDraw
<1>6. Total(waiting) \in Nat
  <2> HIDE DEF D, waiting
  <2> QED BY <1>2, <1>3, TotalType
<1>7. Total(drawn) \in Nat /\ Total(drawn) <= q
  <2> HIDE DEF D, waiting, drawn, q
  <2> QED BY <1>1, <1>5, <1>6 DEF Smaller
<1>8. /\ given \in [Project -> Nat] /\ Total(given) = Total(drawn)
      /\ \A p \in Project : given[p] <= plan.backlog[p]
  <2> DEFINE backlog == plan.backlog
  <2>1. \A i \in DOMAIN sequence : drawn[i] <= backlog[sequence[i]]
    <3> HIDE DEF drawn
    <3> QED BY <1>5
  <2>2. given = Given(sequence, drawn)
    BY DEF Given
  <2>3. drawn \in [DOMAIN sequence -> Nat]
    BY <1>5
  <2>4. backlog \in [Project -> Nat]
    BY <1>1
  <2> HIDE DEF drawn, given, D, backlog
  <2>5. /\ given \in [Project -> Nat] /\ Total(given) = Total(drawn)
        /\ \A p \in Project : given[p] <= backlog[p]
    BY <2>1, <2>2, <2>3, <2>4, GivenFits
  <2> QED BY <2>5 DEF backlog
<1>9. Total(given) \in Nat /\ q - Total(given) \in Nat /\ q - Total(given) + Total(given) = q
  <2> HIDE DEF q, given, drawn
  <2> QED BY <1>1, <1>7, <1>8
<1>10. next = [plan EXCEPT !.backlog = Minus(@, given), !.late = late,
                           !.pool[s] = q - Total(given)]
  BY Zenon DEF GenericArrives
<1>11. Counted(plan, s) <= 0
  BY DEF Fits, Limit
<1>12. plan.pool[s] = 0 /\ \A t \in Project : /\ plan.onTime[t][s] = 0 /\ plan.late[t][s] = 0
                                              /\ plan.ready[t][s] = 0
  BY <1>1, <1>11, NothingCounted
<1>13. late \in [Project -> [Src -> Nat]]
  <2> HIDE DEF given
  <2>1. \A p \in Project : plan.late[p] \in [Src -> Nat] /\ plan.late[p][s] \in Nat /\ given[p] \in Nat
    BY <1>1, <1>8
  <2> QED BY <2>1
<1>14. \A t \in Project, u \in Src :
         late[t][u] = IF u = s THEN plan.late[t][u] + given[t] ELSE plan.late[t][u]
  <2> HIDE DEF given
  <2>1. \A p \in Project : plan.late[p] \in [Src -> Nat]
    BY <1>1
  <2> QED BY <2>1
<1>15. Minus(plan.backlog, given) \in [Project -> Nat]
  <2> HIDE DEF given
  <2> QED BY <1>1, <1>8, MinusType
<1> HIDE DEF q, given, next, late, D, drawn, waiting, before
<1>16. /\ next.pool = [plan.pool EXCEPT ![s] = q - Total(given)]
       /\ next.onTime = plan.onTime /\ next.ready = plan.ready
       /\ next.poolSeen = plan.poolSeen /\ next.shortage = plan.shortage
       /\ next.backlog = Minus(plan.backlog, given)
       /\ next.late = late
       /\ next = [pool |-> next.pool, ready |-> next.ready, onTime |-> next.onTime,
                  late |-> next.late, poolSeen |-> next.poolSeen, backlog |-> next.backlog,
                  shortage |-> next.shortage]
  BY <1>1, <1>10 DEF Plan
<1>17. /\ next.pool \in [Src -> Nat] /\ next.onTime \in [Project -> [Src -> Nat]]
       /\ next.poolSeen \in [Project -> Nat] /\ next.shortage \in [Project -> Nat]
       /\ next.backlog \in [Project -> Nat]
       /\ next.late \in [Project -> [Src -> Nat]]
       /\ next.ready \in [Project -> [Src -> Nat]]
  <2>1. /\ plan.pool \in [Src -> Nat] /\ plan.onTime \in [Project -> [Src -> Nat]]
        /\ plan.poolSeen \in [Project -> Nat] /\ plan.shortage \in [Project -> Nat]
        /\ plan.ready \in [Project -> [Src -> Nat]]
    BY <1>1, PlanFields
  <2> QED BY <1>9, <1>13, <1>15, <1>16, <2>1
<1>18. next \in Plan
  BY <1>16, <1>17, PlanIs
<1>19. ASSUME NEW u \in Src
       PROVE  next.pool[u] = IF u = s THEN q - Total(given) ELSE plan.pool[u]
  <2>1. plan.pool \in [Src -> Nat]
    BY <1>1, PlanFields
  <2> QED BY <1>16, <2>1
<1>20. ASSUME NEW u \in Src PROVE Counted(next, u) <= Limit(coming, arrived \cup {s}, u)
  <2> DEFINE f == [t \in Project |-> ShareOf(plan, t, u)]
             g == [t \in Project |-> ShareOf(next, t, u)]
  <2>1. /\ f \in [Project -> Nat] /\ g \in [Project -> Nat]
        /\ Counted(plan, u) = Total(f) + plan.pool[u]
        /\ Counted(next, u) = Total(g) + next.pool[u]
    BY <1>1, <1>18, ShareType DEF Counted
  <2>2. CASE u # s
    <3>1. \A t \in Project : f[t] = g[t]
      BY <1>14, <1>16, <2>2 DEF ShareOf
    <3>2. f = g
      BY <2>1, <3>1
    <3>3. Counted(next, u) = Counted(plan, u)
      <4> HIDE DEF f, g
      <4> QED BY <1>19, <2>1, <2>2, <3>2
    <3> QED BY <2>2, <3>3 DEF Fits, Limit
  <2>3. CASE u = s
    <3>1. \A t \in Project : g[t] = given[t]
      <4>1. ASSUME NEW t \in Project PROVE ShareOf(next, t, u) = given[t]
        <5>1. next.onTime[t][u] = 0 /\ next.ready[t][u] = 0 /\ next.late[t][u] = 0 + given[t]
          BY <1>12, <1>14, <1>16, <2>3
        <5>2. given[t] \in Nat
          BY <1>8
        <5> QED BY <5>1, <5>2 DEF ShareOf
      <4> QED BY <4>1
    <3>2. g = given
      BY <1>8, <2>1, <3>1
    <3>3. Counted(next, u) = q
      <4>1. Counted(next, u) = Total(given) + (q - Total(given))
        <5> HIDE DEF f, g
        <5> QED BY <1>19, <2>1, <2>3, <3>2
      <4> QED BY <1>1, <1>9, <4>1
    <3> QED BY <1>1, <2>3, <3>3 DEF Limit, AmountOf, q
  <2> QED BY <2>2, <2>3
<1>21. OwnersKept(coming, next)
  BY <1>16, <1>19 DEF Fits, OwnersKept
<1>22. \A t \in Project, u \in Src : next.onTime[t][u] > 0 => Serves(coming, sel, target, t, u)
  BY <1>16 DEF Fits
<1>23. Fits(coming, sel, target, arrived \cup {s}, next)
  BY <1>18, <1>20, <1>21, <1>22 DEF Fits
<1>24. QED
  BY <1>23 DEF next

\* What a draw in the order of the sources takes.
LEMMA DrawInOrder ==
  ASSUME NEW coming \in SupplyRows, PlanningOK, NEW f \in [Src -> Nat], NEW n \in Nat, NEW d, d = InOrder(f, n, Before(coming))
  PROVE  /\ d \in [Src -> Nat]
         /\ \A s \in Src : d[s] <= f[s]
         /\ Total(d) \in Nat /\ Total(d) <= n
<1> DEFINE before == Before(coming)
<1>1. StrictlyOrders(before, { s \in Src : f[s] > 0 })
  <2>1. StrictlyOrders(before, Src)
    BY BeforeOrders
  <2> HIDE DEF before
  <2> QED BY <2>1 DEF StrictlyOrders
<1>2. IsFiniteSet(Src)
  BY SourcesFinite
<1>3. d = InOrder(f, n, before)
  OBVIOUS
<1> HIDE DEF before
<1>4. /\ d \in [Src -> Nat]
      /\ \A x \in Src : d[x] <= f[x] /\ d[x] <= n
      /\ Total(d) = Smaller(n, Total(f))
      /\ \A x, y \in Src : <<x, y>> \in before /\ d[y] > 0 => d[x] = f[x]
  BY <1>1, <1>2, <1>3, InOrderDraw
<1>5. Total(f) \in Nat
  BY <1>2, TotalType
<1>6. Total(d) \in Nat /\ Total(d) <= n
  BY <1>4, <1>5 DEF Smaller
<1>7. QED
  BY <1>4, <1>6

\* A demand, of supply that is there by then.
LEMMA DemandFits ==
  ASSUME NEW coming \in SupplyRows, PlanningOK, NEW sel \in Project, NEW target, NEW arrived, NEW plan,
         Fits(coming, sel, target, arrived, plan), NEW p \in Project,
         \A s \in arrived : ThereBy(coming, s, Start(sel, target, p))
  PROVE  Fits(coming, sel, target, arrived, Demanded(coming, plan, p))
<1> DEFINE required == projects[p].required
           ready    == plan.ready[p]
           pool     == plan.pool
           own      == InOrder(ready, required, Before(coming))
           generic  == InOrder(pool, required - Total(own), Before(coming))
           short    == required - Total(own) - Total(generic)
           next     == Demanded(coming, plan, p)
<1>1. /\ plan \in Plan /\ required \in Nat /\ ready \in [Src -> Nat] /\ pool \in [Src -> Nat]
      /\ plan.ready \in [Project -> [Src -> Nat]] /\ plan.onTime \in [Project -> [Src -> Nat]]
  BY PlanFields DEF Fits, PlanningOK, ProjectRow
<1>2. next = [plan EXCEPT !.onTime[p] = Plus(own, generic), !.poolSeen[p] = Total(pool),
                          !.ready[p] = Minus(@, own), !.pool = Minus(@, generic),
                          !.shortage[p] = short, !.backlog[p] = short]
  <2> DEFINE first == { pair : pair \in Before(coming) }
             mine  == InOrder(ready, required, first)
  <2>1. first = Before(coming)
    OBVIOUS
  <2>2. next = CoveredBy(plan, p, mine, InOrder(pool, required - Total(mine), first))
    BY Zenon DEF Demanded
  <2> HIDE DEF first, next
  <2>3. next = CoveredBy(plan, p, own, generic)
    BY Zenon, <2>1, <2>2
  <2> HIDE DEF own, generic
  <2> QED BY Zenon, <2>3 DEF CoveredBy
<1> HIDE DEF required, ready, pool, next
<1>3. /\ own \in [Src -> Nat] /\ \A s \in Src : own[s] <= ready[s]
      /\ Total(own) \in Nat /\ Total(own) <= required
  BY <1>1, DrawInOrder
<1>4. required - Total(own) \in Nat
  <2> HIDE DEF own
  <2> QED BY <1>1, <1>3
<1>5. /\ generic \in [Src -> Nat] /\ \A s \in Src : generic[s] <= pool[s]
      /\ Total(generic) \in Nat /\ Total(generic) <= required - Total(own)
  <2> DEFINE n == required - Total(own)
             d == generic
  <2>1. n \in Nat /\ d = InOrder(pool, n, Before(coming))
    BY <1>4
  <2> HIDE DEF n, d
  <2>2. d \in [Src -> Nat] /\ (\A s \in Src : d[s] <= pool[s]) /\ Total(d) \in Nat /\ Total(d) <= n
    BY <1>1, <2>1, DrawInOrder
  <2> QED BY <2>2 DEF n, d
<1> HIDE DEF own, generic
<1>6. short \in Nat
  BY <1>1, <1>3, <1>5
<1>7. /\ Plus(own, generic) \in [Src -> Nat] /\ Minus(ready, own) \in [Src -> Nat]
      /\ Minus(pool, generic) \in [Src -> Nat]
  <2>1. Plus(own, generic) \in [Src -> Nat]
    BY <1>3, <1>5 DEF Plus
  <2>2. Minus(ready, own) \in [Src -> Nat]
    BY <1>1, <1>3, MinusType
  <2>3. Minus(pool, generic) \in [Src -> Nat]
    BY <1>1, <1>5, MinusType
  <2> QED BY <2>1, <2>2, <2>3
<1>8. Total(pool) \in Nat
  BY <1>1, SourcesFinite, TotalType
<1> HIDE DEF short
<1>9. /\ next.pool = Minus(plan.pool, generic)
      /\ next.onTime = [plan.onTime EXCEPT ![p] = Plus(own, generic)]
      /\ next.ready = [plan.ready EXCEPT ![p] = Minus(plan.ready[p], own)]
      /\ next.late = plan.late
      /\ next.poolSeen = [plan.poolSeen EXCEPT ![p] = Total(pool)]
      /\ next.shortage = [plan.shortage EXCEPT ![p] = short]
      /\ next.backlog = [plan.backlog EXCEPT ![p] = short]
      /\ next = [pool |-> next.pool, ready |-> next.ready, onTime |-> next.onTime,
                 late |-> next.late, poolSeen |-> next.poolSeen, backlog |-> next.backlog,
                 shortage |-> next.shortage]
  BY <1>1, <1>2 DEF Plan
<1>10. /\ next.pool \in [Src -> Nat] /\ next.onTime \in [Project -> [Src -> Nat]]
       /\ next.poolSeen \in [Project -> Nat] /\ next.shortage \in [Project -> Nat]
       /\ next.backlog \in [Project -> Nat]
       /\ next.late \in [Project -> [Src -> Nat]]
       /\ next.ready \in [Project -> [Src -> Nat]]
  <2>1. /\ plan.late \in [Project -> [Src -> Nat]] /\ plan.poolSeen \in [Project -> Nat]
        /\ plan.shortage \in [Project -> Nat] /\ plan.backlog \in [Project -> Nat]
    BY <1>1, PlanFields
  <2>2. next.pool \in [Src -> Nat]
    BY <1>7, <1>9 DEF pool
  <2>3. next.ready \in [Project -> [Src -> Nat]]
    BY <1>1, <1>7, <1>9 DEF ready
  <2>4. next.onTime \in [Project -> [Src -> Nat]]
    BY <1>1, <1>7, <1>9
  <2> QED BY <1>6, <1>8, <1>9, <2>1, <2>2, <2>3, <2>4
<1>11. next \in Plan
  BY <1>9, <1>10, PlanIs
<1>12. ASSUME NEW u \in Src
       PROVE  /\ next.pool[u] = plan.pool[u] - generic[u]
              /\ \A t \in Project :
                   /\ next.late[t][u] = plan.late[t][u]
                   /\ next.onTime[t][u] = IF t = p THEN own[u] + generic[u] ELSE plan.onTime[t][u]
                   /\ next.ready[t][u] = IF t = p THEN plan.ready[t][u] - own[u] ELSE plan.ready[t][u]
  <2>1. next.pool[u] = plan.pool[u] - generic[u]
    BY <1>1, <1>9 DEF Minus, pool
  <2>2. Plus(own, generic)[u] = own[u] + generic[u] /\ Minus(plan.ready[p], own)[u] = plan.ready[p][u] - own[u]
    BY <1>1, <1>3 DEF Plus, Minus, ready
  <2>3. ASSUME NEW t \in Project
        PROVE  /\ next.onTime[t][u] = IF t = p THEN own[u] + generic[u] ELSE plan.onTime[t][u]
               /\ next.ready[t][u] = IF t = p THEN plan.ready[t][u] - own[u] ELSE plan.ready[t][u]
    BY <1>1, <1>9, <2>2
  <2> QED BY <1>9, <2>1, <2>3
<1>13. ASSUME NEW u \in Src PROVE Counted(next, u) <= Counted(plan, u)
  <2> DEFINE f == [t \in Project |-> ShareOf(plan, t, u)]
             g == [t \in Project |-> ShareOf(next, t, u)]
  <2>1. /\ f \in [Project -> Nat] /\ g \in [Project -> Nat]
        /\ Total(f) \in Nat /\ Total(g) \in Nat
        /\ Counted(plan, u) = Total(f) + plan.pool[u]
        /\ Counted(next, u) = Total(g) + next.pool[u]
    BY <1>1, <1>11, ShareType DEF Counted
  <2>2. \A t \in Project : t # p => g[t] = f[t]
    BY <1>12 DEF ShareOf
  <2>3. /\ g[p] = (own[u] + generic[u]) + plan.late[p][u] + (plan.ready[p][u] - own[u])
        /\ f[p] = plan.onTime[p][u] + plan.late[p][u] + plan.ready[p][u]
    BY <1>12 DEF ShareOf
  <2>4. /\ plan.onTime[p][u] \in Nat /\ plan.late[p][u] \in Nat /\ plan.ready[p][u] \in Nat
        /\ plan.pool[u] \in Nat /\ own[u] \in Nat /\ generic[u] \in Nat
    BY <1>1, <1>3, <1>5, ShareType
  <2>5. g[p] <= f[p] + generic[u]
    <3> DEFINE a == plan.onTime[p][u]
               b == plan.late[p][u]
               c == plan.ready[p][u]
    <3> HIDE DEF a, b, c, f, g
    <3> QED BY <2>3, <2>4 DEF a, b, c
  <2>6. Total(g) + f[p] = Total(f) + g[p]
    <3> HIDE DEF f, g
    <3> QED BY <2>1, <2>2, SourcesFinite, TotalChange
  <2>7. f[p] \in Nat /\ g[p] \in Nat
    <3> HIDE DEF f, g
    <3> QED BY <2>1
  <2>8. next.pool[u] = plan.pool[u] - generic[u]
    BY <1>12
  <2> DEFINE x == plan.pool[u]
             y == next.pool[u]
             z == generic[u]
  <2>9. x \in Nat /\ z \in Nat /\ y = x - z
    BY <2>4, <2>8
  <2>10. Total(g) + y <= Total(f) + x
    <3> HIDE DEF f, g, x, y, z
    <3>1. g[p] <= f[p] + z
      BY <2>5 DEF z
    <3> QED BY <2>1, <2>6, <2>7, <2>9, <3>1
  <2> QED BY <2>1, <2>10
<1>14. ASSUME NEW u \in Src PROVE Counted(next, u) <= Limit(coming, arrived, u)
  <2>1. Counted(plan, u) <= Limit(coming, arrived, u) /\ Counted(plan, u) \in Nat /\ Counted(next, u) \in Nat
    BY <1>1, <1>11, ShareType DEF Fits
  <2>2. Limit(coming, arrived, u) \in Nat
    BY QuantityType DEF Limit
  <2> QED BY <1>13, <2>1, <2>2
<1>15. OwnersKept(coming, next)
  <2>1. ASSUME NEW t \in Project, NEW u \in Src, next.ready[t][u] > 0
        PROVE  plan.ready[t][u] > 0
    <3>1. plan.ready[t][u] \in Nat
      BY <1>1, ShareType
    <3>2. own[u] \in Nat
      BY <1>3
    <3>3. next.ready[t][u] = plan.ready[t][u] - own[u] \/ next.ready[t][u] = plan.ready[t][u]
      BY <1>12
    <3> DEFINE a == plan.ready[t][u]
               b == own[u]
               c == next.ready[t][u]
    <3>4. a \in Nat /\ b \in Nat /\ (c = a - b \/ c = a) /\ c > 0
      BY <2>1, <3>1, <3>2, <3>3
    <3> HIDE DEF a, b, c
    <3>5. a > 0
      BY <3>4
    <3> QED BY <3>5 DEF a
  <2>2. ASSUME NEW u \in Src, next.pool[u] > 0 PROVE plan.pool[u] > 0
    <3>1. plan.pool[u] \in Nat
      BY <1>1, ShareType
    <3>2. generic[u] \in Nat
      BY <1>5
    <3>3. next.pool[u] = plan.pool[u] - generic[u]
      BY <1>12
    <3> DEFINE a == plan.pool[u]
               b == generic[u]
               c == next.pool[u]
    <3>4. a \in Nat /\ b \in Nat /\ c = a - b /\ c > 0
      BY <2>2, <3>1, <3>2, <3>3
    <3> HIDE DEF a, b, c
    <3>5. a > 0
      BY <3>4
    <3> QED BY <3>5 DEF a
  <2> QED BY <2>1, <2>2 DEF Fits, OwnersKept
<1>16. ASSUME NEW t \in Project, NEW u \in Src, next.onTime[t][u] > 0
       PROVE  Serves(coming, sel, target, t, u)
  <2>1. CASE t # p
    BY <1>12, <1>16, <2>1 DEF Fits
  <2>2. CASE t = p
    <3>1. own[u] > 0 \/ generic[u] > 0
      BY <1>3, <1>5, <1>12, <1>16, <2>2
    <3>2. plan.ready[p][u] > 0 \/ plan.pool[u] > 0
      BY <1>1, <1>3, <1>5, <3>1, ShareType DEF ready, pool
    <3>3. u # Stock => coming[u].owner \in {p, NoProject}
      BY <3>2 DEF Fits, OwnersKept
    <3>4. u \in arrived
      <4>1. CASE u \notin arrived
        <5>1. Counted(plan, u) <= 0
          BY <4>1 DEF Fits, Limit
        <5>2. plan.pool[u] = 0 /\ plan.ready[p][u] = 0
          BY <1>1, <5>1, NothingCounted
        <5> QED BY <3>2, <5>2
      <4> QED BY <4>1
    <3> QED BY <2>2, <3>3, <3>4 DEF Serves
  <2> QED BY <2>1, <2>2
<1>17. Fits(coming, sel, target, arrived, next)
  BY <1>11, <1>14, <1>15, <1>16 DEF Fits
<1>18. QED
  BY <1>17 DEF next

-----------------------------------------------------------------------------
(* The plan after all events.                                              *)

\* Stock is there, and what the events so far brought.
Arrived(coming, sel, events, i) ==
  {Stock} \cup { events[j].subject : j \in { k \in 1 .. i : SupplyEvent(coming, sel, events[k]) } }

LEMMA NettedFits ==
  ASSUME NEW coming \in SupplyRows, PlanningOK, NEW sel \in Project, NEW target, StartDate(target),
         NEW sequence, Sequenced(sel, sequence),
         NEW events, Timed(coming, sel, target, events), NEW i \in 1 .. Len(events),
         NEW plan, Fits(coming, sel, target, Arrived(coming, sel, events, i - 1), plan)
  PROVE  Fits(coming, sel, target, Arrived(coming, sel, events, i), Netted(coming, plan, events[i], sequence))
<1> DEFINE e      == events[i]
           before == Arrived(coming, sel, events, i - 1)
           after  == Arrived(coming, sel, events, i)
<1>1. /\ Len(events) \in Nat /\ EventOK(coming, sel, target, e)
      /\ \A j \in 1 .. (i - 1) : j \in 1 .. Len(events) /\ events[j].date <= e.date
  BY DEF Timed
<1>2. \A s \in before : s = Stock \/
        \E j \in 1 .. (i - 1) : SupplyEvent(coming, sel, events[j]) /\ events[j].subject = s
  BY DEF Arrived
<1>3. ASSUME SupplyEvent(coming, sel, e)
      PROVE  e.subject \notin before /\ after = before \cup {e.subject}
  <2>1. e.subject # Stock
    BY <1>3 DEF SupplyEvent
  <2>2. \A j \in 1 .. (i - 1) : SupplyEvent(coming, sel, events[j]) => events[j].subject # e.subject
    BY <1>1, <1>3 DEF Timed
  <2>3. e.subject \notin before
    BY <1>2, <2>1, <2>2
  <2>4. 1 .. i = (1 .. (i - 1)) \cup {i}
    BY <1>1
  <2>5. after = before \cup {e.subject}
    BY <1>3, <2>4 DEF Arrived
  <2> QED BY <2>3, <2>5
<1>4. CASE SupplyEvent(coming, sel, e) /\ e.kind = "dedicated"
  <2>1. e.subject \in Src \ {Stock} /\ coming[e.subject].owner \in Project
    BY <1>4, PlannedType DEF SupplyEvent
  <2>2. Netted(coming, plan, e, sequence) = DedicatedArrives(coming, plan, e.subject)
    BY <1>4 DEF Netted
  <2> HIDE DEF e, before, after
  <2>3. Fits(coming, sel, target, before \cup {e.subject}, DedicatedArrives(coming, plan, e.subject))
    BY <1>3, <1>4, <2>1, DedicatedFits DEF before
  <2>4. Fits(coming, sel, target, after, Netted(coming, plan, e, sequence))
    BY <1>3, <1>4, <2>2, <2>3
  <2> QED BY <2>4 DEF after, e
<1>5. CASE SupplyEvent(coming, sel, e) /\ e.kind = "generic"
  <2>1. e.subject \in Src \ {Stock} /\ coming[e.subject].owner = NoProject
    BY <1>5 DEF SupplyEvent
  <2>2. Netted(coming, plan, e, sequence) = GenericArrives(coming, plan, e.subject, sequence)
    BY <1>5 DEF Netted
  <2> HIDE DEF e, before, after
  <2>3. Fits(coming, sel, target, before \cup {e.subject}, GenericArrives(coming, plan, e.subject, sequence))
    BY <1>3, <1>5, <2>1, GenericFits DEF before
  <2>4. Fits(coming, sel, target, after, Netted(coming, plan, e, sequence))
    BY <1>3, <1>5, <2>2, <2>3
  <2> QED BY <2>4 DEF after, e
<1>6. CASE DemandEvent(sel, target, e)
  <2>1. /\ e.kind = "demand" /\ e.subject \in Project
        /\ e.date = Start(sel, target, e.subject)
    BY <1>6, PlannedType DEF DemandEvent
  <2>2. Netted(coming, plan, e, sequence) = Demanded(coming, plan, e.subject)
    BY <2>1 DEF Netted
  <2>3. ASSUME NEW s \in before PROVE ThereBy(coming, s, Start(sel, target, e.subject))
    <3>1. CASE s = Stock
      BY <3>1 DEF ThereBy
    <3>2. CASE s # Stock
      <4>1. PICK j \in 1 .. (i - 1) : SupplyEvent(coming, sel, events[j]) /\ events[j].subject = s
        BY <1>2, <3>2
      <4>2. events[j].date = coming[s].date
        BY <4>1 DEF SupplyEvent
      <4> QED BY <1>1, <2>1, <4>2 DEF ThereBy
    <3> QED BY <3>1, <3>2
  <2>4. after = before
    <3>1. ~SupplyEvent(coming, sel, e)
      BY <2>1 DEF SupplyEvent
    <3>2. 1 .. i = (1 .. (i - 1)) \cup {i}
      BY <1>1
    <3>3. { k \in 1 .. i : SupplyEvent(coming, sel, events[k]) }
            = { k \in 1 .. (i - 1) : SupplyEvent(coming, sel, events[k]) }
      BY <3>1, <3>2
    <3> QED BY <3>3 DEF Arrived
  <2> HIDE DEF e, before, after
  <2>5. Fits(coming, sel, target, before, Demanded(coming, plan, e.subject))
    BY <2>1, <2>3, DemandFits DEF before
  <2>6. Fits(coming, sel, target, after, Netted(coming, plan, e, sequence))
    BY <2>2, <2>4, <2>5
  <2> QED BY <2>6 DEF after, e
<1>7. QED
  BY <1>1, <1>4, <1>5, <1>6 DEF EventOK, SupplyEvent

\* The step a plan takes with an event, and plans that take them all.
Step(coming, plan, e, sequence) ==
  CHOOSE next \in {Netted(coming, plan, e, sequence)} : next \in Plan

IsPlanning(coming, sequence, events, f) ==
  f = [i \in 0 .. Len(events) |->
         IF i = 0 THEN Opening
         ELSE LET before == f[i-1]
              IN  CHOOSE next \in {Netted(coming, before, events[i], sequence)} : next \in Plan]

\* Each step is right while the plan is.
Stepwise(coming, sel, target, sequence, events, f) ==
  /\ f[0] = Opening
  /\ \A i \in 1 .. Len(events) :
       Fits(coming, sel, target, Arrived(coming, sel, events, i - 1), f[i - 1])
         => f[i] = Netted(coming, f[i - 1], events[i], sequence)

LEMMA StepwiseFits ==
  ASSUME NEW coming \in SupplyRows, PlanningOK, NEW sel \in Project, NEW target, StartDate(target),
         NEW sequence, Sequenced(sel, sequence),
         NEW events, Timed(coming, sel, target, events),
         NEW f, Stepwise(coming, sel, target, sequence, events, f)
  PROVE  \A i \in 0 .. Len(events) : Fits(coming, sel, target, Arrived(coming, sel, events, i), f[i])
<1> DEFINE N    == Len(events)
           S == { i \in Nat : i <= N => Fits(coming, sel, target, Arrived(coming, sel, events, i), f[i]) }
<1>1. N \in Nat
  BY DEF Timed
<1>2. 0 \in S
  <2>1. Arrived(coming, sel, events, 0) = {Stock}
    <3>1. 1 .. 0 = {}
      OBVIOUS
    <3> QED BY <3>1 DEF Arrived
  <2>2. Fits(coming, sel, target, {Stock}, Opening)
    BY OpeningFits
  <2>3. Fits(coming, sel, target, Arrived(coming, sel, events, 0), f[0])
    BY <2>1, <2>2 DEF Stepwise
  <2> QED BY <2>3
<1>3. ASSUME NEW n \in Nat, n \in S PROVE n + 1 \in S
  <2>1. SUFFICES ASSUME n + 1 <= N
                 PROVE  Fits(coming, sel, target, Arrived(coming, sel, events, n + 1), f[n + 1])
    OBVIOUS
  <2> DEFINE i == n + 1
  <2>2. i \in 1 .. N /\ i - 1 = n /\ n <= N
    BY <1>1, <2>1
  <2>3. Fits(coming, sel, target, Arrived(coming, sel, events, n), f[n])
    BY <1>3, <2>2
  <2> HIDE DEF i, S
  <2>4. Fits(coming, sel, target, Arrived(coming, sel, events, i - 1), f[i - 1])
    BY <2>2, <2>3
  <2>5. f[i] = Netted(coming, f[i - 1], events[i], sequence)
    BY <2>2, <2>4 DEF Stepwise
  <2>6. Fits(coming, sel, target, Arrived(coming, sel, events, i), Netted(coming, f[i - 1], events[i], sequence))
    BY <2>2, <2>4, NettedFits
  <2> QED BY <2>5, <2>6 DEF i
<1>4. \A n \in Nat : n \in S
  <2> HIDE DEF S
  <2> QED BY <1>2, <1>3, AllNumbers
<1>5. QED
  BY <1>1, <1>4

LEMMA PlanningStepwise ==
  ASSUME NEW coming \in SupplyRows, NEW sel, NEW target, NEW sequence, NEW events, Timed(coming, sel, target, events),
         PlanningOK, StartDate(target), sel \in Project, Sequenced(sel, sequence),
         NEW f, IsPlanning(coming, sequence, events, f)
  PROVE  Stepwise(coming, sel, target, sequence, events, f)
<1>1. Len(events) \in Nat
  BY DEF Timed
<1>2. f[0] = Opening
  BY <1>1 DEF IsPlanning
<1>3. ASSUME NEW i \in 1 .. Len(events),
             Fits(coming, sel, target, Arrived(coming, sel, events, i - 1), f[i - 1])
      PROVE  f[i] = Netted(coming, f[i - 1], events[i], sequence)
  <2>1. i \in 0 .. Len(events) /\ i # 0
    BY <1>1
  <2>2. f[i] = Step(coming, f[i - 1], events[i], sequence)
    BY <2>1 DEF IsPlanning, Step
  <2>3. Netted(coming, f[i - 1], events[i], sequence) \in Plan
    BY <1>3, NettedFits DEF Fits
  <2> QED BY <2>2, <2>3 DEF Step
<1>4. QED
  BY <1>2, <1>3 DEF Stepwise

\* There is such a sequence of plans, so the one that Snapshot chooses is one.
LEMMA PlanningDefined ==
  ASSUME NEW coming \in SupplyRows, PlanningOK, NEW sel \in Project, NEW target, StartDate(target),
         NEW sequence, Sequenced(sel, sequence),
         NEW events, Timed(coming, sel, target, events)
  PROVE  \E f : IsPlanning(coming, sequence, events, f)
<1> DEFINE N == Len(events)
           net(plan, i) == Netted(coming, plan, events[i], sequence)
           G == [i \in 1 .. N |-> [plan \in Plan |->
                   IF net(plan, i) \in Plan THEN net(plan, i) ELSE plan]]
<1>1. N \in Nat
  BY DEF Timed
<1>2. Opening \in Plan
  BY OpeningFits DEF Fits
<1>3. \A i \in 1 .. N : G[i] \in [Plan -> Plan]
  <2> HIDE DEF net
  <2> QED OBVIOUS
<1>4. \A i \in 1 .. N : \A plan \in Plan : net(plan, i) \in Plan => G[i][plan] = net(plan, i)
  <2> HIDE DEF net
  <2> QED OBVIOUS
<1> HIDE DEF G, N
<1>5. PICK f : StatesOn(N, Plan, Opening, G, f)
  <2>1. StepsBack(N, Plan, G)
    BY <1>3 DEF StepsBack
  <2> DEFINE X == Plan
             start == Opening
  <2>2. N \in Nat /\ start \in X /\ StepsBack(N, X, G)
    BY <1>1, <1>2, <2>1
  <2> HIDE DEF X, start
  <2>3. \E f : StatesOn(N, X, start, G, f)
    BY <2>2, StatesForward
  <2> QED BY <2>3 DEF X, start
<1>6. /\ f \in [0 .. N -> Plan] /\ f[0] = Opening
      /\ \A i \in 1 .. N : f[i] = G[i][f[i - 1]]
  BY <1>5 DEF StatesOn
<1>7. ASSUME NEW i \in 1 .. N, Fits(coming, sel, target, Arrived(coming, sel, events, i - 1), f[i - 1])
      PROVE  f[i] = Netted(coming, f[i - 1], events[i], sequence) /\ f[i] \in Plan
  <2>1. Netted(coming, f[i - 1], events[i], sequence) \in Plan
    BY <1>7, NettedFits DEF Fits, N
  <2>2. f[i - 1] \in Plan
    BY <1>7 DEF Fits
  <2> QED BY <1>4, <1>6, <2>1, <2>2
<1>8. Stepwise(coming, sel, target, sequence, events, f)
  BY <1>6, <1>7 DEF Stepwise, N
<1>9. \A i \in 0 .. N : Fits(coming, sel, target, Arrived(coming, sel, events, i), f[i])
  BY <1>8, StepwiseFits DEF N
<1>10. ASSUME NEW i \in 0 .. N
       PROVE  f[i] = IF i = 0 THEN Opening ELSE Step(coming, f[i - 1], events[i], sequence)
  <2>1. CASE i = 0
    BY <1>6, <2>1
  <2>2. CASE i # 0
    <3>1. i \in 1 .. N /\ i - 1 \in 0 .. N
      BY <1>1, <2>2
    <3>2. f[i] = Netted(coming, f[i - 1], events[i], sequence) /\ f[i] \in Plan
      BY <1>7, <1>9, <3>1
    <3> QED BY <2>2, <3>2 DEF Step
  <2> QED BY <2>1, <2>2
<1>11. f = [i \in 0 .. N |-> IF i = 0 THEN Opening ELSE Step(coming, f[i - 1], events[i], sequence)]
  BY <1>6, <1>10
<1>12. IsPlanning(coming, sequence, events, f)
  BY Zenon, <1>11 DEF IsPlanning, Step, N
<1>13. QED
  BY <1>12

\* Every plan is of supply that is there, by then.
LEMMA PlanFits ==
  ASSUME NEW coming \in SupplyRows, PlanningOK, NEW sel \in Project, NEW target, StartDate(target)
  PROVE  \E arrived : Fits(coming, sel, target, arrived, NettedPlan(coming, sel, target))
<1> DEFINE sequence == Sequence(sel, target)
           events   == Events(coming, sel, target)
           f        == CHOOSE g : IsPlanning(coming, sequence, events, g)
<1>1. Sequenced(sel, sequence) /\ Timed(coming, sel, target, events)
  BY SequenceIsSequenced, EventsAreTimed
<1>2. NettedPlan(coming, sel, target) = f[Len(events)]
  BY Zenon DEF NettedPlan, IsPlanning
<1> HIDE DEF sequence, events
<1>3. IsPlanning(coming, sequence, events, f)
  <2>1. \E g : IsPlanning(coming, sequence, events, g)
    BY <1>1, PlanningDefined
  <2> QED BY <2>1
<1> HIDE DEF f
<1>4. Stepwise(coming, sel, target, sequence, events, f)
  BY <1>1, <1>3, PlanningStepwise
<1>5. \A i \in 0 .. Len(events) : Fits(coming, sel, target, Arrived(coming, sel, events, i), f[i])
  BY <1>1, <1>4, StepwiseFits
<1>6. Len(events) \in 0 .. Len(events)
  BY <1>1 DEF Timed
<1>7. QED
  BY <1>2, <1>5, <1>6

LEMMA ComingNow == PlanningOK => Coming \in SupplyRows
BY ComingIsSupply DEF Coming, PlanningOK

\* The plan of what is coming now.
LEMMA SnapshotFits ==
  ASSUME PlanningOK, NEW sel \in Project, NEW target, StartDate(target)
  PROVE  \E arrived : Fits(Coming, sel, target, arrived, Snapshot(sel, target))
BY ComingNow, PlanFits DEF Snapshot

-----------------------------------------------------------------------------
(* What the calls about plans leave of the tables.                         *)

ConfirmingType ==
  /\ confirming \in [Project -> [Src -> Nat]]
  /\ seen \in [Project -> [Order -> OrderLine]]

LEMMA AllocTypeParts == AllocTypeOK <=> PlanningOK /\ Positive /\ ConfirmingType
BY DEF AllocTypeOK, PlanningOK, Positive, ConfirmingType

LEMMA AllocTypePartsAfter == PlanningOK' /\ Positive' /\ ConfirmingType' => AllocTypeOK'
BY DEF AllocTypeOK, PlanningOK, Positive, ConfirmingType

\* A line taken in part is an order line that can be split as it was read.
LEMMA PartsTaken ==
  ASSUME NEW planned \in [Src -> Nat], NEW read \in [Order -> OrderLine],
         Writable(planned, read), NEW o \in PartTaken(planned, read)
  PROVE  /\ o \in Order /\ planned[o] \in Nat /\ planned[o] > 0
         /\ ShareRead(read[o], planned[o]) \in Nat /\ ShareRead(read[o], planned[o]) > 0
         /\ read[o].amount - planned[o] \in Nat /\ read[o].amount - planned[o] > 0
         /\ read[o].ordered - ShareRead(read[o], planned[o]) \in Nat
         /\ read[o].ordered - ShareRead(read[o], planned[o]) > 0
<1>1. o \in Order /\ planned[o] > 0
  BY DEF PartTaken, Taken
<1>2. planned[o] \in Nat
  BY <1>1, ConstantsAssumption, PlanningAssumption DEF Src, Order
<1>3. CanSplit(read[o], planned[o])
  BY DEF Writable
<1>4. read[o].ordered \in Nat /\ read[o].amount \in Nat
  BY <1>1 DEF OrderLine
<1> DEFINE part  == planned[o]
           share == ShareRead(read[o], part)
<1>5. share > 0 /\ share < read[o].ordered /\ part < read[o].amount
  BY <1>3 DEF CanSplit
<1>6. share \in Nat
  <2> DEFINE a == read[o].amount
             b == read[o].ordered
  <2>1. a \in Nat /\ b \in Nat /\ part \in Nat /\ part < a
    BY <1>2, <1>4, <1>5
  <2>2. share = (b * part) \div a
    BY DEF ShareRead
  <2> HIDE DEF a, b, part, share
  <2>3. b * part \in Nat /\ a > 0
    BY <2>1
  <2> QED BY <1>5, <2>2, <2>3
<1> HIDE DEF share, part
<1>7. /\ read[o].ordered - share \in Nat /\ read[o].ordered - share > 0
      /\ read[o].amount - part \in Nat /\ read[o].amount - part > 0
  BY <1>2, <1>4, <1>5, <1>6 DEF part
<1>8. QED
  BY <1>1, <1>2, <1>5, <1>6, <1>7 DEF share, part

LEMMA OrderKey ==
  ASSUME NEW S \in SUBSET Order
  PROVE  Listed(S, SortOrder(S, [o \in Order |-> <<o>>]), Sorted(S, [o \in Order |-> <<o>>]))
<1> DEFINE key == [o \in Order |-> <<o>>]
<1>1. IsFiniteSet(S)
  BY Finite, FS_Subset
<1>2. \A o \in Order : key[o] = <<o>> /\ key[o] \in Rows(1) /\ key[o][1] = o
  BY ConstantsAssumption DEF Order, Rows
<1> HIDE DEF key
<1>3. IsKey(S, 1, key)
  BY <1>2 DEF IsKey
<1>4. Listed(S, SortOrder(S, key), Sorted(S, key))
  BY <1>1, <1>3, SortedIsList
<1>5. QED
  BY <1>4 DEF key

GoodLine(line) ==
  line \in OrderLine /\ (line.status = "Ordered" => line.amount > 0 /\ line.ordered > 0)

\* What is left of a line of which a part is taken, and that part.
LEMMA SplitLinesGood ==
  ASSUME TypeOK, NEW planned \in [Src -> Nat], NEW read \in [Order -> OrderLine],
         Writable(planned, read), NEW o \in PartTaken(planned, read), NEW p \in Project
  PROVE  GoodLine(LeftOf(o, planned, read)) /\ GoodLine(GivenTo(p, o, planned, read))
<1> DEFINE part  == planned[o]
           share == ShareRead(read[o], part)
           rest  == read[o].amount - part
           kept  == read[o].ordered - share
<1>1. /\ o \in Order /\ part \in Nat /\ part > 0 /\ share \in Nat /\ share > 0
      /\ rest \in Nat /\ rest > 0 /\ kept \in Nat /\ kept > 0
  BY PartsTaken
<1>2. orders[o] \in OrderLine /\ read[o].eta \in 0 .. MaxEta
  BY <1>1 DEF TypeOK, OrderLine
<1>3. LeftOf(o, planned, read) = [orders[o] EXCEPT !.amount = rest, !.ordered = kept]
  BY DEF LeftOf
<1>4. GivenTo(p, o, planned, read) =
        [status |-> "Ordered", amount |-> part, ordered |-> share, project |-> p,
         eta |-> read[o].eta]
  BY DEF GivenTo
<1> HIDE DEF rest, kept, share, part
<1>5. GoodLine(LeftOf(o, planned, read))
  BY <1>1, <1>2, <1>3 DEF GoodLine, OrderLine
<1>6. GoodLine(GivenTo(p, o, planned, read))
  BY <1>1, <1>2, <1>4 DEF GoodLine, OrderLine
<1>7. QED
  BY <1>5, <1>6

\* Each new line stands for one that was taken in part.
LEMMA NewLinesAreParts ==
  ASSUME NEW planned, NEW read
  PROVE  LET parts == Sorted(PartTaken(planned, read), [o \in Order |-> <<o>>])
         IN  \A i \in DOMAIN parts : parts[i] \in PartTaken(planned, read)
<1> DEFINE S == PartTaken(planned, read)
<1>1. S \in SUBSET Order
  BY DEF PartTaken, Taken
<1> HIDE DEF S
<1>2. Listed(S, SortOrder(S, [o \in Order |-> <<o>>]), Sorted(S, [o \in Order |-> <<o>>]))
  BY <1>1, OrderKey
<1>3. \A i \in DOMAIN Sorted(S, [o \in Order |-> <<o>>]) : Sorted(S, [o \in Order |-> <<o>>])[i] \in S
  BY <1>2 DEF Listed
<1>4. QED
  BY <1>3 DEF S

LEMMA DedicatedType ==
  ASSUME TypeOK, Positive, NEW planned \in [Src -> Nat], NEW read \in [Order -> OrderLine],
         Writable(planned, read), NEW p \in Project
  PROVE  /\ Dedicated(p, planned, read) \in [Order -> OrderLine]
         /\ \A o \in Order : GoodLine(Dedicated(p, planned, read)[o])
<1> DEFINE parts  == Sorted(PartTaken(planned, read), [o \in Order |-> <<o>>])
           unused == { o \in Order : orders[o].status = "Unused" }
           spare  == Sorted(unused, [o \in Order |-> <<o>>])
           splits == { i \in DOMAIN parts : i \in DOMAIN spare }
           lines  == Dedicated(p, planned, read)
<1>1. \A i \in splits : parts[i] \in PartTaken(planned, read)
  BY NewLinesAreParts
<1>2. \A o \in Order : GoodLine(orders[o])
  BY DEF GoodLine, Positive, TypeOK
<1>3. ASSUME NEW o \in Order
      PROVE  \/ lines[o] = GivenWhole(p, o, read)
             \/ o \in PartTaken(planned, read) /\ lines[o] = LeftOf(o, planned, read)
             \/ \E i \in splits : lines[o] = GivenTo(p, parts[i], planned, read)
             \/ lines[o] = orders[o]
  <2>1. lines[o] =
         CASE o \in Whole(planned, read) -> GivenWhole(p, o, read)
           [] o \in PartTaken(planned, read) -> LeftOf(o, planned, read)
           [] \E i \in splits : spare[i] = o ->
                GivenTo(p, parts[CHOOSE i \in splits : spare[i] = o], planned, read)
           [] OTHER -> orders[o]
    BY DEF Dedicated
  <2>2. (\E i \in splits : spare[i] = o) => (CHOOSE i \in splits : spare[i] = o) \in splits
    OBVIOUS
  <2> HIDE DEF lines, splits, spare, parts
  <2> QED BY <2>1, <2>2
<1>4. ASSUME NEW o \in Order PROVE GoodLine(lines[o])
  <2>1. GoodLine(GivenWhole(p, o, read))
    <3>1. read[o].eta \in 0 .. MaxEta
      BY DEF OrderLine
    <3>2. orders[o] \in OrderLine
      BY DEF TypeOK
    <3> QED BY <1>2, <3>1, <3>2 DEF GoodLine, OrderLine, GivenWhole
  <2>2. \A q \in PartTaken(planned, read) :
          GoodLine(LeftOf(q, planned, read)) /\ GoodLine(GivenTo(p, q, planned, read))
    BY SplitLinesGood
  <2>3. \/ lines[o] = GivenWhole(p, o, read)
        \/ o \in PartTaken(planned, read) /\ lines[o] = LeftOf(o, planned, read)
        \/ \E i \in splits : lines[o] = GivenTo(p, parts[i], planned, read)
        \/ lines[o] = orders[o]
    BY <1>3
  <2> HIDE DEF lines, splits, parts
  <2> QED BY <1>1, <1>2, <2>1, <2>2, <2>3
<1>5. lines = [o \in Order |-> lines[o]]
  BY DEF Dedicated
<1>6. \A o \in Order : lines[o] \in OrderLine
  BY <1>4 DEF GoodLine
<1>7. lines \in [Order -> OrderLine]
  <2> HIDE DEF lines
  <2> QED BY <1>5, <1>6
<1>8. QED
  BY <1>4, <1>7

\* A date a plan may be asked for is a date.
LEMMA TargetsType ==
  ASSUME PlanningOK, NEW p \in Project, NEW target \in Targets(p)
  PROVE  StartDate(target)
<1>1. projects[p].start \in 0 .. MaxEta
  BY DEF PlanningOK, ProjectRow
<1>2. Today \in 1 .. MaxEta /\ MaxEta \in Nat
  BY ConstantsAssumption, PlanningAssumption
<1>3. \A t \in Today .. MaxEta : t \in 0 .. MaxEta
  BY <1>2
<1>4. target \in Today .. MaxEta \/ target = Today \/ target = projects[p].start
  BY DEF Targets
<1>5. QED
  BY <1>1, <1>2, <1>3, <1>4 DEF StartDate

LEMMA SnapshotType ==
  ASSUME PlanningOK, NEW p \in Project, NEW target \in Targets(p)
  PROVE  Snapshot(p, target) \in Plan
BY TargetsType, SnapshotFits DEF Fits

\* The tables of Reservations are not touched.
LEMMA SameSupply ==
  ASSUME AllocTypeOK, UNCHANGED vars, projects' \in [Project -> ProjectRow],
         quotes' \in [Quote -> QuoteRow], ConfirmingType'
  PROVE  AllocTypeOK'
<1>1. PlanningOK /\ Positive /\ ConfirmingType
  BY AllocTypeParts
<1>2. PlanningOK' /\ Positive'
  BY <1>1 DEF PlanningOK, TypeOK, vars, Positive
<1>3. QED
  BY <1>2, AllocTypePartsAfter

LEMMA ConfirmedType ==
  ASSUME PlanningOK, NEW p \in Project, NEW target, StartDate(target)
  PROVE  Confirmed(p, target) \in [Project -> ProjectRow]
<1> DEFINE row == IF projects[p].status = "PLANNING"
                  THEN [projects[p] EXCEPT !.status = "CONFIRMED", !.start = target]
                  ELSE projects[p]
<1>1. projects \in [Project -> ProjectRow]
  BY DEF PlanningOK
<1>2. Confirmed(p, target) = [projects EXCEPT ![p] = row]
  BY <1>1 DEF Confirmed
<1>3. row \in ProjectRow
  BY <1>1 DEF ProjectRow, StartDate
<1> HIDE DEF row
<1>4. QED
  BY <1>1, <1>2, <1>3

LEMMA QuoteSteps ==
  ASSUME AllocTypeOK
  PROVE  /\ \A p \in Project, row \in RequestedProjects : UpdateProject(p, row) => AllocTypeOK'
         /\ \A p \in Project : \A target \in Targets(p) :
              ConfirmForProcurement(p, target) => AllocTypeOK'
         /\ \A p \in Project, n \in Quote : \A target \in Targets(p) :
              CreateRfq(p, n, target) => AllocTypeOK'
         /\ \A p \in RequestedFor, n \in Quote, q \in 1 .. MaxQuantity :
              AddProcurementLine(n, p, q) => AllocTypeOK'
         /\ \A n \in Quote, eta \in 1 .. MaxEta : QuoteLine(n, eta) => AllocTypeOK'
<1>1. PlanningOK /\ ConfirmingType
  BY AllocTypeParts
<1>2. projects \in [Project -> ProjectRow] /\ quotes \in [Quote -> QuoteRow]
  BY <1>1 DEF PlanningOK
<1>3. confirming' = confirming /\ seen' = seen => ConfirmingType'
  BY <1>1 DEF ConfirmingType
<1>4. ASSUME NEW p \in Project, NEW row \in RequestedProjects, UpdateProject(p, row)
      PROVE  AllocTypeOK'
  <2>1. row \in ProjectRow
    BY PlanningAssumption
  <2>2. projects' \in [Project -> ProjectRow]
    BY <1>2, <1>4, <2>1 DEF UpdateProject
  <2> QED BY <1>2, <1>3, <1>4, <2>2, SameSupply DEF UpdateProject
<1>5. ASSUME NEW p \in Project, NEW target \in Targets(p), ConfirmForProcurement(p, target)
      PROVE  AllocTypeOK'
  <2>1. projects' \in [Project -> ProjectRow]
    BY <1>1, <1>5, TargetsType, ConfirmedType DEF ConfirmForProcurement
  <2> QED BY <1>2, <1>3, <1>5, <2>1, SameSupply DEF ConfirmForProcurement
<1>6. ASSUME NEW p \in Project, NEW n \in Quote, NEW target \in Targets(p),
             CreateRfq(p, n, target)
      PROVE  AllocTypeOK'
  <2> DEFINE short == Snapshot(p, target).shortage[p]
             row   == [status |-> "DRAFT", project |-> p, quantity |-> short, eta |-> NoEta]
  <2>1. short \in Nat
    BY <1>1, SnapshotType, PlanFields
  <2>2. row \in QuoteRow
    <3> HIDE DEF short
    <3> QED BY <2>1, ConstantsAssumption DEF QuoteRow, NoEta
  <2>3. quotes' = [quotes EXCEPT ![n] = row]
    BY <1>6 DEF CreateRfq
  <2>4. quotes' \in [Quote -> QuoteRow]
    <3> HIDE DEF row
    <3> QED BY <1>2, <2>2, <2>3
  <2>5. projects' \in [Project -> ProjectRow]
    BY <1>1, <1>6, TargetsType, ConfirmedType DEF CreateRfq
  <2>6. UNCHANGED <<vars, confirming, seen>>
    BY <1>6 DEF CreateRfq
  <2> QED BY <1>3, <2>4, <2>5, <2>6, SameSupply
<1>7. ASSUME NEW p \in RequestedFor, NEW n \in Quote, NEW q \in 1 .. MaxQuantity,
             AddProcurementLine(n, p, q)
      PROVE  AllocTypeOK'
  <2>1. p \in Project \cup {NoProject} /\ q \in Nat /\ MaxEta \in Nat
    BY ConstantsAssumption, PlanningAssumption
  <2>2. quotes' \in [Quote -> QuoteRow]
    BY <1>2, <1>7, <2>1 DEF AddProcurementLine, QuoteRow, NoEta
  <2> QED BY <1>2, <1>3, <1>7, <2>2, SameSupply DEF AddProcurementLine
<1>8. ASSUME NEW n \in Quote, NEW eta \in 1 .. MaxEta, QuoteLine(n, eta)
      PROVE  AllocTypeOK'
  <2> DEFINE row == [quotes[n] EXCEPT !.status = "QUOTED", !.eta = eta]
  <2>0. row \in QuoteRow
    <3>1. quotes[n] \in QuoteRow /\ eta \in 0 .. MaxEta
      BY <1>2, ConstantsAssumption
    <3> QED BY <3>1 DEF QuoteRow
  <2>1. quotes' \in [Quote -> QuoteRow]
    <3>1. quotes' = [quotes EXCEPT ![n] = row]
      BY <1>2, <1>8 DEF QuoteLine, Quoted
    <3> HIDE DEF row
    <3> QED BY <1>2, <2>0, <3>1
  <2> QED BY <1>2, <1>3, <1>8, <2>1, SameSupply DEF QuoteLine
<1>9. QED
  BY <1>4, <1>5, <1>6, <1>7, <1>8

LEMMA ReserveRequirementsType ==
  ASSUME AllocTypeOK, NEW p \in Project, NEW r \in Reservation, ReserveRequirements(p, r)
  PROVE  AllocTypeOK'
<1> DEFINE q == Smaller(projects[p].required, Total(Available))
<1>1. PlanningOK /\ Positive /\ ConfirmingType
  BY AllocTypeParts
<1>2. TypeOK /\ projects[p].required \in Nat /\ Total(Available) \in Nat
  BY <1>1, ReadsType, Finite, TotalType DEF PlanningOK, ProjectRow
<1>3. q \in Nat /\ NoOrder \in Source
  BY <1>2 DEF Smaller, Source
<1>4. Reserve(r, q, p, NoOrder) /\ UNCHANGED <<onHand, orders, projects, quotes, confirming, seen>>
  BY DEF ReserveRequirements, CreateReservation
<1> HIDE DEF q
<1>5. TypeOK'
  BY <1>2, <1>3, <1>4, ReserveType DEF TypeOK
<1>6. PlanningOK' /\ Positive' /\ ConfirmingType'
  BY <1>1, <1>4, <1>5 DEF PlanningOK, Positive, ConfirmingType
<1>7. QED
  BY <1>6, AllocTypePartsAfter

LEMMA ReadPlanType ==
  ASSUME AllocTypeOK, NEW p \in Project, NEW target \in Targets(p), ReadPlan(p, target)
  PROVE  AllocTypeOK'
<1> DEFINE plan == Snapshot(p, target)
<1>1. PlanningOK /\ ConfirmingType
  BY AllocTypeParts
<1>2. plan \in Plan
  BY <1>1, SnapshotType
<1>3. ToPersist(p, target) \in [Src -> Nat]
  <2>1. ToPersist(p, target) =
          [s \in Src |-> IF s > MaxOrder \/ (s # Stock /\ orders[s].project = p) THEN 0
                         ELSE plan.onTime[p][s]]
    BY DEF ToPersist
  <2>2. \A s \in Src : plan.onTime[p][s] \in Nat
    <3> HIDE DEF plan
    <3> QED BY <1>2, PlanFields
  <2> HIDE DEF plan
  <2> QED BY <2>1, <2>2
<1>4. /\ confirming' = [confirming EXCEPT ![p] = ToPersist(p, target)]
      /\ UNCHANGED planVars /\ UNCHANGED seen
  BY DEF ReadPlan
<1>5. ConfirmingType'
  BY <1>1, <1>3, <1>4 DEF ConfirmingType
<1>6. QED
  BY <1>1, <1>4, <1>5, SameSupply DEF planVars, PlanningOK

LEMMA ReadLineType ==
  ASSUME AllocTypeOK, NEW p \in Project, NEW o \in Order, ReadLine(p, o)
  PROVE  AllocTypeOK'
<1>1. PlanningOK /\ ConfirmingType /\ orders[o] \in OrderLine
  BY AllocTypeParts DEF PlanningOK, TypeOK
<1>2. seen' = [seen EXCEPT ![p][o] = orders[o]] /\ UNCHANGED planVars /\ UNCHANGED confirming
  BY DEF ReadLine
<1>3. ConfirmingType'
  BY <1>1, <1>2 DEF ConfirmingType
<1>4. QED
  BY <1>1, <1>2, <1>3, SameSupply DEF planVars, PlanningOK

LEMMA NothingRead == Nothing \in [Src -> Nat] /\ NoLines \in [Order -> OrderLine]
<1>1. Nothing \in [Src -> Nat]
  BY DEF Nothing
<1>2. Unread \in OrderLine
  BY ConstantsAssumption DEF Unread, OrderLine, NoEta
<1>3. NoLines \in [Order -> OrderLine]
  BY <1>2 DEF NoLines
<1>4. QED
  BY <1>1, <1>3

LEMMA EndedType ==
  ASSUME ConfirmingType, NEW p \in Project, Ended(p)
  PROVE  ConfirmingType'
BY NothingRead DEF ConfirmingType, Ended

LEMMA PersistPlanType ==
  ASSUME AllocTypeOK, NEW p \in Project, NEW r \in Reservation, PersistPlan(p, r)
  PROVE  AllocTypeOK'
<1> DEFINE planned == confirming[p]
           read    == seen[p]
<1>1. PlanningOK /\ Positive /\ ConfirmingType /\ TypeOK
  BY AllocTypeParts DEF PlanningOK
<1>2. /\ planned \in [Src -> Nat] /\ planned[Stock] \in Nat
      /\ read \in [Order -> OrderLine]
  BY <1>1, ConstantsAssumption, PlanningAssumption DEF ConfirmingType, Src, Stock
<1>3. /\ Writable(planned, read) /\ orders' = Dedicated(p, planned, read)
      /\ Ended(p)
      /\ UNCHANGED <<onHand, projects, quotes>>
      /\ \/ Reserve(r, planned[Stock], p, NoOrder)
         \/ UNCHANGED <<reservations, allocated, incoming>>
  BY DEF PersistPlan
<1> HIDE DEF planned, read
<1>4. orders' \in [Order -> OrderLine] /\ Positive'
  BY <1>1, <1>2, <1>3, DedicatedType DEF Positive, GoodLine
<1>5. /\ reservations' \in [Reservation -> ReservationRow]
      /\ allocated' \in [Reservation -> [Location -> Nat]]
      /\ incoming' \in [Reservation -> [Source -> Nat]]
  <2>1. CASE Reserve(r, planned[Stock], p, NoOrder)
    BY <1>1, <1>2, <2>1, ReserveType DEF Source
  <2>2. CASE UNCHANGED <<reservations, allocated, incoming>>
    BY <1>1, <2>2 DEF TypeOK
  <2> QED BY <1>3, <2>1, <2>2
<1>6. PlanningOK'
  BY <1>1, <1>3, <1>4, <1>5 DEF PlanningOK, TypeOK
<1>7. ConfirmingType'
  BY <1>1, <1>3, EndedType
<1>8. QED
  BY <1>4, <1>6, <1>7, AllocTypePartsAfter

LEMMA DropPlanType ==
  ASSUME AllocTypeOK, NEW p \in Project, DropPlan(p)
  PROVE  AllocTypeOK'
<1>1. PlanningOK /\ ConfirmingType
  BY AllocTypeParts
<1>2. Ended(p) /\ UNCHANGED planVars
  BY DEF DropPlan
<1>3. ConfirmingType'
  BY <1>1, <1>2, EndedType
<1>4. QED
  BY <1>1, <1>2, <1>3, SameSupply DEF planVars, PlanningOK

LEMMA AllocArrivalType ==
  ASSUME AllocTypeOK, NEW o \in Order, FullArrival(o, STOCK),
         UNCHANGED <<projects, quotes, confirming, seen>>
  PROVE  AllocTypeOK'
<1>1. PlanningOK /\ Positive /\ ConfirmingType /\ TypeOK
  BY AllocTypeParts DEF PlanningOK
<1>2. TypeOK'
  BY <1>1, ConstantsAssumption, FullArrivalType
<1>3. Positive'
  BY <1>1 DEF FullArrival, LineOf, Positive, TypeOK
<1>4. PlanningOK' /\ ConfirmingType'
  BY <1>1, <1>2 DEF PlanningOK, ConfirmingType
<1>5. QED
  BY <1>3, <1>4, AllocTypePartsAfter

LEMMA AllocTypeStep == AllocTypeOK /\ [AllocNext]_allocVars => AllocTypeOK'
<1> SUFFICES ASSUME AllocTypeOK, [AllocNext]_allocVars PROVE AllocTypeOK'
  OBVIOUS
<1>1. CASE \E p \in Project, r \in Reservation : ReserveRequirements(p, r)
  BY <1>1, ReserveRequirementsType
<1>2. CASE \E p \in Project : \E target \in Targets(p) : ReadPlan(p, target)
  BY <1>2, ReadPlanType
<1>3. CASE \E p \in Project, r \in Reservation : PersistPlan(p, r)
  BY <1>3, PersistPlanType
<1>4. CASE \E p \in Project : DropPlan(p)
  BY <1>4, DropPlanType
<1>5. CASE \E p \in Project, o \in Order : ReadLine(p, o)
  BY <1>5, ReadLineType
<1>6. CASE \E o \in Order, l \in {STOCK} :
             FullArrival(o, l) /\ UNCHANGED <<projects, quotes, confirming, seen>>
  BY <1>6, AllocArrivalType
<1>7. CASE UNCHANGED allocVars
  <2>1. PlanningOK /\ ConfirmingType
    BY AllocTypeParts
  <2> QED BY <1>7, <2>1, SameSupply DEF allocVars, planVars, PlanningOK, ConfirmingType
<1>8. QED
  BY <1>1, <1>2, <1>3, <1>4, <1>5, <1>6, <1>7, QuoteSteps DEF AllocNext

\* Whatever is planned, quoted, reserved and confirmed, also from a plan that
\* is stale, every open line has positive quantities: no line is split to
\* nothing.
THEOREM AllocTypeCorrect == AllocSpec => []AllocTypeOK
<1>1. AllocInit => AllocTypeOK
  <2> SUFFICES ASSUME AllocInit PROVE PlanningOK /\ Positive /\ ConfirmingType
    BY AllocTypeParts
  <2>1. TypeOK
    BY ConstantsAssumption DEF AllocInit, Init, TypeOK, ReservationRow
  <2>2. Positive
    BY ConstantsAssumption DEF AllocInit, Init, Positive
  <2>3. projects \in [Project -> ProjectRow]
    BY PlanningAssumption DEF AllocInit
  <2>4. quotes \in [Quote -> QuoteRow]
    BY ConstantsAssumption DEF AllocInit, QuoteRow, NoEta
  <2>5. ConfirmingType
    BY NothingRead DEF AllocInit, ConfirmingType
  <2>6. QED
    BY <2>1, <2>2, <2>3, <2>4, <2>5 DEF PlanningOK
<1>2. QED
  BY <1>1, AllocTypeStep, PTL DEF AllocSpec

\* In every plan the program may be asked for, each source covers what the
\* quantity there is of it covers, and none covers a project it is not for.
LEMMA PlansUseSupplyOnce == AllocTypeOK => PlanUsesSupplyOnce
<1> SUFFICES ASSUME AllocTypeOK, NEW v \in PlansAtRest, NEW s \in Src
             PROVE  LET plan == Snapshot(v[1], v[2])
                    IN  /\ Total([p \in Project |-> plan.onTime[p][s] + plan.late[p][s]]) <= QuantityOf(s)
                        /\ \A p \in Project : plan.onTime[p][s] > 0 =>
                             /\ ArrivesBy(s, Start(v[1], v[2], p))
                             /\ s # Stock => Coming[s].owner \in {p, NoProject}
  BY Zenon DEF PlanUsesSupplyOnce
<1> DEFINE sel    == v[1]
           target == v[2]
           plan   == Snapshot(sel, target)
           taken  == [p \in Project |-> plan.onTime[p][s] + plan.late[p][s]]
           shares == [p \in Project |-> ShareOf(plan, p, s)]
<1>1. PlanningOK
  BY AllocTypeParts
<1>2. sel \in Project /\ target \in Targets(sel)
  BY DEF PlansAtRest, Views
<1>3. PICK arrived : Fits(Coming, sel, target, arrived, plan)
  BY <1>1, <1>2, TargetsType, SnapshotFits
<1> HIDE DEF plan, sel, target
<1>4. /\ plan \in Plan /\ Counted(plan, s) <= Limit(Coming, arrived, s)
      /\ \A p \in Project : plan.onTime[p][s] > 0 => Serves(Coming, sel, target, p, s)
  BY <1>3 DEF Fits
<1>5. \A p \in Project : /\ plan.onTime[p][s] \in Nat /\ plan.late[p][s] \in Nat
                         /\ plan.ready[p][s] \in Nat
  BY <1>4, ShareType
<1>6. taken \in [Project -> Nat] /\ shares \in [Project -> Nat]
  BY <1>4, <1>5, ShareType
<1>7. \A p \in Project : taken[p] <= shares[p]
  <2> SUFFICES ASSUME NEW p \in Project PROVE taken[p] <= shares[p]
    OBVIOUS
  <2> DEFINE a == plan.onTime[p][s]
             b == plan.late[p][s]
             c == plan.ready[p][s]
  <2>1. taken[p] = a + b /\ shares[p] = a + b + c
    BY DEF ShareOf
  <2>2. a \in Nat /\ b \in Nat /\ c \in Nat
    BY <1>5
  <2> HIDE DEF a, b, c, taken, shares
  <2> QED BY <2>1, <2>2
<1>8. Counted(plan, s) = Total(shares) + plan.pool[s] /\ plan.pool[s] \in Nat
  BY <1>4, ShareType DEF Counted
<1>9. Limit(Coming, arrived, s) <= QuantityOf(s) /\ QuantityOf(s) \in Nat
  <2>1. AmountOf(Coming, s) = QuantityOf(s)
    BY DEF AmountOf, QuantityOf
  <2> QED BY <1>1, <2>1, ComingNow, QuantityType DEF Limit
<1>10. Total(taken) <= Total(shares) /\ Total(taken) \in Nat /\ Total(shares) \in Nat
  <2> HIDE DEF taken, shares
  <2> QED BY <1>6, <1>7, SourcesFinite, TotalMonotone, TotalType
<1>11. Total(taken) <= QuantityOf(s)
  <2>1. Limit(Coming, arrived, s) \in Nat
    BY <1>1, ComingNow, QuantityType DEF Limit
  <2> HIDE DEF taken, shares
  <2> QED BY <1>4, <1>8, <1>9, <1>10, <2>1
<1>12. \A p \in Project : plan.onTime[p][s] > 0 =>
          /\ ArrivesBy(s, Start(sel, target, p))
          /\ s # Stock => Coming[s].owner \in {p, NoProject}
  BY <1>4 DEF Serves, ThereBy, ArrivesBy
<1>13. QED
  BY Zenon, <1>11, <1>12 DEF plan, sel, target

\* No plan counts a unit of supply twice, for two projects or for two uses, and
\* what covers a project on time is there by then, and its own or nobody's.
THEOREM PlansCorrect == AllocSpec => []PlanUsesSupplyOnce
BY AllocTypeCorrect, PlansUseSupplyOnce, PTL

-----------------------------------------------------------------------------
(* What a confirmation gives its project.                                  *)

\* The lines a confirmation leaves: the whole lines and the new ones, N, are
\* the project's; each new line stands for one that was taken in part.
DedicatedAs(p, planned, N, b, lines) ==
  /\ N \in SUBSET Order /\ b \in Bijection(N, PartTaken(planned, orders))
  /\ \A o \in N : orders[o].status = "Unused" /\ lines[o] = GivenTo(p, b[o], planned, orders)
  /\ \A o \in Whole(planned, orders) : lines[o] = GivenWhole(p, o, orders)
  /\ \A o \in PartTaken(planned, orders) : lines[o] = LeftOf(o, planned, orders)
  /\ \A o \in Order : o \notin N /\ o \notin Whole(planned, orders) /\ o \notin PartTaken(planned, orders)
       => lines[o] = orders[o]

TakenLines(planned) ==
  /\ Whole(planned, orders) \in SUBSET Order /\ PartTaken(planned, orders) \in SUBSET Order
  /\ \A o \in Whole(planned, orders) : /\ o \notin PartTaken(planned, orders) /\ orders[o].status = "Ordered"
                               /\ planned[o] = orders[o].amount
  /\ \A o \in PartTaken(planned, orders) : orders[o].status = "Ordered"

LEMMA WritableTakes ==
  ASSUME NEW planned, Writable(planned, orders)
  PROVE  TakenLines(planned)
BY DEF TakenLines, Writable, Whole, PartTaken, Taken

LEMMA DedicatedLines ==
  ASSUME TypeOK, NEW planned \in [Src -> Nat], Writable(planned, orders), NEW p \in Project
  PROVE  \E N, b : DedicatedAs(p, planned, N, b, Dedicated(p, planned, orders))
<1> DEFINE P      == PartTaken(planned, orders)
           unused == { o \in Order : orders[o].status = "Unused" }
           parts  == Sorted(P, [o \in Order |-> <<o>>])
           spare  == Sorted(unused, [o \in Order |-> <<o>>])
           splits == { i \in DOMAIN parts : i \in DOMAIN spare }
           lines  == Dedicated(p, planned, orders)
           place(o) == CHOOSE i \in splits : spare[i] = o
           N      == { spare[i] : i \in splits }
           b      == [o \in N |-> parts[place(o)]]
<1>1. TakenLines(planned)
  BY WritableTakes
<1>2. P \in SUBSET Order /\ unused \in SUBSET Order
  BY <1>1 DEF TakenLines
<1>3. \A o \in Order : lines[o] =
         CASE o \in Whole(planned, orders) -> GivenWhole(p, o, orders)
           [] o \in P -> LeftOf(o, planned, orders)
           [] \E i \in splits : spare[i] = o -> GivenTo(p, parts[place(o)], planned, orders)
           [] OTHER -> orders[o]
  BY DEF Dedicated
<1>4. Cardinality(P) <= Cardinality(unused)
  BY DEF Writable
<1>5. \A o \in unused : orders[o].status = "Unused"
  OBVIOUS
<1> HIDE DEF P, unused
<1>6. /\ Listed(P, SortOrder(P, [o \in Order |-> <<o>>]), parts)
      /\ Listed(unused, SortOrder(unused, [o \in Order |-> <<o>>]), spare)
  BY <1>2, OrderKey
<1> HIDE DEF parts, spare
<1>7. /\ Cardinality(P) \in Nat /\ Cardinality(unused) \in Nat
      /\ parts \in [1 .. Cardinality(P) -> P] /\ spare \in [1 .. Cardinality(unused) -> unused]
      /\ \A x \in P : \E i \in 1 .. Cardinality(P) : parts[i] = x
      /\ \A i, j \in 1 .. Cardinality(P) : parts[i] = parts[j] => i = j
      /\ \A i, j \in 1 .. Cardinality(unused) : spare[i] = spare[j] => i = j
  BY <1>6 DEF Listed
<1>8. splits = 1 .. Cardinality(P) /\ \A i \in splits : i \in 1 .. Cardinality(unused)
  BY <1>4, <1>7
<1>9. \A i \in splits : place(spare[i]) = i
  <2> HIDE DEF splits
  <2>1. \A i, j \in splits : spare[i] = spare[j] => i = j
    BY <1>7, <1>8
  <2> QED BY <2>1
<1>10. N \in SUBSET Order /\ \A o \in N : o \in unused
  BY <1>2, <1>7, <1>8
<1>11. \A i \in splits : spare[i] \in N /\ b[spare[i]] = parts[i]
  <2> HIDE DEF place, splits
  <2> QED BY <1>9
<1>12. \A o \in N : \E i \in splits : o = spare[i]
  OBVIOUS
<1>13. \A o \in N : b[o] = parts[place(o)]
  <2> HIDE DEF place, N
  <2> QED OBVIOUS
<1>14. \A o \in N : \E i \in splits : spare[i] = o
  BY <1>12
<1>15. \A o \in Order : o \notin N => ~(\E i \in splits : spare[i] = o)
  OBVIOUS
<1>16. b = [o \in N |-> b[o]]
  <2> HIDE DEF place, N
  <2> QED OBVIOUS
<1> HIDE DEF splits, place, N, b, lines
<1>17. b \in Bijection(N, P)
  <2>1. b \in [N -> P]
    BY <1>7, <1>8, <1>11, <1>12, <1>16
  <2>2. \A x, y \in N : b[x] = b[y] => x = y
    BY <1>7, <1>8, <1>11, <1>12
  <2>3. \A x \in P : \E o \in N : b[o] = x
    BY <1>7, <1>8, <1>11
  <2> QED BY <2>1, <2>2, <2>3 DEF Bijection, Injection, Surjection, IsInjective
<1>18. \A o \in N : orders[o].status = "Unused"
  BY <1>5, <1>10
<1>19. \A o \in N : o \in Order /\ o \notin Whole(planned, orders) /\ o \notin P
  BY <1>1, <1>10, <1>18 DEF TakenLines, P
<1>20. \A o \in N : lines[o] = GivenTo(p, b[o], planned, orders)
  BY <1>3, <1>13, <1>14, <1>19
<1>21. \A o \in Whole(planned, orders) : o \in Order /\ lines[o] = GivenWhole(p, o, orders)
  <2> SUFFICES ASSUME NEW o \in Whole(planned, orders)
               PROVE  o \in Order /\ lines[o] = GivenWhole(p, o, orders)
    OBVIOUS
  <2>1. o \in Order /\ o \notin P /\ o \notin N
    BY <1>1, <1>19 DEF TakenLines, P
  <2> QED BY <1>3, <1>15, <2>1
<1>22. \A o \in P : lines[o] = LeftOf(o, planned, orders)
  <2> SUFFICES ASSUME NEW o \in P PROVE lines[o] = LeftOf(o, planned, orders)
    OBVIOUS
  <2>1. o \in Order /\ o \notin Whole(planned, orders) /\ o \notin N
    BY <1>1, <1>2, <1>19 DEF TakenLines, P
  <2> QED BY <1>3, <1>15, <2>1
<1>23. \A o \in Order : o \notin N /\ o \notin Whole(planned, orders) /\ o \notin P => lines[o] = orders[o]
  BY <1>3, <1>15
<1>24. DedicatedAs(p, planned, N, b, lines)
  BY <1>10, <1>17, <1>18, <1>20, <1>21, <1>22, <1>23 DEF DedicatedAs, P
<1>25. QED
  BY <1>24 DEF lines

\* The amounts q of the lines P, by the lines P and by the lines N that stand
\* for them as b says.
ByTaken(P, q) == [o \in Order |-> IF o \in P THEN q[o] ELSE 0]

ByNew(N, b, q) == [o \in Order |-> IF o \in N THEN q[b[o]] ELSE 0]

\* What is taken in parts is what the new lines have.
LEMMA GivenIsTaken ==
  ASSUME NEW P \in SUBSET Order, NEW N \in SUBSET Order, NEW b \in Bijection(N, P),
         NEW q \in [Order -> Nat]
  PROVE  /\ ByNew(N, b, q) \in [Order -> Nat] /\ ByTaken(P, q) \in [Order -> Nat]
         /\ Total(ByNew(N, b, q)) = Total(ByTaken(P, q))
<1> DEFINE gives == [o \in Order |-> IF o \in N THEN q[b[o]] ELSE 0]
           takes == [o \in Order |-> IF o \in P THEN q[o] ELSE 0]
           f     == [o \in P |-> q[o]]
           g     == [o \in N |-> f[b[o]]]
<1>1. \A o \in N : b[o] \in P
  BY DEF Bijection, Injection
<1>2. gives \in [Order -> Nat] /\ takes \in [Order -> Nat] /\ f \in [P -> Nat]
  BY <1>1
<1>3. Total(g) = Total(f)
  <2>1. IsFiniteSet(P)
    BY Finite, FS_Subset
  <2> HIDE DEF f
  <2> QED BY <1>2, <2>1, TotalRenamed
<1>4. Total(f) = Total(takes)
  <2>1. f = [o \in P |-> takes[o]] /\ \A o \in Order \ P : takes[o] = 0
    OBVIOUS
  <2> HIDE DEF f, takes
  <2> QED BY <1>2, <2>1, TotalRestricted
<1>5. Total(g) = Total(gives)
  <2>1. g = [o \in N |-> gives[o]] /\ \A o \in Order \ N : gives[o] = 0
    BY <1>1
  <2> HIDE DEF g, gives
  <2> QED BY <1>2, <2>1, TotalRestricted
<1>6. gives = ByNew(N, b, q) /\ takes = ByTaken(P, q)
  BY DEF ByNew, ByTaken
<1> HIDE DEF gives, takes, f, g
<1>7. QED
  BY <1>2, <1>3, <1>4, <1>5, <1>6

\* What two tables of lines have in all differs by what is added to and
\* taken from each line.
LEMMA TotalsDiffer ==
  ASSUME NEW S, IsFiniteSet(S), NEW f \in [S -> Nat], NEW g \in [S -> Nat],
         NEW a \in [S -> Nat], NEW d \in [S -> Nat],
         \A x \in S : g[x] + d[x] = f[x] + a[x]
  PROVE  Total(g) + Total(d) = Total(f) + Total(a)
<1>1. Plus(g, d) = Plus(f, a)
  BY DEF Plus
<1>2. Total(Plus(g, d)) = Total(g) + Total(d) /\ Total(Plus(f, a)) = Total(f) + Total(a)
  BY TotalPlus
<1>3. QED
  BY <1>1, <1>2

\* The amount of each line that is of one kind.
AmountsOf(kind) == [o \in Order |-> IF o \in kind THEN orders[o].amount ELSE 0]

LEMMA KindTotal ==
  ASSUME TypeOK, NEW kind \in SUBSET Order
  PROVE  /\ AmountsOf(kind) \in [Order -> Nat]
         /\ Total([o \in kind |-> orders[o].amount]) = Total(AmountsOf(kind))
<1>1. AmountsOf(kind) \in [Order -> Nat] /\ \A o \in Order \ kind : AmountsOf(kind)[o] = 0
  BY DEF AmountsOf, TypeOK, OrderLine
<1>2. [o \in kind |-> orders[o].amount] = [o \in kind |-> AmountsOf(kind)[o]]
  BY DEF AmountsOf
<1>3. QED
  BY <1>1, <1>2, TotalRestricted

OpenLines == { o \in Order : orders[o].status = "Ordered" }

OwnLines(p, date) ==
  { o \in Order : orders[o].status = "Ordered" /\ orders[o].project = p
                  /\ orders[o].eta \in 1 .. date }

LineTotals ==
  /\ AmountsOf(OpenLines) \in [Order -> Nat]
  /\ OpenAmount("Ordered") = Total(AmountsOf(OpenLines))
  /\ \A p \in Project : \A date : /\ AmountsOf(OwnLines(p, date)) \in [Order -> Nat]
                                  /\ Own(p, date) = Total(AmountsOf(OwnLines(p, date)))

LEMMA OpenAndOwn == TypeOK => LineTotals
<1> SUFFICES ASSUME TypeOK PROVE LineTotals
  OBVIOUS
<1>1. OpenAmount("Ordered") = Total([o \in OpenLines |-> orders[o].amount])
  BY DEF OpenAmount, OpenLines
<1>2. OpenLines \in SUBSET Order
  BY DEF OpenLines
<1>3. ASSUME NEW p \in Project, NEW date
      PROVE  /\ AmountsOf(OwnLines(p, date)) \in [Order -> Nat]
             /\ Own(p, date) = Total(AmountsOf(OwnLines(p, date)))
  <2>1. Own(p, date) = Total([o \in OwnLines(p, date) |-> orders[o].amount])
    BY DEF Own, OwnLines
  <2>2. OwnLines(p, date) \in SUBSET Order
    BY DEF OwnLines
  <2> QED BY <2>1, <2>2, KindTotal
<1>4. QED
  BY <1>1, <1>2, <1>3, KindTotal DEF LineTotals

LEMMA OpenAndOwnAfter == TypeOK' => LineTotals'
<1>1. (TypeOK => LineTotals)'
  BY OpenAndOwn, PTL
<1>2. QED
  BY <1>1

\* What a plan takes from a line that is dedicated to nobody is an amount of
\* an open line that arrives by the date of the project.
LEMMA PlanTakesOpenLines ==
  ASSUME PlanningOK, NEW p \in Project, NEW target \in Targets(p), NEW o \in Order,
         ToPersist(p, target)[o] > 0
  PROVE  /\ orders[o].status = "Ordered" /\ orders[o].project = NoProject
         /\ orders[o].eta # NoEta /\ orders[o].eta \in 1 .. target
         /\ ToPersist(p, target)[o] <= orders[o].amount
<1> DEFINE plan   == Snapshot(p, target)
           shares == [q \in Project |-> ShareOf(plan, q, o)]
           a == plan.onTime[p][o]
           b == plan.late[p][o]
           c == plan.ready[p][o]
<1>1. /\ o \in Src /\ o \in Src \ {Stock} /\ o <= MaxOrder /\ ~(o > MaxOrder) /\ o # Stock
      /\ o \in Nat
  BY ConstantsAssumption, PlanningAssumption DEF Src, Order, Stock
<1>2. ToPersist(p, target)[o] = IF orders[o].project = p THEN 0 ELSE a
  BY <1>1 DEF ToPersist
<1>3. orders[o].project # p /\ ToPersist(p, target)[o] = a /\ a > 0
  <2> HIDE DEF a
  <2> QED BY <1>2
<1>4. PICK arrived : Fits(Coming, p, target, arrived, plan)
  BY TargetsType, SnapshotFits
<1> HIDE DEF plan
<1>5. /\ plan \in Plan /\ Counted(plan, o) <= Limit(Coming, arrived, o)
      /\ Serves(Coming, p, target, p, o)
  BY <1>1, <1>3, <1>4 DEF Fits
<1>6. Coming[o] = [quantity |-> IF orders[o].status = "Ordered" /\ orders[o].eta # NoEta
                                THEN orders[o].amount ELSE 0,
                   owner |-> orders[o].project, date |-> orders[o].eta]
  BY <1>1 DEF Coming, ComingWith
<1>7. Start(p, target, p) = target
  BY DEF Start
<1>8. orders[o].project = NoProject /\ orders[o].eta <= target
  BY <1>1, <1>3, <1>5, <1>6, <1>7 DEF Serves, ThereBy
<1>9. a \in Nat /\ b \in Nat /\ c \in Nat /\ shares \in [Project -> Nat] /\ Total(shares) \in Nat
      /\ plan.pool[o] \in Nat /\ Counted(plan, o) = Total(shares) + plan.pool[o]
  BY <1>1, <1>5, ShareType DEF Counted
<1>10. shares[p] = a + b + c /\ shares[p] <= Total(shares)
  <2>1. shares[p] = a + b + c
    BY DEF ShareOf
  <2>2. shares[p] <= Total(shares)
    <3> HIDE DEF shares
    <3> QED BY <1>9, SourcesFinite, EntryBelowTotal
  <2> QED BY <2>1, <2>2
<1>11. Limit(Coming, arrived, o) <= Coming[o].quantity /\ Coming[o].quantity \in Nat
  BY <1>1, ComingNow, ComingType DEF Limit, AmountOf
<1>12. a <= Coming[o].quantity
  <2>1. Limit(Coming, arrived, o) \in Nat
    BY <1>1, ComingNow, QuantityType DEF Limit
  <2> HIDE DEF a, b, c, shares
  <2> QED BY <1>5, <1>9, <1>10, <1>11, <2>1
<1>13. orders[o].status = "Ordered" /\ orders[o].eta # NoEta /\ a <= orders[o].amount
  <2>1. orders[o].amount \in Nat
    BY DEF PlanningOK, TypeOK, OrderLine
  <2> HIDE DEF a
  <2> QED BY <1>3, <1>6, <1>9, <1>12, <2>1
<1>14. orders[o].eta \in 1 .. target
  <2>1. orders[o].eta \in 0 .. MaxEta /\ target \in 0 .. MaxEta
    BY TargetsType DEF StartDate, PlanningOK, TypeOK, OrderLine
  <2> QED BY <1>8, <1>13, <2>1 DEF NoEta
<1>15. QED
  BY <1>3, <1>8, <1>13, <1>14

\* The new line of a part has its amount, is open, and arrives when it would.
LEMMA GivenFields ==
  ASSUME TypeOK, NEW planned \in [Src -> Nat], NEW o \in Order, NEW p \in Project
  PROVE  /\ GivenTo(p, o, planned, orders).status = "Ordered" /\ GivenTo(p, o, planned, orders).amount = planned[o]
         /\ GivenTo(p, o, planned, orders).project = p /\ GivenTo(p, o, planned, orders).eta = orders[o].eta
         /\ LeftOf(o, planned, orders).status = orders[o].status
         /\ LeftOf(o, planned, orders).amount = orders[o].amount - planned[o]
         /\ LeftOf(o, planned, orders).project = orders[o].project
         /\ GivenWhole(p, o, orders).status = orders[o].status
         /\ GivenWhole(p, o, orders).amount = orders[o].amount
         /\ GivenWhole(p, o, orders).project = p /\ GivenWhole(p, o, orders).eta = orders[o].eta
BY DEF GivenTo, LeftOf, GivenWhole, TypeOK, OrderLine

\* So it is with the lines a confirmation takes and those it writes.
LEMMA DedicatedGives ==
  ASSUME NEW planned \in [Src -> Nat], Writable(planned, orders), NEW p, NEW N, NEW b, NEW lines,
         DedicatedAs(p, planned, N, b, lines), NEW q \in [Order -> Nat]
  PROVE  LET P == PartTaken(planned, orders)
         IN  /\ ByNew(N, b, q) \in [Order -> Nat] /\ ByTaken(P, q) \in [Order -> Nat]
             /\ Total(ByNew(N, b, q)) = Total(ByTaken(P, q))
<1> DEFINE P == PartTaken(planned, orders)
<1>1. TakenLines(planned)
  BY WritableTakes
<1>2. P \in SUBSET Order /\ N \in SUBSET Order /\ b \in Bijection(N, P)
  BY <1>1 DEF DedicatedAs, TakenLines
<1> HIDE DEF P
<1>3. /\ ByNew(N, b, q) \in [Order -> Nat] /\ ByTaken(P, q) \in [Order -> Nat]
      /\ Total(ByNew(N, b, q)) = Total(ByTaken(P, q))
  BY <1>2, GivenIsTaken, Zenon
<1>4. QED
  BY <1>3 DEF P

\* What new lines have, lines taken in part have lost.
LEMMA ConfirmationConserves ==
  ASSUME TypeOK, Positive, TypeOK', NEW planned \in [Src -> Nat], Writable(planned, orders), NEW p \in Project,
         orders' = Dedicated(p, planned, orders)
  PROVE  OpenAmount("Ordered")' = OpenAmount("Ordered")
<1>1. PICK N, b : DedicatedAs(p, planned, N, b, Dedicated(p, planned, orders))
  BY DedicatedLines
<1>2. DedicatedAs(p, planned, N, b, orders')
  BY <1>1
<1> DEFINE P     == PartTaken(planned, orders)
           q     == [o \in Order |-> planned[o]]
           gives == [o \in Order |-> IF o \in N THEN q[b[o]] ELSE 0]
           takes == [o \in Order |-> IF o \in P THEN q[o] ELSE 0]
           f     == AmountsOf(OpenLines)
           g     == AmountsOf(OpenLines)'
<1>3. TakenLines(planned)
  BY WritableTakes
<1>4. P \in SUBSET Order /\ N \in SUBSET Order /\ b \in Bijection(N, P) /\ \A o \in N : b[o] \in P
  BY <1>2, <1>3 DEF DedicatedAs, TakenLines, Bijection, Injection
<1>5. q \in [Order -> Nat] /\ \A o \in Order : q[o] = planned[o]
  BY ConstantsAssumption, PlanningAssumption DEF Src, Order
<1>6. gives \in [Order -> Nat] /\ takes \in [Order -> Nat] /\ Total(gives) = Total(takes)
  <2>1. gives = ByNew(N, b, q) /\ takes = ByTaken(P, q)
    BY DEF ByNew, ByTaken
  <2>2. q \in [Order -> Nat]
    BY <1>5
  <2> HIDE DEF P, q, gives, takes
  <2>3. /\ ByNew(N, b, q) \in [Order -> Nat] /\ ByTaken(P, q) \in [Order -> Nat]
        /\ Total(ByNew(N, b, q)) = Total(ByTaken(P, q))
    BY <1>2, <2>2, DedicatedGives DEF P
  <2> QED BY <2>1, <2>3
<1>7. /\ f \in [Order -> Nat] /\ g \in [Order -> Nat]
      /\ OpenAmount("Ordered") = Total(f) /\ OpenAmount("Ordered")' = Total(g)
  BY OpenAndOwn, OpenAndOwnAfter DEF LineTotals
<1>8. /\ \A o \in Order : f[o] = IF orders[o].status = "Ordered" THEN orders[o].amount ELSE 0
      /\ \A o \in Order : g[o] = IF orders'[o].status = "Ordered" THEN orders'[o].amount ELSE 0
  BY DEF AmountsOf, OpenLines
<1>9. \A o \in Order : orders[o].amount \in Nat
  BY DEF TypeOK, OrderLine
<1> HIDE DEF f, g
<1>10. ASSUME NEW o \in Order PROVE g[o] + takes[o] = f[o] + gives[o]
  <2>1. CASE o \in N
    <3>1. orders[o].status = "Unused" /\ orders'[o] = GivenTo(p, b[o], planned, orders) /\ b[o] \in Order
      BY <1>2, <1>4, <2>1 DEF DedicatedAs
    <3>2. orders'[o].status = "Ordered" /\ orders'[o].amount = planned[b[o]]
      BY <3>1, GivenFields
    <3>3. o \notin P
      BY <1>3, <3>1 DEF TakenLines
    <3>4. g[o] = q[b[o]] /\ f[o] = 0 /\ takes[o] = 0 /\ gives[o] = q[b[o]]
      BY <1>5, <1>8, <2>1, <3>1, <3>2, <3>3
    <3> HIDE DEF q, takes, gives
    <3> QED BY <1>5, <3>1, <3>4
  <2>2. CASE o \in P
    <3>1. orders[o].status = "Ordered" /\ orders'[o] = LeftOf(o, planned, orders) /\ o \notin N
      BY <1>2, <1>3, <2>2 DEF DedicatedAs, TakenLines
    <3>2. orders'[o].status = "Ordered" /\ orders'[o].amount = orders[o].amount - planned[o]
      BY <3>1, GivenFields
    <3>3. /\ g[o] = orders[o].amount - q[o] /\ f[o] = orders[o].amount
          /\ takes[o] = q[o] /\ gives[o] = 0
      BY <1>5, <1>8, <2>2, <3>1, <3>2
    <3> HIDE DEF q, takes, gives
    <3> QED BY <1>5, <1>9, <3>3
  <2>3. CASE o \notin N /\ o \notin P
    <3>1. orders'[o] = orders[o] \/ orders'[o] = GivenWhole(p, o, orders)
      BY <1>2, <2>3 DEF DedicatedAs
    <3>2. orders'[o].status = orders[o].status /\ orders'[o].amount = orders[o].amount
      BY <3>1, GivenFields
    <3>3. g[o] = f[o] /\ takes[o] = 0 /\ gives[o] = 0 /\ f[o] \in Nat
      BY <1>7, <1>8, <2>3, <3>2
    <3> HIDE DEF takes, gives
    <3> QED BY <3>3
  <2> QED BY <2>1, <2>2, <2>3
<1> HIDE DEF takes, gives
<1>11. Total(g) + Total(takes) = Total(f) + Total(gives)
  BY <1>6, <1>7, <1>10, Finite, TotalsDiffer, SMTT(30)
<1>12. Total(f) \in Nat /\ Total(g) \in Nat /\ Total(takes) \in Nat
  BY <1>6, <1>7, Finite, TotalType
<1>13. QED
  BY <1>6, <1>7, <1>11, <1>12

\* Of the plan that is current, all is taken, and arrives in time.
LEMMA CurrentPlanIsTaken ==
  ASSUME PlanningOK, NEW p \in Project, NEW target \in Targets(p), NEW planned,
         planned = ToPersist(p, target), Writable(planned, orders), NEW o \in Order
  PROVE  /\ o \in Whole(planned, orders) \/ o \in PartTaken(planned, orders)
              => /\ orders[o].project = NoProject /\ orders[o].eta \in 1 .. target
                 /\ o \notin Managed
         /\ o \notin Managed /\ o \notin Whole(planned, orders) /\ o \notin PartTaken(planned, orders)
              => ~(planned[o] > 0)
<1>1. planned[o] > 0 => /\ orders[o].status = "Ordered" /\ orders[o].project = NoProject
                        /\ orders[o].eta # NoEta /\ orders[o].eta \in 1 .. target
                        /\ planned[o] <= orders[o].amount
  BY PlanTakesOpenLines
<1>2. o \in Whole(planned, orders) \/ o \in PartTaken(planned, orders) => planned[o] > 0 /\ o \notin Managed
  BY DEF Whole, PartTaken, Taken
<1>3. o \notin Managed /\ planned[o] > 0 => o \in Whole(planned, orders) \/ o \in PartTaken(planned, orders)
  BY <1>1 DEF Whole, PartTaken, Taken
<1>4. QED
  BY <1>1, <1>2, <1>3

LEMMA ConfirmationGives ==
  ASSUME PlanningOK, Positive, TypeOK', NEW p \in Project, NEW target \in Targets(p),
         NEW planned \in [Src -> Nat], planned = ToPersist(p, target), Writable(planned, orders),
         orders' = Dedicated(p, planned, orders)
  PROVE  Own(p, target)' = Own(p, target) + Total([o \in Order \ Managed |-> planned[o]])
<1>0. TypeOK
  BY DEF PlanningOK
<1>1. PICK N, b : DedicatedAs(p, planned, N, b, Dedicated(p, planned, orders))
  BY <1>0, DedicatedLines
<1>2. DedicatedAs(p, planned, N, b, orders')
  BY <1>1
<1> DEFINE W     == Whole(planned, orders)
           P     == PartTaken(planned, orders)
           q     == [o \in Order |-> planned[o]]
           whole == [o \in Order |-> IF o \in W THEN q[o] ELSE 0]
           gives == [o \in Order |-> IF o \in N THEN q[b[o]] ELSE 0]
           takes == [o \in Order |-> IF o \in P THEN q[o] ELSE 0]
           all   == [o \in Order |-> IF o \in Managed THEN 0 ELSE q[o]]
           new   == Plus(whole, gives)
           none  == [o \in Order |-> 0]
           f     == AmountsOf(OwnLines(p, target))
           g     == AmountsOf(OwnLines(p, target))'
<1>3. TakenLines(planned)
  BY WritableTakes
<1>4. /\ W \in SUBSET Order /\ P \in SUBSET Order /\ N \in SUBSET Order /\ b \in Bijection(N, P)
      /\ \A o \in N : b[o] \in P
  BY <1>2, <1>3 DEF DedicatedAs, TakenLines, Bijection, Injection
<1>5. q \in [Order -> Nat] /\ \A o \in Order : q[o] = planned[o]
  BY ConstantsAssumption, PlanningAssumption DEF Src, Order
<1>6. gives \in [Order -> Nat] /\ takes \in [Order -> Nat] /\ Total(gives) = Total(takes)
  <2>1. gives = ByNew(N, b, q) /\ takes = ByTaken(P, q)
    BY DEF ByNew, ByTaken
  <2>2. q \in [Order -> Nat]
    BY <1>5
  <2> HIDE DEF P, q, gives, takes
  <2>3. /\ ByNew(N, b, q) \in [Order -> Nat] /\ ByTaken(P, q) \in [Order -> Nat]
        /\ Total(ByNew(N, b, q)) = Total(ByTaken(P, q))
    BY <1>2, <2>2, DedicatedGives DEF P
  <2> QED BY <2>1, <2>3
<1>7. f \in [Order -> Nat] /\ g \in [Order -> Nat] /\ Own(p, target) = Total(f) /\ Own(p, target)' = Total(g)
  BY <1>0, OpenAndOwn, OpenAndOwnAfter DEF LineTotals
<1>8. /\ \A o \in Order : f[o] = IF orders[o].status = "Ordered" /\ orders[o].project = p
                                    /\ orders[o].eta \in 1 .. target
                                 THEN orders[o].amount ELSE 0
      /\ \A o \in Order : g[o] = IF orders'[o].status = "Ordered" /\ orders'[o].project = p
                                    /\ orders'[o].eta \in 1 .. target
                                 THEN orders'[o].amount ELSE 0
  BY DEF AmountsOf, OwnLines
<1>9. \A o \in Order : orders[o].amount \in Nat
  BY <1>0 DEF TypeOK, OrderLine
<1>10. p # NoProject
  BY ConstantsAssumption
<1>11. \A o \in Order : /\ o \in W \/ o \in P => /\ orders[o].project = NoProject
                                                 /\ orders[o].eta \in 1 .. target
                                                 /\ o \notin Managed
                        /\ o \notin Managed /\ o \notin W /\ o \notin P => ~(planned[o] > 0)
  BY CurrentPlanIsTaken
<1>12. whole \in [Order -> Nat] /\ all \in [Order -> Nat] /\ none \in [Order -> Nat]
  BY <1>5
<1> HIDE DEF f, g
<1>13. ASSUME NEW o \in Order PROVE g[o] + none[o] = f[o] + (whole[o] + gives[o])
  <2>1. CASE o \in N
    <3>1. orders[o].status = "Unused" /\ orders'[o] = GivenTo(p, b[o], planned, orders) /\ b[o] \in P
      BY <1>2, <1>4, <2>1 DEF DedicatedAs
    <3>2. /\ orders'[o].status = "Ordered" /\ orders'[o].amount = planned[b[o]]
          /\ orders'[o].project = p /\ orders'[o].eta = orders[b[o]].eta
      BY <1>0, <1>4, <3>1, GivenFields
    <3>3. o \notin W /\ orders[b[o]].eta \in 1 .. target
      BY <1>3, <1>4, <1>11, <3>1 DEF TakenLines
    <3>4. g[o] = q[b[o]] /\ f[o] = 0 /\ whole[o] = 0 /\ gives[o] = q[b[o]] /\ none[o] = 0
      BY <1>4, <1>5, <1>8, <2>1, <3>1, <3>2, <3>3
    <3> HIDE DEF q, whole, gives, none
    <3> QED BY <1>4, <1>5, <3>1, <3>4
  <2>2. CASE o \in P
    <3>1. /\ orders'[o] = LeftOf(o, planned, orders) /\ o \notin N /\ o \notin W
          /\ orders[o].project = NoProject
      BY <1>2, <1>3, <1>11, <2>2 DEF DedicatedAs, TakenLines
    <3>2. orders'[o].project = NoProject
      BY <1>0, <3>1, GivenFields
    <3>3. g[o] = 0 /\ f[o] = 0 /\ whole[o] = 0 /\ gives[o] = 0 /\ none[o] = 0
      BY <1>8, <1>10, <3>1, <3>2
    <3> HIDE DEF q, whole, gives, none
    <3> QED BY <3>3
  <2>3. CASE o \in W
    <3>1. /\ orders'[o] = GivenWhole(p, o, orders) /\ o \notin N
          /\ orders[o].project = NoProject /\ orders[o].eta \in 1 .. target
          /\ orders[o].status = "Ordered" /\ planned[o] = orders[o].amount
      BY <1>2, <1>3, <1>11, <2>3 DEF DedicatedAs, TakenLines
    <3>2. /\ orders'[o].project = p /\ orders'[o].eta = orders[o].eta
          /\ orders'[o].status = "Ordered" /\ orders'[o].amount = orders[o].amount
      BY <1>0, <3>1, GivenFields
    <3>3. g[o] = q[o] /\ f[o] = 0 /\ whole[o] = q[o] /\ gives[o] = 0 /\ none[o] = 0
      BY <1>5, <1>8, <1>10, <2>3, <3>1, <3>2
    <3> HIDE DEF q, whole, gives, none
    <3> QED BY <1>5, <3>3
  <2>4. CASE o \notin N /\ o \notin P /\ o \notin W
    <3>1. orders'[o] = orders[o]
      BY <1>2, <2>4 DEF DedicatedAs
    <3>2. g[o] = f[o] /\ whole[o] = 0 /\ gives[o] = 0 /\ none[o] = 0 /\ f[o] \in Nat
      BY <1>7, <1>8, <2>4, <3>1
    <3> HIDE DEF whole, gives, none
    <3> QED BY <3>2
  <2> QED BY <2>1, <2>2, <2>3, <2>4
<1>14. ASSUME NEW o \in Order PROVE all[o] + none[o] = whole[o] + takes[o]
  <2>1. o \in W => o \notin P
    BY <1>3 DEF TakenLines
  <2>2. q[o] \in Nat /\ q[o] = planned[o]
    BY <1>5
  <2> HIDE DEF q
  <2> QED BY <1>11, <2>1, <2>2
<1> HIDE DEF whole, gives, takes, all, none
<1>15. new \in [Order -> Nat] /\ Total(new) = Total(whole) + Total(gives)
  <2>1. IsFiniteSet(Order) /\ whole \in [Order -> Nat] /\ gives \in [Order -> Nat]
    BY <1>6, <1>12, Finite
  <2> QED BY <2>1, TotalPlus, SMTT(30)
<1>16. \A o \in Order : new[o] = whole[o] + gives[o]
  BY <1>12 DEF Plus
<1> HIDE DEF new
<1>17. Total(g) + Total(none) = Total(f) + Total(new)
  BY <1>7, <1>12, <1>13, <1>15, <1>16, Finite, TotalsDiffer, SMTT(30)
<1>18. Total(all) + Total(none) = Total(whole) + Total(takes)
  BY <1>6, <1>12, <1>14, Finite, TotalsDiffer, SMTT(30)
<1>19. Total(none) = 0
  <2>1. \A o \in Order : none[o] = 0
    BY DEF none
  <2> QED BY <1>12, <2>1, Finite, TotalZero
<1>20. Total([o \in Order \ Managed |-> planned[o]]) = Total(all)
  <2>1. /\ [o \in Order \ Managed |-> planned[o]] = [o \in Order \ Managed |-> all[o]]
        /\ \A o \in Order \ (Order \ Managed) : all[o] = 0
    BY DEF all
  <2>2. Total([o \in Order \ Managed |-> all[o]]) = Total(all)
    BY <1>12, <2>1, TotalRestricted
  <2> QED BY <2>1, <2>2
<1>21. /\ Total(f) \in Nat /\ Total(g) \in Nat /\ Total(whole) \in Nat /\ Total(takes) \in Nat
       /\ Total(all) \in Nat /\ Total(gives) \in Nat /\ Total(new) \in Nat
  BY <1>6, <1>7, <1>12, <1>15, Finite, TotalType
<1>22. Total(g) = Total(f) + Total(all)
  BY <1>6, <1>15, <1>17, <1>18, <1>19, <1>21
<1>23. QED
  BY <1>7, <1>20, <1>22

\* When no line has changed since it was read, a confirmation writes what it would
\* write of the lines as they are.
LEMMA ReadAsTheyAre ==
  ASSUME NEW planned, NEW read, NEW p,
         \A o \in Order \ Managed : planned[o] > 0 => orders[o] = read[o]
  PROVE  /\ Writable(planned, read) => Writable(planned, orders)
         /\ Dedicated(p, planned, read) = Dedicated(p, planned, orders)
<1>1. Taken(planned, read) = Taken(planned, orders)
  BY DEF Taken
<1>2. \A o \in Taken(planned, read) : read[o] = orders[o]
  BY DEF Taken
<1>3. Whole(planned, read) = Whole(planned, orders)
  BY <1>1, <1>2 DEF Whole
<1>4. PartTaken(planned, read) = PartTaken(planned, orders)
  BY <1>1, <1>2, <1>3 DEF PartTaken
<1>5. \A o \in Whole(planned, read) \cup PartTaken(planned, read) : read[o] = orders[o]
  BY <1>2 DEF Whole, PartTaken
<1>6. Writable(planned, read) => Writable(planned, orders)
  BY <1>3, <1>4, <1>5 DEF Writable
<1>7. Dedicated(p, planned, read) = Dedicated(p, planned, orders)
  <2> DEFINE parts  == Sorted(PartTaken(planned, orders), [o \in Order |-> <<o>>])
             unused == { o \in Order : orders[o].status = "Unused" }
             spare  == Sorted(unused, [o \in Order |-> <<o>>])
             splits == { i \in DOMAIN parts : i \in DOMAIN spare }
             place(o) == CHOOSE i \in splits : spare[i] = o
             line(o, lines) ==
               CASE o \in Whole(planned, orders) -> GivenWhole(p, o, lines)
                 [] o \in PartTaken(planned, orders) -> LeftOf(o, planned, lines)
                 [] \E i \in splits : spare[i] = o -> GivenTo(p, parts[place(o)], planned, lines)
                 [] OTHER -> orders[o]
  <2>1. /\ Dedicated(p, planned, read) = [o \in Order |-> line(o, read)]
        /\ Dedicated(p, planned, orders) = [o \in Order |-> line(o, orders)]
    BY <1>3, <1>4 DEF Dedicated
  <2>2. \A i \in splits : parts[i] \in PartTaken(planned, orders)
    BY NewLinesAreParts
  <2>3. \A o : (\E i \in splits : spare[i] = o) => place(o) \in splits
    OBVIOUS
  <2> HIDE DEF parts, spare, splits, place
  <2>4. \A o \in PartTaken(planned, orders) :
          /\ LeftOf(o, planned, read) = LeftOf(o, planned, orders)
          /\ GivenTo(p, o, planned, read) = GivenTo(p, o, planned, orders)
    BY <1>4, <1>5 DEF LeftOf, GivenTo
  <2>5. ASSUME NEW o \in Order PROVE line(o, read) = line(o, orders)
    <3>1. o \in Whole(planned, orders) => GivenWhole(p, o, read) = GivenWhole(p, o, orders)
      BY <1>3, <1>5 DEF GivenWhole
    <3> QED BY <2>2, <2>3, <2>4, <3>1
  <2> HIDE DEF line
  <2> QED BY <2>1, <2>5
<1>8. QED
  BY <1>6, <1>7

\* What a confirmation of p that is written does to the lines, if they are as it read them.
KeepsDates(p) ==
  Written(p) /\ AsRead(p)
  => /\ OpenAmount("Ordered")' = OpenAmount("Ordered")
     /\ \A target \in Targets(p) :
          Plannable(p) /\ confirming[p] = ToPersist(p, target)
          => Own(p, target)' = Own(p, target)
               + Total([o \in Order \ Managed |-> confirming[p][o]])

\* Only a confirmation that is written ends with more than it began with.
LEMMA WrittenIsPersisted ==
  ASSUME AllocTypeOK, [AllocNext]_allocVars, NEW p \in Project,
         Written(p)
  PROVE  \E r \in Reservation : PersistPlan(p, r)
<1>1. confirming' # confirming /\ ~(UNCHANGED planVars)
  BY DEF Written
<1>2. ASSUME NEW q \in Project, NEW r \in Reservation, PersistPlan(q, r) PROVE q = p
  <2>1. confirming' = [confirming EXCEPT ![q] = Nothing] /\ confirming \in [Project -> [Src -> Nat]]
    BY <1>2 DEF PersistPlan, Ended, AllocTypeOK
  <2> QED BY <2>1 DEF Written
<1>3. \E q \in Project, r \in Reservation : PersistPlan(q, r)
  BY <1>1 DEF AllocNext, allocVars, UpdateProject, ConfirmForProcurement, CreateRfq,
              AddProcurementLine, QuoteLine, ReserveRequirements, ReadPlan,
              ReadLine, DropPlan
<1>4. QED
  BY <1>2, <1>3

LEMMA ConfirmationStep ==
  ASSUME AllocTypeOK, [AllocNext]_allocVars, NEW p \in Project
  PROVE  KeepsDates(p)
<1> SUFFICES ASSUME Written(p), AsRead(p)
             PROVE  /\ OpenAmount("Ordered")' = OpenAmount("Ordered")
                    /\ \A target \in Targets(p) :
                         Plannable(p) /\ confirming[p] = ToPersist(p, target)
                         => Own(p, target)' = Own(p, target)
                              + Total([o \in Order \ Managed |-> confirming[p][o]])
  BY DEF KeepsDates
<1> DEFINE planned == confirming[p]
<1>1. PICK r \in Reservation : PersistPlan(p, r)
  BY WrittenIsPersisted
<1>2. /\ PlanningOK /\ Positive /\ TypeOK /\ planned \in [Src -> Nat]
  BY AllocTypeParts DEF PlanningOK, ConfirmingType
<1>3. TypeOK'
  BY AllocTypeStep DEF AllocTypeOK
<1>4. Writable(planned, orders) /\ orders' = Dedicated(p, planned, orders)
  <2>1. Writable(planned, seen[p]) /\ orders' = Dedicated(p, planned, seen[p])
    BY <1>1 DEF PersistPlan
  <2>2. \A o \in Order \ Managed : planned[o] > 0 => orders[o] = seen[p][o]
    BY DEF AsRead
  <2> HIDE DEF planned
  <2> QED BY <2>1, <2>2, ReadAsTheyAre
<1>5. OpenAmount("Ordered")' = OpenAmount("Ordered")
  <2> HIDE DEF planned
  <2> QED BY <1>2, <1>3, <1>4, ConfirmationConserves
<1>6. ASSUME NEW target \in Targets(p), planned = ToPersist(p, target)
      PROVE  Own(p, target)' = Own(p, target) + Total([o \in Order \ Managed |-> planned[o]])
  <2> HIDE DEF planned
  <2> QED BY <1>2, <1>3, <1>4, <1>6, ConfirmationGives
<1>7. QED
  BY <1>5, <1>6

\* A confirmation whose lines nobody changed after it read them leaves what is on order
\* as it is, also when its plan is stale, whatever others do to other lines; one that
\* writes the plan that is still current gives the project lines for what it took from
\* generic orders, arriving by the date the plan counted on.
THEOREM ConfirmationCorrect == AllocSpec => ConfirmationKeepsDates
<1>1. AllocTypeOK /\ [AllocNext]_allocVars => [\A p \in Project : KeepsDates(p)]_allocVars
  BY ConfirmationStep
<1>2. QED
  BY <1>1, AllocTypeCorrect, PTL DEF AllocSpec, ConfirmationKeepsDates, KeepsDates, Written, AsRead

-----------------------------------------------------------------------------
(* The account of a plan: how much, not of which source.                   *)

Account(plan) ==
  [ pool |-> Total(plan.pool), own |-> [p \in Project |-> Total(plan.ready[p])],
    backlog |-> plan.backlog, seen |-> plan.poolSeen, shortage |-> plan.shortage ]

AccountRow ==
  [ pool : Nat, own : [Project -> Nat], backlog : [Project -> Nat],
    seen : [Project -> Nat], shortage : [Project -> Nat] ]

LEMMA AccountType ==
  ASSUME NEW plan \in Plan
  PROVE  /\ Account(plan) \in AccountRow
         /\ Account(plan).pool = Total(plan.pool) /\ Account(plan).backlog = plan.backlog
         /\ Account(plan).seen = plan.poolSeen /\ Account(plan).shortage = plan.shortage
         /\ \A p \in Project : Account(plan).own[p] = Total(plan.ready[p])
<1>1. Total(plan.pool) \in Nat /\ \A p \in Project : Total(plan.ready[p]) \in Nat
  BY PlanFields, SourcesFinite, TotalType
<1>2. /\ plan.backlog \in [Project -> Nat] /\ plan.poolSeen \in [Project -> Nat]
      /\ plan.shortage \in [Project -> Nat]
  BY PlanFields
<1>3. QED
  BY <1>1, <1>2 DEF Account, AccountRow

LEMMA AccountFields ==
  ASSUME NEW a \in AccountRow
  PROVE  /\ a.pool \in Nat /\ a.own \in [Project -> Nat] /\ a.backlog \in [Project -> Nat]
         /\ a.seen \in [Project -> Nat] /\ a.shortage \in [Project -> Nat]
BY DEF AccountRow

\* q units for p arrive: its backlog is recovered, the rest waits for it.
BooksDedicated(a, b, p, q) ==
  /\ b.pool = a.pool /\ b.seen = a.seen /\ b.shortage = a.shortage
  /\ b.backlog[p] = Monus(a.backlog[p], q)
  /\ b.own[p] = a.own[p] + Monus(q, a.backlog[p])
  /\ \A r \in Project : r # p => b.backlog[r] = a.backlog[r] /\ b.own[r] = a.own[r]

\* What is owed to the projects in the sequence, and to those before one.
Owed(backlog, sequence) == Total([i \in DOMAIN sequence |-> backlog[sequence[i]]])

OwedBefore(backlog, sequence, i) ==
  Total([j \in { k \in DOMAIN sequence : k < i } |-> backlog[sequence[j]]])

\* q units for nobody arrive: backlogs are recovered one after the other, the
\* rest joins the pool.
BooksGeneric(a, b, sequence, q) ==
  /\ b.own = a.own /\ b.seen = a.seen /\ b.shortage = a.shortage
  /\ b.pool = a.pool + Monus(q, Owed(a.backlog, sequence))
  /\ \A i \in DOMAIN sequence :
       b.backlog[sequence[i]] =
         Monus(a.backlog[sequence[i]], Monus(q, OwedBefore(a.backlog, sequence, i)))
  /\ \A p \in Project : (\A i \in DOMAIN sequence : sequence[i] # p) => b.backlog[p] = a.backlog[p]
  /\ Total(b.backlog) + Smaller(q, Owed(a.backlog, sequence)) = Total(a.backlog)

\* p asks for what it requires: first of its own, then of the pool.
BooksDemand(a, b, p, required) ==
  /\ b.own[p] = Monus(a.own[p], required)
  /\ b.pool = Monus(a.pool, Monus(required, a.own[p]))
  /\ b.seen[p] = a.pool
  /\ b.shortage[p] = Monus(Monus(required, a.own[p]), a.pool)
  /\ b.backlog[p] = Monus(Monus(required, a.own[p]), a.pool)
  /\ \A r \in Project : r # p => /\ b.own[r] = a.own[r] /\ b.backlog[r] = a.backlog[r]
                                 /\ b.seen[r] = a.seen[r] /\ b.shortage[r] = a.shortage[r]

\* What a new entry adds.
LEMMA EntryAdded ==
  ASSUME NEW S, IsFiniteSet(S), NEW f \in [S -> Nat], NEW g \in [S -> Nat], NEW s \in S,
         f[s] = 0, \A u \in S : u # s => g[u] = f[u]
  PROVE  Total(g) = Total(f) + g[s]
<1>1. Total(g) + f[s] = Total(f) + g[s]
  BY TotalChange
<1>2. Total(g) \in Nat /\ Total(f) \in Nat /\ g[s] \in Nat
  BY TotalType
<1>3. QED
  BY <1>1, <1>2

LEMMA DedicatedBooked ==
  ASSUME NEW coming \in SupplyRows, PlanningOK, NEW sel \in Project, NEW target, NEW arrived, NEW plan,
         Fits(coming, sel, target, arrived, plan), NEW s \in Src \ {Stock}, s \notin arrived,
         coming[s].owner \in Project
  PROVE  LET next == DedicatedArrives(coming, plan, s)
         IN  next \in Plan => BooksDedicated(Account(plan), Account(next), coming[s].owner, coming[s].quantity)
<1> DEFINE p    == coming[s].owner
           q    == coming[s].quantity
           n    == Smaller(q, plan.backlog[p])
           next == DedicatedArrives(coming, plan, s)
           a    == Account(plan)
           b    == Account(next)
<1>0. SUFFICES ASSUME next \in Plan PROVE BooksDedicated(a, b, p, q)
  OBVIOUS
<1>1. plan \in Plan /\ q \in Nat /\ plan.backlog[p] \in Nat /\ p \in Project
  BY ComingType, PlanFields DEF Fits
<1>2. next = [plan EXCEPT !.backlog[p] = @ - n, !.late[p][s] = @ + n, !.ready[p][s] = q - n]
  BY Zenon DEF DedicatedArrives
<1>3. plan.ready[p][s] = 0
  <2>1. Counted(plan, s) <= 0
    BY DEF Fits, Limit
  <2> QED BY <1>1, <2>1, NothingCounted
<1>4. n \in Nat /\ n <= q /\ plan.backlog[p] - n = Monus(plan.backlog[p], q) /\ q - n = Monus(q, plan.backlog[p])
      /\ q - n \in Nat
  <2> HIDE DEF q, p
  <2> QED BY <1>1 DEF Smaller, Monus
<1> HIDE DEF p, q, n, next
<1>5. /\ next.pool = plan.pool /\ next.poolSeen = plan.poolSeen /\ next.shortage = plan.shortage
      /\ next.backlog = [plan.backlog EXCEPT ![p] = @ - n]
      /\ next.ready = [plan.ready EXCEPT ![p][s] = q - n]
  BY <1>1, <1>2 DEF Plan
<1>6. /\ plan.ready \in [Project -> [Src -> Nat]] /\ plan.backlog \in [Project -> Nat]
      /\ next.ready \in [Project -> [Src -> Nat]]
  BY <1>0, <1>1, PlanFields
<1>7. /\ next.backlog[p] = Monus(plan.backlog[p], q)
      /\ \A r \in Project : r # p => next.backlog[r] = plan.backlog[r] /\ next.ready[r] = plan.ready[r]
  BY <1>1, <1>4, <1>5, <1>6
<1>8. Total(next.ready[p]) = Total(plan.ready[p]) + (q - n)
  <2> DEFINE f == plan.ready[p]
             g == next.ready[p]
  <2>1. f \in [Src -> Nat] /\ g \in [Src -> Nat]
    BY <1>1, <1>6
  <2>2. g[s] = q - n /\ \A u \in Src : u # s => g[u] = f[u]
    BY <1>1, <1>5, <1>6
  <2>0. s \in Src /\ IsFiniteSet(Src)
    BY SourcesFinite
  <2>3. f[s] = 0
    BY <1>3
  <2> HIDE DEF f, g
  <2>4. Total(g) = Total(f) + g[s]
    BY <2>0, <2>1, <2>2, <2>3, EntryAdded
  <2>5. Total(g) = Total(f) + (q - n)
    BY <2>2, <2>4
  <2> QED BY <2>5 DEF f, g
<1>9. /\ a.pool = Total(plan.pool) /\ a.backlog = plan.backlog
      /\ a.seen = plan.poolSeen /\ a.shortage = plan.shortage
      /\ \A r \in Project : a.own[r] = Total(plan.ready[r])
      /\ b.pool = Total(next.pool) /\ b.backlog = next.backlog
      /\ b.seen = next.poolSeen /\ b.shortage = next.shortage
      /\ \A r \in Project : b.own[r] = Total(next.ready[r])
  BY <1>0, <1>1, AccountType
<1> HIDE DEF a, b
<1>10. QED
  BY <1>1, <1>4, <1>5, <1>7, <1>8, <1>9 DEF BooksDedicated

\* What one place in the sequence was drawn for, its project is given.
LEMMA GivenAt ==
  ASSUME NEW sel \in Project, NEW sequence, Sequenced(sel, sequence),
         NEW drawn \in [DOMAIN sequence -> Nat], NEW given, given = Given(sequence, drawn)
  PROVE  /\ \A i \in DOMAIN sequence : given[sequence[i]] = drawn[i]
         /\ \A p \in Project : (\A i \in DOMAIN sequence : sequence[i] # p) => given[p] = 0
<1> DEFINE S == DOMAIN sequence
           T(p) == { j \in S : sequence[j] = p }
<1>1. IsFiniteSet(S) /\ \A i \in S : sequence[i] \in Project
  <2>1. S = 1 .. Cardinality(Planned(sel)) /\ Cardinality(Planned(sel)) \in Int
    BY DEF Sequenced
  <2>2. IsFiniteSet(S)
    <3> HIDE DEF S
    <3> QED BY <2>1, FS_Interval
  <2> QED BY <2>2, PlannedType DEF Sequenced
<1>2. ASSUME NEW i \in S PROVE given[sequence[i]] = drawn[i]
  <2> DEFINE P == T(sequence[i])
             f == [j \in P |-> drawn[j]]
  <2>1. given[sequence[i]] = Total(f)
    BY <1>1 DEF Given
  <2>2. P = {i}
    BY DEF Sequenced
  <2>3. f \in [P -> Nat] /\ f[i] = drawn[i] /\ i \in P /\ \A j \in P : j = i
    BY <2>2
  <2>4. IsFiniteSet(P)
    BY <2>2, FS_Singleton
  <2>5. Total(f) = f[i]
    <3> HIDE DEF f, P
    <3> QED BY <2>3, <2>4, TotalSingle
  <2> QED BY <2>1, <2>3, <2>5
<1>3. ASSUME NEW p \in Project, \A i \in S : sequence[i] # p PROVE given[p] = 0
  <2> DEFINE f == [j \in {} |-> drawn[j]]
  <2>1. T(p) = {}
    BY <1>3
  <2>2. given[p] = Total([j \in T(p) |-> drawn[j]])
    BY DEF Given
  <2>3. given[p] = Total(f)
    <3> HIDE DEF T
    <3> QED BY <2>1, <2>2
  <2>4. f \in [{} -> Nat] /\ IsFiniteSet({}) /\ \A x \in {} : f[x] = 0
    BY FS_EmptySet
  <2>5. Total(f) = 0
    <3> HIDE DEF f
    <3> QED BY <2>4, TotalZero
  <2> QED BY <2>3, <2>5
<1>4. QED
  BY <1>2, <1>3

LEMMA GenericBooked ==
  ASSUME NEW coming \in SupplyRows, PlanningOK, NEW sel \in Project, NEW target, NEW arrived, NEW plan,
         Fits(coming, sel, target, arrived, plan), NEW s \in Src \ {Stock}, s \notin arrived,
         coming[s].owner = NoProject, NEW sequence, Sequenced(sel, sequence)
  PROVE  LET next == GenericArrives(coming, plan, s, sequence)
         IN  next \in Plan => BooksGeneric(Account(plan), Account(next), sequence, coming[s].quantity)
<1> DEFINE D       == DOMAIN sequence
           q       == coming[s].quantity
           waiting == [i \in D |-> plan.backlog[sequence[i]]]
           before  == { p \in D \X D : p[1] < p[2] }
           drawn   == InOrder(waiting, q, before)
           given   == [p \in Project |-> Total([i \in { j \in D : sequence[j] = p } |-> drawn[i]])]
           next    == GenericArrives(coming, plan, s, sequence)
           late    == [p \in Project |-> [plan.late[p] EXCEPT ![s] = @ + given[p]]]
           a       == Account(plan)
           b       == Account(next)
<1>0. SUFFICES ASSUME next \in Plan PROVE BooksGeneric(a, b, sequence, q)
  OBVIOUS
<1>1. plan \in Plan /\ q \in Nat /\ plan.backlog \in [Project -> Nat]
  BY ComingType, PlanFields DEF Fits
<1>2. IsFiniteSet(D) /\ \A i \in D : i \in Nat /\ sequence[i] \in Project
  <2>1. D = 1 .. Cardinality(Planned(sel)) /\ Cardinality(Planned(sel)) \in Int
    BY DEF Sequenced
  <2>2. Planned(sel) \subseteq Project
    BY PlannedType
  <2>3. \A i \in D : i \in Nat /\ sequence[i] \in Project
    BY <2>1, <2>2 DEF Sequenced
  <2> HIDE DEF D
  <2> QED BY <2>1, <2>3, FS_Interval
<1>3. waiting \in [D -> Nat]
  <2> HIDE DEF D
  <2> QED BY <1>1, <1>2
<1>4. StrictlyOrders(before, { i \in D : waiting[i] > 0 })
  <2>1. \A i, j \in D : <<i, j>> \in before <=> i < j
    OBVIOUS
  <2> HIDE DEF D, waiting, before
  <2> QED BY <1>2, <2>1 DEF StrictlyOrders
<1>5. /\ drawn \in [D -> Nat]
      /\ \A i \in D : drawn[i] <= waiting[i]
      /\ Total(drawn) = Smaller(q, Total(waiting))
  <2>1. q \in Nat /\ IsFiniteSet(D)
    BY <1>1, <1>2
  <2> HIDE DEF D, waiting, before, q
  <2> QED BY <1>3, <1>4, <2>1, InOrderDraw
<1>6. ASSUME NEW i \in D
      PROVE  /\ drawn[i] = Smaller(waiting[i], Monus(q, OwedBefore(plan.backlog, sequence, i)))
             /\ OwedBefore(plan.backlog, sequence, i) \in Nat
  <2> DEFINE B == { k \in D : <<k, i>> \in before }
             A == { k \in D : k < i }
             f == [k \in A |-> waiting[k]]
  <2>1. A = B
    OBVIOUS
  <2>2. drawn[i] = Smaller(waiting[i], Monus(q, Total([k \in B |-> waiting[k]])))
    <3>1. DOMAIN waiting = D
      OBVIOUS
    <3> HIDE DEF q, before, waiting, D
    <3> QED BY <3>1 DEF InOrder
  <2>3. drawn[i] = Smaller(waiting[i], Monus(q, Total(f)))
    <3> HIDE DEF waiting, A, B, drawn
    <3> QED BY <2>1, <2>2
  <2>4. f = [k \in A |-> plan.backlog[sequence[k]]]
    OBVIOUS
  <2>5. OwedBefore(plan.backlog, sequence, i) = Total([k \in A |-> plan.backlog[sequence[k]]])
    BY DEF OwedBefore
  <2>6. Total(f) \in Nat
    <3>1. IsFiniteSet(A)
      <4>1. A \in SUBSET D
        OBVIOUS
      <4> HIDE DEF A, D
      <4> QED BY <1>2, <4>1, FS_Subset
    <3>2. f \in [A -> Nat]
      <4> HIDE DEF waiting
      <4> QED BY <1>3
    <3> HIDE DEF f, A
    <3> QED BY <3>1, <3>2, TotalType
  <2> HIDE DEF f, drawn, waiting, A
  <2> QED BY <2>3, <2>4, <2>5, <2>6
<1>7. Total(waiting) \in Nat /\ Owed(plan.backlog, sequence) = Total(waiting)
  <2>1. Owed(plan.backlog, sequence) = Total(waiting)
    BY DEF Owed
  <2> HIDE DEF D, waiting
  <2> QED BY <1>2, <1>3, <2>1, TotalType
<1>8. /\ given \in [Project -> Nat] /\ Total(given) = Total(drawn)
      /\ \A p \in Project : given[p] <= plan.backlog[p]
      /\ \A i \in D : given[sequence[i]] = drawn[i]
      /\ \A p \in Project : (\A i \in D : sequence[i] # p) => given[p] = 0
  <2> DEFINE backlog == plan.backlog
  <2>1. \A i \in DOMAIN sequence : drawn[i] <= backlog[sequence[i]]
    <3> HIDE DEF drawn
    <3> QED BY <1>5
  <2>2. given = Given(sequence, drawn)
    BY DEF Given
  <2>3. drawn \in [DOMAIN sequence -> Nat]
    BY <1>5
  <2>4. backlog \in [Project -> Nat]
    BY <1>1
  <2> HIDE DEF drawn, given, D, backlog
  <2>5. /\ given \in [Project -> Nat] /\ Total(given) = Total(drawn)
        /\ \A p \in Project : given[p] <= backlog[p]
    BY <2>1, <2>2, <2>3, <2>4, GivenFits
  <2>6. /\ \A i \in DOMAIN sequence : given[sequence[i]] = drawn[i]
        /\ \A p \in Project : (\A i \in DOMAIN sequence : sequence[i] # p) => given[p] = 0
    BY <2>2, <2>3, GivenAt
  <2> QED BY <2>5, <2>6 DEF backlog, D
<1>9. Total(given) = Smaller(q, Total(waiting)) /\ Total(given) \in Nat
      /\ q - Total(given) = Monus(q, Total(waiting)) /\ q - Total(given) \in Nat
  <2> HIDE DEF q, given, drawn, waiting
  <2> QED BY <1>1, <1>5, <1>7, <1>8 DEF Smaller, Monus
<1>10. next = [plan EXCEPT !.backlog = Minus(@, given), !.late = late,
                           !.pool[s] = q - Total(given)]
  BY Zenon DEF GenericArrives
<1>11. plan.pool[s] = 0
  <2>1. Counted(plan, s) <= 0
    BY DEF Fits, Limit
  <2> QED BY <1>1, <2>1, NothingCounted
<1> HIDE DEF q, given, next, late, drawn, waiting, before, D
<1>12. /\ next.pool = [plan.pool EXCEPT ![s] = q - Total(given)]
       /\ next.ready = plan.ready
       /\ next.poolSeen = plan.poolSeen /\ next.shortage = plan.shortage
       /\ next.backlog = Minus(plan.backlog, given)
  BY <1>1, <1>10 DEF Plan
<1>13. Total(next.pool) = Total(plan.pool) + Monus(q, Total(waiting))
  <2> DEFINE f == plan.pool
             g == next.pool
  <2>1. f \in [Src -> Nat] /\ g \in [Src -> Nat]
    BY <1>0, <1>1, PlanFields
  <2>2. g[s] = Monus(q, Total(waiting)) /\ \A u \in Src : u # s => g[u] = f[u]
    BY <1>9, <1>12, <2>1
  <2>0. s \in Src /\ IsFiniteSet(Src)
    BY SourcesFinite
  <2>3. f[s] = 0
    BY <1>11
  <2> HIDE DEF f, g
  <2>4. Total(g) = Total(f) + g[s]
    BY <2>0, <2>1, <2>2, <2>3, EntryAdded
  <2> QED BY <2>2, <2>4 DEF f, g
<1>14. Total(next.backlog) + Smaller(q, Total(waiting)) = Total(plan.backlog)
  BY <1>1, <1>8, <1>9, <1>12, SourcesFinite, TotalMinus
<1>15. \A p \in Project : next.backlog[p] = plan.backlog[p] - given[p]
  BY <1>1, <1>12 DEF Minus
<1>16. ASSUME NEW i \in D
       PROVE  next.backlog[sequence[i]] =
                Monus(plan.backlog[sequence[i]], Monus(q, OwedBefore(plan.backlog, sequence, i)))
  <2> DEFINE x == plan.backlog[sequence[i]]
             y == Monus(q, OwedBefore(plan.backlog, sequence, i))
  <2>1. x \in Nat /\ y \in Nat /\ waiting[i] = x
    <3>1. x \in Nat /\ waiting[i] = x
      BY <1>1, <1>2 DEF waiting
    <3>2. y \in Nat
      BY <1>1, <1>6 DEF Monus
    <3> QED BY <3>1, <3>2
  <2>2. next.backlog[sequence[i]] = x - Smaller(x, y)
    BY <1>2, <1>6, <1>8, <1>15, <2>1
  <2> HIDE DEF x, y
  <2>3. x - Smaller(x, y) = Monus(x, y)
    BY <2>1 DEF Smaller, Monus
  <2> QED BY <2>2, <2>3 DEF x, y
<1>17. ASSUME NEW p \in Project, \A i \in D : sequence[i] # p
       PROVE  next.backlog[p] = plan.backlog[p]
  <2>1. given[p] = 0 /\ plan.backlog[p] \in Nat
    BY <1>1, <1>8, <1>17
  <2> QED BY <1>15, <2>1
<1>18. /\ a.pool = Total(plan.pool) /\ a.backlog = plan.backlog
       /\ a.seen = plan.poolSeen /\ a.shortage = plan.shortage
       /\ b.pool = Total(next.pool) /\ b.backlog = next.backlog
       /\ b.seen = next.poolSeen /\ b.shortage = next.shortage
       /\ b.own = a.own
  <2>1. b.own = a.own
    BY <1>12 DEF Account
  <2> QED BY <1>0, <1>1, <2>1, AccountType
<1> HIDE DEF a, b
<1>19. QED
  BY <1>7, <1>12, <1>13, <1>14, <1>16, <1>17, <1>18 DEF BooksGeneric, D

\* What a draw takes is all that is asked for or all there is.
LEMMA DrawTotal ==
  ASSUME NEW coming \in SupplyRows, PlanningOK, NEW f \in [Src -> Nat], NEW n \in Nat, NEW d, d = InOrder(f, n, Before(coming))
  PROVE  /\ d \in [Src -> Nat]
         /\ Total(f) \in Nat /\ Total(d) = Smaller(n, Total(f))
         /\ n - Total(d) = Monus(n, Total(f)) /\ n - Total(d) \in Nat
         /\ Minus(f, d) \in [Src -> Nat] /\ Total(Minus(f, d)) = Monus(Total(f), n)
<1> DEFINE before == Before(coming)
<1>1. StrictlyOrders(before, { s \in Src : f[s] > 0 })
  <2>1. StrictlyOrders(before, Src)
    BY BeforeOrders
  <2> HIDE DEF before
  <2> QED BY <2>1 DEF StrictlyOrders
<1>2. IsFiniteSet(Src)
  BY SourcesFinite
<1>3. d = InOrder(f, n, before)
  OBVIOUS
<1> HIDE DEF before
<1>4. /\ d \in [Src -> Nat]
      /\ \A x \in Src : d[x] <= f[x]
      /\ Total(d) = Smaller(n, Total(f))
  BY <1>1, <1>2, <1>3, InOrderDraw
<1>5. Total(f) \in Nat
  BY <1>2, TotalType
<1>6. Minus(f, d) \in [Src -> Nat] /\ Total(Minus(f, d)) + Total(d) = Total(f)
  BY <1>2, <1>4, TotalMinus
<1>7. Total(Minus(f, d)) \in Nat
  BY <1>2, <1>6, TotalType
<1>8. QED
  BY <1>4, <1>5, <1>6, <1>7 DEF Smaller, Monus

LEMMA DemandBooked ==
  ASSUME NEW coming \in SupplyRows, PlanningOK, NEW plan \in Plan, NEW p \in Project
  PROVE  LET next == Demanded(coming, plan, p)
         IN  next \in Plan => BooksDemand(Account(plan), Account(next), p, projects[p].required)
<1> DEFINE required == projects[p].required
           ready    == plan.ready[p]
           pool     == plan.pool
           own      == InOrder(ready, required, Before(coming))
           generic  == InOrder(pool, required - Total(own), Before(coming))
           short    == required - Total(own) - Total(generic)
           next     == Demanded(coming, plan, p)
           a        == Account(plan)
           b        == Account(next)
<1>0. SUFFICES ASSUME next \in Plan PROVE BooksDemand(a, b, p, required)
  OBVIOUS
<1>1. /\ required \in Nat /\ ready \in [Src -> Nat] /\ pool \in [Src -> Nat]
      /\ plan.ready \in [Project -> [Src -> Nat]] /\ plan.poolSeen \in [Project -> Nat]
      /\ plan.backlog \in [Project -> Nat] /\ plan.shortage \in [Project -> Nat]
  BY PlanFields DEF PlanningOK, ProjectRow
<1>2. next = [plan EXCEPT !.onTime[p] = Plus(own, generic), !.poolSeen[p] = Total(pool),
                          !.ready[p] = Minus(@, own), !.pool = Minus(@, generic),
                          !.shortage[p] = short, !.backlog[p] = short]
  <2> DEFINE first == { pair : pair \in Before(coming) }
             mine  == InOrder(ready, required, first)
  <2>1. first = Before(coming)
    OBVIOUS
  <2>2. next = CoveredBy(plan, p, mine, InOrder(pool, required - Total(mine), first))
    BY Zenon DEF Demanded
  <2> HIDE DEF first, next
  <2>3. next = CoveredBy(plan, p, own, generic)
    BY Zenon, <2>1, <2>2
  <2> HIDE DEF own, generic
  <2> QED BY Zenon, <2>3 DEF CoveredBy
<1> HIDE DEF required, ready, pool, next
<1>3. /\ own \in [Src -> Nat]
      /\ Total(ready) \in Nat
      /\ required - Total(own) = Monus(required, Total(ready)) /\ required - Total(own) \in Nat
      /\ Minus(ready, own) \in [Src -> Nat] /\ Total(Minus(ready, own)) = Monus(Total(ready), required)
  BY <1>1, DrawTotal
<1> DEFINE rest == required - Total(own)
<1>4. /\ generic \in [Src -> Nat]
      /\ Total(pool) \in Nat
      /\ rest - Total(generic) = Monus(rest, Total(pool))
      /\ Minus(pool, generic) \in [Src -> Nat] /\ Total(Minus(pool, generic)) = Monus(Total(pool), rest)
  <2> DEFINE d == generic
  <2>1. rest \in Nat /\ d = InOrder(pool, rest, Before(coming))
    BY <1>3
  <2> HIDE DEF rest, d
  <2>2. /\ d \in [Src -> Nat]
        /\ Total(pool) \in Nat
        /\ rest - Total(d) = Monus(rest, Total(pool))
        /\ Minus(pool, d) \in [Src -> Nat] /\ Total(Minus(pool, d)) = Monus(Total(pool), rest)
    <3>1. pool \in [Src -> Nat]
      BY <1>1
    <3> QED BY <2>1, <3>1, DrawTotal
  <2> QED BY <2>2 DEF d
<1>5. rest = Monus(required, Total(ready)) /\ short = Monus(rest, Total(pool))
  <2>1. rest = Monus(required, Total(ready))
    BY <1>3
  <2>2. short = rest - Total(generic)
    OBVIOUS
  <2> HIDE DEF rest, short
  <2> QED BY <1>4, <2>1, <2>2
<1> HIDE DEF own, generic, short, rest
<1>6. /\ next.pool = Minus(pool, generic)
      /\ next.ready = [plan.ready EXCEPT ![p] = Minus(ready, own)]
      /\ next.poolSeen = [plan.poolSeen EXCEPT ![p] = Total(pool)]
      /\ next.shortage = [plan.shortage EXCEPT ![p] = short]
      /\ next.backlog = [plan.backlog EXCEPT ![p] = short]
  BY <1>2 DEF Plan, pool, ready
<1>7. /\ next.ready[p] = Minus(ready, own) /\ next.poolSeen[p] = Total(pool)
      /\ next.shortage[p] = short /\ next.backlog[p] = short
      /\ \A r \in Project : r # p => /\ next.ready[r] = plan.ready[r] /\ next.poolSeen[r] = plan.poolSeen[r]
                                     /\ next.shortage[r] = plan.shortage[r]
                                     /\ next.backlog[r] = plan.backlog[r]
  BY <1>1, <1>6
<1>8. /\ a.pool = Total(pool) /\ a.backlog = plan.backlog
      /\ a.seen = plan.poolSeen /\ a.shortage = plan.shortage
      /\ \A r \in Project : a.own[r] = Total(plan.ready[r])
      /\ b.pool = Total(next.pool) /\ b.backlog = next.backlog
      /\ b.seen = next.poolSeen /\ b.shortage = next.shortage
      /\ \A r \in Project : b.own[r] = Total(next.ready[r])
  BY <1>0, AccountType DEF pool
<1> HIDE DEF a, b
<1>9. a.own[p] = Total(ready)
  BY <1>8 DEF ready
<1>10. QED
  BY <1>3, <1>4, <1>5, <1>6, <1>7, <1>8, <1>9 DEF BooksDemand

\* How an event is booked, and the accounts of a plan, event by event.
Books(coming, sequence, e, a, b) ==
  /\ e.kind = "dedicated" => BooksDedicated(a, b, coming[e.subject].owner, coming[e.subject].quantity)
  /\ e.kind = "generic"   => BooksGeneric(a, b, sequence, coming[e.subject].quantity)
  /\ e.kind = "demand"    => BooksDemand(a, b, e.subject, projects[e.subject].required)

Opened(a) ==
  /\ a \in AccountRow /\ a.pool = Total(Available)
  /\ \A p \in Project : a.own[p] = 0 /\ a.backlog[p] = 0 /\ a.seen[p] = 0 /\ a.shortage[p] = 0

Booked(coming, sequence, events, a) ==
  /\ \A i \in 0 .. Len(events) : a[i] \in AccountRow
  /\ Opened(a[0])
  /\ \A i \in 1 .. Len(events) : Books(coming, sequence, events[i], a[i - 1], a[i])

LEMMA OpeningBooked ==
  ASSUME NEW coming \in SupplyRows, PlanningOK, NEW sel \in Project, NEW target
  PROVE  Opened(Account(Opening))
<1>1. Opening \in Plan
  BY OpeningFits DEF Fits
<1>2. Stock \in Src /\ Total(Available) \in Nat
  <2>1. Stock \in Src
    BY ConstantsAssumption, PlanningAssumption DEF Src, Stock
  <2> QED BY <2>1, QuantityType DEF AmountOf
<1> DEFINE pool == [Nothing EXCEPT ![Stock] = Total(Available)]
           none == Nothing
<1>3. /\ none \in [Src -> Nat] /\ \A s \in Src : none[s] = 0
      /\ pool \in [Src -> Nat] /\ pool[Stock] = Total(Available)
      /\ \A s \in Src : s # Stock => pool[s] = 0
  BY <1>2 DEF Nothing
<1>4. /\ Opening.pool = pool /\ \A p \in Project : Opening.ready[p] = none
      /\ \A p \in Project : Opening.backlog[p] = 0 /\ Opening.poolSeen[p] = 0 /\ Opening.shortage[p] = 0
  BY DEF Opening
<1>5. IsFiniteSet(Src)
  BY SourcesFinite
<1> HIDE DEF pool, none
<1>6. Total(none) = 0
  BY <1>3, <1>5, TotalZero
<1>7. Total(pool) = pool[Stock]
  BY <1>2, <1>3, <1>5, TotalSingle
<1>8. QED
  BY <1>1, <1>3, <1>4, <1>6, <1>7, AccountType DEF Opened

LEMMA NettedBooked ==
  ASSUME NEW coming \in SupplyRows, PlanningOK, NEW sel \in Project, NEW target, StartDate(target),
         NEW sequence, Sequenced(sel, sequence),
         NEW events, Timed(coming, sel, target, events), NEW i \in 1 .. Len(events),
         NEW plan, Fits(coming, sel, target, Arrived(coming, sel, events, i - 1), plan),
         Netted(coming, plan, events[i], sequence) \in Plan
  PROVE  Books(coming, sequence, events[i], Account(plan),
               Account(Netted(coming, plan, events[i], sequence)))
<1> DEFINE e      == events[i]
           before == Arrived(coming, sel, events, i - 1)
           next   == Netted(coming, plan, e, sequence)
<1>1. /\ Len(events) \in Nat /\ EventOK(coming, sel, target, e)
      /\ \A j \in 1 .. (i - 1) : j \in 1 .. Len(events)
  BY DEF Timed
<1>2. \A s \in before : s = Stock \/
        \E j \in 1 .. (i - 1) : SupplyEvent(coming, sel, events[j]) /\ events[j].subject = s
  BY DEF Arrived
<1>3. ASSUME SupplyEvent(coming, sel, e) PROVE e.subject \notin before
  <2>1. e.subject # Stock
    BY <1>3 DEF SupplyEvent
  <2>2. \A j \in 1 .. (i - 1) : SupplyEvent(coming, sel, events[j]) => events[j].subject # e.subject
    BY <1>1, <1>3 DEF Timed
  <2> QED BY <1>2, <2>1, <2>2
<1> HIDE DEF before
<1>4. CASE SupplyEvent(coming, sel, e) /\ e.kind = "dedicated"
  <2>1. e.subject \in Src \ {Stock} /\ coming[e.subject].owner \in Project
    BY <1>4, PlannedType DEF SupplyEvent
  <2>2. next = DedicatedArrives(coming, plan, e.subject)
    BY <1>4 DEF Netted
  <2>3. Fits(coming, sel, target, before, plan) /\ next \in Plan
    BY DEF before
  <2> HIDE DEF e, next
  <2>4. BooksDedicated(Account(plan), Account(next), coming[e.subject].owner, coming[e.subject].quantity)
    BY <1>3, <1>4, <2>1, <2>2, <2>3, DedicatedBooked
  <2>5. Books(coming, sequence, e, Account(plan), Account(next))
    BY <1>4, <2>4 DEF Books
  <2> QED BY <2>5 DEF e, next
<1>5. CASE SupplyEvent(coming, sel, e) /\ e.kind = "generic"
  <2>1. e.subject \in Src \ {Stock} /\ coming[e.subject].owner = NoProject
    BY <1>5 DEF SupplyEvent
  <2>2. next = GenericArrives(coming, plan, e.subject, sequence)
    BY <1>5 DEF Netted
  <2>3. Fits(coming, sel, target, before, plan) /\ next \in Plan
    BY DEF before
  <2> HIDE DEF e, next
  <2>4. BooksGeneric(Account(plan), Account(next), sequence, coming[e.subject].quantity)
    BY <1>3, <1>5, <2>1, <2>2, <2>3, GenericBooked
  <2>5. Books(coming, sequence, e, Account(plan), Account(next))
    BY <1>5, <2>4 DEF Books
  <2> QED BY <2>5 DEF e, next
<1>6. CASE DemandEvent(sel, target, e)
  <2>1. e.kind = "demand" /\ e.subject \in Project
    BY <1>6, PlannedType DEF DemandEvent
  <2>2. next = Demanded(coming, plan, e.subject)
    BY <2>1 DEF Netted
  <2>3. plan \in Plan /\ next \in Plan
    BY DEF Fits
  <2> HIDE DEF e, next
  <2>4. BooksDemand(Account(plan), Account(next), e.subject, projects[e.subject].required)
    BY <2>1, <2>2, <2>3, DemandBooked
  <2>5. Books(coming, sequence, e, Account(plan), Account(next))
    BY <2>1, <2>4 DEF Books
  <2> QED BY <2>5 DEF e, next
<1>7. QED
  BY <1>1, <1>4, <1>5, <1>6 DEF EventOK, SupplyEvent

\* The plan of the events has accounts, from stock to the last event.
LEMMA PlanBooked ==
  ASSUME NEW coming \in SupplyRows, PlanningOK, NEW sel \in Project, NEW target, StartDate(target)
  PROVE  \E a : /\ Booked(coming, Sequence(sel, target), Events(coming, sel, target), a)
                /\ a[Len(Events(coming, sel, target))] = Account(NettedPlan(coming, sel, target))
                /\ NettedPlan(coming, sel, target) \in Plan
<1> DEFINE sequence == Sequence(sel, target)
           events   == Events(coming, sel, target)
           f        == CHOOSE g : IsPlanning(coming, sequence, events, g)
           a        == [i \in 0 .. Len(events) |-> Account(f[i])]
<1>1. Sequenced(sel, sequence) /\ Timed(coming, sel, target, events)
  BY SequenceIsSequenced, EventsAreTimed
<1>2. NettedPlan(coming, sel, target) = f[Len(events)]
  BY Zenon DEF NettedPlan, IsPlanning
<1> HIDE DEF sequence, events
<1>3. IsPlanning(coming, sequence, events, f)
  <2>1. \E g : IsPlanning(coming, sequence, events, g)
    BY <1>1, PlanningDefined
  <2> QED BY <2>1
<1> HIDE DEF f
<1>4. Stepwise(coming, sel, target, sequence, events, f)
  BY <1>1, <1>3, PlanningStepwise
<1>5. \A i \in 0 .. Len(events) : Fits(coming, sel, target, Arrived(coming, sel, events, i), f[i])
  BY <1>1, <1>4, StepwiseFits
<1>6. Len(events) \in Nat /\ \A i \in 1 .. Len(events) : i \in 0 .. Len(events) /\ i - 1 \in 0 .. Len(events)
  BY <1>1 DEF Timed
<1>7. \A i \in 0 .. Len(events) : f[i] \in Plan /\ a[i] = Account(f[i]) /\ a[i] \in AccountRow
  BY <1>5, AccountType DEF Fits
<1> HIDE DEF a
<1>8. ASSUME NEW i \in 1 .. Len(events) PROVE Books(coming, sequence, events[i], a[i - 1], a[i])
  <2>1. f[i] = Netted(coming, f[i - 1], events[i], sequence) /\ f[i] \in Plan
    BY <1>4, <1>5, <1>6, <1>7 DEF Stepwise
  <2>2. Fits(coming, sel, target, Arrived(coming, sel, events, i - 1), f[i - 1])
    BY <1>5, <1>6
  <2>3. Books(coming, sequence, events[i], Account(f[i - 1]), Account(f[i]))
    BY <1>1, <2>1, <2>2, NettedBooked
  <2>4. a[i - 1] = Account(f[i - 1]) /\ a[i] = Account(f[i])
    BY <1>6, <1>7
  <2> QED BY <2>3, <2>4
<1>9. Opened(a[0])
  <2>1. a[0] = Account(Opening)
    BY <1>4, <1>6, <1>7 DEF Stepwise
  <2> QED BY <2>1, OpeningBooked
<1>10. Booked(coming, sequence, events, a)
  BY <1>7, <1>8, <1>9 DEF Booked
<1>11. a[Len(events)] = Account(f[Len(events)]) /\ f[Len(events)] \in Plan
  BY <1>6, <1>7
<1>12. QED
  BY <1>2, <1>10, <1>11 DEF sequence, events

-----------------------------------------------------------------------------
(* More supply is no worse for anybody.                                    *)

\* What b has is at least what a has, what it is short of no more.
NoWorse(b, a) ==
  /\ b.pool >= a.pool
  /\ \A p \in Project : /\ b.own[p] >= a.own[p] /\ b.backlog[p] <= a.backlog[p]
                        /\ b.shortage[p] <= a.shortage[p]

LEMMA MonusMonotone ==
  ASSUME NEW x \in Nat, NEW y \in Nat
  PROVE  /\ Monus(x, y) \in Nat /\ Monus(x, y) <= x
         /\ \A z \in Nat : /\ x <= z => Monus(x, y) <= Monus(z, y)
                           /\ y <= z => Monus(x, z) <= Monus(x, y)
BY DEF Monus

LEMMA DedicatedNoWorse ==
  ASSUME NEW a \in AccountRow, NEW b \in AccountRow, NoWorse(b, a),
         NEW p \in Project, NEW q \in Nat, NEW c \in AccountRow, BooksDedicated(b, c, p, q)
  PROVE  /\ NoWorse(c, a)
         /\ \A d \in AccountRow : BooksDedicated(a, d, p, q) => NoWorse(c, d)
<1>1. /\ a.pool \in Nat /\ b.pool \in Nat
      /\ \A r \in Project : /\ a.own[r] \in Nat /\ b.own[r] \in Nat
                            /\ a.backlog[r] \in Nat /\ b.backlog[r] \in Nat
                            /\ a.shortage[r] \in Nat /\ b.shortage[r] \in Nat
  BY AccountFields
<1>2. ASSUME NEW x \in Nat, NEW y \in Nat, x <= y
      PROVE  /\ Monus(x, q) <= Monus(y, q) /\ Monus(x, q) <= y
             /\ Monus(q, y) <= Monus(q, x) /\ Monus(q, x) \in Nat /\ Monus(q, y) \in Nat
             /\ Monus(x, q) \in Nat
  BY <1>2 DEF Monus
<1>3. NoWorse(c, a)
  <2>1. c.pool >= a.pool
    BY DEF BooksDedicated, NoWorse
  <2>2. ASSUME NEW r \in Project
        PROVE  c.own[r] >= a.own[r] /\ c.backlog[r] <= a.backlog[r] /\ c.shortage[r] <= a.shortage[r]
    <3>1. CASE r # p
      BY <3>1 DEF BooksDedicated, NoWorse
    <3>2. CASE r = p
      <4>1. /\ b.backlog[p] <= a.backlog[p] /\ b.own[p] >= a.own[p] /\ b.shortage[p] <= a.shortage[p]
            /\ c.backlog[p] = Monus(b.backlog[p], q)
            /\ c.own[p] = b.own[p] + Monus(q, b.backlog[p]) /\ c.shortage = b.shortage
        BY DEF BooksDedicated, NoWorse
      <4>2. Monus(b.backlog[p], q) <= a.backlog[p] /\ Monus(q, b.backlog[p]) \in Nat
        BY <1>1, <1>2, <4>1
      <4> QED BY <1>1, <3>2, <4>1, <4>2
    <3> QED BY <3>1, <3>2
  <2> QED BY <2>1, <2>2 DEF NoWorse
<1>4. ASSUME NEW d \in AccountRow, BooksDedicated(a, d, p, q) PROVE NoWorse(c, d)
  <2>1. c.pool >= d.pool
    BY <1>4 DEF BooksDedicated, NoWorse
  <2>2. ASSUME NEW r \in Project
        PROVE  c.own[r] >= d.own[r] /\ c.backlog[r] <= d.backlog[r] /\ c.shortage[r] <= d.shortage[r]
    <3>1. CASE r # p
      BY <1>4, <3>1 DEF BooksDedicated, NoWorse
    <3>2. CASE r = p
      <4>1. /\ b.backlog[p] <= a.backlog[p] /\ b.own[p] >= a.own[p] /\ b.shortage[p] <= a.shortage[p]
            /\ c.backlog[p] = Monus(b.backlog[p], q) /\ d.backlog[p] = Monus(a.backlog[p], q)
            /\ c.own[p] = b.own[p] + Monus(q, b.backlog[p]) /\ c.shortage = b.shortage
            /\ d.own[p] = a.own[p] + Monus(q, a.backlog[p]) /\ d.shortage = a.shortage
        BY <1>4 DEF BooksDedicated, NoWorse
      <4>2. /\ Monus(b.backlog[p], q) <= Monus(a.backlog[p], q)
            /\ Monus(q, b.backlog[p]) \in Nat /\ Monus(q, a.backlog[p]) \in Nat
            /\ Monus(q, a.backlog[p]) <= Monus(q, b.backlog[p])
        BY <1>1, <1>2, <4>1
      <4> QED BY <1>1, <3>2, <4>1, <4>2
    <3> QED BY <3>1, <3>2
  <2> QED BY <2>1, <2>2 DEF NoWorse
<1>5. QED
  BY <1>3, <1>4

LEMMA OwedType ==
  ASSUME NEW sel \in Project, NEW sequence, Sequenced(sel, sequence),
         NEW x \in [Project -> Nat], NEW y \in [Project -> Nat], \A p \in Project : x[p] <= y[p]
  PROVE  /\ Owed(x, sequence) \in Nat /\ Owed(y, sequence) \in Nat
         /\ Owed(x, sequence) <= Owed(y, sequence)
         /\ \A i \in DOMAIN sequence :
              /\ OwedBefore(x, sequence, i) \in Nat /\ OwedBefore(y, sequence, i) \in Nat
              /\ OwedBefore(x, sequence, i) <= OwedBefore(y, sequence, i)
<1> DEFINE D == DOMAIN sequence
<1>1. IsFiniteSet(D) /\ \A i \in D : sequence[i] \in Project
  <2>1. D = 1 .. Cardinality(Planned(sel)) /\ Cardinality(Planned(sel)) \in Int
    BY DEF Sequenced
  <2>2. IsFiniteSet(D)
    <3> HIDE DEF D
    <3> QED BY <2>1, FS_Interval
  <2> QED BY <2>2, PlannedType DEF Sequenced
<1>2. ASSUME NEW T \in SUBSET D
      PROVE  LET f == [i \in T |-> x[sequence[i]]]
                 g == [i \in T |-> y[sequence[i]]]
             IN  Total(f) \in Nat /\ Total(g) \in Nat /\ Total(f) <= Total(g)
  <2> DEFINE f == [i \in T |-> x[sequence[i]]]
             g == [i \in T |-> y[sequence[i]]]
  <2>1. f \in [T -> Nat] /\ g \in [T -> Nat] /\ \A i \in T : f[i] <= g[i]
    BY <1>1
  <2>2. IsFiniteSet(T)
    BY <1>1, FS_Subset
  <2> HIDE DEF f, g
  <2>3. Total(f) \in Nat /\ Total(g) \in Nat /\ Total(f) <= Total(g)
    BY <2>1, <2>2, TotalType, TotalMonotone
  <2> QED BY <2>3 DEF f, g
<1>3. /\ Owed(x, sequence) \in Nat /\ Owed(y, sequence) \in Nat
      /\ Owed(x, sequence) <= Owed(y, sequence)
  <2>1. D \in SUBSET D
    OBVIOUS
  <2> QED BY <1>2, <2>1 DEF Owed
<1>4. ASSUME NEW i \in D
      PROVE  /\ OwedBefore(x, sequence, i) \in Nat /\ OwedBefore(y, sequence, i) \in Nat
             /\ OwedBefore(x, sequence, i) <= OwedBefore(y, sequence, i)
  <2> DEFINE T == { k \in D : k < i }
  <2>1. T \in SUBSET D
    OBVIOUS
  <2>2. /\ OwedBefore(x, sequence, i) = Total([j \in T |-> x[sequence[j]]])
        /\ OwedBefore(y, sequence, i) = Total([j \in T |-> y[sequence[j]]])
    BY DEF OwedBefore
  <2> HIDE DEF T
  <2> QED BY <1>2, <2>1, <2>2
<1>5. QED
  BY <1>3, <1>4

LEMMA GenericNoWorse ==
  ASSUME NEW a \in AccountRow, NEW b \in AccountRow, NoWorse(b, a),
         NEW sel \in Project, NEW sequence, Sequenced(sel, sequence),
         NEW q \in Nat, NEW c \in AccountRow, BooksGeneric(b, c, sequence, q)
  PROVE  /\ NoWorse(c, a)
         /\ \A d \in AccountRow : BooksGeneric(a, d, sequence, q) => NoWorse(c, d)
<1> DEFINE D == DOMAIN sequence
<1>1. /\ a.pool \in Nat /\ b.pool \in Nat /\ a.backlog \in [Project -> Nat] /\ b.backlog \in [Project -> Nat]
      /\ \A r \in Project : a.backlog[r] \in Nat /\ b.backlog[r] \in Nat
  BY AccountFields
<1>2. \A i \in D : sequence[i] \in Project
  BY PlannedType DEF Sequenced
<1>3. \A p \in Project : b.backlog[p] <= a.backlog[p]
  BY DEF NoWorse
<1>4. /\ Owed(b.backlog, sequence) \in Nat /\ Owed(a.backlog, sequence) \in Nat
      /\ Owed(b.backlog, sequence) <= Owed(a.backlog, sequence)
      /\ \A i \in D :
           /\ OwedBefore(b.backlog, sequence, i) \in Nat /\ OwedBefore(a.backlog, sequence, i) \in Nat
           /\ OwedBefore(b.backlog, sequence, i) <= OwedBefore(a.backlog, sequence, i)
  <2> DEFINE x == b.backlog
             y == a.backlog
  <2>1. x \in [Project -> Nat] /\ y \in [Project -> Nat] /\ \A p \in Project : x[p] <= y[p]
    BY <1>1, <1>3
  <2> HIDE DEF x, y
  <2>2. /\ Owed(x, sequence) \in Nat /\ Owed(y, sequence) \in Nat
        /\ Owed(x, sequence) <= Owed(y, sequence)
        /\ \A i \in DOMAIN sequence :
              /\ OwedBefore(x, sequence, i) \in Nat /\ OwedBefore(y, sequence, i) \in Nat
              /\ OwedBefore(x, sequence, i) <= OwedBefore(y, sequence, i)
    BY <2>1, OwedType
  <2> QED BY <2>2 DEF x, y
<1>5. ASSUME NEW x \in Nat, NEW y \in Nat, NEW m \in Nat, NEW n \in Nat, x <= y, m <= n
      PROVE  /\ Monus(x, Monus(q, m)) <= Monus(y, Monus(q, n))
             /\ Monus(x, Monus(q, m)) <= y
             /\ Monus(q, n) <= Monus(q, m) /\ Monus(q, m) \in Nat /\ Monus(q, n) \in Nat
  BY <1>5 DEF Monus
<1>6. /\ c.pool = b.pool + Monus(q, Owed(b.backlog, sequence))
      /\ c.own = b.own /\ c.shortage = b.shortage
      /\ \A i \in D : c.backlog[sequence[i]] =
           Monus(b.backlog[sequence[i]], Monus(q, OwedBefore(b.backlog, sequence, i)))
      /\ \A p \in Project : (\A i \in D : sequence[i] # p) => c.backlog[p] = b.backlog[p]
  BY DEF BooksGeneric
<1> HIDE DEF D
<1>7. NoWorse(c, a)
  <2>1. c.pool >= a.pool
    <3>1. b.pool >= a.pool /\ Monus(q, Owed(b.backlog, sequence)) \in Nat
      BY <1>4, MonusMonotone DEF NoWorse
    <3> QED BY <1>1, <1>6, <3>1
  <2>2. \A p \in Project : c.own[p] >= a.own[p] /\ c.shortage[p] <= a.shortage[p]
    BY <1>6 DEF NoWorse
  <2>3. ASSUME NEW p \in Project PROVE c.backlog[p] <= a.backlog[p]
    <3>1. CASE \E i \in D : sequence[i] = p
      <4>1. PICK i \in D : sequence[i] = p
        BY <3>1
      <4> DEFINE m == OwedBefore(b.backlog, sequence, i)
                 n == OwedBefore(a.backlog, sequence, i)
      <4>2. m \in Nat /\ n \in Nat /\ m <= n
        BY <1>4
      <4>3. c.backlog[p] = Monus(b.backlog[p], Monus(q, m))
        BY <1>6, <4>1
      <4> HIDE DEF m, n
      <4> QED BY <1>1, <1>3, <1>5, <4>2, <4>3
    <3>2. CASE \A i \in D : sequence[i] # p
      BY <1>3, <1>6, <3>2
    <3> QED BY <3>1, <3>2
  <2> QED BY <2>1, <2>2, <2>3 DEF NoWorse
<1>8. ASSUME NEW d \in AccountRow, BooksGeneric(a, d, sequence, q) PROVE NoWorse(c, d)
  <2>0. /\ d.pool = a.pool + Monus(q, Owed(a.backlog, sequence))
        /\ d.own = a.own /\ d.shortage = a.shortage
        /\ \A i \in D : d.backlog[sequence[i]] =
             Monus(a.backlog[sequence[i]], Monus(q, OwedBefore(a.backlog, sequence, i)))
        /\ \A p \in Project : (\A i \in D : sequence[i] # p) => d.backlog[p] = a.backlog[p]
    BY <1>8 DEF BooksGeneric, D
  <2>1. c.pool >= d.pool
    <3> DEFINE m == Owed(b.backlog, sequence)
               n == Owed(a.backlog, sequence)
    <3>1. b.pool >= a.pool /\ m \in Nat /\ n \in Nat /\ m <= n
      BY <1>4 DEF NoWorse
    <3>2. c.pool = b.pool + Monus(q, m) /\ d.pool = a.pool + Monus(q, n)
      BY <1>6, <2>0
    <3> HIDE DEF m, n
    <3>3. Monus(q, m) \in Nat /\ Monus(q, n) \in Nat /\ Monus(q, n) <= Monus(q, m)
      BY <3>1, MonusMonotone
    <3> QED BY <1>1, <3>1, <3>2, <3>3
  <2>2. \A p \in Project : c.own[p] >= d.own[p] /\ c.shortage[p] <= d.shortage[p]
    BY <1>6, <2>0 DEF NoWorse
  <2>3. ASSUME NEW p \in Project PROVE c.backlog[p] <= d.backlog[p]
    <3>1. CASE \E i \in D : sequence[i] = p
      <4>1. PICK i \in D : sequence[i] = p
        BY <3>1
      <4> DEFINE m == OwedBefore(b.backlog, sequence, i)
                 n == OwedBefore(a.backlog, sequence, i)
      <4>2. m \in Nat /\ n \in Nat /\ m <= n
        BY <1>4
      <4>3. /\ c.backlog[p] = Monus(b.backlog[p], Monus(q, m))
            /\ d.backlog[p] = Monus(a.backlog[p], Monus(q, n))
        BY <1>6, <2>0, <4>1
      <4> HIDE DEF m, n
      <4> QED BY <1>1, <1>3, <1>5, <4>2, <4>3
    <3>2. CASE \A i \in D : sequence[i] # p
      BY <1>3, <1>6, <2>0, <3>2
    <3> QED BY <3>1, <3>2
  <2> QED BY <2>1, <2>2, <2>3 DEF NoWorse
<1>9. QED
  BY <1>7, <1>8

LEMMA DemandNoWorse ==
  ASSUME NEW a \in AccountRow, NEW b \in AccountRow, NoWorse(b, a),
         NEW p \in Project, NEW required \in Nat, NEW c \in AccountRow, NEW d \in AccountRow,
         BooksDemand(b, c, p, required), BooksDemand(a, d, p, required)
  PROVE  NoWorse(c, d)
<1>1. /\ a.pool \in Nat /\ b.pool \in Nat /\ a.own[p] \in Nat /\ b.own[p] \in Nat
      /\ a.pool <= b.pool /\ a.own[p] <= b.own[p]
  BY AccountFields DEF NoWorse
<1>2. /\ c.own[p] = Monus(b.own[p], required) /\ d.own[p] = Monus(a.own[p], required)
      /\ c.pool = Monus(b.pool, Monus(required, b.own[p]))
      /\ d.pool = Monus(a.pool, Monus(required, a.own[p]))
      /\ c.shortage[p] = Monus(Monus(required, b.own[p]), b.pool)
      /\ d.shortage[p] = Monus(Monus(required, a.own[p]), a.pool)
      /\ c.backlog[p] = c.shortage[p] /\ d.backlog[p] = d.shortage[p]
  BY DEF BooksDemand
<1>3. ASSUME NEW x \in Nat, NEW y \in Nat, NEW m \in Nat, NEW n \in Nat, x <= y, m <= n
      PROVE  /\ Monus(x, required) <= Monus(y, required)
             /\ Monus(m, Monus(required, x)) <= Monus(n, Monus(required, y))
             /\ Monus(Monus(required, y), n) <= Monus(Monus(required, x), m)
  BY <1>3 DEF Monus
<1>4. c.own[p] >= d.own[p] /\ c.pool >= d.pool /\ c.shortage[p] <= d.shortage[p]
      /\ c.backlog[p] <= d.backlog[p]
  <2>1. /\ Monus(a.own[p], required) <= Monus(b.own[p], required)
        /\ Monus(a.pool, Monus(required, a.own[p])) <= Monus(b.pool, Monus(required, b.own[p]))
        /\ Monus(Monus(required, b.own[p]), b.pool) <= Monus(Monus(required, a.own[p]), a.pool)
    BY <1>1, <1>3
  <2>2. /\ Monus(a.own[p], required) \in Nat /\ Monus(b.own[p], required) \in Nat
        /\ Monus(a.pool, Monus(required, a.own[p])) \in Nat
        /\ Monus(b.pool, Monus(required, b.own[p])) \in Nat
    BY <1>1, MonusMonotone
  <2> QED BY <1>2, <2>1, <2>2
<1>5. \A r \in Project : r # p => /\ c.own[r] >= d.own[r] /\ c.backlog[r] <= d.backlog[r]
                                  /\ c.shortage[r] <= d.shortage[r]
  BY DEF BooksDemand, NoWorse
<1>6. QED
  BY <1>4, <1>5 DEF NoWorse

-----------------------------------------------------------------------------
(* The events of more supply: the same, or one more among them.            *)

\* A set has one listing in an order.
LEMMA OneListing ==
  ASSUME NEW S, NEW before, StrictlyOrders(before, S),
         NEW a, NEW b, Listed(S, before, a), Listed(S, before, b)
  PROVE  a = b
<1> DEFINE N == Cardinality(S)
           T == { i \in 1 .. N : a[i] # b[i] }
<1>1. /\ N \in Nat /\ a \in [1 .. N -> S] /\ b \in [1 .. N -> S]
      /\ \A x \in S : (\E i \in 1 .. N : a[i] = x) /\ (\E i \in 1 .. N : b[i] = x)
      /\ \A i, j \in 1 .. N : i < j => <<a[i], a[j]>> \in before /\ <<b[i], b[j]>> \in before
      /\ \A i, j \in 1 .. N : a[i] = a[j] \/ b[i] = b[j] => i = j
  BY DEF Listed
<1> HIDE DEF N
<1>2. SUFFICES ASSUME T # {} PROVE FALSE
  <2>1. CASE T = {}
    <3>1. \A i \in 1 .. N : a[i] = b[i]
      BY <2>1
    <3>2. a = [i \in 1 .. N |-> a[i]] /\ b = [i \in 1 .. N |-> b[i]]
      BY <1>1
    <3> QED BY <3>1, <3>2
  <2> QED BY <2>1
<1>3. PICK i \in T : \A m \in T : i <= m
  <2>1. T \subseteq Nat
    OBVIOUS
  <2> HIDE DEF T
  <2> QED BY <1>2, <2>1, LeastNumber
<1>4. /\ i \in 1 .. N /\ a[i] # b[i]
      /\ \A m \in 1 .. N : m < i => a[m] = b[m]
  BY <1>3
<1>5. PICK j \in 1 .. N : b[j] = a[i]
  BY <1>1, <1>4
<1>6. PICK m \in 1 .. N : a[m] = b[i]
  BY <1>1, <1>4
<1>7. i < j
  <2>1. ~(j < i) /\ j # i
    BY <1>1, <1>4, <1>5
  <2> QED BY <1>4, <2>1
<1>8. i < m
  <2>1. ~(m < i) /\ m # i
    BY <1>1, <1>4, <1>6
  <2> QED BY <1>4, <2>1
<1>9. <<a[i], b[i]>> \in before /\ <<b[i], a[i]>> \in before
  BY <1>1, <1>4, <1>5, <1>6, <1>7, <1>8
<1>10. a[i] \in S /\ b[i] \in S
  BY <1>1, <1>4
<1>11. QED
  BY <1>9, <1>10 DEF StrictlyOrders

\* x joins a list at its place, and the rest of the list moves on.
Inserted(list, longer, N, k, x) ==
  /\ k \in 1 .. (N + 1) /\ longer[k] = x
  /\ \A i \in 1 .. N : longer[IF i < k THEN i ELSE i + 1] = list[i]

LEMMA InsertedListing ==
  ASSUME NEW S, IsFiniteSet(S), NEW x, x \notin S, NEW before, StrictlyOrders(before, S \cup {x}),
         NEW a, Listed(S, before, a), NEW b, Listed(S \cup {x}, before, b)
  PROVE  /\ Cardinality(S) \in Nat /\ Cardinality(S \cup {x}) = Cardinality(S) + 1
         /\ \E k : Inserted(a, b, Cardinality(S), k, x)
<1> DEFINE N == Cardinality(S)
           E == S \cup {x}
<1>1. N \in Nat /\ Cardinality(E) = N + 1
  BY FS_AddElement, FS_CardinalityType
<1>2. /\ b \in [1 .. (N + 1) -> E]
      /\ \A y \in E : \E i \in 1 .. (N + 1) : b[i] = y
      /\ \A i, j \in 1 .. (N + 1) : i < j => <<b[i], b[j]>> \in before
      /\ \A i, j \in 1 .. (N + 1) : b[i] = b[j] => i = j
  <2> HIDE DEF E, N
  <2>1. Listed(E, before, b)
    BY DEF E
  <2> QED BY <1>1, <2>1 DEF Listed
<1> HIDE DEF N
<1>3. PICK k \in 1 .. (N + 1) : b[k] = x
  BY <1>2
<1> DEFINE at(i) == IF i < k THEN i ELSE i + 1
           c == [i \in 1 .. N |-> b[at(i)]]
<1>4. \A i \in 1 .. N : at(i) \in 1 .. (N + 1) /\ at(i) # k
  BY <1>1, <1>3
<1>5. \A i, j \in 1 .. N : /\ i < j => at(i) < at(j)
                           /\ at(i) = at(j) => i = j
  BY <1>1, <1>3
<1>6. \A i \in 1 .. (N + 1) : i # k => \E j \in 1 .. N : at(j) = i
  <2> SUFFICES ASSUME NEW i \in 1 .. (N + 1), i # k PROVE \E j \in 1 .. N : at(j) = i
    OBVIOUS
  <2>1. CASE i < k
    <3>1. i \in 1 .. N /\ at(i) = i
      BY <1>1, <1>3, <2>1
    <3> QED BY <3>1
  <2>2. CASE i > k
    <3>1. i - 1 \in 1 .. N /\ at(i - 1) = i
      BY <1>1, <1>3, <2>2
    <3> QED BY <3>1
  <2> QED BY <1>1, <1>3, <2>1, <2>2
<1> HIDE DEF at
<1>7. Listed(S, before, c)
  <2>1. ASSUME NEW i \in 1 .. N PROVE c[i] \in S /\ c[i] = b[at(i)]
    <3>1. b[at(i)] \in E /\ b[at(i)] # x
      BY <1>2, <1>3, <1>4
    <3> QED BY <3>1
  <2>2. c \in [1 .. N -> S]
    BY <2>1
  <2>3. \A y \in S : \E i \in 1 .. N : c[i] = y
    <3> SUFFICES ASSUME NEW y \in S PROVE \E i \in 1 .. N : c[i] = y
      OBVIOUS
    <3>1. PICK i \in 1 .. (N + 1) : b[i] = y
      BY <1>2
    <3>2. i # k
      BY <1>3, <3>1
    <3>3. PICK j \in 1 .. N : at(j) = i
      BY <1>6, <3>2
    <3> QED BY <3>1, <3>3
  <2>4. \A i, j \in 1 .. N : i < j => <<c[i], c[j]>> \in before
    BY <1>2, <1>4, <1>5, <2>1
  <2>5. \A i, j \in 1 .. N : c[i] = c[j] => i = j
    BY <1>2, <1>4, <1>5, <2>1
  <2> HIDE DEF c
  <2> QED BY <1>1, <2>2, <2>3, <2>4, <2>5 DEF Listed, N
<1>8. StrictlyOrders(before, S)
  BY DEF StrictlyOrders
<1>9. c = a
  <2> HIDE DEF c
  <2> QED BY <1>7, <1>8, OneListing
<1>10. \A i \in 1 .. N : b[IF i < k THEN i ELSE i + 1] = a[i]
  BY <1>9 DEF at
<1>11. Inserted(a, b, N, k, x)
  BY <1>3, <1>10 DEF Inserted
<1>12. QED
  BY <1>1, <1>11 DEF N

\* Numbers from m on.
LEMMA NumbersFrom ==
  ASSUME NEW m \in Nat, NEW N \in Nat, NEW T, m \in T, \A i \in (m + 1) .. N : i - 1 \in T => i \in T
  PROVE  \A i \in m .. N : i \in T
<1> DEFINE S == { j \in Nat : m + j <= N => m + j \in T }
<1>1. 0 \in S
  OBVIOUS
<1>2. ASSUME NEW j \in Nat, j \in S PROVE j + 1 \in S
  <2>1. CASE m + (j + 1) <= N
    <3>1. m + j \in T /\ m + j = (m + (j + 1)) - 1 /\ m + (j + 1) \in (m + 1) .. N
      BY <1>2, <2>1
    <3>2. m + (j + 1) \in T
      BY <3>1
    <3> QED BY <3>2
  <2>2. CASE ~(m + (j + 1) <= N)
    BY <2>2
  <2> QED BY <2>1, <2>2
<1>3. \A j \in Nat : j \in S
  <2> HIDE DEF S
  <2> QED BY <1>1, <1>2, AllNumbers
<1>4. ASSUME NEW i \in m .. N PROVE i \in T
  <2>1. i - m \in Nat /\ m + (i - m) = i /\ i <= N
    OBVIOUS
  <2>2. i - m \in S
    BY <1>3, <2>1
  <2> QED BY <2>1, <2>2
<1>5. QED
  BY <1>4

\* What is coming in more is what is coming, with source s changed to bring
\* something.
MoreOf(more, coming, s) ==
  /\ coming[s].quantity = 0
  /\ \A t \in Src \ {Stock} : t # s => more[t] = coming[t]

LEMMA SameKeys ==
  ASSUME NEW coming \in SupplyRows, NEW more \in SupplyRows, NEW s \in Src \ {Stock},
         MoreOf(more, coming, s), NEW sel \in Project, NEW target
  PROVE  /\ \A e \in EventSet(coming, sel, target) : \A sequence :
              EventKey(more, e, sequence) = EventKey(coming, e, sequence)
         /\ \A e \in SupplyEvents(coming, sel) : e.subject # s
         /\ \/ EventSet(more, sel, target) = EventSet(coming, sel, target)
            \/ \E e : /\ e \notin EventSet(coming, sel, target) /\ SupplyEvent(more, sel, e) /\ e.subject = s
                      /\ EventSet(more, sel, target) = EventSet(coming, sel, target) \cup {e}
<1> DEFINE row(c, t) == [kind |-> IF c[t].owner = NoProject THEN "generic" ELSE "dedicated",
                         date |-> c[t].date, subject |-> t]
           comes(c) == { t \in Src \ {Stock} : /\ c[t].quantity > 0
                                               /\ c[t].owner \in Planned(sel) \cup {NoProject} }
<1>1. \A c : SupplyEvents(c, sel) = { row(c, t) : t \in comes(c) }
  BY DEF SupplyEvents
<1>2. \A t \in comes(coming) : t # s /\ row(more, t) = row(coming, t)
  BY DEF MoreOf
<1>3. \A t \in Src \ {Stock} : t # s => (t \in comes(more) <=> t \in comes(coming))
  BY DEF MoreOf
<1>4. \A e \in SupplyEvents(coming, sel) :
        /\ e.subject # s /\ e.subject \in Src \ {Stock} /\ e.kind # "demand"
  <2>1. \A e \in SupplyEvents(coming, sel) : \E t \in comes(coming) : e = row(coming, t)
    BY <1>1
  <2>2. \A t \in comes(coming) : row(coming, t).subject = t /\ row(coming, t).kind # "demand"
                                 /\ t \in Src \ {Stock}
    OBVIOUS
  <2> HIDE DEF row, comes
  <2> QED BY <1>2, <2>1, <2>2
<1>5. \A e \in DemandEvents(sel, target) : e.kind = "demand"
  BY DEF DemandEvents
<1>6. ASSUME NEW e \in EventSet(coming, sel, target), NEW sequence
      PROVE  EventKey(more, e, sequence) = EventKey(coming, e, sequence)
  <2>1. CASE e \in SupplyEvents(coming, sel)
    <3>1. more[e.subject] = coming[e.subject]
      BY <1>4, <2>1 DEF MoreOf
    <3>2. Key(more, e.subject) = Key(coming, e.subject)
      BY <3>1 DEF Key
    <3> QED BY <1>4, <2>1, <3>1, <3>2 DEF EventKey
  <2>2. CASE e \in DemandEvents(sel, target)
    <3>1. e.kind = "demand"
      BY <1>5, <2>2
    <3> QED BY <3>1 DEF EventKey
  <2> QED BY <2>1, <2>2 DEF EventSet
<1>7. CASE s \notin comes(more)
  <2>1. comes(more) = comes(coming)
    BY <1>2, <1>3, <1>7
  <2>2. SupplyEvents(more, sel) = SupplyEvents(coming, sel)
    <3>1. \A t \in comes(coming) : row(more, t) = row(coming, t)
      BY <1>2
    <3> HIDE DEF row, comes
    <3> QED BY <1>1, <2>1, <3>1
  <2>3. EventSet(more, sel, target) = EventSet(coming, sel, target)
    BY <2>2 DEF EventSet
  <2> QED BY <1>4, <1>6, <2>3
<1>8. CASE s \in comes(more)
  <2> DEFINE e == row(more, s)
  <2>1. comes(more) = comes(coming) \cup {s}
    BY <1>2, <1>3, <1>8
  <2>2. SupplyEvents(more, sel) = SupplyEvents(coming, sel) \cup {e}
    <3>1. \A t \in comes(coming) : row(more, t) = row(coming, t)
      BY <1>2
    <3> HIDE DEF row, comes
    <3>2. { row(more, t) : t \in comes(more) } = { row(more, t) : t \in comes(coming) } \cup {row(more, s)}
      BY <2>1
    <3> QED BY <1>1, <3>1, <3>2
  <2>3. EventSet(more, sel, target) = EventSet(coming, sel, target) \cup {e}
    <3> HIDE DEF e
    <3> QED BY <2>2 DEF EventSet
  <2>4. e.subject = s /\ e.kind # "demand" /\ e.kind \in {"dedicated", "generic"}
    OBVIOUS
  <2>5. e \notin EventSet(coming, sel, target)
    <3> HIDE DEF e
    <3> QED BY <1>4, <1>5, <2>4 DEF EventSet
  <2>6. SupplyEvent(more, sel, e)
    <3>1. e \in SupplyEvents(more, sel)
      <4> HIDE DEF e
      <4> QED BY <2>2
    <3> HIDE DEF e
    <3> QED BY <3>1, EventShape
  <2>7. \E d : /\ d \notin EventSet(coming, sel, target) /\ SupplyEvent(more, sel, d) /\ d.subject = s
               /\ EventSet(more, sel, target) = EventSet(coming, sel, target) \cup {d}
    <3> HIDE DEF e
    <3> QED BY <2>3, <2>4, <2>5, <2>6
  <2> QED BY <1>4, <1>6, <2>7
<1>9. QED
  BY <1>7, <1>8

LEMMA SameEventNoWorse ==
  ASSUME NEW coming \in SupplyRows, NEW more \in SupplyRows, NEW s \in Src \ {Stock},
         MoreOf(more, coming, s), PlanningOK, NEW sel \in Project, NEW target,
         NEW sequence, Sequenced(sel, sequence), NEW e \in EventSet(coming, sel, target),
         NEW a \in AccountRow, NEW b \in AccountRow, NEW c \in AccountRow, NEW d \in AccountRow,
         NoWorse(b, a), Books(more, sequence, e, b, c), Books(coming, sequence, e, a, d)
  PROVE  NoWorse(c, d)
<1>1. CASE e \in SupplyEvents(coming, sel)
  <2>1. SupplyEvent(coming, sel, e) /\ e.subject # s
    BY <1>1, EventShape, SameKeys
  <2>2. more[e.subject] = coming[e.subject] /\ coming[e.subject].quantity \in Nat
    BY <2>1, ComingType DEF SupplyEvent, MoreOf
  <2> DEFINE q == coming[e.subject].quantity
             p == coming[e.subject].owner
  <2>3. CASE e.kind = "dedicated"
    <3>1. /\ BooksDedicated(b, c, p, q) /\ BooksDedicated(a, d, p, q)
          /\ p \in Project /\ q \in Nat
      BY <2>1, <2>2, <2>3, PlannedType DEF Books, SupplyEvent
    <3> HIDE DEF p, q
    <3> QED BY <3>1, DedicatedNoWorse
  <2>4. CASE e.kind = "generic"
    <3>1. BooksGeneric(b, c, sequence, q) /\ BooksGeneric(a, d, sequence, q) /\ q \in Nat
      BY <2>1, <2>2, <2>4 DEF Books
    <3> HIDE DEF q
    <3> QED BY <3>1, GenericNoWorse
  <2> QED BY <2>1, <2>3, <2>4 DEF SupplyEvent
<1>2. CASE e \in DemandEvents(sel, target)
  <2>1. e.kind = "demand" /\ e.subject \in Project
    BY <1>2, EventShape, PlannedType DEF DemandEvent
  <2> DEFINE p == e.subject
             required == projects[p].required
  <2>2. p \in Project /\ required \in Nat
    BY <2>1 DEF PlanningOK, ProjectRow
  <2>3. BooksDemand(b, c, p, required) /\ BooksDemand(a, d, p, required)
    BY <2>1 DEF Books
  <2> HIDE DEF p, required
  <2> QED BY <2>2, <2>3, DemandNoWorse
<1>3. QED
  BY <1>1, <1>2 DEF EventSet

LEMMA ExtraEventNoWorse ==
  ASSUME NEW more \in SupplyRows, PlanningOK, NEW sel \in Project,
         NEW sequence, Sequenced(sel, sequence), NEW e, SupplyEvent(more, sel, e),
         NEW a \in AccountRow, NEW b \in AccountRow, NEW c \in AccountRow,
         NoWorse(b, a), Books(more, sequence, e, b, c)
  PROVE  NoWorse(c, a)
<1> DEFINE q == more[e.subject].quantity
           p == more[e.subject].owner
<1>1. q \in Nat
  BY ComingType DEF SupplyEvent
<1>2. CASE e.kind = "dedicated"
  <2>1. BooksDedicated(b, c, p, q) /\ p \in Project
    BY <1>2, PlannedType DEF Books, SupplyEvent
  <2> HIDE DEF p, q
  <2> QED BY <1>1, <2>1, DedicatedNoWorse
<1>3. CASE e.kind = "generic"
  <2>1. BooksGeneric(b, c, sequence, q)
    BY <1>3 DEF Books
  <2> HIDE DEF q
  <2> QED BY <1>1, <2>1, GenericNoWorse
<1>4. QED
  BY <1>2, <1>3 DEF SupplyEvent

LEMMA NoWorseItself ==
  ASSUME NEW a \in AccountRow, NEW b \in AccountRow, Opened(a), Opened(b)
  PROVE  NoWorse(b, a)
BY AccountFields DEF Opened, NoWorse

\* The plan of more supply leaves nobody more short, event by event.
LEMMA MoreIsNoWorse ==
  ASSUME NEW coming \in SupplyRows, NEW more \in SupplyRows, NEW s \in Src \ {Stock},
         MoreOf(more, coming, s), PlanningOK, NEW sel \in Project, NEW target, StartDate(target)
  PROVE  NoWorse(Account(NettedPlan(more, sel, target)), Account(NettedPlan(coming, sel, target)))
<1> DEFINE sequence == Sequence(sel, target)
           E      == EventSet(coming, sel, target)
           F      == EventSet(more, sel, target)
           now    == Events(coming, sel, target)
           then   == Events(more, sel, target)
           N      == Len(now)
           before == EventOrder(more, sel, target)
<1>1. Sequenced(sel, sequence)
  BY SequenceIsSequenced
<1>2. /\ IsFiniteSet(E) /\ N = Cardinality(E) /\ Listed(E, EventOrder(coming, sel, target), now)
  BY EventsListed
<1>3. StrictlyOrders(before, F) /\ Listed(F, before, then) /\ Len(then) = Cardinality(F)
  BY EventsListed
<1>4. E \subseteq F /\ \/ F = E
                       \/ \E e : e \notin E /\ SupplyEvent(more, sel, e) /\ F = E \cup {e}
  BY SameKeys
<1>5. \A x, y \in E : <<x, y>> \in EventOrder(coming, sel, target) => <<x, y>> \in before
  <2> SUFFICES ASSUME NEW x \in E, NEW y \in E, <<x, y>> \in EventOrder(coming, sel, target)
               PROVE  <<x, y>> \in before
    OBVIOUS
  <2>1. Earlier(EventKey(coming, x, sequence), EventKey(coming, y, sequence))
    BY DEF EventOrder, SortOrder
  <2>2. Earlier(EventKey(more, x, sequence), EventKey(more, y, sequence))
    BY <2>1, SameKeys
  <2>3. x \in F /\ y \in F
    BY <1>4
  <2> QED BY <2>2, <2>3 DEF EventOrder, SortOrder
<1> HIDE DEF E, F, before, N
<1>6. Listed(E, before, now)
  <2>1. \A i, j \in 1 .. Cardinality(E) : now[i] \in E /\ now[j] \in E
    BY <1>2 DEF Listed
  <2> QED BY <1>2, <1>5, <2>1 DEF Listed
<1>7. N \in Nat /\ \A i \in 1 .. N : now[i] \in E
  BY <1>2, <1>6 DEF Listed
<1>8. PICK a : /\ Booked(coming, sequence, now, a)
               /\ a[N] = Account(NettedPlan(coming, sel, target))
  BY PlanBooked DEF N
<1>9. PICK b : /\ Booked(more, sequence, then, b)
               /\ b[Len(then)] = Account(NettedPlan(more, sel, target))
  BY PlanBooked
<1> HIDE DEF now, then, sequence
<1>10. /\ \A i \in 0 .. N : a[i] \in AccountRow
       /\ Opened(a[0])
       /\ \A i \in 1 .. N : Books(coming, sequence, now[i], a[i - 1], a[i])
  BY <1>8 DEF Booked, N
<1>11. /\ \A i \in 0 .. Len(then) : b[i] \in AccountRow
       /\ Opened(b[0])
       /\ \A i \in 1 .. Len(then) : Books(more, sequence, then[i], b[i - 1], b[i])
  BY <1>9 DEF Booked
<1>12. ASSUME NEW m \in 0 .. N, NEW shift \in {0, 1}, N + shift <= Len(then), Len(then) \in Nat,
              NoWorse(b[m + shift], a[m]),
              \A i \in (m + 1) .. N : then[i + shift] = now[i]
       PROVE  \A i \in m .. N : NoWorse(b[i + shift], a[i])
  <2> DEFINE T == { i \in m .. N : NoWorse(b[i + shift], a[i]) }
  <2>1. m \in T /\ m \in Nat
    BY <1>7, <1>12
  <2>2. ASSUME NEW i \in (m + 1) .. N, i - 1 \in T PROVE i \in T
    <3>1. /\ i \in 1 .. N /\ i \in m .. N /\ i - 1 \in 0 .. N /\ i \in 0 .. N
          /\ i + shift \in 1 .. Len(then) /\ (i - 1) + shift = (i + shift) - 1
          /\ i + shift \in 0 .. Len(then) /\ (i + shift) - 1 \in 0 .. Len(then)
      BY <1>7, <1>12
    <3>2. NoWorse(b[(i + shift) - 1], a[i - 1])
      BY <2>2, <3>1
    <3>3. then[i + shift] = now[i] /\ now[i] \in E
      BY <1>7, <1>12, <3>1
    <3>4. Books(coming, sequence, now[i], a[i - 1], a[i])
      BY <1>10, <3>1
    <3>5. Books(more, sequence, now[i], b[(i + shift) - 1], b[i + shift])
      BY <1>11, <3>1, <3>3
    <3>6. a[i - 1] \in AccountRow /\ a[i] \in AccountRow
      BY <1>10, <3>1
    <3>7. b[(i + shift) - 1] \in AccountRow /\ b[i + shift] \in AccountRow
      BY <1>11, <3>1
    <3>8. NoWorse(b[i + shift], a[i])
      BY <1>1, <3>2, <3>3, <3>4, <3>5, <3>6, <3>7, SameEventNoWorse DEF E
    <3> QED BY <3>1, <3>8
  <2>3. \A i \in m .. N : i \in T
    <3> HIDE DEF T
    <3> QED BY <1>7, <2>1, <2>2, NumbersFrom
  <2> QED BY <2>3
<1>13. a[0] \in AccountRow /\ b[0] \in AccountRow /\ NoWorse(b[0], a[0])
  <2>1. Len(then) \in Nat
    BY <1>3 DEF Listed
  <2> QED BY <1>7, <1>10, <1>11, <2>1, NoWorseItself
<1>14. CASE F = E
  <2>1. then = now /\ Len(then) = N
    BY <1>2, <1>3, <1>6, <1>14, OneListing
  <2>2. NoWorse(b[0 + 0], a[0]) /\ 0 \in 0 .. N /\ N + 0 <= Len(then) /\ \A i \in 0 + 1 .. N : i + 0 = i
    BY <1>7, <1>13, <2>1
  <2>3. \A i \in 0 .. N : NoWorse(b[i + 0], a[i])
    BY <1>7, <1>12, <2>1, <2>2
  <2>4. NoWorse(b[N], a[N])
    BY <1>7, <2>3
  <2> QED BY <1>8, <1>9, <2>1, <2>4
<1>15. ASSUME NEW e, e \notin E, SupplyEvent(more, sel, e), F = E \cup {e}
       PROVE  NoWorse(b[Len(then)], a[N])
  <2>1. PICK k : Cardinality(F) = N + 1 /\ Inserted(now, then, N, k, e)
    BY <1>2, <1>3, <1>6, <1>15, InsertedListing
  <2>2. /\ k \in 1 .. (N + 1) /\ then[k] = e /\ Len(then) = N + 1
        /\ \A i \in 1 .. N : then[IF i < k THEN i ELSE i + 1] = now[i]
    BY <1>3, <2>1 DEF Inserted
  <2> DEFINE m == k - 1
  <2>3. m \in 0 .. N
    BY <1>7, <2>2
  <2>4. NoWorse(b[m], a[m])
    <3> DEFINE T == { i \in 0 .. m : NoWorse(b[i], a[i]) }
    <3>1. 0 \in T /\ m \in Nat
      BY <1>7, <1>13, <2>3
    <3>2. ASSUME NEW i \in (0 + 1) .. m, i - 1 \in T PROVE i \in T
      <4>1. /\ i \in 1 .. N /\ i < k /\ i \in 0 .. m /\ i - 1 \in 0 .. N /\ i \in 0 .. N
            /\ i \in 1 .. Len(then) /\ i \in 0 .. Len(then) /\ i - 1 \in 0 .. Len(then)
        BY <1>7, <2>2, <2>3
      <4>2. NoWorse(b[i - 1], a[i - 1])
        BY <3>2
      <4>3. then[i] = now[i] /\ now[i] \in E
        BY <1>7, <2>2, <4>1
      <4>4. Books(coming, sequence, now[i], a[i - 1], a[i])
        BY <1>10, <4>1
      <4>5. Books(more, sequence, now[i], b[i - 1], b[i])
        BY <1>11, <4>1, <4>3
      <4>6. /\ a[i - 1] \in AccountRow /\ a[i] \in AccountRow
            /\ b[i - 1] \in AccountRow /\ b[i] \in AccountRow
        BY <1>10, <1>11, <4>1
      <4>7. NoWorse(b[i], a[i])
        BY <1>1, <4>2, <4>3, <4>4, <4>5, <4>6, SameEventNoWorse DEF E
      <4> QED BY <4>1, <4>7
    <3>3. \A i \in 0 .. m : i \in T
      <4> HIDE DEF T, m
      <4> QED BY <3>1, <3>2, NumbersFrom
    <3> QED BY <2>3, <3>3
  <2>5. NoWorse(b[m + 1], a[m])
    <3>1. /\ k \in 1 .. Len(then) /\ k - 1 \in 0 .. Len(then) /\ k \in 0 .. Len(then)
          /\ m = k - 1 /\ m + 1 = k
      BY <1>7, <2>2
    <3>2. Books(more, sequence, e, b[k - 1], b[k])
      BY <1>11, <2>2, <3>1
    <3>3. b[k - 1] \in AccountRow /\ b[k] \in AccountRow /\ a[m] \in AccountRow
      BY <1>10, <1>11, <2>3, <3>1
    <3>4. NoWorse(b[k - 1], a[m])
      BY <2>4, <3>1
    <3>5. NoWorse(b[k], a[m])
      <4> HIDE DEF m
      <4> QED BY <1>1, <1>15, <3>2, <3>3, <3>4, ExtraEventNoWorse
    <3> QED BY <3>1, <3>5
  <2>6. \A i \in (m + 1) .. N : then[i + 1] = now[i]
    <3> SUFFICES ASSUME NEW i \in (m + 1) .. N PROVE then[i + 1] = now[i]
      OBVIOUS
    <3>1. i \in 1 .. N /\ ~(i < k)
      BY <1>7, <2>2
    <3> QED BY <2>2, <3>1
  <2>7. N + 1 <= Len(then) /\ Len(then) \in Nat
    BY <1>7, <2>2
  <2>8. \A i \in m .. N : NoWorse(b[i + 1], a[i])
    <3> HIDE DEF m
    <3> QED BY <1>12, <2>3, <2>5, <2>6, <2>7
  <2>9. N \in m .. N
    BY <1>7, <2>3
  <2> HIDE DEF m
  <2> QED BY <2>2, <2>8, <2>9
<1>16. QED
  BY <1>4, <1>8, <1>9, <1>14, <1>15

\* A line that becomes QUOTED is more of what is coming.
LEMMA QuotedIsMore ==
  ASSUME PlanningOK, NEW n \in Quote, NEW eta \in 1 .. MaxEta, quotes[n].status = "DRAFT"
  PROVE  /\ Coming \in SupplyRows /\ ComingWith(Quoted(n, eta)) \in SupplyRows
         /\ QuoteSrc(n) \in Src \ {Stock}
         /\ MoreOf(ComingWith(Quoted(n, eta)), Coming, QuoteSrc(n))
<1> DEFINE lines == Quoted(n, eta)
<1>1. /\ lines \in [Quote -> QuoteRow] /\ \A m \in Quote : m # n => lines[m] = quotes[m]
  <2> DEFINE row == [quotes[n] EXCEPT !.status = "QUOTED", !.eta = eta]
  <2>1. quotes \in [Quote -> QuoteRow] /\ quotes[n] \in QuoteRow /\ eta \in 0 .. MaxEta
    BY ConstantsAssumption DEF PlanningOK
  <2>2. row \in QuoteRow
    BY <2>1 DEF QuoteRow
  <2>3. lines = [quotes EXCEPT ![n] = row]
    BY <2>1 DEF Quoted
  <2> HIDE DEF row, lines
  <2> QED BY <2>1, <2>2, <2>3
<1> HIDE DEF lines
<1>2. Coming \in SupplyRows /\ ComingWith(lines) \in SupplyRows
  BY <1>1, ComingNow, ComingIsSupply
<1>3. /\ QuoteSrc(n) \in Src \ {Stock} /\ ~(QuoteSrc(n) <= MaxOrder)
      /\ QuoteSrc(n) - MaxOrder = n
  BY ConstantsAssumption, PlanningAssumption DEF QuoteSrc, Quote, Src, Stock
<1>4. Coming[QuoteSrc(n)].quantity = 0
  BY <1>3 DEF Coming, ComingWith
<1>5. ASSUME NEW t \in Src \ {Stock}, t # QuoteSrc(n) PROVE ComingWith(lines)[t] = Coming[t]
  <2>1. CASE t <= MaxOrder
    BY <2>1 DEF Coming, ComingWith
  <2>2. CASE ~(t <= MaxOrder)
    <3>1. t - MaxOrder \in Quote /\ t - MaxOrder # n
      BY <1>5, <2>2, SourcesFinite, ConstantsAssumption, PlanningAssumption DEF Quote, Src, Stock, QuoteSrc
    <3>2. lines[t - MaxOrder] = quotes[t - MaxOrder]
      BY <1>1, <3>1
    <3> QED BY <2>2, <3>2 DEF Coming, ComingWith
  <2> QED BY <2>1, <2>2
<1>6. MoreOf(ComingWith(lines), Coming, QuoteSrc(n))
  BY <1>4, <1>5 DEF MoreOf
<1>7. QED
  BY <1>2, <1>3, <1>6 DEF lines

LEMMA QuotesHelp == AllocTypeOK => QuotesHelpEveryone
<1> SUFFICES ASSUME AllocTypeOK, NEW v \in PlansAtRest, NEW n \in Quote, NEW eta \in 1 .. MaxEta,
                    quotes[n].status = "DRAFT", NEW p \in Project
             PROVE  LET now  == Snapshot(v[1], v[2])
                        then == NettedPlan(ComingWith(Quoted(n, eta)), v[1], v[2])
                    IN  then.shortage[p] <= now.shortage[p] /\ then.backlog[p] <= now.backlog[p]
  BY Zenon DEF QuotesHelpEveryone
<1> DEFINE sel    == v[1]
           target == v[2]
           more   == ComingWith(Quoted(n, eta))
           now    == NettedPlan(Coming, sel, target)
           then   == NettedPlan(more, sel, target)
<1>1. PlanningOK
  BY AllocTypeParts
<1>2. sel \in Project /\ target \in Targets(sel)
  BY DEF PlansAtRest, Views
<1>3. StartDate(target)
  BY <1>1, <1>2, TargetsType
<1>4. Coming \in SupplyRows /\ more \in SupplyRows /\ QuoteSrc(n) \in Src \ {Stock}
      /\ MoreOf(more, Coming, QuoteSrc(n))
  BY <1>1, QuotedIsMore
<1> HIDE DEF sel, target, more
<1>5. NoWorse(Account(then), Account(now))
  BY <1>1, <1>2, <1>3, <1>4, MoreIsNoWorse
<1>6. then \in Plan /\ now \in Plan
  BY <1>1, <1>2, <1>3, <1>4, PlanBooked
<1>7. /\ Account(then).shortage = then.shortage /\ Account(then).backlog = then.backlog
      /\ Account(now).shortage = now.shortage /\ Account(now).backlog = now.backlog
  BY <1>6, AccountType
<1>8. then.shortage[p] <= now.shortage[p] /\ then.backlog[p] <= now.backlog[p]
  <2> HIDE DEF then, now
  <2> QED BY <1>5, <1>7 DEF NoWorse
<1>9. Snapshot(v[1], v[2]) = now
  BY DEF Snapshot, sel, target
<1>10. QED
  BY <1>8, <1>9 DEF sel, target, more

\* A line that becomes QUOTED leaves no project more of a shortage, on its date
\* or at last, in any plan.
THEOREM QuotesCorrect == AllocSpec => []QuotesHelpEveryone
BY AllocTypeCorrect, QuotesHelp, PTL

-----------------------------------------------------------------------------
(* When a demand is met: after all supply that is there by its date, and   *)
(* after the demands of the projects before it.                            *)

\* Projects come by date in the sequence.
LEMMA SequenceByDate ==
  ASSUME PlanningOK, NEW sel \in Project, NEW target, StartDate(target),
         NEW k \in DOMAIN Sequence(sel, target), NEW l \in DOMAIN Sequence(sel, target), k < l
  PROVE  Start(sel, target, Sequence(sel, target)[k]) <= Start(sel, target, Sequence(sel, target)[l])
<1> DEFINE S   == Planned(sel)
           key == [p \in S |-> <<Start(sel, target, p), p>>]
           sequence == Sequence(sel, target)
<1>1. S \subseteq Project /\ IsFiniteSet(S)
  BY PlannedType
<1>2. ASSUME NEW p \in S
      PROVE  /\ key[p] \in Rows(2) /\ key[p][2] = p /\ key[p][1] = Start(sel, target, p)
             /\ Start(sel, target, p) \in Int
  <2>1. p \in Project /\ p \in Int
    BY <1>1, Numbers
  <2>2. Start(sel, target, p) \in Int
    <3>1. Start(sel, target, p) \in 0 .. MaxEta
      BY <2>1, StartType
    <3> QED BY <3>1, Numbers
  <2> QED BY <2>1, <2>2 DEF Rows
<1>3. IsKey(S, 2, key)
  <2> HIDE DEF S, key
  <2> QED BY <1>2 DEF IsKey
<1>4. sequence = Sorted(S, key)
  BY DEF Sequence
<1>5. Listed(S, SortOrder(S, key), Sorted(S, key))
  <2> HIDE DEF S, key
  <2> QED BY <1>1, <1>3, SortedIsList
<1> HIDE DEF key, S, sequence
<1>6. /\ sequence[k] \in S /\ sequence[l] \in S
      /\ Earlier(key[sequence[k]], key[sequence[l]])
  BY <1>4, <1>5 DEF Listed, SortOrder, sequence
<1> DEFINE a == key[sequence[k]]
           b == key[sequence[l]]
<1>7. a \in Rows(2) /\ b \in Rows(2) /\ Earlier(a, b)
  BY <1>2, <1>6
<1>8. a[1] <= b[1]
  <2> HIDE DEF a, b
  <2>1. PICK i \in 1 .. 2 : a[i] < b[i] /\ \A j \in 1 .. (i - 1) : a[j] = b[j]
    BY <1>7 DEF Earlier, Rows
  <2>2. a[1] \in Int /\ b[1] \in Int
    BY <1>7 DEF Rows
  <2>3. CASE i = 1
    BY <2>1, <2>2, <2>3
  <2>4. CASE i # 1
    <3>1. 1 \in 1 .. (i - 1)
      BY <2>4
    <3> QED BY <2>1, <2>2, <3>1
  <2> QED BY <2>3, <2>4
<1>9. QED
  BY <1>2, <1>6, <1>8 DEF sequence

IsDemand(e, p) == e.kind = "demand" /\ e.subject = p

\* Whoever is planned for and requires something asks once, in the order of
\* the sequence, and after what is there on the same date.
Orderly(coming, sel, target, sequence, events) ==
  /\ \A s \in Src \ {Stock} :
       coming[s].quantity > 0 /\ coming[s].owner \in Planned(sel) \cup {NoProject}
       => \E i \in 1 .. Len(events) : SupplyEvent(coming, sel, events[i]) /\ events[i].subject = s
  /\ \A i \in 1 .. Len(events) : SupplyEvent(coming, sel, events[i]) =>
       coming[events[i].subject].quantity > 0
  /\ \A p \in Planned(sel) : projects[p].required > 0 =>
       \E i \in 1 .. Len(events) : IsDemand(events[i], p)
  /\ \A i \in 1 .. Len(events) : \A p : IsDemand(events[i], p) =>
       p \in Planned(sel) /\ projects[p].required > 0 /\ events[i].date = Start(sel, target, p)
  /\ \A i, j \in 1 .. Len(events) :
       SupplyEvent(coming, sel, events[i]) /\ events[j].kind = "demand"
         /\ events[i].date <= events[j].date => i < j
  /\ \A i, j \in 1 .. Len(events) : \A k, l \in DOMAIN sequence :
       IsDemand(events[i], sequence[k]) /\ IsDemand(events[j], sequence[l]) => (i < j <=> k < l)

LEMMA EarlierDate ==
  ASSUME NEW a \in Rows(5), NEW b \in Rows(5),
         a[1] < b[1] \/ (a[1] = b[1] /\ a[2] < b[2])
                     \/ (a[1] = b[1] /\ a[2] = b[2] /\ a[3] < b[3])
  PROVE  Earlier(a, b)
<1>1. DOMAIN a = 1 .. 5
  BY DEF Rows
<1>2. \E i \in 1 .. 5 : a[i] < b[i] /\ \A j \in 1 .. (i - 1) : a[j] = b[j]
  <2>1. CASE a[1] < b[1]
    <3>1. \A j \in 1 .. (1 - 1) : FALSE
      OBVIOUS
    <3> QED BY <2>1, <3>1
  <2>2. CASE a[1] = b[1] /\ a[2] < b[2]
    <3>1. \A j \in 1 .. (2 - 1) : j = 1
      OBVIOUS
    <3> QED BY <2>2, <3>1
  <2>3. CASE a[1] = b[1] /\ a[2] = b[2] /\ a[3] < b[3]
    <3>1. \A j \in 1 .. (3 - 1) : j = 1 \/ j = 2
      OBVIOUS
    <3> QED BY <2>3, <3>1
  <2> QED BY <2>1, <2>2, <2>3
<1>3. QED
  BY <1>1, <1>2 DEF Earlier

LEMMA EventsAreOrderly ==
  ASSUME NEW coming \in SupplyRows, PlanningOK, NEW sel \in Project, NEW target, StartDate(target)
  PROVE  Orderly(coming, sel, target, Sequence(sel, target), Events(coming, sel, target))
<1> DEFINE sequence == Sequence(sel, target)
           events   == Events(coming, sel, target)
           E        == EventSet(coming, sel, target)
           key(e)   == EventKey(coming, e, sequence)
           N        == Len(events)
           rank(p)  == CHOOSE k \in DOMAIN sequence : sequence[k] = p
<1>1. Sequenced(sel, sequence)
  BY SequenceIsSequenced
<1>2. \A k \in DOMAIN sequence : rank(sequence[k]) = k /\ k \in Int /\ sequence[k] \in Planned(sel)
  BY <1>1 DEF Sequenced
<1>3. /\ N \in Nat /\ \A i \in 1 .. N : events[i] \in E
      /\ \A e \in E : \E i \in 1 .. N : events[i] = e
      /\ \A i, j \in 1 .. N : i < j => <<events[i], events[j]>> \in EventOrder(coming, sel, target)
      /\ \A e \in E : EventOK(coming, sel, target, e) /\ key(e) \in Rows(5)
  BY EventsListed DEF Listed
<1>4. \A d, e \in E : <<d, e>> \in EventOrder(coming, sel, target) => Earlier(key(d), key(e))
  BY DEF EventOrder, SortOrder
<1> HIDE DEF events, E, sequence
<1>5. \A e \in E : /\ SupplyEvent(coming, sel, e) \/ DemandEvent(sel, target, e)
                   /\ DemandEvent(sel, target, e) <=> e.kind = "demand"
                   /\ SupplyEvent(coming, sel, e) <=> e.kind # "demand"
  BY <1>3 DEF EventOK, SupplyEvent, DemandEvent
<1>6. ASSUME NEW e \in E PROVE key(e)[1] = e.date /\ (SupplyEvent(coming, sel, e) => key(e)[2] < 2)
                               /\ (DemandEvent(sel, target, e) => key(e)[2] = 2 /\ key(e)[3] = rank(e.subject))
                               /\ key(e)[1] \in Int /\ key(e)[2] \in Int /\ key(e)[3] \in Int
  <2>1. SupplyEvent(coming, sel, e) \/ DemandEvent(sel, target, e)
    BY <1>5
  <2>2. key(e)[1] = e.date /\ key(e)[2] = (CASE e.kind = "dedicated" -> 0
                                          [] e.kind = "generic" -> 1
                                          [] OTHER -> 2)
    BY <1>1, <2>1, EventKeyType
  <2>3. ASSUME DemandEvent(sel, target, e) PROVE key(e)[3] = rank(e.subject)
    <3>1. EventKey(coming, e, sequence) = <<e.date, 2, rank(e.subject), e.subject, 0>>
      BY <2>3 DEF EventKey, DemandEvent
    <3> QED BY <3>1
  <2>4. key(e) \in Rows(5)
    BY <1>3
  <2> HIDE DEF key, rank
  <2>5. key(e)[1] \in Int /\ key(e)[2] \in Int /\ key(e)[3] \in Int
    BY <2>4 DEF Rows
  <2> QED BY <2>2, <2>3, <2>5 DEF SupplyEvent, DemandEvent
<1>7. ASSUME NEW i \in 1 .. N, NEW j \in 1 .. N, Earlier(key(events[i]), key(events[j])) PROVE i < j
  <2> DEFINE x == key(events[i])
             y == key(events[j])
  <2>1. x \in Rows(5) /\ y \in Rows(5)
    BY <1>3
  <2>2. j < i => Earlier(y, x)
    BY <1>3, <1>4
  <2>3. i = j => x = y
    OBVIOUS
  <2>4. Earlier(x, y)
    BY <1>7
  <2> HIDE DEF x, y, key
  <2>5. ~(j < i) /\ i # j
    BY <2>1, <2>2, <2>3, <2>4, EarlierIsOrder
  <2> QED BY <1>3, <2>5
<1> HIDE DEF key
<1>8. ASSUME NEW i \in 1 .. N, NEW j \in 1 .. N, SupplyEvent(coming, sel, events[i]),
             events[j].kind = "demand", events[i].date <= events[j].date
      PROVE  i < j
  <2> DEFINE x == key(events[i])
             y == key(events[j])
  <2>1. /\ x[1] <= y[1] /\ x[2] < y[2] /\ x[1] \in Int /\ y[1] \in Int
        /\ x \in Rows(5) /\ y \in Rows(5)
    BY <1>3, <1>5, <1>6, <1>8
  <2> HIDE DEF x, y
  <2>2. Earlier(x, y)
    BY <2>1, EarlierDate
  <2> QED BY <1>7, <2>2 DEF x, y
<1>9. ASSUME NEW i \in 1 .. N, NEW j \in 1 .. N, NEW k \in DOMAIN sequence, NEW l \in DOMAIN sequence,
             IsDemand(events[i], sequence[k]), IsDemand(events[j], sequence[l]), k < l
      PROVE  i < j
  <2> DEFINE x == key(events[i])
             y == key(events[j])
  <2>1. /\ DemandEvent(sel, target, events[i]) /\ DemandEvent(sel, target, events[j])
        /\ events[i].subject = sequence[k] /\ events[j].subject = sequence[l]
        /\ events[i] \in E /\ events[j] \in E
    BY <1>3, <1>5, <1>9 DEF IsDemand
  <2>2. /\ x[1] = Start(sel, target, sequence[k]) /\ y[1] = Start(sel, target, sequence[l])
        /\ x[2] = 2 /\ y[2] = 2 /\ x[3] = k /\ y[3] = l
        /\ x[1] \in Int /\ y[1] \in Int /\ x \in Rows(5) /\ y \in Rows(5)
    <3>1. /\ x[1] = Start(sel, target, sequence[k]) /\ y[1] = Start(sel, target, sequence[l])
          /\ x[2] = 2 /\ y[2] = 2 /\ x[1] \in Int /\ y[1] \in Int
          /\ x[3] = rank(sequence[k]) /\ y[3] = rank(sequence[l])
      <4> HIDE DEF rank
      <4> QED BY <1>6, <2>1 DEF DemandEvent
    <3>2. x \in Rows(5) /\ y \in Rows(5)
      BY <1>3, <2>1
    <3> HIDE DEF x, y, rank
    <3> QED BY <1>2, <3>1, <3>2
  <2>3. x[1] <= y[1]
    BY <1>9, <2>2, SequenceByDate DEF sequence
  <2> HIDE DEF x, y
  <2>4. Earlier(x, y)
    BY <1>9, <2>2, <2>3, EarlierDate
  <2> QED BY <1>7, <2>4 DEF x, y
<1>10. ASSUME NEW i \in 1 .. N, NEW j \in 1 .. N, NEW k \in DOMAIN sequence, NEW l \in DOMAIN sequence,
              IsDemand(events[i], sequence[k]), IsDemand(events[j], sequence[l])
       PROVE  i < j <=> k < l
  <2>1. CASE k < l
    BY <1>9, <1>10, <2>1
  <2>2. CASE l < k
    <3>1. j < i
      BY <1>9, <1>10, <2>2
    <3> QED BY <2>2, <3>1, <1>2
  <2>3. CASE k = l
    <3>1. events[i].subject = events[j].subject /\ events[i] \in E /\ events[j] \in E
          /\ events[i].kind = "demand" /\ events[j].kind = "demand"
      BY <1>3, <1>10, <2>3 DEF IsDemand
    <3>2. events[i] \in DemandEvents(sel, target) /\ events[j] \in DemandEvents(sel, target)
      <4>1. \A e \in SupplyEvents(coming, sel) : e.kind # "demand"
        BY EventShape DEF SupplyEvent
      <4> QED BY <3>1, <4>1 DEF E, EventSet
    <3>3. events[i] = events[j]
      BY <3>1, <3>2, EventShape
    <3>4. ~Earlier(key(events[i]), key(events[j]))
      <4> DEFINE x == key(events[i])
      <4>1. x \in Rows(5)
        BY <1>3, <3>1 DEF key
      <4>2. ~Earlier(x, x)
        <5> HIDE DEF x
        <5> QED BY <4>1, EarlierIsOrder
      <4> QED BY <3>3, <4>2
    <3>5. ~(i < j)
      BY <1>3, <1>4, <3>1, <3>4 DEF key
    <3> QED BY <2>3, <3>5, <1>2
  <2> QED BY <1>2, <2>1, <2>2, <2>3
<1>11. ASSUME NEW s \in Src \ {Stock}, coming[s].quantity > 0,
              coming[s].owner \in Planned(sel) \cup {NoProject}
       PROVE  \E i \in 1 .. N : SupplyEvent(coming, sel, events[i]) /\ events[i].subject = s
  <2> DEFINE e == [kind |-> IF coming[s].owner = NoProject THEN "generic" ELSE "dedicated",
                   date |-> coming[s].date, subject |-> s]
  <2>1. e \in SupplyEvents(coming, sel) /\ e.subject = s
    BY <1>11 DEF SupplyEvents
  <2> HIDE DEF e
  <2>2. e \in E /\ SupplyEvent(coming, sel, e)
    BY <2>1, EventShape DEF E, EventSet
  <2> QED BY <1>3, <2>1, <2>2
<1>12. ASSUME NEW i \in 1 .. N, SupplyEvent(coming, sel, events[i])
       PROVE  coming[events[i].subject].quantity > 0
  <2>1. events[i] \in E /\ events[i].kind # "demand"
    BY <1>3, <1>12 DEF SupplyEvent
  <2>2. events[i] \in SupplyEvents(coming, sel)
    <3>1. \A e \in DemandEvents(sel, target) : e.kind = "demand"
      BY DEF DemandEvents
    <3> QED BY <2>1, <3>1 DEF E, EventSet
  <2> QED BY <2>2 DEF SupplyEvents
<1>13. ASSUME NEW p \in Planned(sel), projects[p].required > 0
       PROVE  \E i \in 1 .. N : IsDemand(events[i], p)
  <2> DEFINE e == [kind |-> "demand", date |-> Start(sel, target, p), subject |-> p]
  <2>1. e \in DemandEvents(sel, target) /\ IsDemand(e, p)
    BY <1>13 DEF DemandEvents, IsDemand
  <2> HIDE DEF e
  <2>2. e \in E
    BY <2>1 DEF E, EventSet
  <2> QED BY <1>3, <2>1, <2>2
<1>14. ASSUME NEW i \in 1 .. N, NEW p, IsDemand(events[i], p)
       PROVE  p \in Planned(sel) /\ projects[p].required > 0 /\ events[i].date = Start(sel, target, p)
  <2>1. events[i] \in E /\ events[i].kind = "demand" /\ events[i].subject = p
    BY <1>3, <1>14 DEF IsDemand
  <2>2. events[i] \in DemandEvents(sel, target)
    <3>1. \A e \in SupplyEvents(coming, sel) : e.kind # "demand"
      BY EventShape DEF SupplyEvent
    <3> QED BY <2>1, <3>1 DEF E, EventSet
  <2> QED BY <2>1, <2>2 DEF DemandEvents
<1>15. Orderly(coming, sel, target, sequence, events)
  BY <1>8, <1>10, <1>11, <1>12, <1>13, <1>14 DEF Orderly
<1>16. QED
  BY <1>15 DEF sequence, events

-----------------------------------------------------------------------------
(* First come, first served.                                               *)

Amounts(coming) == [s \in Src |-> AmountOf(coming, s)]

Of(coming, owner) ==
  { s \in Src : IF s = Stock THEN owner = NoProject ELSE coming[s].owner = owner }

\* What has come for an owner, and what is there for it by a date.
Brought(coming, owner, arrived) == Total(Part(Amounts(coming), Of(coming, owner) \cap arrived))

There(coming, owner, date) ==
  Total(Part(Amounts(coming), { s \in Of(coming, owner) : ThereBy(coming, s, date) }))

\* What each project's own supply leaves for the pool to cover.
Needs(coming, sel, target) ==
  [p \in Project |-> Monus(projects[p].required, There(coming, p, Start(sel, target, p)))]

AllOnTime(coming, sel, target) ==
  \A p \in Planned(sel) :
    There(coming, p, MaxEta) = There(coming, p, Start(sel, target, p)) \/ projects[p].required = 0

\* The pool that the projects before it leave the k-th of the sequence.
PoolFor(coming, sel, target, sequence, k) ==
  Monus(There(coming, NoProject, Start(sel, target, sequence[k])),
        Total([j \in 1 .. (k - 1) |-> Needs(coming, sel, target)[sequence[j]]]))

Asked(events, i) == { p \in Project : \E j \in 1 .. i : IsDemand(events[j], p) }

LEMMA SupplyTypes ==
  ASSUME NEW coming \in SupplyRows, PlanningOK
  PROVE  /\ Amounts(coming) \in [Src -> Nat]
         /\ \A owner, arrived : Brought(coming, owner, arrived) \in Nat
         /\ \A owner, date : There(coming, owner, date) \in Nat
         /\ \A sel, target : Needs(coming, sel, target) \in [Project -> Nat]
<1>1. Amounts(coming) \in [Src -> Nat]
  BY QuantityType DEF Amounts
<1>2. IsFiniteSet(Src)
  BY SourcesFinite
<1>3. \A T : Total(Part(Amounts(coming), T)) \in Nat
  BY <1>1, <1>2, PartMonotone
<1>4. \A p \in Project : projects[p].required \in Nat
  BY DEF PlanningOK, ProjectRow
<1>5. \A owner, date : There(coming, owner, date) \in Nat
  BY <1>3 DEF There
<1>6. \A sel, target : Needs(coming, sel, target) \in [Project -> Nat]
  BY <1>4, <1>5, MonusMonotone DEF Needs
<1>7. QED
  BY <1>1, <1>3, <1>5, <1>6 DEF Brought

LEMMA BroughtGrows ==
  ASSUME NEW coming \in SupplyRows, PlanningOK, NEW arrived \in SUBSET Src,
         NEW s \in Src \ {Stock}, s \notin arrived, NEW owner
  PROVE  Brought(coming, owner, arrived \cup {s}) =
           Brought(coming, owner, arrived) + (IF coming[s].owner = owner THEN coming[s].quantity ELSE 0)
<1> DEFINE f == Amounts(coming)
           T == Of(coming, owner) \cap arrived
<1>1. f \in [Src -> Nat] /\ f[s] = coming[s].quantity /\ IsFiniteSet(Src) /\ s \in Src
  BY SupplyTypes, SourcesFinite DEF Amounts, AmountOf
<1>2. T \in SUBSET Src /\ s \notin T
  BY DEF Of
<1>3. Total(Part(f, T)) \in Nat
  BY <1>1, PartMonotone
<1>4. CASE coming[s].owner = owner
  <2>1. Of(coming, owner) \cap (arrived \cup {s}) = T \cup {s}
    BY <1>4 DEF Of
  <2>2. Total(Part(f, T \cup {s})) = Total(Part(f, T)) + f[s]
    <3> HIDE DEF f, T
    <3> QED BY <1>1, <1>2, PartGrows
  <2> QED BY <1>1, <1>4, <2>1, <2>2 DEF Brought
<1>5. CASE coming[s].owner # owner
  <2>1. Of(coming, owner) \cap (arrived \cup {s}) = T
    BY <1>5 DEF Of
  <2>2. Brought(coming, owner, arrived \cup {s}) = Total(Part(f, T)) /\ Brought(coming, owner, arrived) = Total(Part(f, T))
    BY <2>1 DEF Brought
  <2> HIDE DEF f, T
  <2> QED BY <1>3, <1>5, <2>2
<1>6. QED
  BY <1>4, <1>5

LEMMA ArrivedStep ==
  ASSUME NEW coming \in SupplyRows, NEW sel \in Project, NEW target,
         NEW events, Timed(coming, sel, target, events), NEW i \in 1 .. Len(events)
  PROVE  /\ Arrived(coming, sel, events, i - 1) \in SUBSET Src
         /\ \A s \in Src \ {Stock} : s \in Arrived(coming, sel, events, i - 1) <=>
              \E j \in 1 .. (i - 1) : SupplyEvent(coming, sel, events[j]) /\ events[j].subject = s
         /\ SupplyEvent(coming, sel, events[i]) =>
              /\ events[i].subject \in Src \ {Stock}
              /\ events[i].subject \notin Arrived(coming, sel, events, i - 1)
              /\ Arrived(coming, sel, events, i)
                   = Arrived(coming, sel, events, i - 1) \cup {events[i].subject}
              /\ Asked(events, i) = Asked(events, i - 1)
         /\ events[i].kind = "demand" => Arrived(coming, sel, events, i) = Arrived(coming, sel, events, i - 1)
<1> DEFINE e      == events[i]
           before == Arrived(coming, sel, events, i - 1)
           after  == Arrived(coming, sel, events, i)
<1>1. Len(events) \in Nat /\ \A j \in 1 .. (i - 1) : j \in 1 .. Len(events) /\ j # i
  BY DEF Timed
<1>2. Stock \in Src
  BY ConstantsAssumption, PlanningAssumption DEF Src, Stock
<1>3. 1 .. i = (1 .. (i - 1)) \cup {i}
  BY <1>1
<1>4. before \in SUBSET Src
  BY <1>2 DEF Arrived, SupplyEvent
<1>5. \A s \in Src \ {Stock} : s \in before <=>
        \E j \in 1 .. (i - 1) : SupplyEvent(coming, sel, events[j]) /\ events[j].subject = s
  BY DEF Arrived
<1>6. ASSUME SupplyEvent(coming, sel, e)
      PROVE  /\ e.subject \in Src \ {Stock} /\ e.subject \notin before /\ after = before \cup {e.subject}
             /\ Asked(events, i) = Asked(events, i - 1)
  <2>1. e.subject \in Src \ {Stock} /\ e.kind # "demand"
    BY <1>6 DEF SupplyEvent
  <2>2. \A j \in 1 .. (i - 1) : SupplyEvent(coming, sel, events[j]) => events[j].subject # e.subject
    BY <1>1, <1>6 DEF Timed
  <2>3. e.subject \notin before
    BY <1>5, <2>1, <2>2
  <2>4. after = before \cup {e.subject}
    BY <1>3, <1>6 DEF Arrived
  <2>5. Asked(events, i) = Asked(events, i - 1)
    BY <1>3, <2>1 DEF Asked, IsDemand
  <2> QED BY <2>1, <2>3, <2>4, <2>5
<1>7. ASSUME e.kind = "demand" PROVE after = before
  <2>1. ~SupplyEvent(coming, sel, e)
    BY <1>7 DEF SupplyEvent
  <2>2. { k \in 1 .. i : SupplyEvent(coming, sel, events[k]) }
          = { k \in 1 .. (i - 1) : SupplyEvent(coming, sel, events[k]) }
    BY <1>3, <2>1
  <2> QED BY <2>2 DEF Arrived
<1>8. QED
  BY <1>4, <1>5, <1>6, <1>7

\* The k-th of the sequence asks when those before it have, and when all that is
\* there by its date has come.
AskedNow(coming, sel, target, sequence, events, i, k) ==
  LET p == sequence[k]
  IN  /\ p \in Project /\ p \notin Asked(events, i - 1)
      /\ Asked(events, i) = Asked(events, i - 1) \cup {p}
      /\ \A l \in DOMAIN sequence :
           sequence[l] \in Asked(events, i - 1) <=> l < k /\ projects[sequence[l]].required > 0
      /\ \A q \in Asked(events, i - 1) : \E l \in DOMAIN sequence : sequence[l] = q
      /\ \A owner \in {p, NoProject} :
           Brought(coming, owner, Arrived(coming, sel, events, i - 1))
             = There(coming, owner, Start(sel, target, p))

LEMMA AskedStep ==
  ASSUME NEW coming \in SupplyRows, PlanningOK, NEW sel \in Project, NEW target,
         NEW sequence, Sequenced(sel, sequence),
         NEW events, Timed(coming, sel, target, events), Orderly(coming, sel, target, sequence, events),
         NEW i \in 1 .. Len(events), NEW k \in DOMAIN sequence, IsDemand(events[i], sequence[k])
  PROVE  AskedNow(coming, sel, target, sequence, events, i, k)
<1> DEFINE p == sequence[k]
           A == Arrived(coming, sel, events, i - 1)
           date == Start(sel, target, p)
<1>1. Len(events) \in Nat /\ \A j \in 1 .. (i - 1) : j \in 1 .. Len(events) /\ j < i
  BY DEF Timed
<1>2. /\ \A l \in DOMAIN sequence : sequence[l] \in Project /\ l \in Int /\ sequence[l] \in Planned(sel)
      /\ \A q \in Planned(sel) : \E l \in DOMAIN sequence : sequence[l] = q
  BY PlannedType DEF Sequenced
<1>3. \A j \in 1 .. Len(events) : \A l \in DOMAIN sequence :
        IsDemand(events[j], sequence[l]) => (j < i <=> l < k)
  BY DEF Orderly
<1>4. events[i].date = date /\ events[i].kind = "demand" /\ events[i].subject = p
  BY DEF Orderly, IsDemand
<1>5. 1 .. i = (1 .. (i - 1)) \cup {i}
  BY <1>1
<1>6. p \notin Asked(events, i - 1)
  BY <1>1, <1>2, <1>3 DEF Asked
<1>7. Asked(events, i) = Asked(events, i - 1) \cup {p}
  <2>1. \A q : IsDemand(events[i], q) <=> q = p
    BY <1>4 DEF IsDemand
  <2> QED BY <1>2, <1>5, <2>1 DEF Asked
<1>8. ASSUME NEW q \in Asked(events, i - 1)
      PROVE  /\ q \in Planned(sel) /\ projects[q].required > 0
             /\ \E l \in DOMAIN sequence : sequence[l] = q /\ l < k
  <2>1. PICK j \in 1 .. (i - 1) : IsDemand(events[j], q)
    BY DEF Asked
  <2>2. q \in Planned(sel) /\ projects[q].required > 0
    BY <1>1, <2>1 DEF Orderly
  <2>3. PICK l \in DOMAIN sequence : sequence[l] = q
    BY <1>2, <2>2
  <2> QED BY <1>1, <1>3, <2>1, <2>2, <2>3
<1>9. ASSUME NEW l \in DOMAIN sequence
      PROVE  sequence[l] \in Asked(events, i - 1) <=> l < k /\ projects[sequence[l]].required > 0
  <2>1. ASSUME sequence[l] \in Asked(events, i - 1)
        PROVE  l < k /\ projects[sequence[l]].required > 0
    BY <1>8, <2>1 DEF Sequenced
  <2>2. ASSUME l < k, projects[sequence[l]].required > 0
        PROVE  sequence[l] \in Asked(events, i - 1)
    <3>1. PICK j \in 1 .. Len(events) : IsDemand(events[j], sequence[l])
      BY <1>2, <2>2 DEF Orderly
    <3>2. j < i
      BY <1>3, <2>2, <3>1
    <3>3. j \in 1 .. (i - 1)
      BY <1>1, <3>2
    <3> QED BY <1>2, <3>1, <3>3 DEF Asked
  <2> QED BY <2>1, <2>2
<1>10. ASSUME NEW owner \in {p, NoProject}
       PROVE  Brought(coming, owner, A) = There(coming, owner, date)
  <2> DEFINE f == Amounts(coming)
             T == Of(coming, owner) \cap A
             U == { s \in Of(coming, owner) : ThereBy(coming, s, date) }
  <2>1. f \in [Src -> Nat] /\ \A s \in Src \ {Stock} : f[s] = coming[s].quantity
    BY SupplyTypes DEF Amounts, AmountOf
  <2>2. ASSUME NEW s \in Src, f[s] > 0 PROVE s \in T <=> s \in U
    <3>1. CASE s = Stock
      BY <3>1 DEF Arrived, ThereBy
    <3>2. CASE s # Stock
      <4>0. SUFFICES ASSUME s \in Of(coming, owner) PROVE s \in A <=> coming[s].date <= date
        BY <3>2 DEF ThereBy
      <4>1. coming[s].owner \in Planned(sel) \cup {NoProject} /\ coming[s].quantity > 0
        BY <1>2, <2>1, <2>2, <3>2, <4>0 DEF Of
      <4>2. PICK j \in 1 .. Len(events) : SupplyEvent(coming, sel, events[j]) /\ events[j].subject = s
        BY <3>2, <4>1 DEF Orderly
      <4>3. events[j].date = coming[s].date
        BY <4>2 DEF SupplyEvent
      <4>4. ASSUME coming[s].date <= date PROVE s \in A
        <5>1. j < i
          BY <1>4, <4>2, <4>3, <4>4 DEF Orderly
        <5>2. j \in 1 .. (i - 1)
          BY <1>1, <5>1
        <5> QED BY <4>2, <5>2 DEF Arrived
      <4>5. ASSUME s \in A PROVE coming[s].date <= date
        <5>1. PICK m \in 1 .. (i - 1) : SupplyEvent(coming, sel, events[m]) /\ events[m].subject = s
          BY <3>2, <4>5, ArrivedStep
        <5>2. events[m].date <= events[i].date /\ events[m].date = coming[s].date
          BY <1>1, <5>1 DEF Timed, SupplyEvent
        <5> QED BY <1>4, <5>2
      <4> QED BY <4>4, <4>5
    <3> QED BY <3>1, <3>2
  <2>3. Part(f, T) = Part(f, U)
    <3> HIDE DEF f, T, U
    <3>1. \A s \in Src : f[s] \in Nat /\ ((s \in T <=> s \in U) \/ f[s] = 0)
      BY <2>1, <2>2
    <3>2. DOMAIN f = Src
      BY <2>1
    <3> QED BY <3>1, <3>2 DEF Part
  <2> QED BY <2>3 DEF Brought, There
<1>11. \A q \in Asked(events, i - 1) : \E l \in DOMAIN sequence : sequence[l] = q
  BY <1>8
<1>12. p \in Project
  BY <1>2
<1> HIDE DEF A, date, p
<1>13. QED
  BY <1>6, <1>7, <1>9, <1>10, <1>11, <1>12 DEF AskedNow, A, date, p

-----------------------------------------------------------------------------
\* What those that have asked needed of the pool.
Needed(coming, sel, target, events, i) == Total(Part(Needs(coming, sel, target), Asked(events, i)))

LEMMA NeededGrows ==
  ASSUME NEW coming \in SupplyRows, PlanningOK, NEW sel \in Project, NEW target,
         NEW events, NEW i \in Nat, NEW p \in Project, p \notin Asked(events, i),
         NEW j \in Nat, Asked(events, j) = Asked(events, i) \cup {p}
  PROVE  /\ Needed(coming, sel, target, events, i) \in Nat
         /\ Needed(coming, sel, target, events, j)
              = Needed(coming, sel, target, events, i) + Needs(coming, sel, target)[p]
<1> DEFINE f == Needs(coming, sel, target)
           T == Asked(events, i)
<1>1. f \in [Project -> Nat] /\ T \in SUBSET Project
  BY SupplyTypes DEF Asked
<1>2. IsFiniteSet(Project)
  BY SourcesFinite
<1> HIDE DEF f, T
<1>3. Total(Part(f, T)) \in Nat
  BY <1>1, <1>2, PartMonotone
<1>4. Total(Part(f, T \cup {p})) = Total(Part(f, T)) + f[p]
  <2>1. p \notin T
    BY DEF T
  <2> QED BY <1>1, <1>2, <2>1, PartGrows
<1>5. QED
  BY <1>3, <1>4 DEF Needed, f, T

\* When the k-th asks, those that have asked are the ones before it; who requires
\* nothing needs nothing.
LEMMA AskedBefore ==
  ASSUME NEW coming \in SupplyRows, PlanningOK, NEW sel \in Project, NEW target,
         NEW sequence, Sequenced(sel, sequence), NEW k \in DOMAIN sequence, NEW A \in SUBSET Project,
         \A l \in DOMAIN sequence : sequence[l] \in A <=> l < k /\ projects[sequence[l]].required > 0,
         \A q \in A : \E l \in DOMAIN sequence : sequence[l] = q
  PROVE  Total(Part(Needs(coming, sel, target), A))
           = Total([j \in 1 .. (k - 1) |-> Needs(coming, sel, target)[sequence[j]]])
<1> DEFINE f == Needs(coming, sel, target)
           D == 1 .. (k - 1)
           B == { sequence[j] : j \in D }
           b == [j \in D |-> sequence[j]]
           g == [p \in B |-> f[p]]
<1>0. D \subseteq DOMAIN sequence /\ k \in Int /\ \A l \in DOMAIN sequence : l \in Int /\ l > 0 /\ sequence[l] \in Project
  BY PlannedType DEF Sequenced
<1>1. f \in [Project -> Nat] /\ B \in SUBSET Project
  BY <1>0, SupplyTypes
<1>2. IsFiniteSet(Project) /\ IsFiniteSet(B)
  BY <1>1, SourcesFinite, FS_Subset
<1>3. \A p \in Project : projects[p].required = 0 => f[p] = 0
  <2> SUFFICES ASSUME NEW p \in Project, projects[p].required = 0 PROVE f[p] = 0
    OBVIOUS
  <2> DEFINE there == There(coming, p, Start(sel, target, p))
  <2>1. there \in Nat
    BY SupplyTypes
  <2>2. f[p] = Monus(0, there)
    BY DEF Needs
  <2> HIDE DEF there
  <2> QED BY <2>1, <2>2 DEF Monus
<1>4. \A p \in Project : projects[p].required \in Nat
  BY DEF PlanningOK, ProjectRow
<1>5. ASSUME NEW p \in Project, f[p] # 0 PROVE p \in A <=> p \in B
  <2>1. projects[p].required > 0
    BY <1>3, <1>4, <1>5
  <2>2. ASSUME p \in A PROVE p \in B
    <3>1. PICK l \in DOMAIN sequence : sequence[l] = p
      BY <2>2
    <3>2. l < k
      BY <2>2, <3>1
    <3> QED BY <1>0, <3>1, <3>2
  <2>3. ASSUME p \in B PROVE p \in A
    <3>1. PICK l \in D : sequence[l] = p
      BY <2>3
    <3>2. l \in DOMAIN sequence /\ l < k
      BY <1>0
    <3> QED BY <2>1, <3>1, <3>2
  <2> QED BY <2>2, <2>3
<1>6. b \in Bijection(D, B)
  <2>1. b \in [D -> B] /\ (\A x, y \in D : b[x] = b[y] => x = y) /\ \A z \in B : \E x \in D : b[x] = z
    <3>1. \A x, y \in D : sequence[x] = sequence[y] => x = y
      BY <1>0 DEF Sequenced
    <3> HIDE DEF D
    <3> QED BY <3>1
  <2> HIDE DEF b, B, D
  <2> QED BY <2>1, Fun_IsBij
<1>7. \A j \in D : f[sequence[j]] = g[b[j]]
  <2> HIDE DEF f, D
  <2> QED OBVIOUS
<1> HIDE DEF f
<1>8. Part(f, A) = Part(f, B)
  <2>1. DOMAIN f = Project
    BY <1>1
  <2> HIDE DEF B
  <2> QED BY <1>5, <2>1 DEF Part
<1>9. g \in [B -> Nat]
  <2> HIDE DEF B
  <2> QED BY <1>1
<1>10. Total(g) = Total(Part(f, B))
  <2> HIDE DEF B
  <2> QED BY <1>1, TotalOfPart
<1>11. [j \in D |-> f[sequence[j]]] = [j \in D |-> g[b[j]]]
  <2> HIDE DEF D, b, g
  <2> QED BY <1>7
<1>12. Total([j \in D |-> g[b[j]]]) = Total(g)
  <2> HIDE DEF D, B, b, g
  <2> QED BY <1>2, <1>6, <1>9, TotalRenamed
<1>13. QED
  <2> HIDE DEF g, b, B
  <2> QED BY <1>8, <1>10, <1>11, <1>12 DEF f

\* Supply of their own that comes after they asked is late.
LEMMA AfterAskingIsLate ==
  ASSUME NEW coming \in SupplyRows, PlanningOK, NEW sel \in Project, NEW target, StartDate(target),
         NEW sequence,
         NEW events, Timed(coming, sel, target, events), Orderly(coming, sel, target, sequence, events),
         NEW i \in 1 .. Len(events), SupplyEvent(coming, sel, events[i]), events[i].kind = "dedicated",
         coming[events[i].subject].owner \in Asked(events, i - 1)
  PROVE  ~AllOnTime(coming, sel, target)
<1> DEFINE s    == events[i].subject
           p    == coming[s].owner
           date == Start(sel, target, p)
           f    == Amounts(coming)
           T    == { u \in Of(coming, p) : ThereBy(coming, u, date) }
           U    == { u \in Of(coming, p) : ThereBy(coming, u, MaxEta) }
<1>1. Len(events) \in Nat /\ \A j \in 1 .. (i - 1) : j \in 1 .. Len(events) /\ ~(i < j)
  BY DEF Timed
<1>2. PICK j \in 1 .. (i - 1) : IsDemand(events[j], p)
  BY DEF Asked
<1>3. p \in Planned(sel) /\ projects[p].required > 0 /\ events[j].date = date /\ p \in Project
  BY <1>1, <1>2, PlannedType DEF Orderly
<1>4. s \in Src \ {Stock} /\ events[i].date = coming[s].date /\ coming[s].quantity > 0
  BY DEF SupplyEvent, Orderly
<1>5. date \in 0 .. MaxEta /\ MaxEta \in Int /\ \A u \in Src \ {Stock} : coming[u].date \in 0 .. MaxEta
  <2>1. date \in 0 .. MaxEta
    BY <1>3, StartType
  <2>2. MaxEta \in Int
    BY ConstantsAssumption
  <2> HIDE DEF date
  <2> QED BY <2>1, <2>2, ComingType
<1>6. ~(coming[s].date <= date)
  BY <1>1, <1>2, <1>3, <1>4 DEF Orderly, IsDemand
<1>7. s \notin T /\ T \cup {s} \subseteq U /\ T \in SUBSET Src /\ s \in Src /\ s # Stock
  <2>1. s \in Of(coming, p)
    BY <1>4 DEF Of
  <2>2. s \notin T
    BY <1>4, <1>6 DEF ThereBy
  <2>3. \A u \in Src : u = Stock \/ coming[u].date <= MaxEta
    BY <1>5
  <2>4. T \cup {s} \subseteq U
    BY <1>4, <2>1, <2>3 DEF ThereBy, Of
  <2> QED BY <1>4, <2>2, <2>4 DEF Of
<1>8. f \in [Src -> Nat] /\ f[s] > 0
  <2>1. f \in [Src -> Nat]
    BY SupplyTypes
  <2>2. f[s] = coming[s].quantity
    BY <1>4 DEF Amounts, AmountOf
  <2> QED BY <1>4, <2>1, <2>2
<1>9. IsFiniteSet(Src)
  BY SourcesFinite
<1>10. There(coming, p, date) = Total(Part(f, T)) /\ There(coming, p, MaxEta) = Total(Part(f, U))
  BY DEF There
<1>15. projects[p].required # 0
  BY <1>3
<1> HIDE DEF f, T, U, date, p, s
<1>11. Total(Part(f, T \cup {s})) = Total(Part(f, T)) + f[s]
  BY <1>7, <1>8, <1>9, PartGrows
<1>12. Total(Part(f, T \cup {s})) <= Total(Part(f, U)) /\ Total(Part(f, T)) \in Nat
       /\ Total(Part(f, U)) \in Nat
  BY <1>7, <1>8, <1>9, PartMonotone
<1>13. There(coming, p, MaxEta) # There(coming, p, date)
  BY <1>7, <1>8, <1>10, <1>11, <1>12
<1>14. QED
  BY <1>3, <1>13, <1>15 DEF AllOnTime, date

\* Off the sequence nothing is owed.
LEMMA OwedIsTotal ==
  ASSUME NEW sel \in Project, NEW sequence, Sequenced(sel, sequence),
         NEW backlog \in [Project -> Nat],
         \A p \in Project : (\A l \in DOMAIN sequence : sequence[l] # p) => backlog[p] = 0
  PROVE  Owed(backlog, sequence) = Total(backlog)
<1> DEFINE D == DOMAIN sequence
           B == { sequence[j] : j \in D }
           b == [j \in D |-> sequence[j]]
           g == [p \in B |-> backlog[p]]
<1>1. B \in SUBSET Project
  BY PlannedType DEF Sequenced
<1>2. IsFiniteSet(B)
  BY <1>1, SourcesFinite, FS_Subset
<1>3. b \in Bijection(D, B)
  <2>1. b \in [D -> B] /\ (\A x, y \in D : b[x] = b[y] => x = y) /\ \A z \in B : \E x \in D : b[x] = z
    BY DEF Sequenced
  <2> HIDE DEF b, B, D
  <2> QED BY <2>1, Fun_IsBij
<1>4. g \in [B -> Nat]
  <2> HIDE DEF B
  <2> QED BY <1>1
<1>5. Total([j \in D |-> g[b[j]]]) = Total(g)
  <2> HIDE DEF D, B, b, g
  <2> QED BY <1>2, <1>3, <1>4, TotalRenamed
<1>6. [j \in D |-> g[b[j]]] = [j \in D |-> backlog[sequence[j]]]
  OBVIOUS
<1>7. Total(g) = Total(backlog)
  <2>1. \A p \in Project \ B : backlog[p] = 0
    OBVIOUS
  <2> HIDE DEF B
  <2> QED BY <1>1, <2>1, TotalRestricted
<1>8. QED
  <2> HIDE DEF g, b, B
  <2> QED BY <1>5, <1>6, <1>7 DEF Owed

\* What the accounts keep after i events: there is nothing in the pool while
\* anything is owed; pool and needs make up for what came for nobody and what is
\* owed; who has not asked is owed nothing and has all that came for it; who has
\* asked saw at least what the projects before it left.
Served(coming, sel, target, sequence, events, i, a) ==
  LET asked == Asked(events, i)
      need  == Needed(coming, sel, target, events, i)
      come  == Brought(coming, NoProject, Arrived(coming, sel, events, i))
  IN  /\ a \in AccountRow
      /\ a.pool = 0 \/ Total(a.backlog) = 0
      /\ a.pool + need >= come + Total(a.backlog)
      /\ AllOnTime(coming, sel, target) => a.pool + need = come + Total(a.backlog)
      /\ \A p \in Project \ asked :
           a.backlog[p] = 0 /\ a.own[p] = Brought(coming, p, Arrived(coming, sel, events, i))
      /\ \A k \in DOMAIN sequence : sequence[k] \in asked =>
           LET p    == sequence[k]
               pool == PoolFor(coming, sel, target, sequence, k)
           IN  /\ a.seen[p] >= pool
               /\ AllOnTime(coming, sel, target) =>
                    a.seen[p] = pool /\ a.shortage[p] = Monus(Needs(coming, sel, target)[p], pool)

LEMMA ServedFirst ==
  ASSUME NEW coming \in SupplyRows, PlanningOK, NEW sel \in Project, NEW target,
         NEW sequence, NEW events, NEW a, Opened(a)
  PROVE  Served(coming, sel, target, sequence, events, 0, a)
<1> DEFINE f == Amounts(coming)
<1>1. f \in [Src -> Nat] /\ Stock \in Src /\ f[Stock] = Total(Available)
  <2>1. Stock \in Src
    BY ConstantsAssumption, PlanningAssumption DEF Src, Stock
  <2> QED BY <2>1, SupplyTypes DEF Amounts, AmountOf
<1>2. IsFiniteSet(Src) /\ IsFiniteSet(Project)
  BY SourcesFinite
<1>3. Arrived(coming, sel, events, 0) = {Stock} /\ Asked(events, 0) = {}
  BY DEF Arrived, Asked
<1>4. a \in AccountRow /\ a.backlog \in [Project -> Nat] /\ \A p \in Project : a.backlog[p] = 0 /\ a.own[p] = 0
      /\ a.pool = f[Stock]
  BY <1>1, AccountFields DEF Opened
<1>5. Total(a.backlog) = 0
  BY <1>2, <1>4, TotalZero
<1>6. Needed(coming, sel, target, events, 0) = 0
  <2> DEFINE g == Part(Needs(coming, sel, target), {})
  <2>1. g \in [Project -> Nat] /\ \A p \in Project : g[p] = 0
    BY SupplyTypes, PartType
  <2>2. Total(g) = 0
    <3> HIDE DEF g
    <3> QED BY <1>2, <2>1, TotalZero
  <2> QED BY <1>3, <2>2 DEF Needed
<1>7. ASSUME NEW p \in Project PROVE Brought(coming, p, {Stock}) = 0
  <2> DEFINE g == Part(f, {})
  <2>1. p # NoProject
    BY ConstantsAssumption
  <2>2. Of(coming, p) \cap {Stock} = {}
    BY <2>1 DEF Of
  <2>3. g \in [Src -> Nat] /\ \A s \in Src : g[s] = 0
    <3> HIDE DEF f
    <3> QED BY <1>1, PartType
  <2>4. Total(g) = 0
    <3> HIDE DEF g
    <3> QED BY <1>2, <2>3, TotalZero
  <2> QED BY <2>2, <2>4 DEF Brought
<1>8. Brought(coming, NoProject, {Stock}) = f[Stock]
  <2> DEFINE g == Part(f, {Stock})
  <2>1. Of(coming, NoProject) \cap {Stock} = {Stock}
    BY <1>1 DEF Of
  <2>2. g \in [Src -> Nat] /\ g[Stock] = f[Stock] /\ \A s \in Src : s # Stock => g[s] = 0
    <3> HIDE DEF f
    <3> QED BY <1>1, PartType
  <2>3. Total(g) = g[Stock]
    <3> HIDE DEF g
    <3> QED BY <1>1, <1>2, <2>2, TotalSingle
  <2> QED BY <2>1, <2>2, <2>3 DEF Brought
<1> HIDE DEF f
<1>9. f[Stock] \in Nat
  BY <1>1
<1>10. QED
  BY <1>3, <1>4, <1>5, <1>6, <1>7, <1>8, <1>9 DEF Served

LEMMA ServedDedicated ==
  ASSUME NEW coming \in SupplyRows, PlanningOK, NEW sel \in Project, NEW target, StartDate(target),
         NEW sequence, Sequenced(sel, sequence),
         NEW events, Timed(coming, sel, target, events), Orderly(coming, sel, target, sequence, events),
         NEW i \in 1 .. Len(events), SupplyEvent(coming, sel, events[i]), events[i].kind = "dedicated",
         NEW a, Served(coming, sel, target, sequence, events, i - 1, a), NEW b \in AccountRow,
         BooksDedicated(a, b, coming[events[i].subject].owner, coming[events[i].subject].quantity)
  PROVE  Served(coming, sel, target, sequence, events, i, b)
<1> DEFINE s      == events[i].subject
           p      == coming[s].owner
           q      == coming[s].quantity
           before == Arrived(coming, sel, events, i - 1)
           asked  == Asked(events, i - 1)
           onTime == AllOnTime(coming, sel, target)
           need   == Needed(coming, sel, target, events, i - 1)
           come(r) == Brought(coming, r, before)
<1>1. /\ s \in Src \ {Stock} /\ s \notin before /\ before \in SUBSET Src
      /\ Arrived(coming, sel, events, i) = before \cup {s} /\ Asked(events, i) = asked
  BY ArrivedStep
<1>2. p \in Project /\ p # NoProject /\ q \in Nat
  <2>1. p \in Planned(sel)
    BY DEF SupplyEvent
  <2> QED BY <1>1, <2>1, PlannedType, ConstantsAssumption, ComingType
<1>3. \A r : come(r) \in Nat /\
        Brought(coming, r, Arrived(coming, sel, events, i)) = come(r) + (IF p = r THEN q ELSE 0)
  <2>1. \A r : Brought(coming, r, before \cup {s}) = come(r) + (IF p = r THEN q ELSE 0)
    <3> HIDE DEF s, before
    <3> QED BY <1>1, BroughtGrows
  <2> QED BY <1>1, <2>1, SupplyTypes
<1>4. /\ a.pool \in Nat /\ a.own \in [Project -> Nat] /\ a.backlog \in [Project -> Nat]
      /\ b.own \in [Project -> Nat] /\ b.backlog \in [Project -> Nat]
  BY AccountFields DEF Served
<1>5. p \in asked => ~onTime
  BY AfterAskingIsLate
<1>6. /\ a.pool = 0 \/ Total(a.backlog) = 0
      /\ a.pool + need >= come(NoProject) + Total(a.backlog)
      /\ onTime => a.pool + need = come(NoProject) + Total(a.backlog)
      /\ \A r \in Project \ asked : a.backlog[r] = 0 /\ a.own[r] = come(r)
      /\ \A k \in DOMAIN sequence : sequence[k] \in asked =>
           /\ a.seen[sequence[k]] >= PoolFor(coming, sel, target, sequence, k)
           /\ onTime => /\ a.seen[sequence[k]] = PoolFor(coming, sel, target, sequence, k)
                        /\ a.shortage[sequence[k]]
                             = Monus(Needs(coming, sel, target)[sequence[k]], PoolFor(coming, sel, target, sequence, k))
  BY Zenon DEF Served
<1>7. /\ b.pool = a.pool /\ b.seen = a.seen /\ b.shortage = a.shortage
      /\ b.backlog[p] = Monus(a.backlog[p], q)
      /\ b.own[p] = a.own[p] + Monus(q, a.backlog[p])
      /\ \A r \in Project : r # p => b.backlog[r] = a.backlog[r] /\ b.own[r] = a.own[r]
  BY DEF BooksDedicated
<1>8. Needed(coming, sel, target, events, i) = need /\ need \in Nat
  <2>1. Needed(coming, sel, target, events, i) = need
    BY <1>1 DEF Needed
  <2>2. need \in Nat
    BY SupplyTypes, SourcesFinite, PartMonotone DEF Needed
  <2> QED BY <2>1, <2>2
<1> HIDE DEF s, p, q, before, asked, onTime, need, come
<1>9. \A r \in Project : b.backlog[r] <= a.backlog[r]
  <2>1. b.backlog[p] <= a.backlog[p]
    BY <1>2, <1>4, <1>7 DEF Monus
  <2>2. \A r \in Project : a.backlog[r] \in Nat
    BY <1>4
  <2>3. ASSUME NEW r \in Project, r # p PROVE b.backlog[r] <= a.backlog[r]
    <3>1. b.backlog[r] = a.backlog[r]
      BY <1>7, <2>3
    <3> QED BY <2>2, <3>1
  <2> QED BY <2>1, <2>3
<1>10. Total(b.backlog) <= Total(a.backlog) /\ Total(b.backlog) \in Nat /\ Total(a.backlog) \in Nat
  BY <1>4, <1>9, SourcesFinite, TotalMonotone, TotalType
<1>11. p \notin asked => b.backlog = a.backlog
  <2> SUFFICES ASSUME p \notin asked PROVE b.backlog = a.backlog
    OBVIOUS
  <2>1. b.backlog[p] = a.backlog[p]
    <3>1. a.backlog[p] = 0
      BY <1>2, <1>6
    <3> QED BY <1>2, <1>7, <3>1 DEF Monus
  <2>2. \A r \in Project : b.backlog[r] = a.backlog[r]
    BY Zenon, <1>7, <2>1
  <2> QED BY <1>4, <2>2
<1>12. b.pool + need >= come(NoProject) + Total(b.backlog)
       /\ (onTime => b.pool + need = come(NoProject) + Total(b.backlog))
       /\ (b.pool = 0 \/ Total(b.backlog) = 0)
  <2>1. /\ a.pool = 0 \/ Total(a.backlog) = 0
        /\ a.pool + need >= come(NoProject) + Total(a.backlog)
        /\ onTime => a.pool + need = come(NoProject) + Total(a.backlog)
    BY <1>6
  <2>2. /\ b.pool = a.pool /\ a.pool \in Nat /\ come(NoProject) \in Nat /\ need \in Nat
        /\ onTime => b.backlog = a.backlog
    BY <1>3, <1>4, <1>5, <1>7, <1>8, <1>11
  <2> DEFINE come0 == come(NoProject)
  <2> HIDE DEF come0
  <2>3. /\ b.pool + need >= come0 + Total(b.backlog)
        /\ (onTime => b.pool + need = come0 + Total(b.backlog))
        /\ (b.pool = 0 \/ Total(b.backlog) = 0)
    BY <1>10, <2>1, <2>2 DEF come0
  <2> QED BY <2>3 DEF come0
<1>13. ASSUME NEW r \in Project \ asked
       PROVE  b.backlog[r] = 0 /\ b.own[r] = Brought(coming, r, Arrived(coming, sel, events, i))
  <2>1. a.backlog[r] = 0 /\ a.own[r] = come(r)
    BY <1>6, <1>13
  <2>2. Brought(coming, r, Arrived(coming, sel, events, i)) = come(r) + (IF p = r THEN q ELSE 0)
        /\ come(r) \in Nat
    BY <1>3
  <2>3. CASE r = p
    <3>1. b.backlog[r] = Monus(0, q) /\ b.own[r] = come(r) + Monus(q, 0)
      BY <1>7, <2>1, <2>3
    <3>2. Monus(0, q) = 0 /\ Monus(q, 0) = q
      BY <1>2 DEF Monus
    <3> QED BY <2>2, <2>3, <3>1, <3>2
  <2>4. CASE r # p
    <3>1. b.backlog[r] = 0 /\ b.own[r] = come(r)
      BY <1>7, <2>1, <2>4
    <3> QED BY <2>2, <2>4, <3>1
  <2> QED BY <2>3, <2>4
<1>14. Brought(coming, NoProject, Arrived(coming, sel, events, i)) = come(NoProject)
  BY <1>2, <1>3
<1>15. QED
  BY <1>1, <1>6, <1>7, <1>8, <1>12, <1>13, <1>14 DEF Served, onTime, asked

LEMMA ServedGeneric ==
  ASSUME NEW coming \in SupplyRows, PlanningOK, NEW sel \in Project, NEW target,
         NEW sequence, Sequenced(sel, sequence),
         NEW events, Timed(coming, sel, target, events), Orderly(coming, sel, target, sequence, events),
         NEW i \in 1 .. Len(events), SupplyEvent(coming, sel, events[i]), events[i].kind = "generic",
         NEW a, Served(coming, sel, target, sequence, events, i - 1, a), NEW b \in AccountRow,
         BooksGeneric(a, b, sequence, coming[events[i].subject].quantity)
  PROVE  Served(coming, sel, target, sequence, events, i, b)
<1> DEFINE s      == events[i].subject
           q      == coming[s].quantity
           before == Arrived(coming, sel, events, i - 1)
           asked  == Asked(events, i - 1)
           onTime == AllOnTime(coming, sel, target)
           need   == Needed(coming, sel, target, events, i - 1)
           come(r) == Brought(coming, r, before)
<1>1. /\ s \in Src \ {Stock} /\ s \notin before /\ before \in SUBSET Src
      /\ Arrived(coming, sel, events, i) = before \cup {s} /\ Asked(events, i) = asked
  BY ArrivedStep
<1>2. coming[s].owner = NoProject /\ q \in Nat /\ NoProject \notin Project
  <2>1. coming[s].owner = NoProject
    BY DEF SupplyEvent
  <2> QED BY <1>1, <2>1, ConstantsAssumption, ComingType
<1>3. \A r : come(r) \in Nat /\
        Brought(coming, r, Arrived(coming, sel, events, i)) = come(r) + (IF NoProject = r THEN q ELSE 0)
  <2>1. \A r : Brought(coming, r, before \cup {s})
                 = come(r) + (IF coming[s].owner = r THEN coming[s].quantity ELSE 0)
    <3> HIDE DEF s, before
    <3> QED BY <1>1, BroughtGrows
  <2>2. \A r : Brought(coming, r, before \cup {s}) = come(r) + (IF NoProject = r THEN q ELSE 0)
    BY Zenon, <1>2, <2>1
  <2> QED BY <1>1, <2>2, SupplyTypes
<1>4. /\ a.pool \in Nat /\ a.own \in [Project -> Nat] /\ a.backlog \in [Project -> Nat]
      /\ b.own \in [Project -> Nat] /\ b.backlog \in [Project -> Nat]
  BY AccountFields DEF Served
<1>6. /\ a.pool = 0 \/ Total(a.backlog) = 0
      /\ a.pool + need >= come(NoProject) + Total(a.backlog)
      /\ onTime => a.pool + need = come(NoProject) + Total(a.backlog)
      /\ \A r \in Project \ asked : a.backlog[r] = 0 /\ a.own[r] = come(r)
      /\ \A k \in DOMAIN sequence : sequence[k] \in asked =>
           /\ a.seen[sequence[k]] >= PoolFor(coming, sel, target, sequence, k)
           /\ onTime => /\ a.seen[sequence[k]] = PoolFor(coming, sel, target, sequence, k)
                        /\ a.shortage[sequence[k]]
                             = Monus(Needs(coming, sel, target)[sequence[k]], PoolFor(coming, sel, target, sequence, k))
  BY Zenon DEF Served
<1>7. /\ b.own = a.own /\ b.seen = a.seen /\ b.shortage = a.shortage
      /\ b.pool = a.pool + Monus(q, Owed(a.backlog, sequence))
      /\ \A l \in DOMAIN sequence :
           b.backlog[sequence[l]] =
             Monus(a.backlog[sequence[l]], Monus(q, OwedBefore(a.backlog, sequence, l)))
      /\ \A p \in Project : (\A l \in DOMAIN sequence : sequence[l] # p) => b.backlog[p] = a.backlog[p]
      /\ Total(b.backlog) + Smaller(q, Owed(a.backlog, sequence)) = Total(a.backlog)
  BY DEF BooksGeneric
<1>8. Needed(coming, sel, target, events, i) = need /\ need \in Nat
  <2>1. Needed(coming, sel, target, events, i) = need
    BY <1>1 DEF Needed
  <2>2. need \in Nat
    BY SupplyTypes, SourcesFinite, PartMonotone DEF Needed
  <2> QED BY <2>1, <2>2
<1>9. \A p \in asked : \E l \in DOMAIN sequence : sequence[l] = p
  <2>1. \A j \in 1 .. (i - 1) : j \in 1 .. Len(events)
    BY DEF Timed
  <2>2. asked \subseteq Planned(sel)
    BY <2>1 DEF Asked, Orderly
  <2> QED BY <2>2 DEF Sequenced
<1> HIDE DEF s, q, before, asked, onTime, need, come
<1>10. Owed(a.backlog, sequence) = Total(a.backlog)
  <2>1. \A p \in Project : (\A l \in DOMAIN sequence : sequence[l] # p) => a.backlog[p] = 0
    BY <1>6, <1>9
  <2> QED BY <1>4, <2>1, OwedIsTotal
<1>11. Total(b.backlog) \in Nat /\ Total(a.backlog) \in Nat
  BY <1>4, SourcesFinite, TotalType
<1>12. LET owed == Total(a.backlog)
           left == Total(b.backlog)
       IN  /\ b.pool = a.pool + Monus(q, owed)
           /\ left + Smaller(q, owed) = owed
  BY <1>7, <1>10
<1>13. b.pool + need >= come(NoProject) + q + Total(b.backlog)
       /\ (onTime => b.pool + need = come(NoProject) + q + Total(b.backlog))
       /\ (b.pool = 0 \/ Total(b.backlog) = 0)
  <2>1. /\ a.pool = 0 \/ Total(a.backlog) = 0
        /\ a.pool + need >= come(NoProject) + Total(a.backlog)
        /\ onTime => a.pool + need = come(NoProject) + Total(a.backlog)
    BY <1>6
  <2>2. a.pool \in Nat /\ come(NoProject) \in Nat /\ need \in Nat /\ q \in Nat
    BY <1>2, <1>3, <1>4, <1>8
  <2> DEFINE come0 == come(NoProject)
             owed  == Total(a.backlog)
             left  == Total(b.backlog)
  <2>3. /\ b.pool = a.pool + Monus(q, owed) /\ left + Smaller(q, owed) = owed
        /\ owed \in Nat /\ left \in Nat
    BY <1>11, <1>12
  <2>4. /\ a.pool = 0 \/ owed = 0
        /\ a.pool + need >= come0 + owed /\ come0 \in Nat
        /\ onTime => a.pool + need = come0 + owed
    BY <2>1, <2>2
  <2> HIDE DEF come0, owed, left
  <2>5. CASE q <= owed
    <3>1. Monus(q, owed) = 0 /\ Smaller(q, owed) = q
      BY <2>2, <2>3, <2>5 DEF Monus, Smaller
    <3> QED BY <2>2, <2>3, <2>4, <3>1 DEF come0, left
  <2>6. CASE q > owed
    <3>1. Monus(q, owed) = q - owed /\ Smaller(q, owed) = owed
      BY <2>2, <2>3, <2>6 DEF Monus, Smaller
    <3>2. left = 0 /\ b.pool = a.pool + (q - owed)
      BY <2>3, <3>1
    <3>3. b.pool + need >= come0 + q + left /\ (onTime => b.pool + need = come0 + q + left)
      <4>1. CASE owed = 0
        BY <2>2, <2>3, <2>4, <3>2, <4>1
      <4>2. CASE a.pool = 0
        BY <2>2, <2>3, <2>4, <3>2, <4>2
      <4> QED BY <2>4, <4>1, <4>2
    <3> QED BY <3>2, <3>3 DEF come0, left
  <2> QED BY <2>2, <2>3, <2>5, <2>6
<1>14. Brought(coming, NoProject, Arrived(coming, sel, events, i)) = come(NoProject) + q
  BY <1>3
<1>15. ASSUME NEW r \in Project \ asked
       PROVE  b.backlog[r] = 0 /\ b.own[r] = Brought(coming, r, Arrived(coming, sel, events, i))
  <2>1. b.own[r] = Brought(coming, r, Arrived(coming, sel, events, i))
    BY <1>2, <1>3, <1>6, <1>7
  <2>2. CASE \E l \in DOMAIN sequence : sequence[l] = r
    <3>1. PICK l \in DOMAIN sequence : sequence[l] = r
      BY <2>2
    <3> DEFINE owed == OwedBefore(a.backlog, sequence, l)
    <3>2. owed \in Nat
      <4>1. \A p \in Project : a.backlog[p] <= a.backlog[p]
        BY <1>4
      <4> QED BY <1>4, <4>1, OwedType
    <3>3. b.backlog[r] = Monus(0, Monus(q, owed))
      BY <1>6, <1>7, <3>1
    <3> HIDE DEF owed
    <3> QED BY <1>2, <2>1, <3>2, <3>3 DEF Monus
  <2>3. CASE \A l \in DOMAIN sequence : sequence[l] # r
    BY <1>6, <1>7, <2>1, <2>3
  <2> QED BY <2>2, <2>3
<1>16. QED
  BY <1>1, <1>6, <1>7, <1>8, <1>13, <1>14, <1>15 DEF Served, onTime, asked

LEMMA ServedDemand ==
  ASSUME NEW coming \in SupplyRows, PlanningOK, NEW sel \in Project, NEW target,
         NEW sequence, Sequenced(sel, sequence),
         NEW events, Timed(coming, sel, target, events), Orderly(coming, sel, target, sequence, events),
         NEW i \in 1 .. Len(events), NEW k \in DOMAIN sequence, IsDemand(events[i], sequence[k]),
         NEW a, Served(coming, sel, target, sequence, events, i - 1, a), NEW b \in AccountRow,
         BooksDemand(a, b, sequence[k], projects[sequence[k]].required)
  PROVE  Served(coming, sel, target, sequence, events, i, b)
<1>0. AskedNow(coming, sel, target, sequence, events, i, k)
  BY AskedStep
<1> DEFINE p      == sequence[k]
           A      == Arrived(coming, sel, events, i - 1)
           asked  == Asked(events, i - 1)
           onTime == AllOnTime(coming, sel, target)
           need   == Needed(coming, sel, target, events, i - 1)
           come   == Brought(coming, NoProject, A)
           n      == Needs(coming, sel, target)[p]
           pool   == PoolFor(coming, sel, target, sequence, k)
           SeenOK(x, l) ==
             /\ x.seen[sequence[l]] >= PoolFor(coming, sel, target, sequence, l)
             /\ onTime => /\ x.seen[sequence[l]] = PoolFor(coming, sel, target, sequence, l)
                          /\ x.shortage[sequence[l]]
                               = Monus(Needs(coming, sel, target)[sequence[l]], PoolFor(coming, sel, target, sequence, l))
<1>1. /\ p \in Project /\ p \notin asked
      /\ Asked(events, i) = asked \cup {p}
      /\ \A l \in DOMAIN sequence : sequence[l] \in asked <=> l < k /\ projects[sequence[l]].required > 0
      /\ \A q \in asked : \E l \in DOMAIN sequence : sequence[l] = q
      /\ \A owner \in {p, NoProject} : Brought(coming, owner, A) = There(coming, owner, Start(sel, target, p))
  BY <1>0 DEF AskedNow
<1>2. Arrived(coming, sel, events, i) = A
  <2>1. events[i].kind = "demand"
    BY DEF IsDemand
  <2> QED BY <2>1, ArrivedStep
<1>3. \A l, m \in DOMAIN sequence : sequence[l] = sequence[m] => l = m
  BY DEF Sequenced
<1>4. /\ a.pool \in Nat /\ a.own \in [Project -> Nat] /\ a.backlog \in [Project -> Nat]
      /\ b.backlog \in [Project -> Nat]
  BY AccountFields DEF Served
<1>5. /\ a.pool = 0 \/ Total(a.backlog) = 0
      /\ a.pool + need >= come + Total(a.backlog)
      /\ onTime => a.pool + need = come + Total(a.backlog)
      /\ \A r \in Project \ asked : a.backlog[r] = 0 /\ a.own[r] = Brought(coming, r, A)
      /\ \A l \in DOMAIN sequence : sequence[l] \in asked => SeenOK(a, l)
  BY Zenon DEF Served
<1>6. /\ b.pool = Monus(a.pool, Monus(projects[p].required, a.own[p]))
      /\ b.seen[p] = a.pool
      /\ b.shortage[p] = Monus(Monus(projects[p].required, a.own[p]), a.pool)
      /\ b.backlog[p] = Monus(Monus(projects[p].required, a.own[p]), a.pool)
      /\ \A r \in Project : r # p => /\ b.own[r] = a.own[r] /\ b.backlog[r] = a.backlog[r]
                                     /\ b.seen[r] = a.seen[r] /\ b.shortage[r] = a.shortage[r]
  BY DEF BooksDemand
<1>7. /\ need \in Nat /\ Needed(coming, sel, target, events, i) = need + n
  <2>1. i \in Nat /\ i - 1 \in Nat
    BY DEF Timed
  <2> HIDE DEF p
  <2> QED BY <1>1, <2>1, NeededGrows
<1>8. come \in Nat /\ n \in Nat
  BY <1>1, SupplyTypes
<1>9. n = Monus(projects[p].required, a.own[p])
  <2>1. a.own[p] = There(coming, p, Start(sel, target, p))
    BY <1>1, <1>5
  <2> QED BY <1>1, <2>1 DEF Needs
<1>10. pool = Monus(come, need)
  <2>1. asked \in SUBSET Project
    BY DEF Asked
  <2>2. need = Total([j \in 1 .. (k - 1) |-> Needs(coming, sel, target)[sequence[j]]])
    <3> HIDE DEF asked
    <3>1. Total(Part(Needs(coming, sel, target), asked))
            = Total([j \in 1 .. (k - 1) |-> Needs(coming, sel, target)[sequence[j]]])
      BY <1>1, <2>1, AskedBefore
    <3> QED BY <3>1 DEF Needed, asked
  <2>3. come = There(coming, NoProject, Start(sel, target, p))
    BY <1>1
  <2> QED BY <2>2, <2>3 DEF PoolFor
<1>11. \A l \in DOMAIN sequence : sequence[l] \in Project
  BY PlannedType DEF Sequenced
<1> HIDE DEF p, A, asked, onTime, need, come, n, pool
<1>12. Total(a.backlog) \in Nat /\ Total(b.backlog) \in Nat
       /\ Total(b.backlog) = Total(a.backlog) + Monus(n, a.pool)
  <2>0. IsFiniteSet(Project)
    BY SourcesFinite
  <2>1. Total(a.backlog) \in Nat /\ Total(b.backlog) \in Nat
    BY <1>4, <2>0, TotalType
  <2>2. \A r \in Project : r # p => b.backlog[r] = a.backlog[r]
    BY <1>6
  <2>3. Total(b.backlog) + a.backlog[p] = Total(a.backlog) + b.backlog[p]
    <3> DEFINE f == a.backlog
               g == b.backlog
    <3>1. f \in [Project -> Nat] /\ g \in [Project -> Nat] /\ \A r \in Project : r # p => g[r] = f[r]
      BY <1>4, <2>2
    <3> HIDE DEF f, g
    <3>2. Total(g) + f[p] = Total(f) + g[p]
      BY <1>1, <2>0, <3>1, TotalChange
    <3> QED BY <3>2 DEF f, g
  <2>4. a.backlog[p] = 0
    BY <1>1, <1>5
  <2>5. b.backlog[p] = Monus(n, a.pool) /\ b.backlog[p] \in Nat
    BY <1>1, <1>4, <1>6, <1>9
  <2> QED BY <2>1, <2>3, <2>4, <2>5
<1> DEFINE owed == Total(a.backlog)
           left == Total(b.backlog)
<1>13. /\ owed \in Nat /\ left = owed + Monus(n, a.pool) /\ b.pool = Monus(a.pool, n)
       /\ a.pool \in Nat /\ n \in Nat /\ come \in Nat /\ need \in Nat
       /\ a.pool = 0 \/ owed = 0
       /\ a.pool + need >= come + owed
       /\ onTime => a.pool + need = come + owed
  BY <1>4, <1>5, <1>6, <1>7, <1>8, <1>9, <1>12
<1> HIDE DEF owed, left
<1>14. /\ b.pool + (need + n) >= come + left
       /\ onTime => b.pool + (need + n) = come + left
       /\ b.pool = 0 \/ left = 0
  <2>1. CASE n <= a.pool
    <3>1. left = owed /\ b.pool = a.pool - n
      BY <1>13, <2>1 DEF Monus
    <3> QED BY <1>13, <2>1, <3>1
  <2>2. CASE n > a.pool
    <3>1. left = owed + (n - a.pool) /\ b.pool = 0
      BY <1>13, <2>2 DEF Monus
    <3> QED BY <1>13, <2>2, <3>1
  <2> QED BY <1>13, <2>1, <2>2
<1>15. a.pool >= Monus(come, need) /\ (onTime => a.pool = Monus(come, need))
  <2>1. CASE come <= need
    <3>1. Monus(come, need) = 0
      BY <1>13, <2>1 DEF Monus
    <3> QED BY <1>13, <2>1, <3>1
  <2>2. CASE come > need
    <3>1. Monus(come, need) = come - need
      BY <1>13, <2>2 DEF Monus
    <3>2. a.pool >= come - need
      BY <1>13
    <3>3. ASSUME onTime PROVE a.pool = come - need
      <4>1. owed = 0
        BY <1>13, <2>2, <3>3
      <4> QED BY <1>13, <3>3, <4>1
    <3> QED BY <3>1, <3>2, <3>3
  <2> QED BY <1>13, <2>1, <2>2
<1>16. SeenOK(b, k)
  <2>1. b.seen[p] = a.pool /\ b.shortage[p] = Monus(n, a.pool)
    BY <1>6, <1>9
  <2> QED BY <1>10, <1>15, <2>1 DEF p, pool, n
<1>17. ASSUME NEW l \in DOMAIN sequence, sequence[l] \in Asked(events, i) PROVE SeenOK(b, l)
  <2>1. CASE sequence[l] = p
    BY <1>3, <1>16, <2>1 DEF p
  <2>2. CASE sequence[l] # p
    <3>1. SeenOK(a, l)
      BY <1>1, <1>5, <1>17, <2>2
    <3>2. b.seen[sequence[l]] = a.seen[sequence[l]] /\ b.shortage[sequence[l]] = a.shortage[sequence[l]]
      BY <1>6, <1>11, <2>2
    <3> QED BY <3>1, <3>2
  <2> QED BY <2>1, <2>2
<1>18. ASSUME NEW r \in Project \ Asked(events, i)
       PROVE  b.backlog[r] = 0 /\ b.own[r] = Brought(coming, r, Arrived(coming, sel, events, i))
  <2>1. r # p /\ r \in Project \ asked
    BY <1>1
  <2> QED BY <1>2, <1>5, <1>6, <2>1
<1>19. QED
  <2> HIDE DEF SeenOK
  <2>1. /\ b.pool = 0 \/ Total(b.backlog) = 0
        /\ b.pool + Needed(coming, sel, target, events, i)
             >= Brought(coming, NoProject, Arrived(coming, sel, events, i)) + Total(b.backlog)
        /\ AllOnTime(coming, sel, target) =>
             b.pool + Needed(coming, sel, target, events, i)
               = Brought(coming, NoProject, Arrived(coming, sel, events, i)) + Total(b.backlog)
    BY <1>2, <1>7, <1>14 DEF come, left, onTime
  <2> QED BY Zenon, <1>17, <1>18, <2>1 DEF Served, SeenOK, onTime

LEMMA PlanServes ==
  ASSUME NEW coming \in SupplyRows, PlanningOK, NEW sel \in Project, NEW target, StartDate(target),
         NEW sequence, Sequenced(sel, sequence),
         NEW events, Timed(coming, sel, target, events), Orderly(coming, sel, target, sequence, events),
         NEW a, Booked(coming, sequence, events, a)
  PROVE  Served(coming, sel, target, sequence, events, Len(events), a[Len(events)])
<1> DEFINE N == Len(events)
           T == { i \in 0 .. N : Served(coming, sel, target, sequence, events, i, a[i]) }
<1>1. N \in Nat
  BY DEF Timed
<1>2. \A i \in 0 .. N : a[i] \in AccountRow
  BY DEF Booked
<1>3. 0 \in T
  <2>1. Opened(a[0])
    BY DEF Booked
  <2>2. Served(coming, sel, target, sequence, events, 0, a[0])
    BY <2>1, ServedFirst
  <2> QED BY <1>1, <2>2
<1>4. ASSUME NEW i \in 1 .. N, i - 1 \in T PROVE i \in T
  <2> DEFINE e    == events[i]
             from == a[i - 1]
             to   == a[i]
  <2>1. /\ i \in 0 .. N /\ to \in AccountRow
        /\ Served(coming, sel, target, sequence, events, i - 1, from)
    BY <1>1, <1>2, <1>4
  <2>2. Books(coming, sequence, e, from, to) /\ EventOK(coming, sel, target, e)
    BY DEF Booked, Timed
  <2> HIDE DEF from, to
  <2>3. CASE SupplyEvent(coming, sel, e) /\ e.kind = "dedicated"
    <3>1. BooksDedicated(from, to, coming[e.subject].owner, coming[e.subject].quantity)
      BY <2>2, <2>3 DEF Books
    <3>2. Served(coming, sel, target, sequence, events, i, to)
      BY <2>1, <2>3, <3>1, ServedDedicated
    <3> QED BY <2>1, <3>2 DEF to
  <2>4. CASE SupplyEvent(coming, sel, e) /\ e.kind = "generic"
    <3>1. BooksGeneric(from, to, sequence, coming[e.subject].quantity)
      BY <2>2, <2>4 DEF Books
    <3>2. Served(coming, sel, target, sequence, events, i, to)
      BY <2>1, <2>4, <3>1, ServedGeneric
    <3> QED BY <2>1, <3>2 DEF to
  <2>5. CASE DemandEvent(sel, target, e)
    <3>1. PICK k \in DOMAIN sequence : sequence[k] = e.subject
      BY <2>5 DEF DemandEvent, Sequenced
    <3>2. IsDemand(events[i], sequence[k]) /\ BooksDemand(from, to, sequence[k], projects[sequence[k]].required)
      BY <2>2, <2>5, <3>1 DEF Books, DemandEvent, IsDemand
    <3>3. Served(coming, sel, target, sequence, events, i, to)
      BY <2>1, <3>2, ServedDemand
    <3> QED BY <2>1, <3>3 DEF to
  <2> QED BY <2>2, <2>3, <2>4, <2>5 DEF EventOK, SupplyEvent
<1> HIDE DEF T
<1>5. \A i \in 0 .. N : i \in T
  <2>1. \A i \in (0 + 1) .. N : i - 1 \in T => i \in T
    BY <1>4
  <2> HIDE DEF N
  <2> QED BY <1>1, <1>3, <2>1, NumbersFrom
<1>6. N \in 0 .. N
  BY <1>1
<1>7. QED
  BY <1>5, <1>6 DEF T

\* The supply of an owner by a date, as the property counts it.
LEMMA SupplyIsThere ==
  ASSUME PlanningOK, NEW owner, NEW date
  PROVE  SupplyBy(owner, date) = There(Coming, owner, date)
<1> DEFINE f == Amounts(Coming)
           T == { t \in Src : /\ t = Stock \/ Coming[t].owner = owner
                              /\ t = Stock => owner = NoProject
                              /\ ArrivesBy(t, date) }
           U == { s \in Of(Coming, owner) : ThereBy(Coming, s, date) }
           g == [s \in T |-> QuantityOf(s)]
<1>1. f \in [Src -> Nat] /\ \A s \in Src : f[s] = QuantityOf(s)
  BY ComingNow, SupplyTypes DEF Amounts, AmountOf, QuantityOf
<1>2. T = U
  BY DEF Of, ArrivesBy, ThereBy
<1>3. T \in SUBSET Src
  OBVIOUS
<1> HIDE DEF f, T, U
<1>4. g = [s \in T |-> f[s]]
  BY <1>1, <1>3
<1>5. Total(g) = Total(Part(f, T))
  BY <1>1, <1>3, <1>4, TotalOfPart
<1>6. SupplyBy(owner, date) = Total(g)
  BY Zenon DEF SupplyBy, T
<1>7. There(Coming, owner, date) = Total(Part(f, U))
  BY Zenon DEF There, f, U
<1>8. QED
  BY <1>2, <1>5, <1>6, <1>7

\* The events netted one by one give each project what first come, first served
\* gives it.
LEMMA FirstServed == AllocTypeOK => FirstComeFirstServed
<1> SUFFICES ASSUME AllocTypeOK, NEW v \in PlansAtRest
             PROVE  LET plan     == Snapshot(v[1], v[2])
                        sequence == Sequence(v[1], v[2])
                        before(i) == Total([j \in 1 .. (i - 1) |-> Residual(v, sequence[j])])
                    IN  \A i \in { j \in DOMAIN sequence : projects[sequence[j]].required > 0 } :
                          LET p    == sequence[i]
                              pool == Monus(SupplyBy(NoProject, Start(v[1], v[2], p)), before(i))
                          IN  /\ plan.poolSeen[p] >= pool
                              /\ OwnSupplyIsOnTime(v) =>
                                   /\ plan.poolSeen[p] = pool
                                   /\ plan.shortage[p] = Monus(Residual(v, p), pool)
  BY Zenon DEF FirstComeFirstServed
<1> DEFINE sel      == v[1]
           target   == v[2]
           plan     == Snapshot(sel, target)
           sequence == Sequence(sel, target)
           events   == Events(Coming, sel, target)
           N        == Len(events)
<1>1. PlanningOK
  BY AllocTypeParts
<1>2. sel \in Project /\ target \in Targets(sel)
  BY DEF PlansAtRest, Views
<1>3. StartDate(target)
  BY <1>1, <1>2, TargetsType
<1>4. Coming \in SupplyRows
  BY <1>1, ComingNow
<1> HIDE DEF sel, target
<1>5. /\ Sequenced(sel, sequence) /\ Timed(Coming, sel, target, events)
      /\ Orderly(Coming, sel, target, sequence, events)
  BY <1>1, <1>2, <1>3, <1>4, SequenceIsSequenced, EventsAreTimed, EventsAreOrderly
<1>6. PICK a : /\ Booked(Coming, sequence, events, a)
               /\ a[N] = Account(plan) /\ plan \in Plan
  BY <1>1, <1>2, <1>3, <1>4, PlanBooked DEF Snapshot
<1> HIDE DEF plan, sequence, events
<1>7. Served(Coming, sel, target, sequence, events, N, Account(plan))
  BY <1>1, <1>2, <1>3, <1>4, <1>5, <1>6, PlanServes
<1>8. Account(plan).seen = plan.poolSeen /\ Account(plan).shortage = plan.shortage
  BY <1>6, AccountType
<1>9. ASSUME NEW p \in Project PROVE Residual(v, p) = Needs(Coming, sel, target)[p]
  BY <1>1, SupplyIsThere DEF Residual, Needs, sel, target
<1>10. OwnSupplyIsOnTime(v) <=> AllOnTime(Coming, sel, target)
  BY <1>1, SupplyIsThere DEF OwnSupplyIsOnTime, AllOnTime, sel, target
<1>11. ASSUME NEW i \in DOMAIN sequence, projects[sequence[i]].required > 0
       PROVE  LET p    == sequence[i]
                  pool == Monus(SupplyBy(NoProject, Start(sel, target, p)),
                                Total([j \in 1 .. (i - 1) |-> Residual(v, sequence[j])]))
              IN  /\ plan.poolSeen[p] >= pool
                  /\ OwnSupplyIsOnTime(v) =>
                       /\ plan.poolSeen[p] = pool
                       /\ plan.shortage[p] = Monus(Residual(v, p), pool)
  <2> DEFINE p    == sequence[i]
             pool == PoolFor(Coming, sel, target, sequence, i)
  <2>1. p \in Planned(sel) /\ p \in Project
    BY <1>2, <1>5, PlannedType DEF Sequenced
  <2>2. p \in Asked(events, N)
    BY <1>5, <1>11, <2>1 DEF Orderly, Asked
  <2>3. [j \in 1 .. (i - 1) |-> Residual(v, sequence[j])]
          = [j \in 1 .. (i - 1) |-> Needs(Coming, sel, target)[sequence[j]]]
    <3>1. \A j \in 1 .. (i - 1) : j \in DOMAIN sequence
      BY <1>5 DEF Sequenced
    <3>2. \A j \in 1 .. (i - 1) : sequence[j] \in Project
      BY <1>2, <1>5, <3>1, PlannedType DEF Sequenced
    <3> QED BY <1>9, <3>2
  <2>4. pool = Monus(SupplyBy(NoProject, Start(sel, target, p)),
                     Total([j \in 1 .. (i - 1) |-> Residual(v, sequence[j])]))
    BY <1>1, <2>3, SupplyIsThere DEF PoolFor
  <2>5. /\ plan.poolSeen[p] >= pool
        /\ AllOnTime(Coming, sel, target) =>
             plan.poolSeen[p] = pool /\ plan.shortage[p] = Monus(Needs(Coming, sel, target)[p], pool)
    BY <1>7, <1>8, <2>2 DEF Served
  <2>6. Residual(v, p) = Needs(Coming, sel, target)[p]
    BY <1>9, <2>1
  <2> HIDE DEF pool
  <2> QED BY <1>10, <2>4, <2>5, <2>6
<1>12. QED
  BY <1>11 DEF plan, sequence, sel, target

\* In every plan each project sees at least the pool that first come, first
\* served leaves it, and when no supply of their own is late exactly that.
THEOREM FirstServedCorrect == AllocSpec => []FirstComeFirstServed
BY AllocTypeCorrect, FirstServed, PTL
=============================================================================
