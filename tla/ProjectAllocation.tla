------------------------- MODULE ProjectAllocation -------------------------
(***************************************************************************)
(* The calls that change what ProjectPlanning plans with, and those that   *)
(* act on a plan: RFQ lines for what is short, reservations of what is     *)
(* required, and the confirmation of an allocation, which turns what the   *)
(* plan takes from stock into a reservation and what it takes from generic *)
(* order lines into lines of the project.                                  *)
(*                                                                         *)
(* A confirmation reads its plan, and then each line the plan takes from:  *)
(* without a lock, so other requests, other confirmations among them, may  *)
(* change the line before the confirmation writes it.  What it writes is   *)
(* computed from what it read.  The code reads a line twice, once to       *)
(* decide and once to write; one read stands for both.  What is written is *)
(* seen by others at the commit, one step here: to write a line later than *)
(* the code does only leaves others more time to change it.  A write that  *)
(* fails leaves no trace of the request (DropPlan).                        *)
(***************************************************************************)
EXTENDS ProjectPlanning

CONSTANTS
  Managed,           \* the order lines an RFQ or procurement line is ORDERED on
  InitialProjects,   \* the projects the program may start from
  RequestedProjects, \* bound: the rows update_project is called with
  RequestedFor,      \* bound: the projects procurement lines are added for
  MaxConfirming      \* bound: confirmations in progress at once

VARIABLES
  confirming,        \* what a confirmation in progress takes on time, by project
  seen               \* the order lines it has read

allocVars == <<planVars, confirming, seen>>

Unread == [status |-> "Unused", amount |-> 0, ordered |-> 0, project |-> NoProject, eta |-> NoEta]

NoLines == [o \in Order |-> Unread]

ASSUME PlanningAssumption ==
  /\ IsFiniteSet(Project) /\ Project \subseteq Nat \ {0} /\ NoProject = 0
  /\ MaxQuote \in Nat /\ Today \in 1 .. MaxEta
  /\ Managed \subseteq Order
  /\ RequestedFor \subseteq Project \cup {NoProject}
  /\ InitialProjects \subseteq [Project -> ProjectRow]
  /\ RequestedProjects \subseteq ProjectRow

AllocInit ==
  /\ Init
  /\ projects \in InitialProjects
  /\ quotes = [n \in Quote |-> [status |-> "Unused", project |-> NoProject,
                                quantity |-> 0, eta |-> NoEta]]
  /\ confirming = [p \in Project |-> Nothing]
  /\ seen = [p \in Project |-> NoLines]

\* A date asked for is not in the past; without one, the project's own.
Targets(p) == (Today .. MaxEta) \cup {IF projects[p].start = NoDate THEN Today
                                      ELSE projects[p].start}

UpdateProject(p, row) ==
  /\ projects' = [projects EXCEPT ![p] = row]
  /\ UNCHANGED <<vars, quotes, confirming, seen>>

\* Only a project in PLANNING is confirmed; then its date is set too.
Confirmed(p, target) ==
  [projects EXCEPT ![p] = IF @.status = "PLANNING"
                          THEN [@ EXCEPT !.status = "CONFIRMED", !.start = target] ELSE @]

ConfirmForProcurement(p, target) ==
  /\ projects' = Confirmed(p, target)
  /\ UNCHANGED <<vars, quotes, confirming, seen>>

\* What a project is short of on its date becomes a line to be quoted.
CreateRfq(p, n, target) ==
  LET short == Snapshot(p, target).shortage[p]
  IN  /\ NextUnused(quotes, n)
      /\ Plannable(p)
      /\ short > 0
      /\ quotes' = [quotes EXCEPT ![n] = [status |-> "DRAFT", project |-> p,
                                          quantity |-> short, eta |-> NoEta]]
      /\ projects' = Confirmed(p, target)
      /\ UNCHANGED <<vars, confirming, seen>>

\* A line of a procurement batch, for a project or for none.
AddProcurementLine(n, p, quantity) ==
  /\ NextUnused(quotes, n)
  /\ quotes' = [quotes EXCEPT ![n] = [status |-> "DRAFT", project |-> p,
                                      quantity |-> quantity, eta |-> NoEta]]
  /\ UNCHANGED <<vars, projects, confirming, seen>>

Quoted(n, eta) == [quotes EXCEPT ![n].status = "QUOTED", ![n].eta = eta]

QuoteLine(n, eta) ==
  /\ quotes[n].status = "DRAFT"
  /\ quotes' = Quoted(n, eta)
  /\ UNCHANGED <<vars, projects, confirming, seen>>

\* What is required is reserved as far as there is stock.
ReserveRequirements(p, r) ==
  LET quantity == Smaller(projects[p].required, Total(Available))
  IN  /\ quantity > 0
      /\ CreateReservation(r, quantity, p, NoOrder)
      /\ UNCHANGED <<projects, quotes, confirming, seen>>

-----------------------------------------------------------------------------
(* Confirmation of an allocation.                                          *)

\* What the plan takes on time that is dedicated to nobody yet.
ToPersist(p, target) ==
  LET plan == Snapshot(p, target)
  IN  [s \in Src |-> IF s > MaxOrder \/ (s # Stock /\ orders[s].project = p) THEN 0
                     ELSE plan.onTime[p][s]]

ReadPlan(p, target) ==
  /\ confirming[p] = Nothing
  /\ Cardinality({ q \in Project : confirming[q] # Nothing }) < MaxConfirming
  /\ Plannable(p) /\ Committed(p)
  /\ confirming' = [confirming EXCEPT ![p] = ToPersist(p, target)]
  /\ UNCHANGED <<planVars, seen>>

\* A line is read when its source is reached; those of an RFQ or procurement
\* line are skipped unread.
ToRead(p) == { o \in Order \ Managed : confirming[p][o] > 0 /\ seen[p][o] = Unread }

ReadLine(p, o) ==
  /\ o \in ToRead(p)
  /\ seen' = [seen EXCEPT ![p][o] = orders[o]]
  /\ UNCHANGED <<planVars, confirming>>

\* Lines that are managed are skipped, and so are those that have become
\* smaller than what was planned.  read: the lines as they were read.
Taken(planned, read) ==
  { o \in Order \ Managed : planned[o] > 0 /\ planned[o] <= read[o].amount }

\* A line taken whole is given to the project; of another, the part taken.
Whole(planned, read) == { o \in Taken(planned, read) : planned[o] = read[o].amount }

PartTaken(planned, read) ==
  { o \in Taken(planned, read) \ Whole(planned, read) : read[o].eta # NoEta }

ShareRead(line, part) == (line.ordered * part) \div line.amount

\* Fault: the share of the ordered quantity is rounded down.
RoundedSplitOf(line, part) == part < line.amount

CanSplit(line, part) ==
  /\ part < line.amount
  /\ (line.ordered * part) % line.amount = 0
  /\ ShareRead(line, part) > 0
  /\ ShareRead(line, part) < line.ordered

GivenWhole(p, o, read) == [orders[o] EXCEPT !.project = p, !.eta = read[o].eta]

\* The rest of a line replaces both of its quantities, whatever they are now.
LeftOf(o, planned, read) ==
  [orders[o] EXCEPT !.amount  = read[o].amount - planned[o],
                    !.ordered = read[o].ordered - ShareRead(read[o], planned[o])]

GivenTo(p, o, planned, read) ==
  [status |-> "Ordered", amount |-> planned[o], ordered |-> ShareRead(read[o], planned[o]),
   project |-> p, eta |-> read[o].eta]

\* Fault: the line that was split is given to the project, not the new line.
ParentDedicated(p, planned, read) ==
  [o \in Order |-> IF o \in Whole(planned, read) \cup PartTaken(planned, read)
                   THEN [orders[o] EXCEPT !.project = p] ELSE orders[o]]

\* New lines take the next unused ids.
Dedicated(p, planned, read) ==
  LET parts    == Sorted(PartTaken(planned, read), [o \in Order |-> <<o>>])
      spare    == Sorted({ o \in Order : orders[o].status = "Unused" }, [o \in Order |-> <<o>>])
      splits   == { i \in DOMAIN parts : i \in DOMAIN spare }
  IN  [o \in Order |->
         CASE o \in Whole(planned, read) -> GivenWhole(p, o, read)
           [] o \in PartTaken(planned, read) -> LeftOf(o, planned, read)
           [] \E i \in splits : spare[i] = o ->
                GivenTo(p, parts[CHOOSE i \in splits : spare[i] = o], planned, read)
           [] OTHER -> orders[o]]

\* Every write must succeed: the lines taken were still open, and can be split.
Writable(planned, read) ==
  /\ \A o \in Whole(planned, read) \cup PartTaken(planned, read) : read[o].status = "Ordered"
  /\ \A o \in PartTaken(planned, read) : CanSplit(read[o], planned[o])
  /\ Cardinality(PartTaken(planned, read)) <=
       Cardinality({ o \in Order : orders[o].status = "Unused" })

Ended(p) ==
  /\ confirming' = [confirming EXCEPT ![p] = Nothing]
  /\ seen' = [seen EXCEPT ![p] = NoLines]

\* What the plan takes from stock is reserved first, as create_reservation
\* finds it now: from open lines if the stock is gone.
PersistPlan(p, r) ==
  LET planned == confirming[p]
  IN  /\ planned # Nothing
      /\ ToRead(p) = {}
      /\ Writable(planned, seen[p])
      /\ IF planned[Stock] > 0 THEN Reserve(r, planned[Stock], p, NoOrder)
         ELSE UNCHANGED <<reservations, allocated, incoming>>
      /\ orders' = Dedicated(p, planned, seen[p])
      /\ Ended(p)
      /\ UNCHANGED <<onHand, projects, quotes>>

DropPlan(p) ==
  /\ confirming[p] # Nothing
  /\ Ended(p)
  /\ UNCHANGED planVars

-----------------------------------------------------------------------------
AllocNext ==
  \/ \E p \in Project, row \in RequestedProjects : UpdateProject(p, row)
  \/ \E p \in Project : \E target \in Targets(p) : ConfirmForProcurement(p, target)
  \/ \E p \in Project, n \in Quote : \E target \in Targets(p) : CreateRfq(p, n, target)
  \/ \E p \in RequestedFor, n \in Quote, q \in 1 .. MaxQuantity :
        AddProcurementLine(n, p, q)
  \/ \E n \in Quote, eta \in 1 .. MaxEta : QuoteLine(n, eta)
  \/ \E p \in Project, r \in Reservation : ReserveRequirements(p, r)
  \/ \E p \in Project : \E target \in Targets(p) : ReadPlan(p, target)
  \/ \E p \in Project, o \in Order : ReadLine(p, o)
  \/ \E p \in Project, r \in Reservation : PersistPlan(p, r)
  \/ \E p \in Project : DropPlan(p)
  \/ \E o \in Order, l \in {STOCK} :
        FullArrival(o, l) /\ UNCHANGED <<projects, quotes, confirming, seen>>

AllocSpec == AllocInit /\ [][AllocNext]_allocVars

-----------------------------------------------------------------------------
(* Properties.                                                             *)

\* Types, and what the orders table asks of an open line: confirmations, of
\* plans that may be stale too, leave both of its quantities positive.
AllocTypeOK ==
  /\ TypeOK
  /\ \A o \in Order : orders[o].status = "Ordered" => orders[o].amount > 0 /\ orders[o].ordered > 0
  /\ projects \in [Project -> ProjectRow]
  /\ quotes \in [Quote -> QuoteRow]
  /\ confirming \in [Project -> [Src -> Nat]]
  /\ seen \in [Project -> [Order -> OrderLine]]

\* The plans the program may be asked for.  (That of the pipeline alone is the
\* plan of any of its projects on its own date.)
Views == { v \in Project \X (1 .. MaxEta) : Plannable(v[1]) /\ v[2] \in Targets(v[1]) }

\* No plan depends on the confirmations in progress, and each of these may be
\* dropped: it is enough to look at the plans when there is none.
PlansAtRest == IF \A p \in Project : confirming[p] = Nothing THEN Views ELSE {}

QuantityOf(s) == IF s = Stock THEN Total(Available) ELSE Coming[s].quantity

ArrivesBy(s, date) == s = Stock \/ Coming[s].date <= date

\* No plan counts a unit of supply twice: not for two projects, and not both
\* on time and as recovery.  What covers a project on time has arrived by its
\* start and is its own or nobody's.
PlanUsesSupplyOnce ==
  \A v \in PlansAtRest :
    LET plan == Snapshot(v[1], v[2])
    IN  \A s \in Src :
          /\ Total([p \in Project |-> plan.onTime[p][s] + plan.late[p][s]]) <= QuantityOf(s)
          /\ \A p \in Project : plan.onTime[p][s] > 0 =>
               /\ ArrivesBy(s, Start(v[1], v[2], p))
               /\ s # Stock => Coming[s].owner \in {p, NoProject}

SupplyBy(owner, date) ==
  Total([s \in { t \in Src : /\ t = Stock \/ Coming[t].owner = owner
                             /\ t = Stock => owner = NoProject
                             /\ ArrivesBy(t, date) } |-> QuantityOf(s)])

\* What the own supply of p leaves for the pool to cover at its start.
Residual(v, p) == Monus(projects[p].required, SupplyBy(p, Start(v[1], v[2], p)))

OwnSupplyIsOnTime(v) ==
  \A p \in Planned(v[1]) :
    SupplyBy(p, MaxEta) = SupplyBy(p, Start(v[1], v[2], p)) \/ projects[p].required = 0

\* The events netted one by one give each project what first come, first
\* served gives it: the generic supply there is by its start, less what the
\* projects before it need beyond their own supply.  Supply of their own that
\* is late for these gives part of that back, so the pool is only larger.
FirstComeFirstServed ==
  \A v \in PlansAtRest :
    LET plan     == Snapshot(v[1], v[2])
        sequence == Sequence(v[1], v[2])
        before(i) == Total([j \in 1 .. (i - 1) |-> Residual(v, sequence[j])])
    IN  \A i \in { j \in DOMAIN sequence : projects[sequence[j]].required > 0 } :
          LET p    == sequence[i]
              pool == Monus(SupplyBy(NoProject, Start(v[1], v[2], p)), before(i))
          IN  /\ plan.poolSeen[p] >= pool
              /\ OwnSupplyIsOnTime(v) =>
                   /\ plan.poolSeen[p] = pool
                   /\ plan.shortage[p] = Monus(Residual(v, p), pool)

\* When a line becomes QUOTED no project has more of a shortage, on its date or
\* at last, than it had: what is dedicated to one relieves the others too.
QuotesHelpEveryone ==
  \A v \in PlansAtRest :
    LET now == Snapshot(v[1], v[2])
    IN  \A n \in Quote, eta \in 1 .. MaxEta :
          LET coming == ComingWith(Quoted(n, eta))
              then   == NettedPlan(coming, v[1], v[2])
          IN  quotes[n].status = "DRAFT" /\ ~PlanningFails(coming, v[1])
              => \A p \in Project : /\ then.shortage[p] <= now.shortage[p]
                                    /\ then.backlog[p] <= now.backlog[p]

\* Amount of the open lines of p that arrive by date.
Own(p, date) ==
  Total([o \in { k \in Order : /\ orders[k].status = "Ordered" /\ orders[k].project = p
                              /\ orders[k].eta \in 1 .. date } |-> orders[o].amount])

OpenAmount(status) == Total([o \in { k \in Order : orders[k].status = status } |-> orders[o].amount])

\* No line a confirmation plans with has changed since it was read.
AsRead(p) ==
  \A o \in Order \ Managed : confirming[p][o] > 0 => orders[o] = seen[p][o]

Written(p) == confirming[p] # Nothing /\ confirming'[p] = Nothing /\ planVars' # planVars

\* While nobody changes the lines it has read, a confirmation leaves what is on
\* order as it is, whatever others do to other lines, and if its plan is still
\* current gives the project lines for exactly what it took from generic orders,
\* arriving when the plan counted on them.
ConfirmationKeepsDates ==
  [][ \A p \in Project :
        Written(p) /\ AsRead(p)
        => /\ OpenAmount("Ordered")' = OpenAmount("Ordered")
           /\ \A target \in Targets(p) :
                Plannable(p) /\ confirming[p] = ToPersist(p, target)
                => Own(p, target)' = Own(p, target)
                     + Total([o \in Order \ Managed |-> confirming[p][o]]) ]_allocVars

\* A confirmation moves what is on order, and adds nothing to it: not so when a
\* line it has read is changed before it writes.
ConfirmationAddsNothing ==
  [][ \A p \in Project :
        Written(p) => OpenAmount("Ordered")' <= OpenAmount("Ordered") ]_allocVars

\* "Confirm Allocation ... persists current on-time generic coverage": what a
\* project was covered by on time, it is covered by when it is confirmed.
ConfirmedStaysCovered ==
  [][ \A p \in Project :
        Written(p) /\ AsRead(p)
        => \A target \in Targets(p) :
             Plannable(p) /\ confirming[p] = ToPersist(p, target)
             => Snapshot(p, target)'.shortage[p] <= Snapshot(p, target).shortage[p] ]_allocVars
=============================================================================
