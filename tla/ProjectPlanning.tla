-------------------------- MODULE ProjectPlanning --------------------------
(***************************************************************************)
(* The planning snapshot of one item: the demand of each project that is   *)
(* CONFIRMED or ACTIVE, and of the one that is looked at, is netted in the *)
(* order of their dates against stock, open order lines and QUOTED lines.  *)
(* Supply dedicated to a project serves that project alone; what comes too *)
(* late for a demand recovers its backlog before it joins the pool.        *)
(*                                                                         *)
(* A source is the free stock (Stock), an order line or a quoted line.     *)
(* What a project is covered by is a function from sources to quantities.  *)
(***************************************************************************)
EXTENDS Reservations, Sequences

CONSTANTS
  MaxQuote,        \* bound: the RFQ lines of the item are 1 .. MaxQuote
  Today            \* the date taken for a project without planned_start

VARIABLES
  projects,        \* status, planned_start and required quantity, by project
  quotes           \* the RFQ lines: DRAFT until they are QUOTED with a date

planVars == <<vars, projects, quotes>>

Quote  == 1 .. MaxQuote
NoDate == 0
Stock  == 0
Src    == 0 .. (MaxOrder + MaxQuote)

QuoteSrc(n) == MaxOrder + n

Nothing == [s \in Src |-> 0]

ProjectRow ==
  [ status   : {"PLANNING", "CONFIRMED", "ACTIVE", "COMPLETED", "CANCELLED"},
    start    : 0 .. MaxEta,
    required : Nat ]

QuoteRow ==
  [ status   : {"Unused", "DRAFT", "QUOTED"},
    project  : Project \cup {NoProject},
    quantity : Nat,
    eta      : 0 .. MaxEta ]

Committed(p) == projects[p].status \in {"CONFIRMED", "ACTIVE"}

-----------------------------------------------------------------------------
(* Who is planned for, and what is coming.  sel is the project looked at   *)
(* and target its date; NoProject when the pipeline alone is looked at.    *)

Planned(sel) == { p \in Project : Committed(p) } \cup ({sel} \ {NoProject})

Start(sel, target, p) ==
  CASE p = sel                             -> target
    [] p # sel /\ projects[p].start = NoDate -> Today
    [] OTHER                               -> projects[p].start

Earlier(a, b) ==
  \E i \in DOMAIN a : a[i] < b[i] /\ \A j \in 1 .. (i - 1) : a[j] = b[j]

\* A set as the sequence its keys sort it to.
Sorted(S, key) ==
  LET place == CHOOSE f \in {[x \in S |-> 1 + Cardinality({ y \in S : Earlier(key[y], key[x]) })]} :
                 f \in [S -> Nat]
  IN [i \in 1 .. Cardinality(S) |-> CHOOSE x \in S : place[x] = i]

\* Projects in the order of their dates.
Sequence(sel, target) ==
  Sorted(Planned(sel), [p \in Planned(sel) |-> <<Start(sel, target, p), p>>])

\* Quantity, owner and date of the sources that are still to come, with rfq the
\* RFQ lines.
ComingWith(rfq) ==
  [ s \in Src \ {Stock} |->
      IF s <= MaxOrder
      THEN [quantity |-> IF orders[s].status = "Ordered" /\ orders[s].eta # NoEta
                         THEN orders[s].amount ELSE 0,
            owner |-> orders[s].project, date |-> orders[s].eta]
      ELSE LET q == rfq[s - MaxOrder]
           IN  [quantity |-> IF q.status = "QUOTED" /\ q.eta # NoEta THEN q.quantity ELSE 0,
                owner |-> q.project, date |-> q.eta] ]

Coming == ComingWith(quotes)

\* The order in which sources join a pool, and leave it.
Key(coming, s) == <<coming[s].date, IF s <= MaxOrder THEN s ELSE s - MaxOrder, s>>

Before(coming) ==
  { p \in Src \X Src : /\ p[2] # Stock
                       /\ p[1] = Stock \/ Earlier(Key(coming, p[1]), Key(coming, p[2])) }

SupplyEvents(coming, sel) ==
  { [kind |-> IF coming[s].owner = NoProject THEN "generic" ELSE "dedicated",
     date |-> coming[s].date, subject |-> s] :
      s \in { t \in Src \ {Stock} : /\ coming[t].quantity > 0
                                    /\ coming[t].owner \in Planned(sel) \cup {NoProject} } }

DemandEvents(sel, target) ==
  { [kind |-> "demand", date |-> Start(sel, target, p), subject |-> p] :
      p \in { q \in Planned(sel) : projects[q].required > 0 } }

\* The date decides, then what is dedicated, then what is not, then demand.
EventKey(coming, e, sequence) ==
  LET rank(p) == CHOOSE i \in DOMAIN sequence : sequence[i] = p
  IN  CASE e.kind = "dedicated" ->
             <<e.date, 0, rank(coming[e.subject].owner), Key(coming, e.subject)[2], e.subject>>
        [] e.kind = "generic" -> <<e.date, 1, 0, Key(coming, e.subject)[2], e.subject>>
        [] OTHER -> <<e.date, 2, rank(e.subject), e.subject, 0>>

Events(coming, sel, target) ==
  LET sequence == Sequence(sel, target)
      events   == SupplyEvents(coming, sel) \cup DemandEvents(sel, target)
  IN  Sorted(events, [e \in events |-> EventKey(coming, e, sequence)])

-----------------------------------------------------------------------------
(* Netting.                                                                *)

Plan ==
  [ pool     : [Src -> Nat],                \* supply of no project
    ready    : [Project -> [Src -> Nat]],   \* supply waiting for its project
    onTime   : [Project -> [Src -> Nat]],   \* supply_sources_by_start
    late     : [Project -> [Src -> Nat]],   \* recovery_sources_after_start
    poolSeen : [Project -> Nat],            \* generic_available_at_start
    backlog  : [Project -> Nat],            \* remaining_shortage_quantity
    shortage : [Project -> Nat] ]           \* shortage_at_start

\* Before the first event there is the stock nobody was promised.
Opening ==
  [ pool     |-> [Nothing EXCEPT ![Stock] = Total(Available)],
    ready    |-> [p \in Project |-> Nothing],
    onTime   |-> [p \in Project |-> Nothing],
    late     |-> [p \in Project |-> Nothing],
    poolSeen |-> [p \in Project |-> 0],
    backlog  |-> [p \in Project |-> 0],
    shortage |-> [p \in Project |-> 0] ]

\* Supply of a project recovers its own backlog; the rest waits for it.
DedicatedArrives(coming, plan, s) ==
  LET p == coming[s].owner
      n == Smaller(coming[s].quantity, plan.backlog[p])
  IN  [plan EXCEPT !.backlog[p] = @ - n,
                   !.late[p][s] = @ + n,
                   !.ready[p][s] = coming[s].quantity - n]

\* Fault: the backlog of an earlier project does not come first.
PooledArrival(coming, plan, s, sequence) ==
  [plan EXCEPT !.pool[s] = coming[s].quantity]

\* Fault: each arrival starts the pool anew.
PoolReplaced(coming, plan, s, sequence) ==
  [plan EXCEPT !.pool = [Nothing EXCEPT ![s] = coming[s].quantity]]

\* Supply of no project recovers the backlogs, the earliest project first;
\* the rest joins the pool.
GenericArrives(coming, plan, s, sequence) ==
  LET waiting == [i \in DOMAIN sequence |-> plan.backlog[sequence[i]]]
      drawn   == InOrder(waiting, coming[s].quantity,
                         { p \in (DOMAIN sequence) \X (DOMAIN sequence) : p[1] < p[2] })
      given   == [p \in Project |->
                    Total([i \in { j \in DOMAIN sequence : sequence[j] = p } |-> drawn[i]])]
  IN  [plan EXCEPT !.backlog = Minus(@, given),
                   !.late = [p \in Project |-> [plan.late[p] EXCEPT ![s] = @ + given[p]]],
                   !.pool[s] = coming[s].quantity - Total(given)]

\* What a demand takes of its own supply and of the pool covers it on time; what
\* is missing is backlog.
CoveredBy(plan, p, own, generic) ==
  LET short == projects[p].required - Total(own) - Total(generic)
  IN  [plan EXCEPT !.onTime[p] = Plus(own, generic), !.poolSeen[p] = Total(plan.pool),
                   !.ready[p] = Minus(@, own), !.pool = Minus(@, generic),
                   !.shortage[p] = short, !.backlog[p] = short]

\* Fault: what a demand takes is left for the next one too.
DemandLeavesPool(coming, plan, p) ==
  LET first   == { pair : pair \in Before(coming) }
      own     == InOrder(plan.ready[p], projects[p].required, first)
      generic == InOrder(plan.pool, projects[p].required - Total(own), first)
  IN  [CoveredBy(plan, p, own, generic) EXCEPT !.pool = plan.pool]

\* A demand takes its own supply, then the pool.
\* (first is Before(coming), written so that TLC evaluates it once.)
Demanded(coming, plan, p) ==
  LET first   == { pair : pair \in Before(coming) }
      own     == InOrder(plan.ready[p], projects[p].required, first)
      generic == InOrder(plan.pool, projects[p].required - Total(own), first)
  IN  CoveredBy(plan, p, own, generic)

Netted(coming, plan, e, sequence) ==
  CASE e.kind = "dedicated" -> DedicatedArrives(coming, plan, e.subject)
    [] e.kind = "generic"   -> GenericArrives(coming, plan, e.subject, sequence)
    [] OTHER                -> Demanded(coming, plan, e.subject)

\* (Written with CHOOSE, TLC evaluates the plan after each event once.)
NettedPlan(coming, sel, target) ==
  LET sequence == Sequence(sel, target)
      events == Events(coming, sel, target)
      plan[i \in 0 .. Len(events)] ==
        IF i = 0 THEN Opening
        ELSE LET before == plan[i-1]
             IN  CHOOSE next \in {Netted(coming, before, events[i], sequence)} : next \in Plan
  IN plan[Len(events)]

\* The plan of what is coming now.
Snapshot(sel, target) == NettedPlan(Coming, sel, target)

\* Supply dedicated to a planned project that does not require the item finds
\* no row to be counted in: the request fails.
PlanningFails(coming, sel) ==
  /\ \E p \in Planned(sel) : projects[p].required > 0
  /\ \E s \in Src \ {Stock} : /\ coming[s].quantity > 0
                              /\ coming[s].owner \in Planned(sel)
                              /\ projects[coming[s].owner].required = 0

\* Projects that are over are not planned for.
Plannable(p) == projects[p].status \notin {"COMPLETED", "CANCELLED"} /\ ~PlanningFails(Coming, p)
=============================================================================
