----------------------------- MODULE CostLedger -----------------------------
(***************************************************************************)
(* The price of a call (cost.py) and the cost ledger it ends up in:        *)
(* Store.cost_by_project_day groups the rows, dashboard.summarize adds the *)
(* groups up for the page.  What a provider bills and what a row records   *)
(* are steps apart: the one worker calls, prices and finalizes, and may be *)
(* killed, raise or lose the race of a redelivery between any two of them. *)
(*                                                                         *)
(* Money is a natural number of the smallest unit, so every sum here is    *)
(* exact; the code sums floats in SQLite and decimals on the page.  A      *)
(* message carries the model and the day of its row; Bus shows the one,    *)
(* and looks at messages of which the other is not so.                     *)
(***************************************************************************)
EXTENDS Naturals, Sequences, FiniteSets, Functions

CONSTANTS
  Jobs, Projects,
  Days,         \* calendar days as numbers
  Models,       \* the models PRICING lists
  PricePoints,  \* PRICING: for each model the set of its price points
  Tokens,       \* token counts a call may use
  Unlisted,     \* what a provider may charge for a call at no listed rate
  MaxBills      \* bound: the bills for one job in one behaviour

PricePoint == [effective : Nat, input : Nat, output : Nat]

ASSUME DaysAreNumbers == Days \subseteq Nat /\ Tokens \subseteq Nat
ASSUME ChargesAreNumbers == Unlisted \subseteq Nat /\ MaxBills \in Nat
ASSUME PricingAssumption ==
  /\ PricePoints \in [Models -> SUBSET PricePoint]
  /\ \A m \in Models : IsFiniteSet(PricePoints[m])
  /\ \A m \in Models : \A p, q \in PricePoints[m] : p.effective = q.effective => p = q

-----------------------------------------------------------------------------
(* cost.py                                                                 *)

\* Faulty variant: a point takes effect the day after.
ApplicableAfter(m, on) == {p \in PricePoints[m] : p.effective < on}

\* The points of a model in effect on or before a day.
Applicable(m, on) == {p \in PricePoints[m] : p.effective <= on}

Priced(m, on) == Applicable(m, on) # {}

\* Faulty variant: the point that took effect first.
PriceForFirst(m, on) ==
  CHOOSE p \in Applicable(m, on) : \A q \in Applicable(m, on) : p.effective <= q.effective

\* price_for(): the applicable point that took effect last; cost.py raises if none.
PriceFor(m, on) ==
  CHOOSE p \in Applicable(m, on) : \A q \in Applicable(m, on) : q.effective <= p.effective

\* cost_usd()
CostOf(m, in, out, on) ==
  in * PriceFor(m, on).input + out * PriceFor(m, on).output

-----------------------------------------------------------------------------

VARIABLES
  rows,        \* the jobs table
  stage,       \* where the worker is with the message it handles
  job,         \* whose message that is
  usage,       \* the tokens of the answer it has
  result,      \* the Result it has
  bills        \* history: by job, what the provider billed for each call in turn

workerVars == <<stage, job, usage, result>>
vars       == <<rows, workerVars, bills>>

Row   == [project : Projects, day : Days, model : Models,
          status : {"pending", "ok", "error"}, cost : Nat]
Usage == [in : Nat, out : Nat]

Result   == [status : {"ok", "error"}, cost : Nat]
Unused   == [in |-> 0, out |-> 0]
NoResult == [status |-> "error", cost |-> 0]

LedgerTypeOK ==
  /\ DOMAIN rows \subseteq Jobs /\ \A j \in DOMAIN rows : rows[j] \in Row
  /\ bills \in [DOMAIN rows -> Seq(Nat)]
  /\ stage \in {"idle", "call", "price", "finalize"}
  /\ stage # "idle" => job \in DOMAIN rows
  /\ usage \in Usage /\ result \in Result

Init ==
  /\ rows = [j \in {} |-> j] /\ bills = [j \in {} |-> j]
  /\ stage = "idle" /\ job \in Jobs /\ usage = Unused /\ result = NoResult

\* A table with the entry of j set to v.
With(table, j, v) == [k \in DOMAIN table \cup {j} |-> IF k = j THEN v ELSE table[k]]

\* insert_pending() under a fresh job_id.
Insert(j, project, day, m) ==
  /\ j \notin DOMAIN rows
  /\ rows' = With(rows, j, [project |-> project, day |-> day, model |-> m,
                            status |-> "pending", cost |-> 0])
  /\ bills' = With(bills, j, <<>>)
  /\ UNCHANGED workerVars

\* Faulty variant: the message is sent before the row is written.
TakeUnrecorded(j) ==
  /\ stage = "idle"
  /\ stage' = "call" /\ job' = j
  /\ UNCHANGED <<rows, usage, result, bills>>

\* The message of a row comes, for the first time or again.
Take(j) ==
  /\ stage = "idle" /\ j \in DOMAIN rows
  /\ stage' = "call" /\ job' = j
  /\ UNCHANGED <<rows, usage, result, bills>>

\* What a provider may bill for a call of m on this day.
Bills(m, on, in, out) ==
  LET InForce(p) == /\ p.effective <= on
                    /\ ~\E q \in PricePoints[m] : p.effective < q.effective /\ q.effective <= on
  IN  IF \E p \in PricePoints[m] : InForce(p)
      THEN {in * p.input + out * p.output : p \in {q \in PricePoints[m] : InForce(q)}}
      ELSE Unlisted

\* The provider bills the call under way.
Billed(in, out) ==
  /\ Len(bills[job]) < MaxBills
  /\ \E bill \in Bills(rows[job].model, rows[job].day, in, out) :
       bills' = [bills EXCEPT ![job] = Append(@, bill)]

\* The call answered, and the adapter passes the answer on.
CallAnswers(in, out) ==
  /\ stage = "call" /\ Billed(in, out)
  /\ stage' = "price" /\ usage' = [in |-> in, out |-> out]
  /\ UNCHANGED <<rows, job, result>>

\* The call was billed and brought nothing: the adapter refuses the answer, or it came
\* after the timeout.  The next attempt, or an error.
BilledInVain(in, out) ==
  /\ stage = "call" /\ Billed(in, out)
  /\ stage' \in {"call", "finalize"} /\ result' = NoResult
  /\ UNCHANGED <<rows, job, usage>>

\* The job expired, was refused or failed before anything was billed.
GiveUp ==
  /\ stage = "call"
  /\ stage' = "finalize" /\ result' = NoResult
  /\ UNCHANGED <<rows, job, usage, bills>>

\* _price(): raises out of the handler when no price point is in effect.
Price ==
  /\ stage = "price"
  /\ LET r == rows[job] IN
     IF Priced(r.model, r.day)
     THEN /\ stage' = "finalize"
          /\ result' = [status |-> "ok", cost |-> CostOf(r.model, usage.in, usage.out, r.day)]
     ELSE stage' = "idle" /\ UNCHANGED result
  /\ usage' = Unused
  /\ UNCHANGED <<rows, job, bills>>

\* finalize(), once for each row.
Finalize ==
  /\ stage = "finalize"
  /\ rows' = IF rows[job].status = "pending"
             THEN [rows EXCEPT ![job].status = result.status, ![job].cost = result.cost]
             ELSE rows
  /\ stage' = "idle" /\ result' = NoResult
  /\ UNCHANGED <<job, usage, bills>>

\* The worker is killed, or finalize() raises: what it had in hand is gone.
Drop ==
  /\ stage # "idle"
  /\ stage' = "idle" /\ usage' = Unused /\ result' = NoResult
  /\ UNCHANGED <<rows, job, bills>>

Next ==
  \/ \E j \in Jobs, project \in Projects, day \in Days, m \in Models :
       Insert(j, project, day, m)
  \/ \E j \in Jobs : Take(j)
  \/ \E in, out \in Tokens : CallAnswers(in, out) \/ BilledInVain(in, out)
  \/ GiveUp \/ Price \/ Finalize \/ Drop

Spec == Init /\ [][Next]_vars

-----------------------------------------------------------------------------
(* Store.cost_by_project_day() and dashboard.summarize()                   *)

\* Faulty variant: the rows of a project, whatever their day.
SpentByProject(project, day) ==
  SumFunctionOnSet([j \in DOMAIN rows |-> rows[j].cost],
                   {j \in DOMAIN rows : rows[j].project = project})

SpentBy(project, day) ==
  SumFunctionOnSet([j \in DOMAIN rows |-> rows[j].cost],
                   {j \in DOMAIN rows : rows[j].project = project /\ rows[j].day = day})

\* GROUP BY project, day HAVING SUM(cost_usd) > 0
ProjectDayCosts ==
  {c \in {[project |-> project, day |-> day, cost |-> SpentBy(project, day)] :
            project \in Projects, day \in Days} : c.cost > 0}

\* _sum_by(): the total of each distinct value of one attribute.
TotalOf(costs) == SumFunctionOnSet([c \in costs |-> c.cost], costs)

ByProject(costs) ==
  [project \in {c.project : c \in costs} |-> TotalOf({c \in costs : c.project = project})]

ByDay(costs) ==
  [day \in {c.day : c \in costs} |-> TotalOf({c \in costs : c.day = day})]

\* summarize(): the grand total is the sum over the projects.
Summary ==
  LET costs == ProjectDayCosts
      perProject == ByProject(costs)
  IN  [byProject |-> perProject, byDay |-> ByDay(costs),
       total |-> SumFunction(perProject)]

-----------------------------------------------------------------------------

(* A row that is ok is charged what the provider billed for one call of its model, at the
   rate in force on the day the row is booked under, however often the job was called; any
   other row costs nothing. *)
RowsCarryTheirBill ==
  \A j \in DOMAIN rows :
    IF rows[j].status = "ok"
    THEN \E n \in DOMAIN bills[j] : rows[j].cost = bills[j][n]
    ELSE rows[j].cost = 0

\* What the provider billed for these jobs.
BilledFor(jobs) ==
  SumFunctionOnSet([j \in DOMAIN rows |-> SumFunctionOnSet(bills[j], DOMAIN bills[j])], jobs)

\* The job was not called again, and its answer was not lost.
OnceAndOk(j) == Len(bills[j]) <= 1 /\ (bills[j] # <<>> => rows[j].status = "ok")

\* A line shows no more than the bills, and all of them when no job was paid for in vain.
AccountsFor(line, jobs) ==
  /\ line <= BilledFor(jobs)
  /\ (\A j \in jobs : OnceAndOk(j)) => line = BilledFor(jobs)

Shown(lines, name) == IF name \in DOMAIN lines THEN lines[name] ELSE 0

(* The page against the provider's bills, for the grand total, each project and each day: it
   never shows more than was billed, and exactly that if none of the jobs it stands for was
   called twice, cut short, unpriced or lost before its finalize; lines without spend are
   left out. *)
PageAccountsForBills ==
  /\ AccountsFor(Summary.total, DOMAIN rows)
  /\ \A project \in Projects :
       AccountsFor(Shown(Summary.byProject, project),
                   {j \in DOMAIN rows : rows[j].project = project})
  /\ \A day \in Days :
       AccountsFor(Shown(Summary.byDay, day), {j \in DOMAIN rows : rows[j].day = day})
  /\ \A project \in DOMAIN Summary.byProject : Summary.byProject[project] > 0
  /\ \A day \in DOMAIN Summary.byDay : Summary.byDay[day] > 0

=============================================================================
