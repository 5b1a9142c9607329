-------------------------- MODULE CostLedgerProofs --------------------------
(***************************************************************************)
(* Proofs about CostLedger: for any jobs, projects, days and token counts, *)
(* and for any table of price points.                                      *)
(***************************************************************************)
EXTENDS CostLedger, Recurrences

(* price_for() returns a point, and the one that a bill at that day goes by: the latest
   that is in effect exists and there is no other. *)
LEMMA PriceIsInForce ==
  ASSUME NEW m \in Models, NEW on \in Nat, Priced(m, on)
  PROVE  /\ PriceFor(m, on) \in PricePoints[m] /\ PriceFor(m, on) \in PricePoint
         /\ PriceFor(m, on).effective <= on
         /\ \A p \in PricePoints[m] :
              p.effective <= on => p.effective <= PriceFor(m, on).effective
  <1> DEFINE T == {on - p.effective : p \in Applicable(m, on)}
  <1>1. /\ PricePoints[m] \subseteq PricePoint
        /\ \A p \in PricePoint : p.effective \in Nat
    BY PricingAssumption DEF PricePoint
  <1>2. /\ Applicable(m, on) \subseteq PricePoints[m]
        /\ \A p \in PricePoints[m] : p \in Applicable(m, on) <=> p.effective <= on
    BY DEF Applicable
  <1>3. PICK t \in T : \A u \in T : t <= u
    <2>1. T \subseteq Nat
      BY <1>1, <1>2
    <2>2. T # {}
      BY DEF Priced
    <2> HIDE DEF T
    <2> QED
      BY <2>1, <2>2, LeastNatural
  <1>4. PICK p \in Applicable(m, on) : t = on - p.effective
    BY <1>3
  <1>5. \A q \in Applicable(m, on) : q.effective <= p.effective
    <2> TAKE q \in Applicable(m, on)
    <2>1. on - p.effective <= on - q.effective
      BY <1>3, <1>4
    <2>2. p.effective \in Nat /\ q.effective \in Nat
      BY <1>1, <1>2
    <2> QED
      BY <2>1, <2>2
  <1>6. /\ PriceFor(m, on) \in Applicable(m, on)
        /\ \A q \in Applicable(m, on) : q.effective <= PriceFor(m, on).effective
    BY <1>4, <1>5 DEF PriceFor
  <1> QED
    BY <1>1, <1>2, <1>6

(* The cost of a call is the one thing the provider may bill for it when a price point is in
   effect: the two ways of looking the rate up agree. *)
LEMMA CostIsTheBill ==
  ASSUME NEW m \in Models, NEW on \in Nat, NEW in \in Nat, NEW out \in Nat
  PROVE  /\ Bills(m, on, in, out) \subseteq Nat
         /\ Priced(m, on) => /\ CostOf(m, in, out, on) \in Nat
                             /\ Bills(m, on, in, out) = {CostOf(m, in, out, on)}
  <1> DEFINE Latest(p) ==
               /\ p.effective <= on
               /\ ~\E q \in PricePoints[m] : p.effective < q.effective /\ q.effective <= on
             charge(p) == in * p.input + out * p.output
             price == PriceFor(m, on)
  <1>1. \A p \in PricePoints[m] : /\ p \in PricePoint /\ p.effective \in Nat
                                  /\ p.input \in Nat /\ p.output \in Nat
    BY PricingAssumption DEF PricePoint
  <1>2. Bills(m, on, in, out) = IF \E p \in PricePoints[m] : Latest(p)
                                THEN {charge(p) : p \in {q \in PricePoints[m] : Latest(q)}}
                                ELSE Unlisted
    BY DEF Bills
  <1>3. \A p \in PricePoints[m] : charge(p) \in Nat
    BY <1>1
  <1> HIDE DEF charge
  <1>4. Bills(m, on, in, out) \subseteq Nat
    BY <1>2, <1>3, ChargesAreNumbers
  <1>5. ASSUME Priced(m, on)
        PROVE  /\ CostOf(m, in, out, on) \in Nat
               /\ Bills(m, on, in, out) = {CostOf(m, in, out, on)}
    <2>1. /\ price \in PricePoints[m] /\ price.effective \in Nat /\ price.effective <= on
          /\ \A p \in PricePoints[m] : p.effective <= on => p.effective <= price.effective
      BY <1>1, <1>5, PriceIsInForce
    <2>2. CostOf(m, in, out, on) = charge(price)
      BY DEF CostOf, charge
    <2> HIDE DEF price
    <2>3. price \in PricePoints[m] /\ Latest(price)
      BY <1>1, <2>1
    <2>4. \A p \in PricePoints[m] : Latest(p) => p = price
      <3> SUFFICES ASSUME NEW p \in PricePoints[m], Latest(p)
                   PROVE  p = price
        OBVIOUS
      <3>1. p.effective <= price.effective /\ ~(p.effective < price.effective)
        BY <2>1
      <3>2. p.effective = price.effective
        BY <1>1, <2>1, <3>1
      <3> QED
        BY <2>1, <3>2, PricingAssumption
    <2> HIDE DEF Latest
    <2>5. {charge(p) : p \in {q \in PricePoints[m] : Latest(q)}} = {charge(price)}
      BY <2>3, <2>4
    <2> QED
      BY <1>2, <1>3, <2>2, <2>3, <2>5
  <1> QED
    BY <1>4, <1>5

-----------------------------------------------------------------------------

\* What the worker has in hand was billed: the answer it is about to price and the Result
\* it is about to write.
HandCarriesTheBill ==
  /\ stage = "price" =>
       /\ bills[job] # <<>>
       /\ Priced(rows[job].model, rows[job].day) =>
            bills[job][Len(bills[job])]
              = CostOf(rows[job].model, usage.in, usage.out, rows[job].day)
  /\ stage = "finalize" =>
       IF result.status = "ok"
       THEN \E n \in DOMAIN bills[job] : result.cost = bills[job][n]
       ELSE result.cost = 0

\* A table has finitely many rows: what is summed for the page is finite.
LedgerInv ==
  LedgerTypeOK /\ RowsCarryTheirBill /\ HandCarriesTheBill /\ IsFiniteSet(DOMAIN rows)

LEMMA InitLedgerInv == Init => LedgerInv
  <1> SUFFICES ASSUME Init
               PROVE  LedgerInv
    OBVIOUS
  <1>1. DOMAIN rows = {} /\ DOMAIN bills = {} /\ bills = [j \in {} |-> j] /\ stage = "idle"
    BY DEF Init
  <1>2. usage \in Usage /\ result \in Result
    BY DEF Init, Usage, Result, Unused, NoResult
  <1>3. bills \in [DOMAIN rows -> Seq(Nat)]
    BY <1>1
  <1> QED
    BY <1>1, <1>2, <1>3, FS_EmptySet
    DEF LedgerInv, LedgerTypeOK, RowsCarryTheirBill, HandCarriesTheBill

LEMMA InsertKeepsInv ==
  ASSUME LedgerInv, NEW j \in Jobs, NEW project \in Projects, NEW day \in Days,
         NEW m \in Models, Insert(j, project, day, m)
  PROVE  LedgerInv'
  <1> DEFINE r == [project |-> project, day |-> day, model |-> m,
                   status |-> "pending", cost |-> 0]
  <1>1. /\ j \notin DOMAIN rows /\ rows' = With(rows, j, r) /\ bills' = With(bills, j, <<>>)
        /\ stage' = stage /\ job' = job /\ usage' = usage /\ result' = result
    BY DEF Insert, workerVars
  <1>2. r \in Row /\ r.status = "pending" /\ r.cost = 0
    BY DEF Row
  <1> HIDE DEF r
  <1>3. /\ DOMAIN rows' = DOMAIN rows \cup {j} /\ rows'[j] = r
        /\ \A k \in DOMAIN rows : rows'[k] = rows[k]
    BY <1>1 DEF With
  <1>4. /\ bills' \in [DOMAIN rows' -> Seq(Nat)]
        /\ \A k \in DOMAIN rows : bills'[k] = bills[k]
    <2>1. bills \in [DOMAIN rows -> Seq(Nat)] /\ <<>> \in Seq(Nat)
      BY DEF LedgerInv, LedgerTypeOK
    <2> QED
      BY <1>1, <1>3, <2>1 DEF With
  <1>5. LedgerTypeOK'
    BY <1>1, <1>2, <1>3, <1>4 DEF LedgerInv, LedgerTypeOK
  <1>6. RowsCarryTheirBill'
    BY <1>2, <1>3, <1>4 DEF LedgerInv, RowsCarryTheirBill
  <1>7. HandCarriesTheBill'
    <2>1. stage # "idle" => rows'[job] = rows[job] /\ bills'[job] = bills[job]
      BY <1>3, <1>4 DEF LedgerInv, LedgerTypeOK
    <2> QED
      BY <1>1, <2>1 DEF LedgerInv, HandCarriesTheBill
  <1>8. IsFiniteSet(DOMAIN rows')
    BY <1>3, FS_AddElement DEF LedgerInv
  <1> QED
    BY <1>5, <1>6, <1>7, <1>8 DEF LedgerInv

LEMMA TakeKeepsInv ==
  ASSUME LedgerInv, NEW j \in Jobs, Take(j)
  PROVE  LedgerInv'
  BY DEF Take, LedgerInv, LedgerTypeOK, RowsCarryTheirBill, HandCarriesTheBill

(* A bill of the call under way: the history grows by what the model and the day allow. *)
LEMMA BillOfTheCall ==
  ASSUME LedgerInv, stage = "call", NEW in \in Tokens, NEW out \in Tokens, Billed(in, out),
         rows' = rows
  PROVE  /\ bills' \in [DOMAIN rows -> Seq(Nat)] /\ bills'[job] # <<>>
         /\ Priced(rows[job].model, rows[job].day) =>
              bills'[job][Len(bills'[job])]
                = CostOf(rows[job].model, in, out, rows[job].day)
         /\ RowsCarryTheirBill'
  <1> DEFINE m == rows[job].model
             day == rows[job].day
  <1>1. PICK bill \in Bills(m, day, in, out) :
          bills' = [bills EXCEPT ![job] = Append(@, bill)]
    BY DEF Billed
  <1>2. /\ job \in DOMAIN rows /\ bills \in [DOMAIN rows -> Seq(Nat)]
        /\ m \in Models /\ day \in Nat /\ in \in Nat /\ out \in Nat
    BY DaysAreNumbers DEF LedgerInv, LedgerTypeOK, Row
  <1> HIDE DEF m, day
  <1>3. bill \in Nat /\ (Priced(m, day) => bill = CostOf(m, in, out, day))
    BY <1>1, <1>2, CostIsTheBill
  <1> DEFINE old == bills[job]
             new == Append(old, bill)
  <1>4. old \in Seq(Nat) /\ Len(old) \in Nat
    BY <1>2
  <1> HIDE DEF old
  <1>5. /\ new \in Seq(Nat) /\ Len(new) = Len(old) + 1 /\ new[Len(old) + 1] = bill
        /\ \A n \in 1 .. Len(old) : new[n] = old[n]
        /\ DOMAIN old = 1 .. Len(old) /\ DOMAIN new = 1 .. Len(new)
    BY <1>3, <1>4
  <1>6. /\ bills' \in [DOMAIN rows -> Seq(Nat)] /\ bills'[job] = new
        /\ \A k \in DOMAIN rows : k # job => bills'[k] = bills[k]
    BY <1>1, <1>2, <1>5 DEF old
  <1> HIDE DEF new
  <1>7. new # <<>> /\ new[Len(new)] = bill
    BY <1>4, <1>5
  <1>8. DOMAIN old \subseteq DOMAIN new /\ \A n \in DOMAIN old : new[n] = old[n]
    BY <1>4, <1>5
  <1>9. RowsCarryTheirBill'
    <2> SUFFICES ASSUME NEW k \in DOMAIN rows
                 PROVE  IF rows[k].status = "ok"
                        THEN \E n \in DOMAIN bills'[k] : rows[k].cost = bills'[k][n]
                        ELSE rows[k].cost = 0
      BY DEF RowsCarryTheirBill
    <2>1. IF rows[k].status = "ok"
          THEN \E n \in DOMAIN bills[k] : rows[k].cost = bills[k][n]
          ELSE rows[k].cost = 0
      BY DEF LedgerInv, RowsCarryTheirBill
    <2>2. CASE k = job
      BY <1>6, <1>8, <2>1, <2>2 DEF old
    <2>3. CASE k # job
      BY <1>6, <2>1, <2>3
    <2> QED
      BY <2>2, <2>3
  <1> QED
    BY <1>3, <1>6, <1>7, <1>9 DEF m, day

LEMMA CallAnswersKeepsInv ==
  ASSUME LedgerInv, NEW in \in Tokens, NEW out \in Tokens, CallAnswers(in, out)
  PROVE  LedgerInv'
  <1>1. /\ stage = "call" /\ Billed(in, out) /\ stage' = "price"
        /\ usage' = [in |-> in, out |-> out]
        /\ rows' = rows /\ job' = job /\ result' = result
    BY DEF CallAnswers
  <1>2. usage' \in Usage
    BY <1>1, DaysAreNumbers DEF Usage
  <1>3. /\ bills' \in [DOMAIN rows -> Seq(Nat)] /\ bills'[job] # <<>>
        /\ Priced(rows[job].model, rows[job].day) =>
             bills'[job][Len(bills'[job])]
               = CostOf(rows[job].model, in, out, rows[job].day)
        /\ RowsCarryTheirBill'
    BY <1>1, BillOfTheCall
  <1>4. LedgerTypeOK'
    BY <1>1, <1>2, <1>3 DEF LedgerInv, LedgerTypeOK
  <1>5. HandCarriesTheBill'
    BY <1>1, <1>3 DEF HandCarriesTheBill
  <1> QED
    BY <1>1, <1>3, <1>4, <1>5 DEF LedgerInv

LEMMA BilledInVainKeepsInv ==
  ASSUME LedgerInv, NEW in \in Tokens, NEW out \in Tokens, BilledInVain(in, out)
  PROVE  LedgerInv'
  <1>1. /\ stage = "call" /\ Billed(in, out) /\ stage' \in {"call", "finalize"}
        /\ result' = NoResult /\ rows' = rows /\ job' = job /\ usage' = usage
    BY DEF BilledInVain
  <1>2. bills' \in [DOMAIN rows -> Seq(Nat)] /\ RowsCarryTheirBill'
    BY <1>1, BillOfTheCall
  <1> QED
    BY <1>1, <1>2 DEF LedgerInv, LedgerTypeOK, HandCarriesTheBill, NoResult, Result

LEMMA GiveUpKeepsInv ==
  ASSUME LedgerInv, GiveUp
  PROVE  LedgerInv'
  BY DEF GiveUp, LedgerInv, LedgerTypeOK, RowsCarryTheirBill, HandCarriesTheBill, NoResult,
         Result

LEMMA PriceKeepsInv ==
  ASSUME LedgerInv, Price
  PROVE  LedgerInv'
  <1> DEFINE m == rows[job].model
             day == rows[job].day
             cost == CostOf(m, usage.in, usage.out, day)
  <1>1. /\ stage = "price" /\ usage' = Unused /\ rows' = rows /\ job' = job /\ bills' = bills
        /\ \/ /\ Priced(m, day) /\ stage' = "finalize"
              /\ result' = [status |-> "ok", cost |-> cost]
           \/ stage' = "idle" /\ result' = result
    BY DEF Price
  <1>2. /\ job \in DOMAIN rows /\ m \in Models /\ day \in Nat
        /\ usage.in \in Nat /\ usage.out \in Nat /\ usage' \in Usage
        /\ bills[job] \in Seq(Nat) /\ bills[job] # <<>>
    BY <1>1, DaysAreNumbers
    DEF LedgerInv, LedgerTypeOK, HandCarriesTheBill, Row, Usage, Unused
  <1>3. Len(bills[job]) \in DOMAIN bills[job]
    BY <1>2
  <1>4. CASE stage' = "idle" /\ result' = result
    BY <1>1, <1>2, <1>4 DEF LedgerInv, LedgerTypeOK, RowsCarryTheirBill, HandCarriesTheBill
  <1>5. CASE /\ Priced(m, day) /\ stage' = "finalize"
             /\ result' = [status |-> "ok", cost |-> cost]
    <2>1. cost \in Nat
      BY <1>2, <1>5, CostIsTheBill
    <2>2. bills[job][Len(bills[job])] = cost
      BY <1>1, <1>5 DEF LedgerInv, HandCarriesTheBill
    <2> HIDE DEF cost
    <2>3. result' \in Result /\ result'.status = "ok" /\ result'.cost = cost
      BY <1>5, <2>1 DEF Result
    <2>4. HandCarriesTheBill'
      BY <1>1, <1>3, <1>5, <2>2, <2>3 DEF HandCarriesTheBill
    <2> QED
      BY <1>1, <1>2, <1>5, <2>3, <2>4 DEF LedgerInv, LedgerTypeOK, RowsCarryTheirBill
  <1> QED
    BY <1>1, <1>4, <1>5

LEMMA FinalizeKeepsInv ==
  ASSUME LedgerInv, Finalize
  PROVE  LedgerInv'
  <1>1. /\ stage = "finalize" /\ stage' = "idle" /\ result' = NoResult
        /\ job' = job /\ usage' = usage /\ bills' = bills /\ job \in DOMAIN rows
    BY DEF Finalize, LedgerInv, LedgerTypeOK
  <1>2. result' \in Result
    BY <1>1 DEF NoResult, Result
  <1>3. CASE rows' = rows
    BY <1>1, <1>2, <1>3 DEF LedgerInv, LedgerTypeOK, RowsCarryTheirBill, HandCarriesTheBill
  <1>4. CASE rows' = [rows EXCEPT ![job].status = result.status, ![job].cost = result.cost]
    <2>1. /\ DOMAIN rows' = DOMAIN rows
          /\ rows'[job] = [rows[job] EXCEPT !.status = result.status, !.cost = result.cost]
          /\ \A k \in DOMAIN rows : k # job => rows'[k] = rows[k]
      BY <1>1, <1>4
    <2>2. rows[job] \in Row /\ result \in Result
      BY <1>1 DEF LedgerInv, LedgerTypeOK
    <2>3. /\ rows'[job] \in Row /\ rows'[job].status = result.status
          /\ rows'[job].cost = result.cost
      BY <2>1, <2>2 DEF Row, Result
    <2>4. LedgerTypeOK'
      BY <1>1, <1>2, <2>1, <2>3 DEF LedgerInv, LedgerTypeOK
    <2>5. RowsCarryTheirBill'
      <3> SUFFICES ASSUME NEW k \in DOMAIN rows
                   PROVE  IF rows'[k].status = "ok"
                          THEN \E n \in DOMAIN bills[k] : rows'[k].cost = bills[k][n]
                          ELSE rows'[k].cost = 0
        BY <1>1, <2>1 DEF RowsCarryTheirBill
      <3>1. CASE k = job
        BY <1>1, <2>3, <3>1 DEF LedgerInv, HandCarriesTheBill
      <3>2. CASE k # job
        BY <2>1, <3>2 DEF LedgerInv, RowsCarryTheirBill
      <3> QED
        BY <3>1, <3>2
    <2> QED
      BY <1>1, <2>1, <2>4, <2>5 DEF LedgerInv, HandCarriesTheBill
  <1> QED
    BY <1>3, <1>4 DEF Finalize

LEMMA DropKeepsInv ==
  ASSUME LedgerInv, Drop
  PROVE  LedgerInv'
  BY DEF Drop, LedgerInv, LedgerTypeOK, RowsCarryTheirBill, HandCarriesTheBill, NoResult,
         Result, Unused, Usage

(* The ledger's invariant: its types, each row with its bill, and what is in hand between
   the call and the row. *)
THEOREM LedgerInvHolds == Spec => []LedgerInv
  <1>1. Init => LedgerInv
    BY InitLedgerInv
  <1>2. LedgerInv /\ [Next]_vars => LedgerInv'
    <2> SUFFICES ASSUME LedgerInv, [Next]_vars
                 PROVE  LedgerInv'
      OBVIOUS
    <2>1. CASE UNCHANGED vars
      BY <2>1
      DEF vars, workerVars, LedgerInv, LedgerTypeOK, RowsCarryTheirBill, HandCarriesTheBill
    <2>2. CASE Next
      BY <2>2, InsertKeepsInv, TakeKeepsInv, CallAnswersKeepsInv, BilledInVainKeepsInv,
         GiveUpKeepsInv, PriceKeepsInv, FinalizeKeepsInv, DropKeepsInv DEF Next
    <2> QED
      BY <2>1, <2>2
  <1> QED
    BY <1>1, <1>2, PTL DEF Spec

(* The types of the ledger: the worker never has a message in hand whose row is missing. *)
THEOREM LedgerTypes == Spec => []LedgerTypeOK
  <1>1. LedgerInv => LedgerTypeOK
    BY DEF LedgerInv
  <1> QED
    BY <1>1, LedgerInvHolds, PTL

(* Every row that is ok is charged one of its bills, at the rate in force on the day of its
   job, whatever came between the call and the row; the others cost nothing. *)
THEOREM RowsAreCharged == Spec => []RowsCarryTheirBill
  <1>1. LedgerInv => RowsCarryTheirBill
    BY DEF LedgerInv
  <1> QED
    BY <1>1, LedgerInvHolds, PTL

-----------------------------------------------------------------------------
(* The page.                                                               *)

\* What these jobs cost, by their rows.
Spent(jobs) == SumFunctionOnSet([j \in DOMAIN rows |-> rows[j].cost], jobs)

(* The rows of some jobs show no more than their bills, and all of them when each job was
   called once and came out ok. *)
LEMMA BillsCoverTheRows ==
  ASSUME LedgerInv, NEW J \in SUBSET DOMAIN rows
  PROVE  AccountsFor(Spent(J), J)
  <1> DEFINE f == [j \in DOMAIN rows |-> rows[j].cost]
             g == [j \in DOMAIN rows |-> SumFunctionOnSet(bills[j], DOMAIN bills[j])]
  <1>1. IsFiniteSet(J)
    BY FS_Subset DEF LedgerInv
  <1>2. ASSUME NEW j \in J
        PROVE  /\ f[j] \in Nat /\ g[j] \in Nat /\ f[j] <= g[j]
               /\ OnceAndOk(j) => g[j] <= f[j]
    <2> DEFINE b == bills[j]
               D == DOMAIN b
    <2>1. b \in Seq(Nat) /\ rows[j] \in Row
      BY DEF LedgerInv, LedgerTypeOK
    <2>2. f[j] = rows[j].cost /\ f[j] \in Nat
      BY <2>1 DEF Row
    <2>3. g[j] = SumFunctionOnSet(b, D)
      OBVIOUS
    <2>4. IF rows[j].status = "ok" THEN \E n \in D : f[j] = b[n] ELSE f[j] = 0
      BY <2>2 DEF LedgerInv, RowsCarryTheirBill
    <2>5. OnceAndOk(j) <=> Len(b) <= 1 /\ (b # <<>> => rows[j].status = "ok")
      BY DEF OnceAndOk
    <2> HIDE DEF b, f, g
    <2>6. D = 1 .. Len(b) /\ Len(b) \in Nat /\ \A n \in D : b[n] \in Nat
      BY <2>1
    <2>7. IsFiniteSet(D)
      BY <2>6, FS_Interval
    <2>8. b = <<>> <=> D = {}
      BY <2>1, <2>6
    <2> HIDE DEF D
    <2>9. g[j] \in Nat
      BY <2>3, <2>6, <2>7, SumIsNat
    <2>10. \A n \in D : /\ SumFunctionOnSet(b, D) = b[n] + SumFunctionOnSet(b, D \ {n})
                        /\ SumFunctionOnSet(b, D \ {n}) \in Nat
      <3> TAKE n \in D
      <3>1. IsFiniteSet(D \ {n}) /\ \A k \in D \ {n} : b[k] \in Nat
        BY <2>6, <2>7, FS_RemoveElement
      <3>2. SumFunctionOnSet(b, D) = b[n] + SumFunctionOnSet(b, D \ {n})
        BY <2>6, <2>7, SumTakes
      <3> QED
        BY <3>1, <3>2, SumIsNat
    <2>11. f[j] <= g[j]
      <3>1. CASE rows[j].status = "ok"
        <4>1. PICK n \in D : f[j] = b[n]
          BY <2>4, <3>1
        <4>2. b[n] \in Nat /\ g[j] = b[n] + SumFunctionOnSet(b, D \ {n})
          BY <2>3, <2>6, <2>10
        <4> QED
          BY <2>10, <4>1, <4>2
      <3>2. CASE rows[j].status # "ok"
        BY <2>4, <2>9, <3>2
      <3> QED
        BY <3>1, <3>2
    <2>12. ASSUME OnceAndOk(j)
           PROVE  g[j] <= f[j]
      <3>1. CASE b = <<>>
        <4>1. g[j] = 0
          BY <2>3, <2>8, <3>1, SumOfNone
        <4> QED
          BY <2>2, <4>1
      <3>2. CASE b # <<>>
        <4>1. PICK n \in D : f[j] = b[n]
          BY <2>4, <2>5, <2>12, <3>2
        <4>2. D \ {n} = {}
          BY <2>5, <2>6, <2>12, <4>1
        <4>3. g[j] = b[n] + 0
          BY <2>3, <2>10, <4>2, SumOfNone
        <4> QED
          BY <2>6, <4>1, <4>3
      <3> QED
        BY <3>1, <3>2
    <2> QED
      BY <2>2, <2>9, <2>11, <2>12
  <1> HIDE DEF f, g
  <1>3. SumFunctionOnSet(f, J) <= SumFunctionOnSet(g, J)
    BY <1>1, <1>2, SumIsMonotone
  <1>4. (\A j \in J : OnceAndOk(j)) => SumFunctionOnSet(g, J) <= SumFunctionOnSet(f, J)
    BY <1>1, <1>2, SumIsMonotone
  <1>5. SumFunctionOnSet(f, J) \in Nat /\ SumFunctionOnSet(g, J) \in Nat
    BY <1>1, <1>2, SumIsNat
  <1>6. Spent(J) = SumFunctionOnSet(f, J) /\ BilledFor(J) = SumFunctionOnSet(g, J)
    BY DEF Spent, BilledFor, f, g
  <1> QED
    BY <1>3, <1>4, <1>5, <1>6 DEF AccountsFor

(* The groups of the query: one for each project and day with spend, finitely many. *)
LEMMA GroupsOfTheQuery ==
  ASSUME LedgerInv
  PROVE  /\ IsFiniteSet(ProjectDayCosts)
         /\ \A c \in ProjectDayCosts :
              /\ c.project \in Projects /\ c.day \in Days /\ c.cost > 0
              /\ c.cost = Spent({j \in DOMAIN rows : rows[j].project = c.project
                                                     /\ rows[j].day = c.day})
         /\ \A c, d \in ProjectDayCosts : c.project = d.project /\ c.day = d.day => c = d
         /\ \A j \in DOMAIN rows : rows[j].cost > 0 =>
              \E c \in ProjectDayCosts : c.project = rows[j].project /\ c.day = rows[j].day
  <1> DEFINE f == [j \in DOMAIN rows |-> rows[j].cost]
             Of(project, day) == {j \in DOMAIN rows : rows[j].project = project
                                                      /\ rows[j].day = day}
             group(project, day) ==
               [project |-> project, day |-> day, cost |-> SpentBy(project, day)]
  <1>1. /\ IsFiniteSet(DOMAIN rows) /\ \A j \in DOMAIN rows : rows[j] \in Row
        /\ \A j \in DOMAIN rows : f[j] \in Nat /\ f[j] = rows[j].cost
    BY DEF LedgerInv, LedgerTypeOK, Row
  <1>2. \A project, day : SpentBy(project, day) = Spent(Of(project, day))
    BY DEF SpentBy, Spent
  <1>3. \A c : c \in ProjectDayCosts <=>
          \E project \in Projects, day \in Days : c = group(project, day) /\ c.cost > 0
    BY DEF ProjectDayCosts
  <1> HIDE DEF Of, f
  <1>4. \A c \in ProjectDayCosts :
          /\ c.project \in Projects /\ c.day \in Days /\ c.cost > 0
          /\ c = group(c.project, c.day) /\ c.cost = Spent(Of(c.project, c.day))
    BY <1>2, <1>3
  <1>5. ASSUME NEW j \in DOMAIN rows, rows[j].cost > 0
        PROVE  group(rows[j].project, rows[j].day) \in ProjectDayCosts
    <2> DEFINE J == Of(rows[j].project, rows[j].day)
    <2>1. j \in J /\ J \subseteq DOMAIN rows
      BY DEF Of
    <2> HIDE DEF J
    <2>2. IsFiniteSet(J) /\ (\A x \in J : f[x] \in Nat) /\ f[j] > 0
      BY <1>1, <1>5, <2>1, FS_Subset
    <2>3. SumFunctionOnSet(f, J) > 0
      BY <2>1, <2>2, SumIsPositive
    <2>4. SpentBy(rows[j].project, rows[j].day) > 0
      BY <1>2, <2>3 DEF J, f, Spent
    <2>5. rows[j].project \in Projects /\ rows[j].day \in Days
      BY <1>1 DEF Row
    <2> QED
      BY <1>3, <2>4, <2>5
  <1>6. IsFiniteSet(ProjectDayCosts)
    <2> DEFINE J == {j \in DOMAIN rows : group(rows[j].project, rows[j].day) \in ProjectDayCosts}
               g == [j \in J |-> group(rows[j].project, rows[j].day)]
    <2>1. IsFiniteSet(J)
      BY <1>1, FS_Subset
    <2>2. ASSUME NEW c \in ProjectDayCosts
          PROVE  \E j \in J : g[j] = c
      <3> DEFINE N == Of(c.project, c.day)
      <3>1. \E j \in DOMAIN rows : rows[j].project = c.project /\ rows[j].day = c.day
        <4> SUFFICES ASSUME ~\E j \in DOMAIN rows : rows[j].project = c.project
                                                      /\ rows[j].day = c.day
                     PROVE  FALSE
          OBVIOUS
        <4>1. N = {}
          BY DEF Of
        <4>2. Spent(N) = 0
          BY <4>1, SumOfNone DEF Spent
        <4> QED
          BY <1>4, <4>2
      <3>2. PICK j \in DOMAIN rows : rows[j].project = c.project /\ rows[j].day = c.day
        BY <3>1
      <3>3. group(rows[j].project, rows[j].day) = c
        BY <1>4, <3>2
      <3> QED
        BY <3>3
    <2>3. g \in Surjection(J, ProjectDayCosts)
      BY <2>2 DEF Surjection
    <2> HIDE DEF g, J
    <2> QED
      BY <2>1, <2>3, FS_Surjection
  <1>7. \A c, d \in ProjectDayCosts : c.project = d.project /\ c.day = d.day => c = d
    BY <1>4
  <1>8. \A j \in DOMAIN rows : rows[j].cost > 0 =>
          \E c \in ProjectDayCosts : c.project = rows[j].project /\ c.day = rows[j].day
    BY <1>5
  <1> QED
    BY <1>4, <1>6, <1>7, <1>8 DEF Of

(* What _sum_by() adds up: the groups of some rows, when no row with a cost is left out. *)
LEMMA GroupsAddUp ==
  ASSUME LedgerInv, NEW J \in SUBSET DOMAIN rows, NEW G \in SUBSET ProjectDayCosts,
         \A c \in G, j \in DOMAIN rows :
           rows[j].project = c.project /\ rows[j].day = c.day => j \in J,
         \A c \in ProjectDayCosts, j \in J :
           rows[j].project = c.project /\ rows[j].day = c.day => c \in G
  PROVE  TotalOf(G) = Spent(J)
  <1> DEFINE f == [j \in DOMAIN rows |-> rows[j].cost]
             h == [c \in G |-> c.cost]
             part == [c \in G |-> {j \in DOMAIN rows : rows[j].project = c.project
                                                       /\ rows[j].day = c.day}]
  <1>1. IsFiniteSet(J) /\ IsFiniteSet(G)
    BY GroupsOfTheQuery, FS_Subset DEF LedgerInv
  <1>2. \A j \in J : f[j] \in Nat /\ f[j] = rows[j].cost
    BY DEF LedgerInv, LedgerTypeOK, Row
  <1>3. \A c \in G : part[c] \in SUBSET J /\ h[c] = SumFunctionOnSet(f, part[c])
    <2> TAKE c \in G
    <2>1. h[c] = Spent(part[c])
      BY GroupsOfTheQuery
    <2>2. part[c] \in SUBSET J
      OBVIOUS
    <2> QED
      BY <2>1, <2>2 DEF Spent
  <1>4. \A c, d \in G : c # d => part[c] \cap part[d] = {}
    BY GroupsOfTheQuery
  <1>5. \A j \in J : f[j] # 0 => \E c \in G : j \in part[c]
    <2> SUFFICES ASSUME NEW j \in J, f[j] # 0
                 PROVE  \E c \in G : j \in part[c]
      OBVIOUS
    <2>1. rows[j].cost > 0
      BY <1>2
    <2>2. PICK c \in ProjectDayCosts : c.project = rows[j].project /\ c.day = rows[j].day
      BY <2>1, GroupsOfTheQuery
    <2> QED
      BY <2>2
  <1> HIDE DEF f, h, part
  <1>6. SumFunctionOnSet(h, G) = SumFunctionOnSet(f, J)
    BY <1>1, <1>2, <1>3, <1>4, <1>5, SumByParts
  <1> QED
    BY <1>6 DEF TotalOf, Spent, f, h

(* A value of an attribute has a line on the page exactly when something was spent. *)
LEMMA LinesOfThePage ==
  ASSUME LedgerInv, NEW J \in SUBSET DOMAIN rows, NEW G \in SUBSET ProjectDayCosts,
         TotalOf(G) = Spent(J)
  PROVE  /\ Spent(J) \in Nat
         /\ G # {} => Spent(J) > 0
         /\ G = {} => Spent(J) = 0
  <1> DEFINE h == [c \in G |-> c.cost]
             f == [j \in DOMAIN rows |-> rows[j].cost]
  <1>1. IsFiniteSet(J) /\ IsFiniteSet(G)
    BY GroupsOfTheQuery, FS_Subset DEF LedgerInv
  <1>2. \A j \in J : f[j] \in Nat
    BY DEF LedgerInv, LedgerTypeOK, Row
  <1>3. Spent(J) \in Nat
    BY <1>1, <1>2, SumIsNat DEF Spent
  <1>4. CASE G = {}
    BY <1>3, <1>4, SumOfNone DEF TotalOf
  <1>5. CASE G # {}
    <2>1. PICK c \in G : TRUE
      BY <1>5
    <2>2. \A d \in G : h[d] \in Nat /\ h[d] > 0
      <3> SUFFICES ASSUME NEW d \in G
                   PROVE  d.cost \in Nat /\ d.cost > 0
        OBVIOUS
      <3> DEFINE D == {j \in DOMAIN rows : rows[j].project = d.project /\ rows[j].day = d.day}
      <3>1. d.cost = Spent(D) /\ d.cost > 0
        BY GroupsOfTheQuery
      <3>2. D \subseteq DOMAIN rows /\ IsFiniteSet(D)
        BY FS_Subset DEF LedgerInv
      <3>3. \A j \in D : f[j] \in Nat
        BY DEF LedgerInv, LedgerTypeOK, Row
      <3> HIDE DEF D, f
      <3>4. SumFunctionOnSet(f, D) \in Nat
        BY <3>2, <3>3, SumIsNat
      <3> QED
        BY <3>1, <3>4 DEF Spent, f
    <2> HIDE DEF h
    <2>3. SumFunctionOnSet(h, G) > 0
      BY <1>1, <2>1, <2>2, SumIsPositive
    <2> QED
      BY <1>3, <1>5, <2>3 DEF TotalOf, h
  <1> QED
    BY <1>4, <1>5

(* Every line of the page, and its grand total, against the bills they stand for. *)
LEMMA PageOfTheLedger ==
  ASSUME LedgerInv
  PROVE  PageAccountsForBills
  <1> DEFINE costs == ProjectDayCosts
             OfProject(p) == {j \in DOMAIN rows : rows[j].project = p}
             OfDay(d) == {j \in DOMAIN rows : rows[j].day = d}
             ForProject(p) == {c \in costs : c.project = p}
             ForDay(d) == {c \in costs : c.day = d}
             perProject == ByProject(costs)
  <1>1. /\ Summary.byProject = perProject /\ Summary.byDay = ByDay(costs)
        /\ Summary.total = SumFunction(perProject)
    BY DEF Summary
  <1>2. ASSUME NEW p \in Projects
        PROVE  /\ TotalOf(ForProject(p)) = Spent(OfProject(p))
               /\ AccountsFor(Spent(OfProject(p)), OfProject(p))
               /\ p \in DOMAIN perProject <=> ForProject(p) # {}
               /\ p \in DOMAIN perProject => perProject[p] = TotalOf(ForProject(p))
    <2>1. OfProject(p) \in SUBSET DOMAIN rows /\ ForProject(p) \in SUBSET ProjectDayCosts
      OBVIOUS
    <2>2. AccountsFor(Spent(OfProject(p)), OfProject(p))
      BY <2>1, BillsCoverTheRows
    <2>3. TotalOf(ForProject(p)) = Spent(OfProject(p))
      BY <2>1, GroupsAddUp
    <2>4. /\ p \in DOMAIN perProject <=> ForProject(p) # {}
          /\ p \in DOMAIN perProject => perProject[p] = TotalOf(ForProject(p))
      BY DEF ByProject
    <2> QED
      BY <2>2, <2>3, <2>4
  <1>3. ASSUME NEW d \in Days
        PROVE  /\ TotalOf(ForDay(d)) = Spent(OfDay(d))
               /\ AccountsFor(Spent(OfDay(d)), OfDay(d))
               /\ d \in DOMAIN ByDay(costs) <=> ForDay(d) # {}
               /\ d \in DOMAIN ByDay(costs) => ByDay(costs)[d] = TotalOf(ForDay(d))
    <2>1. OfDay(d) \in SUBSET DOMAIN rows /\ ForDay(d) \in SUBSET ProjectDayCosts
      OBVIOUS
    <2>2. AccountsFor(Spent(OfDay(d)), OfDay(d))
      BY <2>1, BillsCoverTheRows
    <2>3. TotalOf(ForDay(d)) = Spent(OfDay(d))
      BY <2>1, GroupsAddUp
    <2>4. /\ d \in DOMAIN ByDay(costs) <=> ForDay(d) # {}
          /\ d \in DOMAIN ByDay(costs) => ByDay(costs)[d] = TotalOf(ForDay(d))
      BY DEF ByDay
    <2> QED
      BY <2>2, <2>3, <2>4
  <1>4. SumFunction(perProject) = Spent(DOMAIN rows)
    <2> DEFINE f == [j \in DOMAIN rows |-> rows[j].cost]
               K == DOMAIN perProject
               part == [p \in K |-> OfProject(p)]
    <2>1. K = {c.project : c \in costs} /\ K \subseteq Projects
      BY GroupsOfTheQuery DEF ByProject
    <2>2. IsFiniteSet(K)
      <3> DEFINE g == [c \in costs |-> c.project]
      <3>1. g \in Surjection(costs, K) /\ IsFiniteSet(costs)
        BY <2>1, GroupsOfTheQuery DEF Surjection
      <3> HIDE DEF g, costs, K
      <3> QED
        BY <3>1, FS_Surjection
    <2>3. IsFiniteSet(DOMAIN rows) /\ \A j \in DOMAIN rows : f[j] \in Nat /\ f[j] = rows[j].cost
      BY DEF LedgerInv, LedgerTypeOK, Row
    <2>4. \A p \in K : perProject[p] = Spent(OfProject(p))
      BY <1>2, <2>1
    <2>5. \A p \in K : /\ part[p] \in SUBSET DOMAIN rows
                       /\ perProject[p] = SumFunctionOnSet(f, part[p])
      BY <2>4 DEF Spent
    <2>6. \A p, q \in K : p # q => part[p] \cap part[q] = {}
      OBVIOUS
    <2>7. \A j \in DOMAIN rows : f[j] # 0 => \E p \in K : j \in part[p]
      <3> SUFFICES ASSUME NEW j \in DOMAIN rows, f[j] # 0
                   PROVE  \E p \in K : j \in part[p]
        OBVIOUS
      <3>1. rows[j].cost > 0
        BY <2>3
      <3>2. rows[j].project \in K
        BY <2>1, <3>1, GroupsOfTheQuery
      <3> QED
        BY <3>2
    <2> HIDE DEF f, K, part, perProject
    <2>8. SumFunctionOnSet(perProject, K) = SumFunctionOnSet(f, DOMAIN rows)
      BY <2>2, <2>3, <2>5, <2>6, <2>7, SumByParts
    <2> QED
      BY <2>8 DEF SumFunction, Spent, f, K
  <1>5. AccountsFor(Spent(DOMAIN rows), DOMAIN rows)
    BY BillsCoverTheRows
  <1>6. \A p \in Projects : /\ ForProject(p) # {} => Spent(OfProject(p)) > 0
                            /\ ForProject(p) = {} => Spent(OfProject(p)) = 0
    <2> TAKE p \in Projects
    <2>1. OfProject(p) \in SUBSET DOMAIN rows /\ ForProject(p) \in SUBSET ProjectDayCosts
      OBVIOUS
    <2> QED
      BY <1>2, <2>1, LinesOfThePage
  <1>7. \A d \in Days : /\ ForDay(d) # {} => Spent(OfDay(d)) > 0
                        /\ ForDay(d) = {} => Spent(OfDay(d)) = 0
    <2> TAKE d \in Days
    <2>1. OfDay(d) \in SUBSET DOMAIN rows /\ ForDay(d) \in SUBSET ProjectDayCosts
      OBVIOUS
    <2> QED
      BY <1>3, <2>1, LinesOfThePage
  <1>8. DOMAIN perProject \subseteq Projects /\ DOMAIN ByDay(costs) \subseteq Days
    <2>1. \A c \in costs : c.project \in Projects /\ c.day \in Days
      BY GroupsOfTheQuery
    <2> QED
      BY <2>1 DEF ByProject, ByDay
  <1> HIDE DEF costs, ForProject, ForDay, perProject
  <1>9. AccountsFor(Summary.total, DOMAIN rows)
    BY <1>1, <1>4, <1>5
  <1>10. ASSUME NEW p \in Projects
         PROVE  AccountsFor(Shown(Summary.byProject, p), OfProject(p))
    BY <1>1, <1>2, <1>6 DEF Shown
  <1>11. ASSUME NEW d \in Days
         PROVE  AccountsFor(Shown(Summary.byDay, d), OfDay(d))
    BY <1>1, <1>3, <1>7 DEF Shown
  <1>12. \A p \in DOMAIN Summary.byProject : Summary.byProject[p] > 0
    <2> SUFFICES ASSUME NEW p \in DOMAIN perProject
                 PROVE  perProject[p] > 0
      BY <1>1
    <2>1. p \in Projects
      BY <1>8
    <2>2. perProject[p] = Spent(OfProject(p)) /\ ForProject(p) # {}
      BY <1>2, <2>1
    <2> QED
      BY <1>6, <2>1, <2>2
  <1>13. \A d \in DOMAIN Summary.byDay : Summary.byDay[d] > 0
    <2> SUFFICES ASSUME NEW d \in DOMAIN ByDay(costs)
                 PROVE  ByDay(costs)[d] > 0
      BY <1>1
    <2>1. d \in Days
      BY <1>8
    <2>2. ByDay(costs)[d] = Spent(OfDay(d)) /\ ForDay(d) # {}
      BY <1>3, <2>1
    <2> QED
      BY <1>7, <2>1, <2>2
  <1> QED
    BY <1>9, <1>10, <1>11, <1>12, <1>13 DEF PageAccountsForBills

(* The page against the bills, for any number of jobs: no line shows more than was billed
   for its jobs, and a line whose jobs were called once and came out ok shows all of it. *)
THEOREM PageHolds == Spec => []PageAccountsForBills
  BY PageOfTheLedger, LedgerInvHolds, PTL

=============================================================================
