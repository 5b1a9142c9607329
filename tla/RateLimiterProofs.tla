------------------------- MODULE RateLimiterProofs -------------------------
(***************************************************************************)
(* LimiterInv is inductive, so the throttle keeps its envelope for every   *)
(* limit, every cost and any number of calls and restarts.  The argument:  *)
(* a reservation moves cost from the credit to what is held, time moves it *)
(* back up to the capacity, and a call starts only when the sleep has      *)
(* repaid the deficit, so credit below zero never outlives the wait.       *)
(***************************************************************************)
EXTENDS RateLimiter, TLAPS

(* The clamped refill never takes from a balance, wherever the clock went, and never
   lifts it over the capacity: TokenBucket.reserve's promise about a backward clock. *)
LEMMA RefillNeverDrains ==
  ASSUME LimiterTypeOK, NEW d \in Dims
  PROVE  /\ Refilled(d) \in Int
         /\ credit[d] <= Refilled(d) /\ Refilled(d) <= Window
         /\ updated <= now => Refilled(d) <= credit[d] + now - updated
         /\ updated <= now /\ credit[d] + now - updated >= 0 => Refilled(d) >= 0
  BY WindowIsPositive DEF LimiterTypeOK, Refilled, Smaller, Larger

(* The types of the history of one call. *)
LEMMA CallTypes ==
  ASSUME LimiterTypeOK, NEW i \in 1 .. Len(calls), NEW d \in Dims
  PROVE  /\ calls[i].at \in Nat /\ calls[i].granted \in Nat /\ calls[i].total[d] \in Nat
         /\ total[d] \in Nat /\ cost[d] \in Nat /\ credit[d] \in Int /\ credit[d] <= Window
         /\ now \in Nat /\ updated \in Nat /\ granted \in Nat /\ due \in Nat
         /\ Window \in Nat
  <1>1. calls[i] \in Call
    BY DEF LimiterTypeOK
  <1> QED
    BY <1>1, WindowIsPositive DEF LimiterTypeOK, Call

(* The initial state has no call, no debt and nothing reserved. *)
LEMMA InitLimiterInv == Init => LimiterInv
  <1> SUFFICES ASSUME Init PROVE LimiterInv
    OBVIOUS
  <1>1. Len(calls) = 0 /\ calls \in Seq(Call)
    BY DEF Init
  <1> QED
    BY <1>1, WindowIsPositive DEF Init, LimiterInv, LimiterTypeOK, ClockInv, DebtInv,
       BudgetInv, Envelope, WaitIsOwnCost, Nothing

(* A step that leaves the history alone keeps Envelope. *)
LEMMA EnvelopeFrame ==
  ASSUME Envelope, calls' = calls
  PROVE  Envelope'
  BY DEF Envelope

(* A new process starts with full buckets: the allowance grows by as much. *)
LEMMA BootKeepsInv ==
  ASSUME LimiterInv, Boot
  PROVE  LimiterInv'
  <1> USE DEF LimiterInv
  <1>1. LimiterTypeOK'
    BY WindowIsPositive DEF LimiterTypeOK, Boot
  <1>2. ClockInv'
    BY DEF ClockInv, Boot, LimiterTypeOK
  <1>3. DebtInv'
    BY WindowIsPositive DEF DebtInv, Boot, LimiterTypeOK
  <1>4. ASSUME NEW i, i \in 1 .. Len(calls), NEW d, d \in Dims
        PROVE  /\ total[d] - calls[i].total[d]
                    <= Window + granted' - calls[i].granted + now - calls[i].at
               /\ updated' >= calls[i].at
               /\ total[d] - calls[i].total[d] + 0 + credit'[d]
                    <= Window + granted' - calls[i].granted + updated' - calls[i].at
    <2>1. /\ total[d] - calls[i].total[d] <= Window + granted - calls[i].granted + now - calls[i].at
          /\ calls[i].at <= now
      BY <1>4 DEF BudgetInv, Allowed, ClockInv
    <2>2. granted' = granted + Window /\ updated' = now /\ credit'[d] = Window
      BY <1>4 DEF Boot
    <2>3. /\ calls[i].at \in Nat /\ calls[i].granted \in Nat /\ calls[i].total[d] \in Nat
          /\ total[d] \in Nat /\ granted \in Nat /\ Window \in Nat /\ now \in Nat
      BY <1>4, CallTypes
    <2> HIDE DEF LimiterInv
    <2> QED
      BY <2>1, <2>2, <2>3
  <1>5. Envelope' /\ WaitIsOwnCost'
    BY EnvelopeFrame DEF Boot, WaitIsOwnCost
  <1>6. BudgetInv'
    BY <1>4 DEF BudgetInv, Boot, Allowed, Held
  <1> QED
    BY <1>1, <1>2, <1>3, <1>5, <1>6

(* What a reservation does to an allowance: the refill adds no more than the time that
   passed or the bucket holds, and the charge moves from the balance to what is held. *)
LEMMA RefillWithinAllowance ==
  ASSUME NEW window \in Nat, NEW spent \in Nat, NEW then \in Nat, NEW given \in Nat,
         NEW before \in Nat, NEW at \in Nat, NEW t \in Nat, NEW u \in Nat,
         NEW left \in Int, NEW filled \in Int, NEW charge \in Nat,
         spent - then <= window + given - before + t - at,
         at <= t,
         IF u >= at
         THEN spent - then + 0 + left <= window + given - before + u - at
         ELSE spent = then /\ given = before,
         filled <= window, filled <= left + t - u
  PROVE  spent - then + charge + (filled - charge) <= window + given - before + t - at
  OBVIOUS

(* A reservation takes from the refilled credit exactly what it holds. *)
LEMMA ReserveKeepsInv ==
  ASSUME LimiterInv, NEW c \in Costs, Reserve(c)
  PROVE  LimiterInv'
  <1> USE DEF LimiterInv
  <1>1. c \in [Dims -> Nat] /\ now \in Nat /\ updated \in Nat /\ updated <= now
    BY CostsAssumption DEF LimiterTypeOK, ClockInv
  <1>2. \A d \in Dims : /\ credit'[d] = Refilled(d) - c[d]
                        /\ Refilled(d) \in Int /\ c[d] \in Nat
                        /\ Refilled(d) <= Window /\ credit'[d] <= Window
                        /\ 0 <= Refilled(d)
    BY <1>1, RefillNeverDrains, WindowIsPositive DEF Reserve, DebtInv
  <1>3. /\ updated' = now /\ phase' = "waiting" /\ cost' = c
        /\ UNCHANGED <<now, calls, total, granted>>
    BY <1>1 DEF Reserve, Larger
  <1>4. /\ due' \in Nat
        /\ \A d \in Dims : due' >= now - credit'[d]
        /\ due' - now <= Larger(c["requests"], c["tokens"])
    <2>1. due' = now + Larger(WaitFor(credit'["requests"]), WaitFor(credit'["tokens"]))
      BY DEF Reserve
    <2>2. "requests" \in Dims /\ "tokens" \in Dims
      BY DEF Dims
    <2> HIDE DEF LimiterInv
    <2> QED
      BY <2>1, <2>2, <1>1, <1>2 DEF Larger, WaitFor, Dims
  <1>5. LimiterTypeOK'
    BY <1>1, <1>2, <1>3, <1>4 DEF LimiterTypeOK, Reserve
  <1>6. ClockInv' /\ DebtInv' /\ WaitIsOwnCost'
    BY <1>1, <1>3, <1>4 DEF ClockInv, DebtInv, WaitIsOwnCost
  <1>7. ASSUME NEW i, i \in 1 .. Len(calls), NEW d, d \in Dims
        PROVE  /\ total[d] - calls[i].total[d]
                    <= Window + granted - calls[i].granted + now - calls[i].at
               /\ now >= calls[i].at
               /\ total[d] - calls[i].total[d] + c[d] + credit'[d]
                    <= Window + granted - calls[i].granted + now - calls[i].at
    <2>1. /\ total[d] - calls[i].total[d] <= Window + granted - calls[i].granted + now - calls[i].at
          /\ calls[i].at <= now
          /\ IF updated >= calls[i].at
             THEN total[d] - calls[i].total[d] + 0 + credit[d]
                    <= Window + granted - calls[i].granted + updated - calls[i].at
             ELSE total[d] = calls[i].total[d] /\ granted = calls[i].granted
      BY <1>7 DEF BudgetInv, Allowed, Held, Reserve, ClockInv
    <2>2. /\ credit'[d] = Refilled(d) - c[d] /\ Refilled(d) \in Int /\ c[d] \in Nat
          /\ Refilled(d) <= Window /\ Refilled(d) <= credit[d] + now - updated
      BY <1>1, <1>2, <1>7, RefillNeverDrains
    <2>3. /\ calls[i].at \in Nat /\ calls[i].granted \in Nat /\ calls[i].total[d] \in Nat
          /\ total[d] \in Nat /\ credit[d] \in Int /\ granted \in Nat /\ Window \in Nat
          /\ now \in Nat /\ updated \in Nat
      BY <1>7, CallTypes
    <2> HIDE DEF LimiterInv
    <2>4. total[d] - calls[i].total[d] + c[d] + (Refilled(d) - c[d])
            <= Window + granted - calls[i].granted + now - calls[i].at
      BY <2>1, <2>2, <2>3, RefillWithinAllowance
    <2> QED
      BY <2>1, <2>2, <2>4
  <1>8. Envelope'
    BY <1>3, EnvelopeFrame
  <1>9. BudgetInv'
    BY <1>3, <1>7 DEF BudgetInv, Allowed, Held
  <1> QED
    BY <1>5, <1>6, <1>8, <1>9

(* A call starts when the deficit is repaid: what was held is spent, and the history
   grows by a call that is within the allowance of every earlier one. *)
LEMMA StartCallKeepsInv ==
  ASSUME LimiterInv, StartCall
  PROVE  LimiterInv'
  <1> USE DEF LimiterInv
  <1> DEFINE n == Len(calls)
             new == [at |-> now, total |-> total', granted |-> granted]
  <1>1. /\ phase = "waiting" /\ now >= due /\ phase' = "inflight"
        /\ total' = [d \in Dims |-> total[d] + cost[d]]
        /\ calls' = Append(calls, new)
        /\ UNCHANGED <<now, credit, updated, cost, due, granted>>
    BY DEF StartCall
  <1>2. total' \in [Dims -> Nat] /\ new \in Call
    BY <1>1 DEF LimiterTypeOK, Call
  <1>3. /\ n \in Nat /\ Len(calls') = n + 1 /\ calls'[n + 1] = new
        /\ \A i \in 1 .. n : calls'[i] = calls[i]
        /\ calls' \in Seq(Call)
    BY <1>1, <1>2 DEF LimiterTypeOK
  <1> HIDE DEF new, n
  <1>4. LimiterTypeOK'
    BY <1>1, <1>2, <1>3 DEF LimiterTypeOK
  <1>5. new.at = now /\ new.granted = granted /\ new.total = total'
    BY DEF new
  <1>6. now \in Nat /\ updated \in Nat /\ updated <= now /\ granted \in Nat /\ Window \in Nat
    BY WindowIsPositive DEF LimiterTypeOK, ClockInv
  <1>7. ASSUME NEW d, d \in Dims
        PROVE  /\ credit[d] \in Int /\ credit[d] <= Window
               /\ credit[d] + now - updated >= 0
               /\ total'[d] \in Nat
    BY <1>1, <1>2, <1>7 DEF LimiterTypeOK, DebtInv, ClockInv
  <1>8. ASSUME NEW i, i \in 1 .. n, NEW d, d \in Dims
        PROVE  /\ total'[d] - calls[i].total[d]
                    <= Window + granted - calls[i].granted + now - calls[i].at
               /\ updated >= calls[i].at
               /\ total'[d] - calls[i].total[d] + 0 + credit[d]
                    <= Window + granted - calls[i].granted + updated - calls[i].at
    <2>1. /\ updated >= calls[i].at
          /\ total[d] - calls[i].total[d] + cost[d] + credit[d]
               <= Window + granted - calls[i].granted + updated - calls[i].at
      BY <1>1, <1>8 DEF BudgetInv, Allowed, Held, n
    <2>2. total'[d] = total[d] + cost[d]
      BY <1>1, <1>8
    <2>3. /\ calls[i].at \in Nat /\ calls[i].granted \in Nat /\ calls[i].total[d] \in Nat
          /\ total[d] \in Nat /\ cost[d] \in Nat /\ credit[d] \in Int
          /\ credit[d] + now - updated >= 0
      BY <1>7, <1>8, CallTypes DEF n
    <2> HIDE DEF LimiterInv
    <2>4. total'[d] - calls[i].total[d] + 0 + credit[d]
            <= Window + granted - calls[i].granted + updated - calls[i].at
      BY <2>1, <2>2, <2>3, <1>6
    <2>5. total'[d] - calls[i].total[d]
            <= Window + granted - calls[i].granted + now - calls[i].at
      BY <2>1, <2>2, <2>3, <1>6
    <2> QED
      BY <2>1, <2>4, <2>5
  <1>9. ClockInv' /\ DebtInv' /\ WaitIsOwnCost'
    BY <1>1, <1>3, <1>5, <1>6, <1>7 DEF ClockInv, DebtInv, WaitIsOwnCost, n
  <1>10. Envelope'
    <2> SUFFICES ASSUME NEW i \in 1 .. n + 1, NEW j \in 1 .. n + 1, i < j, NEW d \in Dims
                 PROVE  calls'[j].total[d] - calls'[i].total[d]
                          <= Window + calls'[j].granted - calls'[i].granted
                             + calls'[j].at - calls'[i].at
      BY <1>3 DEF Envelope
    <2>1. CASE j = n + 1
      <3>1. i \in 1 .. n
        BY <2>1, <1>3
      <3> QED
        BY <2>1, <3>1, <1>3, <1>5, <1>8
    <2>2. CASE j # n + 1
      <3>1. i \in 1 .. n /\ j \in 1 .. n
        BY <2>2, <1>3
      <3> QED
        BY <3>1, <1>3 DEF Envelope, n
    <2> QED
      BY <2>1, <2>2
  <1>11. BudgetInv'
    <2>1. ASSUME NEW i, i \in 1 .. n, NEW d, d \in Dims
          PROVE  /\ total'[d] - calls'[i].total[d]
                      <= Window + granted - calls'[i].granted + now - calls'[i].at
                 /\ updated >= calls'[i].at
                 /\ total'[d] - calls'[i].total[d] + 0 + credit[d]
                      <= Window + granted - calls'[i].granted + updated - calls'[i].at
      BY <2>1, <1>3, <1>8
    <2>2. ASSUME NEW d, d \in Dims
          PROVE  /\ total'[d] - total'[d] <= Window + granted - granted + now - now
                 /\ updated >= now =>
                      total'[d] - total'[d] + 0 + credit[d]
                        <= Window + granted - granted + updated - now
      BY <2>2, <1>6, <1>7
    <2>3. \A i \in 1 .. n + 1 : i \in 1 .. n \/ i = n + 1
      BY <1>3
    <2> QED
      BY <2>1, <2>2, <2>3, <1>1, <1>3, <1>5 DEF BudgetInv, Allowed, Held
  <1> QED
    BY <1>4, <1>9, <1>10, <1>11

(* What only ends a reservation, a call or the process: nothing is charged. *)
LEMMA EndingKeepsInv ==
  ASSUME LimiterInv, Expire \/ EndCall \/ Crash
  PROVE  LimiterInv'
  <1> USE DEF LimiterInv
  <1>1. /\ phase' \in {"down", "idle"}
        /\ phase' = "idle" => phase \in {"waiting", "inflight"}
        /\ phase = "waiting" /\ phase' = "idle" => now >= due
        /\ phase # "down"
        /\ UNCHANGED <<now, credit, updated, cost, due, calls, total, granted>>
    BY DEF Expire, EndCall, Crash, LimiterTypeOK
  <1>2. LimiterTypeOK' /\ ClockInv' /\ Envelope' /\ WaitIsOwnCost'
    BY <1>1, EnvelopeFrame DEF LimiterTypeOK, ClockInv, WaitIsOwnCost
  <1>3. DebtInv'
    BY <1>1 DEF LimiterTypeOK, DebtInv
  <1>4. ASSUME NEW i, i \in 1 .. Len(calls), NEW d, d \in Dims
        PROVE  /\ total[d] - calls[i].total[d] <= Allowed(i, now)
               /\ IF updated >= calls[i].at
                  THEN total[d] - calls[i].total[d] + 0 + credit[d] <= Allowed(i, updated)
                  ELSE total[d] = calls[i].total[d] /\ granted = calls[i].granted
    <2>1. /\ total[d] - calls[i].total[d] <= Allowed(i, now)
          /\ IF updated >= calls[i].at
             THEN total[d] - calls[i].total[d] + Held(d) + credit[d] <= Allowed(i, updated)
             ELSE total[d] = calls[i].total[d] /\ granted = calls[i].granted
      BY <1>1, <1>4 DEF BudgetInv
    <2>2. /\ calls[i].at \in Nat /\ calls[i].granted \in Nat /\ calls[i].total[d] \in Nat
          /\ total[d] \in Nat /\ cost[d] \in Nat /\ credit[d] \in Int
          /\ granted \in Nat /\ Window \in Nat /\ updated \in Nat
      BY <1>4, CallTypes
    <2>3. Held(d) \in Nat /\ Allowed(i, updated) \in Int
      BY <2>2 DEF Held, Allowed
    <2> HIDE DEF LimiterInv
    <2> QED
      BY <2>1, <2>2, <2>3
  <1>5. BudgetInv'
    BY <1>1, <1>4 DEF BudgetInv, Allowed, Held
  <1> QED
    BY <1>2, <1>3, <1>5

(* Time passing repays debts and widens the allowances. *)
LEMMA TickKeepsInv ==
  ASSUME LimiterInv, Tick
  PROVE  LimiterInv'
  <1> USE DEF LimiterInv
  <1>1. /\ now' = now + 1
        /\ UNCHANGED <<phase, credit, updated, cost, due, calls, total, granted>>
    BY DEF Tick
  <1>2. LimiterTypeOK' /\ Envelope' /\ WaitIsOwnCost'
    BY <1>1, EnvelopeFrame DEF LimiterTypeOK, WaitIsOwnCost
  <1>3. ClockInv'
    <2>1. ASSUME NEW i, i \in 1 .. Len(calls)
          PROVE  calls[i].at <= now + 1
      <3>1. calls[i].at \in Nat /\ calls[i].at <= now /\ now \in Nat
        <4>1. calls[i] \in Call
          BY <2>1 DEF LimiterTypeOK
        <4> QED
          BY <4>1, <2>1 DEF LimiterTypeOK, Call, ClockInv
      <3> HIDE DEF LimiterInv
      <3> QED
        BY <3>1
    <2>2. updated <= now + 1
      BY DEF LimiterTypeOK, ClockInv
    <2> QED
      BY <2>1, <2>2, <1>1 DEF ClockInv
  <1>4. DebtInv'
    BY <1>1 DEF LimiterTypeOK, DebtInv
  <1>5. ASSUME NEW i, i \in 1 .. Len(calls), NEW d, d \in Dims
        PROVE  total[d] - calls[i].total[d]
                 <= Window + granted - calls[i].granted + (now + 1) - calls[i].at
    <2>1. total[d] - calls[i].total[d] <= Window + granted - calls[i].granted + now - calls[i].at
      BY <1>5 DEF BudgetInv, Allowed
    <2>2. /\ calls[i].at \in Nat /\ calls[i].granted \in Nat /\ calls[i].total[d] \in Nat
          /\ total[d] \in Nat /\ granted \in Nat /\ Window \in Nat /\ now \in Nat
      BY <1>5, CallTypes
    <2> HIDE DEF LimiterInv
    <2> QED
      BY <2>1, <2>2
  <1>6. BudgetInv'
    BY <1>1, <1>5 DEF BudgetInv, Allowed, Held
  <1> QED
    BY <1>2, <1>3, <1>4, <1>6

(* Stuttering changes nothing. *)
LEMMA LimiterStutter ==
  ASSUME LimiterInv, UNCHANGED vars
  PROVE  LimiterInv'
  BY DEF LimiterInv, vars, LimiterTypeOK, ClockInv, DebtInv, BudgetInv, Envelope,
     WaitIsOwnCost, Allowed, Held

-----------------------------------------------------------------------------

(* The invariant holds in every state the throttle can reach. *)
THEOREM LimiterInvHolds == Spec => []LimiterInv
  <1>1. LimiterInv /\ [Next]_vars => LimiterInv'
    <2> SUFFICES ASSUME LimiterInv, [Next]_vars PROVE LimiterInv'
      OBVIOUS
    <2>1. CASE Boot
      BY <2>1, BootKeepsInv
    <2>2. CASE StartCall
      BY <2>2, StartCallKeepsInv
    <2>3. CASE Expire \/ EndCall \/ Crash
      BY <2>3, EndingKeepsInv
    <2>4. CASE Tick
      BY <2>4, TickKeepsInv
    <2>5. ASSUME NEW c \in Costs, Reserve(c) PROVE LimiterInv'
      BY <2>5, ReserveKeepsInv
    <2>6. CASE UNCHANGED vars
      BY <2>6, LimiterStutter
    <2> QED
      BY <2>1, <2>2, <2>3, <2>4, <2>5, <2>6 DEF Next
  <1> QED
    BY <1>1, InitLimiterInv, PTL DEF Spec

(* The types of the throttle: no bucket is ever above its capacity. *)
THEOREM LimiterTypes == Spec => []LimiterTypeOK
  <1>1. LimiterInv => LimiterTypeOK
    BY DEF LimiterInv
  <1> QED
    BY <1>1, LimiterInvHolds, PTL

(* ProviderLimiter.reserve with RateLimiter.acquire: for every limit and every cost, the
   calls started between two moments never exceed a full bucket per process plus what
   the time between them refills, however late the sleeps end. *)
THEOREM EnvelopeHolds == Spec => []Envelope
  <1>1. LimiterInv => Envelope
    BY DEF LimiterInv
  <1> QED
    BY <1>1, LimiterInvHolds, PTL

(* RateLimiter.acquire under a serial worker: no wait is longer than the attempt's own
   cost, whatever was reserved before it and by whatever path it ended. *)
THEOREM WaitIsBounded == Spec => []WaitIsOwnCost
  <1>1. LimiterInv => WaitIsOwnCost
    BY DEF LimiterInv
  <1> QED
    BY <1>1, LimiterInvHolds, PTL

=============================================================================
