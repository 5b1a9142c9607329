---------------------------- MODULE RateLimiter ----------------------------
(***************************************************************************)
(* The throttle of one provider (ratelimit.py) as the worker drives it     *)
(* (processing._call_with_retry): reserve a request and the estimated      *)
(* tokens, sleep out the wait, start the call.  One handler runs at a      *)
(* time, so nothing reserves while another reservation waits.              *)
(*                                                                         *)
(* Amounts are seconds of refill: a bucket of `rate` units a second holds  *)
(* credit tokens/rate, so it refills one second a second, its capacity is  *)
(* the minute both buckets are built with (limit / (limit / 60)), and the  *)
(* wait for a deficit is the deficit.  The limiter lives in the process: a *)
(* restart builds a full one.                                              *)
(***************************************************************************)
EXTENDS Integers, Sequences

CONSTANTS
  Window,      \* a minute: the limit per minute is Window seconds of refill
  Costs,       \* what one attempt may cost in each bucket
  MaxNow,      \* bound: the last instant looked at
  MaxCalls,    \* bound: provider calls in one behaviour
  MaxGranted   \* bound: Window times the processes in one behaviour

Dims == {"requests", "tokens"}

ASSUME WindowIsPositive == Window \in Nat \ {0}
ASSUME CostsAssumption == Costs \subseteq [Dims -> Nat]
ASSUME LimiterBounds == MaxNow \in Nat /\ MaxCalls \in Nat /\ MaxGranted \in Nat

VARIABLES
  now,         \* the clock
  phase,       \* where the worker is
  credit,      \* TokenBucket._tokens of each bucket
  updated,     \* TokenBucket._updated, the same in both
  cost,        \* what the attempt under way reserved
  due,         \* when its sleep ends
  calls,       \* history: the provider calls started, each with the totals then
  total,       \* history: cost of all the calls started
  granted      \* history: credit the limiters built so far started with

vars == <<now, phase, credit, updated, cost, due, calls, total, granted>>

Larger(a, b)  == IF a >= b THEN a ELSE b
Smaller(a, b) == IF a <= b THEN a ELSE b

Nothing == [d \in Dims |-> 0]

Call == [at : Nat, total : [Dims -> Nat], granted : Nat]

LimiterTypeOK ==
  /\ now \in Nat /\ updated \in Nat /\ due \in Nat /\ granted \in Nat
  /\ phase \in {"down", "idle", "waiting", "inflight"}
  /\ credit \in [Dims -> Int] /\ \A d \in Dims : credit[d] <= Window
  /\ cost \in [Dims -> Nat] /\ total \in [Dims -> Nat]
  /\ calls \in Seq(Call)

Init ==
  /\ now = 0 /\ phase = "down"
  /\ credit = Nothing /\ updated = 0
  /\ cost = Nothing /\ due = 0
  /\ calls = <<>> /\ total = Nothing /\ granted = 0

-----------------------------------------------------------------------------

\* A process starts: run_worker() builds the limiter, both buckets full.
Boot ==
  /\ phase = "down" /\ granted < MaxGranted
  /\ phase' = "idle"
  /\ credit' = [d \in Dims |-> Window] /\ updated' = now
  /\ granted' = granted + Window
  /\ UNCHANGED <<now, cost, due, calls, total>>

\* Elapsed time, clamped at zero, refills up to the capacity.
Refilled(d) == Smaller(Window, credit[d] + Larger(0, now - updated))

\* The seconds until a balance is out of deficit.
WaitFor(balance) == Larger(0, -balance)

\* Faulty variant: a refill that forgets the capacity.
ReserveUncapped(c) ==
  /\ phase = "idle" /\ Len(calls) < MaxCalls
  /\ phase' = "waiting" /\ cost' = c
  /\ credit' = [d \in Dims |-> credit[d] + Larger(0, now - updated) - c[d]]
  /\ updated' = Larger(updated, now)
  /\ due' = now + Larger(WaitFor(credit'["requests"]), WaitFor(credit'["tokens"]))
  /\ UNCHANGED <<now, calls, total, granted>>

\* acquire(): both buckets are charged at once, and the longer wait counts.
Reserve(c) ==
  /\ phase = "idle" /\ Len(calls) < MaxCalls
  /\ phase' = "waiting" /\ cost' = c
  /\ credit' = [d \in Dims |-> Refilled(d) - c[d]]
  /\ updated' = Larger(updated, now)
  /\ due' = now + Larger(WaitFor(credit'["requests"]), WaitFor(credit'["tokens"]))
  /\ UNCHANGED <<now, calls, total, granted>>

\* Faulty variant: the wait that reserve() returned is not slept out.
StartCallUnslept ==
  /\ phase = "waiting"
  /\ phase' = "inflight"
  /\ total' = [d \in Dims |-> total[d] + cost[d]]
  /\ calls' = Append(calls, [at |-> now, total |-> total', granted |-> granted])
  /\ UNCHANGED <<now, credit, updated, cost, due, granted>>

\* The sleep is over, possibly later than asked, and the provider call starts.
StartCall ==
  /\ phase = "waiting" /\ now >= due
  /\ phase' = "inflight"
  /\ total' = [d \in Dims |-> total[d] + cost[d]]
  /\ calls' = Append(calls, [at |-> now, total |-> total', granted |-> granted])
  /\ UNCHANGED <<now, credit, updated, cost, due, granted>>

\* The sleep is over and the job's deadline has passed: what was reserved is lost.
Expire ==
  /\ phase = "waiting" /\ now >= due
  /\ phase' = "idle"
  /\ UNCHANGED <<now, credit, updated, cost, due, calls, total, granted>>

\* The call answered, failed or timed out; the next attempt or job may reserve.
EndCall ==
  /\ phase = "inflight"
  /\ phase' = "idle"
  /\ UNCHANGED <<now, credit, updated, cost, due, calls, total, granted>>

Crash ==
  /\ phase # "down"
  /\ phase' = "down"
  /\ UNCHANGED <<now, credit, updated, cost, due, calls, total, granted>>

Tick ==
  /\ now < MaxNow
  /\ now' = now + 1
  /\ UNCHANGED <<phase, credit, updated, cost, due, calls, total, granted>>

Next ==
  \/ Boot \/ StartCall \/ Expire \/ EndCall \/ Crash \/ Tick
  \/ \E c \in Costs : Reserve(c)

Spec == Init /\ [][Next]_vars

-----------------------------------------------------------------------------

(* The guarantee a limiter of this kind gives: after any call, however late the sleeps
   end and however many reservations expire unused, the calls up to any later one cost
   at most what the time between them refills, one full bucket, and one more for each
   restart of the process in between; and that in each dimension. *)
Envelope ==
  \A i, j \in 1 .. Len(calls) : i < j =>
    \A d \in Dims :
      calls[j].total[d] - calls[i].total[d]
        <= Window + calls[j].granted - calls[i].granted + calls[j].at - calls[i].at

(* A caller never waits for what an earlier one left unpaid: the worker is serial, so
   the wait is at most what the attempt itself costs in its dearer dimension. *)
WaitIsOwnCost ==
  phase = "waiting" => due - updated <= Larger(cost["requests"], cost["tokens"])

-----------------------------------------------------------------------------
(* The inductive invariant behind Envelope and WaitIsOwnCost.              *)

\* What the calls after i may have cost by now, were the bucket empty at the end.
Allowed(i, t) == Window + granted - calls[i].granted + t - calls[i].at

\* Reserved and not yet either spent in a call or lost.
Held(d) == IF phase = "waiting" THEN cost[d] ELSE 0

ClockInv ==
  /\ updated <= now
  /\ \A i \in 1 .. Len(calls) : calls[i].at <= now

\* The sleep covers each deficit; nobody else starts from a debt.
DebtInv ==
  \A d \in Dims :
    /\ phase = "waiting" => due >= updated - credit[d]
    /\ phase \in {"idle", "inflight"} => credit[d] + now - updated >= 0

\* A call later than the last reservation is the last one; from any other, what was
\* spent and reserved since, with the credit left, is within the allowance.
BudgetInv ==
  \A i \in 1 .. Len(calls) : \A d \in Dims :
    /\ total[d] - calls[i].total[d] <= Allowed(i, now)
    /\ phase # "down" =>
         IF updated >= calls[i].at
         THEN total[d] - calls[i].total[d] + Held(d) + credit[d] <= Allowed(i, updated)
         ELSE phase # "waiting" /\ total[d] = calls[i].total[d] /\ granted = calls[i].granted

LimiterInv ==
  LimiterTypeOK /\ ClockInv /\ DebtInv /\ BudgetInv /\ Envelope /\ WaitIsOwnCost

=============================================================================
