----------------------------- MODULE RetryLoop -----------------------------
(***************************************************************************)
(* One job in _call_with_retry (processing.py) under a run policy          *)
(* (retry.py, config.py), through the adapter of its model and the buckets *)
(* of its provider, with a clock: what Worker leaves to chance there (how  *)
(* long the limiter, a call and a backoff take, what a provider answers)   *)
(* and what the published retry budget, the deadline and the parameters of *)
(* the job promise about it.                                               *)
(*                                                                         *)
(* Time is in ticks since the worker took the job, and ends when its       *)
(* Result is known: finalize and the callback come after.  Timers are      *)
(* prompt: a sleep and a timeout end when they are due.                    *)
(***************************************************************************)
EXTENDS Adapters, Settings

CONSTANTS
  Environments, \* the worker settings a host may have
  Submissions,  \* what producers may ask for
  SubmittedAt,  \* when, on this clock: negative, unless the producer's clock is ahead
  Statuses,     \* the HTTP statuses a provider error may carry
  TokenRate,    \* the tokens a tick refills
  RequestWait,  \* the ticks one request refills in
  Window,       \* the ticks of refill a full bucket holds
  Levels,       \* what the buckets may hold when the worker takes the job
  SdkResends    \* the requests an SDK client adds to a failed one on its own

ASSUME InputsAreTyped ==
  Environments \subseteq WorkerSettings /\ Submissions \subseteq Asked /\ SubmittedAt \subseteq Int
ASSUME StatusesAreNumbers == Statuses \subseteq Nat
ASSUME LevelsAreCredit ==
  Window \in Nat \ {0} /\ Levels \subseteq [{"requests", "tokens"} -> 0 .. Window]
ASSUME RatesAreNumbers == TokenRate \in Nat \ {0} /\ RequestWait \in Nat /\ SdkResends \in Nat

\* The run policies a worker can come up with, and the jobs a producer can submit.
Policies == {env \in Environments : WorkerPolicyParses(env)}
Jobs     == {a \in Submissions : JobValid(a)}

VARIABLES
  policy,      \* the run policy of the worker
  asked,       \* the job as its producer built it
  model,       \* the model it names
  priced,      \* whether cost.py has a price point for the day it was submitted
  deadline,    \* when the job the worker decoded expires
  now,         \* the clock
  phase,       \* where the job is
  due,         \* when the timer of the phase ends
  attempt,     \* 0-based
  credit,      \* what the buckets of the provider held when last reserved from
  updated,     \* when that was
  outcome,     \* the result, once the phase is "done"
  answer,      \* what the provider answered
  calls,       \* history: provider calls started, each with a reservation of its own
  resends,     \* history: requests the SDK client added to the call under way
  requests,    \* history: requests that reached the provider
  spent        \* history: time in calls and in backoff

given   == <<policy, asked, model, priced, deadline>>
buckets == <<credit, updated>>
counts  == <<calls, resends, requests>>
vars    == <<given, now, phase, due, attempt, buckets, outcome, answer, counts, spent>>

Phases   == {"attempt", "waiting", "inflight", "backoff", "done"}
Outcomes == {"none", "ok", "error", "expired", "raised"}

NoAnswer == [finish |-> "none", text |-> FALSE]

\* The job the worker runs.
job == Decoded(asked)

\* The arithmetic of its provider's limiter; the attempts of one job are all that uses it
\* meanwhile.
L == INSTANCE RateLimiter WITH
  Costs <- {}, MaxNow <- 0, MaxCalls <- 0, MaxGranted <- 0,
  cost <- [d \in {"requests", "tokens"} |-> 0], total <- 0, granted <- 0, calls <- <<>>

RetryTypeOK ==
  /\ policy \in Policies /\ asked \in Jobs /\ model \in Models /\ priced \in BOOLEAN
  /\ deadline \in Int \cup {Unset}
  /\ now \in Nat /\ due \in Nat /\ updated \in Nat
  /\ credit \in [L!Dims -> Int] /\ \A d \in L!Dims : credit[d] <= Window
  /\ phase \in Phases /\ outcome \in Outcomes
  /\ attempt \in 0 .. policy.attempts - 1
  /\ answer \in Answers(model) \cup {NoAnswer}
  /\ calls \in 0 .. policy.attempts /\ resends \in 0 .. SdkResends
  /\ requests \in Nat /\ spent \in Nat

\* The buckets hold no debt: whoever reserved before slept it out (RateLimiter!DebtInv).
Init ==
  /\ policy \in Policies /\ asked \in Jobs /\ model \in Models /\ priced \in BOOLEAN
  /\ credit \in Levels /\ updated = 0
  /\ \E at \in SubmittedAt : deadline = IF job.ttl = Unset THEN Unset ELSE at + job.ttl
  /\ now = 0 /\ phase = "attempt" /\ due = 0
  /\ attempt = 0 /\ outcome = "none" /\ answer = NoAnswer
  /\ calls = 0 /\ resends = 0 /\ requests = 0 /\ spent = 0

-----------------------------------------------------------------------------
(* retry.py                                                                *)

\* What a provider call may raise: a timeout or a lost connection, an error with a
\* status, or anything else.
Failures == [kind : {"timeout", "connection", "bug"}] \cup [kind : {"status"}, status : Statuses]

\* is_retryable()
IsRetryable(f) ==
  \/ f.kind \in {"timeout", "connection"}
  \/ f.kind = "status" /\ (f.status \in {408, 409, 429} \/ f.status >= 500)

PowerOfTwo[n \in Nat] == IF n = 0 THEN 1 ELSE 2 * PowerOfTwo[n - 1]

\* backoff_delay() before jitter, which only shortens it.
Ceiling(p, i) == LET grown == p.base * PowerOfTwo[i] IN IF grown <= p.max THEN grown ELSE p.max

\* The backoffs before the first retries, all added up.
Backoffs(p) ==
  LET total[n \in Nat] == IF n = 0 THEN 0 ELSE total[n - 1] + Ceiling(p, n - 1) IN total

\* Faulty variant: the backoffs summed over one retry less.
BudgetShort(p) ==
  p.attempts * p.timeout + (IF p.attempts > 1 THEN Backoffs(p)[p.attempts - 2] ELSE 0)

\* retry_budget_seconds(): every attempt burns its timeout, every retry its backoff.
RetryBudget(p) == p.attempts * p.timeout + Backoffs(p)[p.attempts - 1]

-----------------------------------------------------------------------------
(* estimate_tokens(), _call_with_retry()                                   *)

\* Four characters a token, and what the answer may be.
Estimate ==
  job.chars \div 4 + (IF job.max_tokens = Unset THEN policy.output ELSE job.max_tokens)

\* What one attempt reserves, in ticks of refill, rounded up.
Cost == [d \in L!Dims |-> IF d = "requests" THEN RequestWait
                          ELSE (Estimate + TokenRate - 1) \div TokenRate]

\* What an attempt costs in its dearer dimension.
OwnWait == L!Larger(Cost["requests"], Cost["tokens"])

\* Faulty variant: now > deadline.
ExpiredLate == deadline # Unset /\ now > deadline

\* is_expired()
Expired == deadline # Unset /\ now >= deadline

Return(result) == phase' = "done" /\ outcome' = result

\* reserve() left the buckets with this balance: the wait is for the larger deficit.
Reserved(balance) ==
  /\ credit' = balance /\ updated' = L!Larger(updated, now)
  /\ due' = now + L!Larger(L!WaitFor(balance["requests"]), L!WaitFor(balance["tokens"]))

\* Faulty variant: the buckets are charged and never refilled.
AcquireUnrefilled ==
  /\ phase = "attempt"
  /\ IF Expired
     THEN Return("expired") /\ UNCHANGED <<due, buckets>>
     ELSE /\ Reserved([d \in L!Dims |-> credit[d] - Cost[d]])
          /\ phase' = "waiting" /\ UNCHANGED outcome
  /\ UNCHANGED <<given, now, attempt, answer, counts, spent>>

\* The first deadline check, and the reservation and wait of acquire().
Acquire ==
  /\ phase = "attempt"
  /\ IF Expired
     THEN Return("expired") /\ UNCHANGED <<due, buckets>>
     ELSE /\ Reserved([d \in L!Dims |-> L!Refilled(d) - Cost[d]])
          /\ phase' = "waiting" /\ UNCHANGED outcome
  /\ UNCHANGED <<given, now, attempt, answer, counts, spent>>

\* The second deadline check; then the adapter refuses the parameters, which is not
\* retried, or sends the request under the timeout.
StartCall ==
  /\ phase = "waiting" /\ now = due
  /\ IF Expired
     THEN Return("expired") /\ UNCHANGED <<due, counts>>
     ELSE IF ~Takes(model, job)
     THEN Return("error") /\ UNCHANGED <<due, counts>>
     ELSE /\ phase' = "inflight" /\ due' = now + policy.timeout
          /\ calls' = calls + 1 /\ resends' = 0 /\ requests' = requests + 1
          /\ UNCHANGED outcome
  /\ UNCHANGED <<given, now, attempt, buckets, answer, spent>>

\* The SDK client, built with its defaults, repeats a request that failed in a way
\* IsRetryable would retry too, within the call and its timeout.
SdkResend ==
  /\ phase = "inflight" /\ now < due /\ resends < SdkResends
  /\ resends' = resends + 1 /\ requests' = requests + 1
  /\ UNCHANGED <<given, now, phase, due, attempt, buckets, outcome, answer, calls, spent>>

\* Faulty variant: an answer that was cut short is asked for again.
CallAnswersRetrying ==
  /\ phase = "inflight"
  /\ answer' \in Answers(model)
  /\ IF Complete(model, answer') THEN Return("ok") /\ UNCHANGED due
     ELSE IF attempt + 1 < policy.attempts
          THEN phase' = "backoff" /\ due' = now /\ UNCHANGED outcome
          ELSE Return("error") /\ UNCHANGED due
  /\ UNCHANGED <<given, now, attempt, buckets, counts, spent>>

\* The provider answered, and is paid: an answer that is cut short or carries no text is
\* an error, which is not retried; pricing a whole one raises out of the handler on a day
\* before the first price point.
CallAnswers ==
  /\ phase = "inflight"
  /\ answer' \in Answers(model)
  /\ Return(IF ~Complete(model, answer') THEN "error" ELSE IF priced THEN "ok" ELSE "raised")
  /\ UNCHANGED <<given, now, due, attempt, buckets, counts, spent>>

\* Faulty variant: attempt < max_attempts instead of attempt + 1 < max_attempts.
CallFailsOffByOne(f) ==
  /\ phase = "inflight"
  /\ f.kind = "timeout" => now = due
  /\ IF IsRetryable(f) /\ attempt < policy.attempts
     THEN /\ \E delay \in 0 .. Ceiling(policy, attempt) : due' = now + delay
          /\ phase' = "backoff" /\ UNCHANGED outcome
     ELSE Return("error") /\ UNCHANGED due
  /\ UNCHANGED <<given, now, attempt, buckets, answer, counts, spent>>

\* Faulty variant: the backoff is not capped.
CallFailsUncapped(f) ==
  /\ phase = "inflight"
  /\ f.kind = "timeout" => now = due
  /\ IF IsRetryable(f) /\ attempt + 1 < policy.attempts
     THEN /\ \E delay \in 0 .. policy.base * PowerOfTwo[attempt] : due' = now + delay
          /\ phase' = "backoff" /\ UNCHANGED outcome
     ELSE Return("error") /\ UNCHANGED due
  /\ UNCHANGED <<given, now, attempt, buckets, answer, counts, spent>>

\* The call raised, its own timeout at the latest.
CallFails(f) ==
  /\ phase = "inflight"
  /\ f.kind = "timeout" => now = due
  /\ IF IsRetryable(f) /\ attempt + 1 < policy.attempts
     THEN /\ \E delay \in 0 .. Ceiling(policy, attempt) : due' = now + delay
          /\ phase' = "backoff" /\ UNCHANGED outcome
     ELSE Return("error") /\ UNCHANGED due
  /\ UNCHANGED <<given, now, attempt, buckets, answer, counts, spent>>

BackoffEnds ==
  /\ phase = "backoff" /\ now = due
  /\ phase' = "attempt" /\ attempt' = attempt + 1
  /\ UNCHANGED <<given, now, due, buckets, outcome, answer, counts, spent>>

\* Time passes while the job sleeps or a call is under way, up to the timer.
Tick ==
  /\ phase \in {"waiting", "inflight", "backoff"} /\ now < due
  /\ now' = now + 1
  /\ spent' = IF phase = "waiting" THEN spent ELSE spent + 1
  /\ UNCHANGED <<given, phase, due, attempt, buckets, outcome, answer, counts>>

Next ==
  \/ Acquire \/ StartCall \/ SdkResend \/ CallAnswers \/ BackoffEnds \/ Tick
  \/ \E f \in Failures : CallFails(f)

Spec == Init /\ [][Next]_vars

-----------------------------------------------------------------------------

(* The retry budget the worker publishes bounds what a job spends in attempts and
   backoff, whatever fails when, and whatever the jitter draws. *)
SpentWithinBudget == spent <= RetryBudget(policy)

(* processing._call_with_retry: the Result of a job is known within the retry budget and,
   for each attempt, the refill of what that attempt itself reserves, whatever other jobs
   took from the buckets before it and whatever its own earlier attempts left there. *)
ResultInTime == now <= RetryBudget(policy) + policy.attempts * OwnWait

(* A job whose producer set a ttl_s is never being paid for a whole timeout or more after
   it: the deadline survives the way to the worker, and each call, on any attempt,
   started strictly before it. *)
NoTailBeyondTimeout ==
  phase = "inflight" /\ asked.ttl # Unset =>
    deadline # Unset /\ now < deadline + policy.timeout

(* schema.JobParams, openai.py: what a producer asked of the model either reaches the
   provider as it was asked or the job fails before any call; only a temperature that is
   not finite is lost, on the way to the worker. *)
HonouredOrRefused ==
  calls > 0 =>
    LET sent == Request(model, job) IN
    /\ sent.max_tokens = asked.max_tokens /\ sent.format = asked.format
    /\ sent.temperature = asked.temperature \/ asked.temperature = Infinite

(* An answer is paid for once: no call follows it on any attempt, and the job is "ok"
   only with a whole answer of its own model that carries a text. *)
AnswerIsFinal ==
  /\ answer # NoAnswer => phase = "done" /\ outcome \in {"ok", "error", "raised"}
  /\ outcome = "ok" => answer.text /\ answer.finish \in {"stop", "end_turn"}

(* processing._expired_result: a job that expires is dropped unrun rather than billed,
   so no provider call was started for it. *)
ExpiredIsUnrun == outcome = "expired" => calls = 0

(* processing._call_with_retry: budget is re-reserved before every attempt because a
   retry is another real request, so no request goes out without a reservation. *)
RequestsAreReserved == requests <= calls

=============================================================================
