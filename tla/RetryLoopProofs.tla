-------------------------- MODULE RetryLoopProofs --------------------------
(***************************************************************************)
(* Proofs about RetryLoop: the types, which bound the number of provider   *)
(* calls of a job, what a deadline, the parameters and an answer promise,  *)
(* the retry budget and when a Result is known, for every run policy,      *)
(* every job and whatever the buckets hold when it is taken.               *)
(***************************************************************************)
EXTENDS RetryInWorker, Recurrences, TLAPS

\* Each attempt starts one call at most, a retry is only begun when one is left, and what
\* decides the outcome ends the job.
AttemptInv ==
  /\ phase # "done" => outcome = "none" /\ answer = NoAnswer
  /\ phase \in {"attempt", "waiting"} => calls <= attempt
  /\ phase \in {"inflight", "backoff"} => calls <= attempt + 1
  /\ phase = "backoff" => attempt + 1 < policy.attempts

\* A call ends by its timer, and the timer was set before the deadline.
TimerInv ==
  phase = "inflight" =>
    now <= due /\ (deadline # Unset => due < deadline + policy.timeout)

\* The deadline is the one asked for; a call was only made with parameters the model takes.
RequestInv ==
  /\ asked.ttl # Unset => deadline # Unset
  /\ calls > 0 => Takes(model, job)

RetryInv == RetryTypeOK /\ AttemptInv /\ TimerInv /\ RequestInv /\ AnswerIsFinal

(* parse_worker_policy: a policy that is accepted has a whole attempt, a timeout and
   backoffs that are times, whatever the environment holds. *)
THEOREM PolicyNumbers ==
  ASSUME NEW p \in Policies
  PROVE  /\ p.attempts \in Nat /\ p.attempts >= 1
         /\ p.timeout \in Nat /\ p.timeout > 0 /\ p.output \in Nat /\ p.output > 0
         /\ p.base \in Nat /\ p.max \in Nat /\ p.base > 0 /\ p.max >= p.base
  BY DEF Policies, WorkerPolicyParses, RetryParses, Positive

(* schema.py: the job a worker decodes is one it accepts, with the deadline and the size
   its producer gave it; nothing submit() sends is poison. *)
THEOREM OwnJobsDecode ==
  ASSUME NEW a \in Asked, JobValid(a)
  PROVE  /\ JobValid(Decoded(a)) /\ Decoded(a) \in Asked
         /\ Decoded(a).ttl = a.ttl /\ Decoded(a).max_tokens = a.max_tokens
         /\ Decoded(a).format = a.format /\ Decoded(a).chars = a.chars
         /\ Decoded(a).temperature = IF a.temperature = Infinite THEN Unset ELSE a.temperature
  <1>1. a.ttl # Infinite
    BY SentinelsAreNotNumbers DEF JobValid, TtlValid
  <1> QED
    BY <1>1 DEF JobValid, TtlValid, Decoded, OnTheWire, Asked

LEMMA InitRetryInv == Init => RetryInv
  <1> SUFFICES ASSUME Init
               PROVE  RetryInv
    OBVIOUS
  <1>1. policy.attempts \in Nat /\ policy.attempts >= 1
    BY PolicyNumbers DEF Init
  <1>2. asked \in Asked /\ JobValid(asked)
    BY InputsAreTyped DEF Init, Jobs
  <1>3. job.ttl = asked.ttl /\ asked.ttl \in Int \cup {Unset}
    BY <1>2, OwnJobsDecode DEF job, JobValid, TtlValid
  <1>4. deadline \in Int \cup {Unset} /\ (asked.ttl # Unset => deadline # Unset)
    BY <1>3, InputsAreTyped, SentinelsAreNotNumbers DEF Init
  <1>5. RetryTypeOK
    BY <1>1, <1>4, RatesAreNumbers, LevelsAreCredit
    DEF Init, RetryTypeOK, Phases, Outcomes, L!Dims
  <1> QED
    BY <1>4, <1>5 DEF Init, RetryInv, AttemptInv, TimerInv, RequestInv, AnswerIsFinal

LEMMA CostIsNat ==
  ASSUME RetryTypeOK
  PROVE  /\ Cost \in [L!Dims -> Nat] /\ OwnWait \in Nat
         /\ \A d \in L!Dims : Cost[d] <= OwnWait
  <1>1. Estimate \in Nat
    <2>1. asked \in Asked /\ JobValid(asked) /\ policy.output \in Nat
      BY InputsAreTyped, PolicyNumbers DEF RetryTypeOK, Jobs
    <2>2. job.chars \in Nat /\ (job.max_tokens # Unset => job.max_tokens \in Nat)
      <3>1. job.chars = asked.chars /\ job.max_tokens = asked.max_tokens
        BY <2>1, OwnJobsDecode DEF job
      <3> QED
        BY <2>1, <3>1 DEF Asked, JobValid
    <2>3. \A c \in Nat : c \div 4 \in Nat
      OBVIOUS
    <2> QED
      BY <2>1, <2>2, <2>3 DEF Estimate
  <1>2. \A e \in Nat : (e + TokenRate - 1) \div TokenRate \in Nat
    <2> TAKE e \in Nat
    <2>1. e + TokenRate - 1 \in Nat /\ TokenRate \in Nat \ {0}
      BY RatesAreNumbers
    <2>2. \A n \in Nat, t \in Nat \ {0} : n \div t \in Nat
      OBVIOUS
    <2> QED
      BY <2>1, <2>2
  <1>3. Cost \in [L!Dims -> Nat]
    BY <1>1, <1>2, RatesAreNumbers DEF Cost
  <1> QED
    BY <1>3 DEF OwnWait, L!Larger, L!Dims

LEMMA AcquireKeepsInv ==
  ASSUME RetryInv, Acquire
  PROVE  RetryInv'
  <1>1. /\ phase = "attempt" /\ UNCHANGED <<given, now, attempt, answer, counts, spent>>
        /\ \/ phase' = "done" /\ outcome' = "expired" /\ UNCHANGED <<due, buckets>>
           \/ /\ phase' = "waiting" /\ outcome' = "none"
              /\ Reserved([d \in L!Dims |-> L!Refilled(d) - Cost[d]])
        /\ answer = NoAnswer
    BY DEF Acquire, Return, RetryInv, AttemptInv
  <1>2. /\ now \in Nat /\ updated \in Nat /\ due \in Nat /\ Window \in Nat
        /\ credit \in [L!Dims -> Int] /\ \A d \in L!Dims : credit[d] <= Window
        /\ Cost \in [L!Dims -> Nat]
    BY CostIsNat, LevelsAreCredit DEF RetryInv, RetryTypeOK
  <1>3. \A d \in L!Dims : L!Refilled(d) \in Int /\ L!Refilled(d) <= Window
    BY <1>2 DEF L!Refilled, L!Smaller, L!Larger
  <1>4. /\ credit' \in [L!Dims -> Int] /\ \A d \in L!Dims : credit'[d] <= Window
        /\ updated' \in Nat /\ due' \in Nat
    <2>1. CASE UNCHANGED <<due, buckets>>
      BY <1>2, <2>1 DEF buckets
    <2>2. CASE Reserved([d \in L!Dims |-> L!Refilled(d) - Cost[d]])
      <3>1. /\ credit' \in [L!Dims -> Int] /\ \A d \in L!Dims : credit'[d] <= Window
            /\ updated' \in Nat
        BY <1>2, <1>3, <2>2 DEF Reserved, L!Larger
      <3>2. due' = now + L!Larger(L!WaitFor(credit'["requests"]), L!WaitFor(credit'["tokens"]))
        BY <2>2 DEF Reserved
      <3> QED
        BY <1>2, <3>1, <3>2 DEF L!Larger, L!WaitFor, L!Dims
    <2> QED
      BY <1>1, <2>1, <2>2
  <1> QED
    BY <1>1, <1>4
    DEF RetryInv, RetryTypeOK, AttemptInv, TimerInv, RequestInv, AnswerIsFinal, Phases,
        Outcomes, given, counts, job

LEMMA StartCallKeepsInv ==
  ASSUME RetryInv, StartCall
  PROVE  RetryInv'
  <1>1. /\ phase = "waiting" /\ outcome = "none" /\ answer = NoAnswer
        /\ UNCHANGED <<given, now, attempt, buckets, answer, spent>>
        /\ calls \in Nat /\ calls <= attempt /\ attempt \in Nat /\ attempt < policy.attempts
        /\ policy.attempts \in Nat /\ policy.timeout \in Nat /\ policy.timeout > 0
        /\ now \in Nat /\ due \in Nat /\ requests \in Nat
    BY PolicyNumbers DEF StartCall, RetryInv, RetryTypeOK, AttemptInv
  <1>2. CASE phase' = "done" /\ outcome' \in {"expired", "error"} /\ UNCHANGED <<due, counts>>
    BY <1>1, <1>2
    DEF RetryInv, RetryTypeOK, AttemptInv, TimerInv, RequestInv, AnswerIsFinal, Phases,
        Outcomes, given, buckets, counts, job
  <1>3. CASE ~Expired /\ Takes(model, job)
    <2>1. /\ phase' = "inflight" /\ due' = now + policy.timeout /\ UNCHANGED outcome
          /\ calls' = calls + 1 /\ resends' = 0 /\ requests' = requests + 1
      BY <1>3 DEF StartCall
    <2>2. deadline # Unset => deadline \in Int /\ now < deadline
      BY <1>1, <1>3 DEF Expired, RetryInv, RetryTypeOK
    <2>3. TimerInv' /\ AttemptInv' /\ AnswerIsFinal'
      BY <1>1, <2>1, <2>2 DEF TimerInv, AttemptInv, AnswerIsFinal, given
    <2>4. RequestInv'
      BY <1>1, <1>3, <2>1 DEF RetryInv, RequestInv, given, job
    <2>5. RetryTypeOK'
      BY <1>1, <2>1, RatesAreNumbers DEF RetryInv, RetryTypeOK, Phases, given, buckets
    <2> QED
      BY <2>3, <2>4, <2>5 DEF RetryInv
  <1> QED
    BY <1>2, <1>3 DEF StartCall, Return

LEMMA SdkResendKeepsInv ==
  ASSUME RetryInv, SdkResend
  PROVE  RetryInv'
  BY RatesAreNumbers
  DEF SdkResend, RetryInv, RetryTypeOK, AttemptInv, TimerInv, RequestInv, AnswerIsFinal,
      given, buckets, job

LEMMA CallAnswersKeepsInv ==
  ASSUME RetryInv, CallAnswers
  PROVE  RetryInv'
  <1>1. /\ phase' = "done" /\ UNCHANGED <<given, now, due, attempt, buckets, counts, spent>>
        /\ answer' \in Answers(model)
        /\ outcome' = IF ~Complete(model, answer') THEN "error"
                      ELSE IF priced THEN "ok" ELSE "raised"
    BY DEF CallAnswers, Return
  <1>2. AnswerIsFinal'
    BY <1>1 DEF AnswerIsFinal, Complete, OpenAIComplete, AnthropicComplete
  <1> QED
    BY <1>1, <1>2
    DEF RetryInv, RetryTypeOK, AttemptInv, TimerInv, RequestInv, Phases, Outcomes, given, buckets,
        counts, job

LEMMA CallFailsKeepsInv ==
  ASSUME RetryInv, NEW f \in Failures, CallFails(f)
  PROVE  RetryInv'
  <1>1. /\ phase = "inflight" /\ answer = NoAnswer
        /\ UNCHANGED <<given, now, attempt, buckets, answer, counts, spent>>
        /\ \/ phase' = "done" /\ outcome' = "error" /\ UNCHANGED due
           \/ phase' = "backoff" /\ outcome' = "none" /\ attempt + 1 < policy.attempts
    BY DEF CallFails, Return, RetryInv, AttemptInv
  <1>2. due' \in Nat
    BY DEF CallFails, RetryInv, RetryTypeOK
  <1> QED
    BY <1>1, <1>2
    DEF RetryInv, RetryTypeOK, AttemptInv, TimerInv, RequestInv, AnswerIsFinal, Phases,
        Outcomes, given, buckets, counts, job

LEMMA BackoffEndsKeepsInv ==
  ASSUME RetryInv, BackoffEnds
  PROVE  RetryInv'
  <1>1. policy.attempts \in Nat
    BY PolicyNumbers DEF RetryInv, RetryTypeOK
  <1> QED
    BY <1>1
    DEF BackoffEnds, RetryInv, RetryTypeOK, AttemptInv, TimerInv, RequestInv, AnswerIsFinal,
        Phases, given, buckets, counts, job

LEMMA TickKeepsInv ==
  ASSUME RetryInv, Tick
  PROVE  RetryInv'
  BY DEF Tick, RetryInv, RetryTypeOK, AttemptInv, TimerInv, RequestInv, AnswerIsFinal,
         given, buckets, counts, job

(* The invariant behind the theorems below. *)
THEOREM RetryInvHolds == Spec => []RetryInv
  <1>1. RetryInv /\ [Next]_vars => RetryInv'
    <2> SUFFICES ASSUME RetryInv, [Next]_vars
                 PROVE  RetryInv'
      OBVIOUS
    <2>1. CASE UNCHANGED vars
      BY <2>1
      DEF vars, given, buckets, counts, RetryInv, RetryTypeOK, AttemptInv, TimerInv, RequestInv,
          AnswerIsFinal, job
    <2> QED
      BY <2>1, AcquireKeepsInv, StartCallKeepsInv, SdkResendKeepsInv, CallAnswersKeepsInv,
         CallFailsKeepsInv, BackoffEndsKeepsInv, TickKeepsInv
      DEF Next
  <1> QED
    BY <1>1, InitRetryInv, PTL DEF Spec

(* Types; in particular a job never starts more calls than max_attempts. *)
THEOREM RetryTypes == Spec => []RetryTypeOK
  <1>1. RetryInv => RetryTypeOK
    BY DEF RetryInv
  <1> QED
    BY <1>1, RetryInvHolds, PTL

(* A job whose producer set a ttl_s is never being paid for a whole timeout after it. *)
THEOREM TailIsBounded == Spec => []NoTailBeyondTimeout
  <1>1. RetryInv => NoTailBeyondTimeout
    <2> SUFFICES ASSUME RetryInv, phase = "inflight", asked.ttl # Unset
                 PROVE  deadline # Unset /\ now < deadline + policy.timeout
      BY DEF NoTailBeyondTimeout
    <2>1. deadline # Unset
      BY DEF RetryInv, RequestInv
    <2>2. now \in Nat /\ due \in Nat /\ deadline \in Int /\ policy.timeout \in Nat
      BY <2>1, PolicyNumbers DEF RetryInv, RetryTypeOK
    <2> QED
      BY <2>1, <2>2 DEF RetryInv, TimerInv
  <1> QED
    BY <1>1, RetryInvHolds, PTL

(* What a producer asked of the model reaches the provider or the job is not called. *)
THEOREM ParametersAreHonoured == Spec => []HonouredOrRefused
  <1>1. RetryInv => HonouredOrRefused
    <2> SUFFICES ASSUME RetryInv, calls > 0
                 PROVE  LET sent == Request(model, job) IN
                        /\ sent.max_tokens = asked.max_tokens /\ sent.format = asked.format
                        /\ sent.temperature = asked.temperature \/ asked.temperature = Infinite
      BY DEF HonouredOrRefused
    <2>1. asked \in Asked /\ JobValid(asked) /\ Takes(model, job)
      BY InputsAreTyped DEF RetryInv, RetryTypeOK, RequestInv, Jobs
    <2>2. /\ job.max_tokens = asked.max_tokens /\ job.format = asked.format
          /\ job.temperature = asked.temperature \/ asked.temperature = Infinite
      BY <2>1, OwnJobsDecode DEF job
    <2>3. ProviderFor(model) = "openai" => job.temperature = Unset
      BY <2>1 DEF Takes, OpenAITakes
    <2> QED
      BY <2>2, <2>3 DEF Request, OpenAIRequest, AnthropicRequest
  <1> QED
    BY <1>1, RetryInvHolds, PTL

(* An answer ends the job, and only a whole one makes it "ok". *)
THEOREM AnswersAreFinal == Spec => []AnswerIsFinal
  <1>1. RetryInv => AnswerIsFinal
    BY DEF RetryInv
  <1> QED
    BY <1>1, RetryInvHolds, PTL

-----------------------------------------------------------------------------
(* The numbers of the retry budget                                         *)

LEMMA PowerOfTwoIsNat == PowerOfTwo \in [Nat -> Nat]
  <1> DEFINE double == [x \in Nat \X Nat |-> 2 * x[1]]
             Solves(g) == g = [n \in Nat |-> IF n = 0 THEN 1 ELSE 2 * g[n - 1]]
  <1>1. double \in [Nat \X Nat -> Nat] /\ \A m \in Nat, n \in Nat : double[<<m, n>>] = 2 * m
    OBVIOUS
  <1> HIDE DEF double
  <1>2. PICK f \in [Nat -> Nat] :
          f[0] = 1 /\ \A n \in Nat \ {0} : f[n] = double[<<f[n - 1], n - 1>>]
    <2>1. 1 \in Nat
      OBVIOUS
    <2>2. Solutions(Nat, 1, double) # {}
      BY <1>1, <2>1, RecurrenceHolds
    <2> QED
      BY <2>2 DEF Solutions
  <1>3. ASSUME NEW n \in Nat \ {0}
        PROVE  f[n] = 2 * f[n - 1]
    <2>1. n - 1 \in Nat
      OBVIOUS
    <2> QED
      BY <1>1, <1>2, <2>1
  <1>4. Solves(f)
    BY <1>2, <1>3
  <1>5. PowerOfTwo = CHOOSE g : Solves(g)
    BY DEF PowerOfTwo
  <1> HIDE DEF Solves
  <1>6. Solves(PowerOfTwo)
    BY <1>4, <1>5
  <1>7. PowerOfTwo = [n \in Nat |-> IF n = 0 THEN 1 ELSE 2 * PowerOfTwo[n - 1]]
    BY <1>6 DEF Solves
  <1> DEFINE T == {n \in Nat : PowerOfTwo[n] \notin Nat}
  <1>8. T = {}
    <2> SUFFICES ASSUME T # {}
                 PROVE  FALSE
      OBVIOUS
    <2>1. PICK m \in T : \A n \in T : m <= n
      BY LeastNatural
    <2>2. m # 0
      BY <1>7, <2>1
    <2>3. m - 1 \in Nat /\ m - 1 \notin T
      BY <2>1, <2>2
    <2>4. PowerOfTwo[m] = 2 * PowerOfTwo[m - 1] /\ PowerOfTwo[m - 1] \in Nat
      BY <1>7, <2>1, <2>2, <2>3
    <2> QED
      BY <2>1, <2>4
  <1> QED
    BY <1>7, <1>8

LEMMA CeilingIsNat ==
  ASSUME NEW p \in Policies, NEW i \in Nat
  PROVE  Ceiling(p, i) \in Nat
  <1>1. p.base \in Nat /\ p.max \in Nat /\ PowerOfTwo[i] \in Nat
    BY PolicyNumbers, PowerOfTwoIsNat
  <1>2. \A b \in Nat, t \in Nat : b * t \in Nat
    OBVIOUS
  <1> QED
    BY <1>1, <1>2 DEF Ceiling

LEMMA BackoffsAddUp ==
  ASSUME NEW p \in Policies
  PROVE  /\ Backoffs(p)[0] = 0
         /\ \A n \in Nat : /\ Backoffs(p)[n] \in Nat
                           /\ Backoffs(p)[n + 1] = Backoffs(p)[n] + Ceiling(p, n)
  <1> DEFINE plus == [x \in Nat \X Nat |-> x[1] + Ceiling(p, x[2])]
             Solves(g) == g = [n \in Nat |-> IF n = 0 THEN 0 ELSE g[n - 1] + Ceiling(p, n - 1)]
  <1>1. /\ plus \in [Nat \X Nat -> Nat]
        /\ \A m \in Nat, n \in Nat : plus[<<m, n>>] = m + Ceiling(p, n)
    BY CeilingIsNat
  <1> HIDE DEF plus
  <1>2. PICK f \in [Nat -> Nat] :
          f[0] = 0 /\ \A n \in Nat \ {0} : f[n] = plus[<<f[n - 1], n - 1>>]
    <2>1. 0 \in Nat
      OBVIOUS
    <2>2. Solutions(Nat, 0, plus) # {}
      BY <1>1, <2>1, RecurrenceHolds
    <2> QED
      BY <2>2 DEF Solutions
  <1>3. ASSUME NEW n \in Nat \ {0}
        PROVE  f[n] = f[n - 1] + Ceiling(p, n - 1)
    <2>1. n - 1 \in Nat
      OBVIOUS
    <2> QED
      BY <1>1, <1>2, <2>1
  <1>4. Solves(f)
    BY <1>2, <1>3
  <1> DEFINE B == Backoffs(p)
  <1>5. B = CHOOSE g : Solves(g)
    BY DEF Backoffs
  <1> HIDE DEF Solves, B
  <1>6. Solves(B)
    BY <1>4, <1>5
  <1>7. B[0] = 0 /\ \A n \in Nat \ {0} : B[n] = B[n - 1] + Ceiling(p, n - 1)
    BY <1>6 DEF Solves
  <1> DEFINE T == {n \in Nat : B[n] \notin Nat}
  <1>8. T = {}
    <2> SUFFICES ASSUME T # {}
                 PROVE  FALSE
      OBVIOUS
    <2>1. PICK m \in T : \A n \in T : m <= n
      BY LeastNatural
    <2>2. m # 0
      BY <1>7, <2>1
    <2>3. m - 1 \in Nat /\ m - 1 \notin T
      BY <2>1, <2>2
    <2>4. B[m] = B[m - 1] + Ceiling(p, m - 1) /\ B[m - 1] \in Nat /\ Ceiling(p, m - 1) \in Nat
      BY <1>7, <2>1, <2>2, <2>3, CeilingIsNat
    <2> QED
      BY <2>1, <2>4
  <1>9. ASSUME NEW n \in Nat
        PROVE  B[n + 1] = B[n] + Ceiling(p, n)
    <2>1. n + 1 \in Nat \ {0} /\ (n + 1) - 1 = n
      OBVIOUS
    <2> QED
      BY <1>7, <2>1
  <1> QED
    BY <1>7, <1>8, <1>9 DEF B

LEMMA BackoffsGrow ==
  ASSUME NEW p \in Policies, NEW m \in Nat, NEW n \in Nat, m <= n
  PROVE  Backoffs(p)[m] <= Backoffs(p)[n]
  <1> DEFINE B == Backoffs(p)
             T == {k \in Nat : m <= k /\ B[m] > B[k]}
  <1>1. \A k \in Nat : B[k] \in Nat /\ B[k + 1] = B[k] + Ceiling(p, k) /\ Ceiling(p, k) \in Nat
    BY BackoffsAddUp, CeilingIsNat
  <1> HIDE DEF B
  <1>2. T = {}
    <2> SUFFICES ASSUME T # {}
                 PROVE  FALSE
      OBVIOUS
    <2>1. PICK k \in T : \A j \in T : k <= j
      BY LeastNatural
    <2>2. k # m
      BY <1>1, <2>1
    <2>3. k - 1 \in Nat /\ m <= k - 1 /\ k - 1 \notin T /\ (k - 1) + 1 = k
      BY <2>1, <2>2
    <2>4. B[m] <= B[k - 1] /\ B[k] = B[k - 1] + Ceiling(p, k - 1)
      BY <1>1, <2>3
    <2> QED
      BY <1>1, <2>1, <2>3, <2>4
  <1>3. B[m] <= B[n]
    <2>1. n \notin T /\ B[m] \in Nat /\ B[n] \in Nat
      BY <1>1, <1>2
    <2> QED
      BY <2>1
  <1> QED
    BY <1>3 DEF B

LEMMA Times ==
  ASSUME NEW t \in Nat
  PROVE  /\ \A a \in Nat : a * t \in Nat /\ (a + 1) * t = a * t + t
         /\ \A a \in Nat, b \in Nat : a <= b => a * t <= b * t
  <1>1. \A a \in Nat : a * t \in Nat /\ (a + 1) * t = a * t + t
    OBVIOUS
  <1>2. ASSUME NEW a \in Nat, NEW b \in Nat, a <= b
        PROVE  a * t <= b * t
    <2>1. PICK d \in Nat : b = a + d
      <3>1. b - a \in Nat /\ b = a + (b - a)
        BY <1>2
      <3> QED
        BY <3>1
    <2>2. (a + d) * t = a * t + d * t /\ d * t \in Nat /\ a * t \in Nat
      OBVIOUS
    <2> QED
      BY <2>1, <2>2
  <1> QED
    BY <1>1, <1>2

-----------------------------------------------------------------------------
(* Time                                                                    *)

\* What the attempts before this one may have spent.
Before == attempt * policy.timeout + Backoffs(policy)[attempt]

\* What is spent, with what the timer of the phase may still add, fits the attempts begun.
SpentInv ==
  /\ phase \in {"inflight", "backoff"} => now <= due
  /\ phase \in {"attempt", "waiting"} => spent <= Before
  /\ phase = "inflight" => spent + (due - now) <= Before + policy.timeout
  /\ phase = "backoff" =>
       spent + (due - now) <= Before + policy.timeout + Ceiling(policy, attempt)
  /\ phase = "done" => spent <= Before + policy.timeout

\* All other time went into the waits of the attempts begun.
WaitedInv ==
  /\ phase = "attempt" => now <= spent + attempt * OwnWait
  /\ phase = "waiting" => now <= due /\ due <= spent + (attempt + 1) * OwnWait
  /\ phase \in {"inflight", "backoff", "done"} => now <= spent + (attempt + 1) * OwnWait

TimeInv == SpentInv /\ WaitedInv

\* No attempt starts from a debt: the sleep of the one before covered each deficit, which
\* was no more than it reserved itself.
CreditInv ==
  /\ updated <= now
  /\ phase = "waiting" => now <= due /\ \A d \in L!Dims : due - updated >= -credit[d]
  /\ phase # "waiting" => \A d \in L!Dims : credit[d] + (now - updated) >= 0

\* The numbers of one step, typed.
LEMMA TimeNumbers ==
  ASSUME RetryInv
  PROVE  /\ now \in Nat /\ due \in Nat /\ spent \in Nat /\ attempt \in Nat
         /\ attempt + 1 <= policy.attempts /\ policy.attempts \in Nat /\ policy.timeout \in Nat
         /\ Before \in Nat /\ Ceiling(policy, attempt) \in Nat /\ OwnWait \in Nat
         /\ attempt * OwnWait \in Nat
         /\ (attempt + 1) * OwnWait = attempt * OwnWait + OwnWait
         /\ (attempt + 1) * policy.timeout + Backoffs(policy)[attempt + 1]
              = Before + policy.timeout + Ceiling(policy, attempt)
  <1>1. /\ now \in Nat /\ due \in Nat /\ spent \in Nat /\ attempt \in Nat
        /\ attempt + 1 <= policy.attempts /\ policy.attempts \in Nat /\ policy.timeout \in Nat
        /\ policy \in Policies
    BY PolicyNumbers DEF RetryInv, RetryTypeOK
  <1>2. OwnWait \in Nat
    BY CostIsNat DEF RetryInv
  <1>3. /\ attempt * OwnWait \in Nat
        /\ (attempt + 1) * OwnWait = attempt * OwnWait + OwnWait
        /\ attempt * policy.timeout \in Nat
        /\ (attempt + 1) * policy.timeout = attempt * policy.timeout + policy.timeout
    BY <1>1, <1>2, Times
  <1>4. /\ Backoffs(policy)[attempt] \in Nat /\ Ceiling(policy, attempt) \in Nat
        /\ Backoffs(policy)[attempt + 1] = Backoffs(policy)[attempt] + Ceiling(policy, attempt)
    BY <1>1, BackoffsAddUp, CeilingIsNat
  <1> QED
    BY <1>1, <1>2, <1>3, <1>4 DEF Before

LEMMA InitTimeInv == Init => TimeInv
  <1> SUFFICES ASSUME Init
               PROVE  TimeInv
    OBVIOUS
  <1>1. RetryInv
    BY InitRetryInv
  <1>2. Before \in Nat /\ attempt * OwnWait \in Nat
    BY <1>1, TimeNumbers
  <1> QED
    BY <1>2 DEF Init, TimeInv, SpentInv, WaitedInv

\* A step that changes neither the job nor the attempt.
LEMMA SameAttempt ==
  ASSUME UNCHANGED <<given, attempt>>
  PROVE  /\ Before' = Before /\ OwnWait' = OwnWait
         /\ Ceiling(policy, attempt)' = Ceiling(policy, attempt)
         /\ policy' = policy /\ attempt' = attempt
  BY DEF Before, OwnWait, Cost, Estimate, job, given

\* What acquire() leaves in the buckets, and how long it waits for.
LEMMA WaitIsOwn ==
  ASSUME RetryInv, CreditInv, Acquire, phase' = "waiting"
  PROVE  /\ credit' \in [L!Dims -> Int] /\ \A d \in L!Dims : credit'[d] <= Window
         /\ updated' = now /\ due' \in Nat /\ now <= due' /\ due' <= now + OwnWait
         /\ \A d \in L!Dims : due' - now >= -credit'[d]
  <1>1. /\ now \in Nat /\ updated \in Nat /\ updated <= now /\ Window \in Nat
        /\ credit \in [L!Dims -> Int] /\ Cost \in [L!Dims -> Nat] /\ OwnWait \in Nat
        /\ \A d \in L!Dims : Cost[d] <= OwnWait
    BY CostIsNat, LevelsAreCredit DEF RetryInv, RetryTypeOK, CreditInv
  <1>2. Reserved([d \in L!Dims |-> L!Refilled(d) - Cost[d]]) /\ phase = "attempt"
    BY DEF Acquire, Return
  <1>3. \A d \in L!Dims :
          L!Refilled(d) \in Int /\ 0 <= L!Refilled(d) /\ L!Refilled(d) <= Window
    BY <1>1, <1>2 DEF L!Refilled, L!Smaller, L!Larger, CreditInv
  <1>4. /\ credit' \in [L!Dims -> Int]
        /\ \A d \in L!Dims : credit'[d] <= Window /\ -credit'[d] <= OwnWait
    BY <1>1, <1>2, <1>3 DEF Reserved
  <1>5. updated' = now
    BY <1>1, <1>2 DEF Reserved, L!Larger
  <1>6. due' = now + L!Larger(L!WaitFor(credit'["requests"]), L!WaitFor(credit'["tokens"]))
    BY <1>2 DEF Reserved
  <1> QED
    BY <1>1, <1>4, <1>5, <1>6 DEF L!Larger, L!WaitFor, L!Dims

LEMMA AcquireKeepsTime ==
  ASSUME RetryInv, TimeInv, CreditInv, Acquire
  PROVE  TimeInv'
  <1>1. /\ phase = "attempt" /\ UNCHANGED <<given, now, attempt, spent>>
        /\ \/ phase' = "done"
           \/ phase' = "waiting" /\ due' \in Nat /\ now <= due' /\ due' <= now + OwnWait
    BY WaitIsOwn DEF Acquire, Return
  <1> QED
    BY <1>1, SameAttempt, TimeNumbers DEF TimeInv, SpentInv, WaitedInv

LEMMA StartCallKeepsTime ==
  ASSUME RetryInv, TimeInv, StartCall
  PROVE  TimeInv'
  <1>1. /\ phase = "waiting" /\ now = due /\ UNCHANGED <<given, now, attempt, spent>>
        /\ \/ phase' = "done"
           \/ phase' = "inflight" /\ due' = now + policy.timeout
    BY DEF StartCall, Return
  <1> QED
    BY <1>1, SameAttempt, TimeNumbers DEF TimeInv, SpentInv, WaitedInv

LEMMA CallAnswersKeepsTime ==
  ASSUME RetryInv, TimeInv, CallAnswers
  PROVE  TimeInv'
  <1>1. /\ phase = "inflight" /\ phase' = "done" /\ UNCHANGED <<given, now, attempt, spent>>
    BY DEF CallAnswers, Return, counts
  <1> QED
    BY <1>1, SameAttempt, TimeNumbers DEF TimeInv, SpentInv, WaitedInv

LEMMA CallFailsKeepsTime ==
  ASSUME RetryInv, TimeInv, NEW f \in Failures, CallFails(f)
  PROVE  TimeInv'
  <1>1. /\ phase = "inflight" /\ UNCHANGED <<given, now, attempt, spent>>
        /\ \/ phase' = "done"
           \/ /\ phase' = "backoff"
              /\ \E delay \in 0 .. Ceiling(policy, attempt) : due' = now + delay
    BY DEF CallFails, Return
  <1> QED
    BY <1>1, SameAttempt, TimeNumbers DEF TimeInv, SpentInv, WaitedInv

LEMMA BackoffEndsKeepsTime ==
  ASSUME RetryInv, TimeInv, BackoffEnds
  PROVE  TimeInv'
  <1>1. /\ phase = "backoff" /\ now = due /\ phase' = "attempt" /\ attempt' = attempt + 1
        /\ UNCHANGED <<given, now, spent>>
    BY DEF BackoffEnds
  <1>2. OwnWait' = OwnWait /\ policy' = policy
    BY <1>1 DEF OwnWait, Cost, Estimate, job, given
  <1>3. Before' = (attempt + 1) * policy.timeout + Backoffs(policy)[attempt + 1]
    BY <1>1, <1>2 DEF Before, Backoffs, Ceiling
  <1> QED
    BY <1>1, <1>2, <1>3, TimeNumbers DEF TimeInv, SpentInv, WaitedInv

LEMMA TickKeepsTime ==
  ASSUME RetryInv, TimeInv, Tick
  PROVE  TimeInv'
  <1>1. /\ phase \in {"waiting", "inflight", "backoff"} /\ now < due /\ now' = now + 1
        /\ spent' = IF phase = "waiting" THEN spent ELSE spent + 1
        /\ UNCHANGED <<given, phase, due, attempt>>
    BY DEF Tick
  <1> QED
    BY <1>1, SameAttempt, TimeNumbers DEF TimeInv, SpentInv, WaitedInv

LEMMA StepKeepsCredit ==
  ASSUME RetryInv, CreditInv, [Next]_vars
  PROVE  CreditInv'
  <1>1. /\ now \in Nat /\ updated \in Nat /\ due \in Nat
        /\ credit \in [L!Dims -> Int]
    BY DEF RetryInv, RetryTypeOK
  <1>2. CASE Acquire /\ phase' = "waiting"
    <2>1. now' = now
      BY <1>2 DEF Acquire
    <2> QED
      BY <1>1, <1>2, <2>1, WaitIsOwn DEF CreditInv
  <1>3. CASE UNCHANGED <<buckets, due, phase, now>>
    BY <1>3 DEF CreditInv, buckets
  <1>4. CASE /\ UNCHANGED <<buckets, now>> /\ phase' # "waiting"
             /\ phase = "waiting" => now = due \/ phase' = "waiting"
    BY <1>1, <1>4 DEF CreditInv, buckets
  <1>5. CASE Tick
    <2>1. now < due /\ now' = now + 1 /\ UNCHANGED <<phase, due, credit, updated>>
      BY <1>5 DEF Tick, buckets
    <2> QED
      BY <1>1, <2>1 DEF CreditInv
  <1>6. \/ Acquire /\ phase' = "waiting"
        \/ UNCHANGED <<buckets, due, phase, now>>
        \/ /\ UNCHANGED <<buckets, now>> /\ phase' # "waiting"
           /\ phase = "waiting" => now = due \/ phase' = "waiting"
        \/ Tick
    BY DEF Next, vars, Acquire, StartCall, SdkResend, CallAnswers, CallFails, BackoffEnds, Return
  <1> QED
    BY <1>2, <1>3, <1>4, <1>5, <1>6

LEMMA TimeInvHolds == Spec => [](RetryInv /\ TimeInv)
  <1>1. RetryInv /\ TimeInv /\ CreditInv /\ [Next]_vars => TimeInv'
    <2> SUFFICES ASSUME RetryInv, TimeInv, CreditInv, [Next]_vars
                 PROVE  TimeInv'
      OBVIOUS
    <2>1. CASE UNCHANGED <<given, now, phase, due, attempt, spent>>
      BY <2>1, SameAttempt DEF TimeInv, SpentInv, WaitedInv
    <2>2. UNCHANGED vars => UNCHANGED <<given, now, phase, due, attempt, spent>>
      BY DEF vars
    <2>3. SdkResend => UNCHANGED <<given, now, phase, due, attempt, spent>>
      BY DEF SdkResend
    <2> QED
      BY <2>1, <2>2, <2>3, AcquireKeepsTime, StartCallKeepsTime, CallAnswersKeepsTime,
         CallFailsKeepsTime, BackoffEndsKeepsTime, TickKeepsTime
      DEF Next
  <1>2. Init => CreditInv
    <2> SUFFICES ASSUME Init
                 PROVE  CreditInv
      OBVIOUS
    <2>1. credit \in [L!Dims -> 0 .. Window] /\ Window \in Nat
      BY LevelsAreCredit DEF Init, L!Dims
    <2> QED
      BY <2>1 DEF Init, CreditInv
  <1>3. RetryInv /\ CreditInv /\ [Next]_vars => CreditInv'
    BY StepKeepsCredit
  <1> QED
    BY <1>1, <1>2, <1>3, InitTimeInv, RetryInvHolds, PTL DEF Spec

\* What the attempts begun may have spent is within the budget.
LEMMA BegunWithinBudget ==
  ASSUME RetryInv, TimeInv
  PROVE  /\ spent <= RetryBudget(policy) /\ spent \in Nat /\ RetryBudget(policy) \in Nat
         /\ now <= spent + policy.attempts * OwnWait
  <1> DEFINE B == Backoffs(policy)
             last == policy.attempts - 1
  <1>1. last \in Nat /\ attempt \in Nat /\ attempt <= last
    BY TimeNumbers
  <1>2. policy \in Policies
    BY DEF RetryInv, RetryTypeOK
  <1>3. B[attempt] \in Nat /\ B[last] \in Nat /\ B[attempt] <= B[last]
    BY <1>1, <1>2, BackoffsAddUp, BackoffsGrow
  <1>4. /\ (attempt + 1) * policy.timeout <= policy.attempts * policy.timeout
        /\ attempt * policy.timeout \in Nat /\ policy.attempts * policy.timeout \in Nat
        /\ (attempt + 1) * policy.timeout = attempt * policy.timeout + policy.timeout
    BY TimeNumbers, Times
  <1>5. /\ (attempt + 1) * OwnWait <= policy.attempts * OwnWait
        /\ policy.attempts * OwnWait \in Nat
    BY TimeNumbers, Times
  <1>6. RetryBudget(policy) = policy.attempts * policy.timeout + B[last]
    BY DEF RetryBudget
  <1>7. now <= spent + policy.attempts * OwnWait
    BY <1>5, TimeNumbers DEF TimeInv, WaitedInv, RetryInv, RetryTypeOK, Phases, SpentInv
  <1>8. phase # "backoff" => spent <= Before + policy.timeout
    BY TimeNumbers DEF TimeInv, SpentInv, RetryInv, RetryTypeOK, Phases
  <1>9. phase = "backoff" => spent <= RetryBudget(policy)
    <2> SUFFICES ASSUME phase = "backoff"
                 PROVE  spent <= RetryBudget(policy)
      OBVIOUS
    <2>1. attempt + 1 <= last /\ attempt + 1 \in Nat
      BY TimeNumbers DEF RetryInv, AttemptInv
    <2>2. B[attempt + 1] <= B[last] /\ B[attempt + 1] \in Nat
      BY <1>1, <1>2, <2>1, BackoffsAddUp, BackoffsGrow
    <2>3. spent <= (attempt + 1) * policy.timeout + B[attempt + 1]
      BY TimeNumbers DEF TimeInv, SpentInv
    <2> QED
      BY <1>3, <1>4, <1>6, <2>2, <2>3, TimeNumbers
  <1>10. Before = attempt * policy.timeout + B[attempt]
    BY DEF Before
  <1> HIDE DEF B, last
  <1> QED
    BY <1>3, <1>4, <1>6, <1>7, <1>8, <1>9, <1>10, TimeNumbers

(* retry_budget_seconds(): the budget a worker publishes bounds what a job spends in
   attempts and backoff, for every policy it can run with. *)
THEOREM BudgetBounds == Spec => []SpentWithinBudget
  <1>1. RetryInv /\ TimeInv => SpentWithinBudget
    BY BegunWithinBudget DEF SpentWithinBudget
  <1> QED
    BY <1>1, TimeInvHolds, PTL

(* Up to its Result, a job takes no more than its retry budget and the refill of what its own
   attempts reserve, whatever the buckets hold when it comes. *)
THEOREM ResultsAreInTime == Spec => []ResultInTime
  <1>1. RetryInv /\ TimeInv => ResultInTime
    <2> SUFFICES ASSUME RetryInv, TimeInv
                 PROVE  now <= RetryBudget(policy) + policy.attempts * OwnWait
      BY DEF ResultInTime
    <2>1. policy.attempts * OwnWait \in Nat /\ now \in Nat
      BY TimeNumbers, Times
    <2> QED
      BY <2>1, BegunWithinBudget
  <1> QED
    BY <1>1, TimeInvHolds, PTL

-----------------------------------------------------------------------------
(* How far the two statements of the code's comments that fail do hold.    *)

\* The requests of the calls so far: each call has one of its own, and resends no more
\* than the client allows.
ResendInv ==
  /\ phase = "inflight" => calls > 0
  /\ requests <= calls * (1 + SdkResends)
  /\ phase = "inflight" => requests + SdkResends <= calls * (1 + SdkResends) + resends

LEMMA StepKeepsResends ==
  ASSUME RetryInv, ResendInv, [Next]_vars
  PROVE  ResendInv'
  <1> DEFINE each == 1 + SdkResends
  <1>1. /\ calls \in Nat /\ resends \in Nat /\ resends <= SdkResends /\ requests \in Nat
        /\ SdkResends \in Nat /\ each \in Nat
    BY RatesAreNumbers, PolicyNumbers DEF RetryInv, RetryTypeOK
  <1>2. calls * each \in Nat /\ (calls + 1) * each = calls * each + each
    BY <1>1, Times
  <1>3. CASE StartCall /\ phase' = "inflight"
    <2>1. calls' = calls + 1 /\ resends' = 0 /\ requests' = requests + 1
      BY <1>3 DEF StartCall, Return
    <2> QED
      BY <1>1, <1>2, <2>1 DEF ResendInv
  <1>4. CASE SdkResend
    <2>1. /\ phase = "inflight" /\ phase' = "inflight" /\ calls' = calls
          /\ resends < SdkResends /\ resends' = resends + 1 /\ requests' = requests + 1
      BY <1>4 DEF SdkResend
    <2> QED
      BY <1>1, <1>2, <2>1 DEF ResendInv
  <1>5. CASE UNCHANGED counts /\ (phase' = "inflight" => phase = "inflight")
    BY <1>5 DEF ResendInv, counts
  <1>6. \/ StartCall /\ phase' = "inflight"
        \/ SdkResend
        \/ UNCHANGED counts /\ (phase' = "inflight" => phase = "inflight")
    BY DEF Next, vars, Acquire, StartCall, CallAnswers, CallFails, BackoffEnds, Tick, Return
  <1> QED
    BY <1>3, <1>4, <1>5, <1>6

(* What one reservation of the rate limit really stands for: a call, and every request the
   SDK client may add to it. *)
THEOREM RequestsPerReservation == Spec => [](requests <= calls * (1 + SdkResends))
  <1>1. Init => ResendInv
    <2>1. 0 * (1 + SdkResends) = 0
      BY RatesAreNumbers
    <2> QED
      BY <2>1 DEF Init, ResendInv
  <1>2. RetryInv /\ ResendInv /\ [Next]_vars => ResendInv'
    BY StepKeepsResends
  <1>3. ResendInv => requests <= calls * (1 + SdkResends)
    BY DEF ResendInv
  <1> QED
    BY <1>1, <1>2, <1>3, RetryInvHolds, PTL DEF Spec

(* Exactly what _call_with_retry says of its reservations, for clients that are built not
   to retry: the resends are the only way a request escapes the rate limit. *)
THEOREM ReservedWithoutResends ==
  ASSUME SdkResends = 0
  PROVE  Spec => []RequestsAreReserved
  <1>1. RetryInv /\ requests <= calls * (1 + SdkResends) => RequestsAreReserved
    <2> SUFFICES ASSUME RetryInv, requests <= calls * (1 + SdkResends)
                 PROVE  requests <= calls
      BY DEF RequestsAreReserved
    <2>1. calls \in Nat /\ calls * (1 + SdkResends) = calls
      BY PolicyNumbers DEF RetryInv, RetryTypeOK
    <2> QED
      BY <2>1
  <1> QED
    BY <1>1, RetryInvHolds, RequestsPerReservation, PTL

(* A job that expires on its first attempt is dropped unrun, as _expired_result says; the
   calls of one that expires later are those of the attempts before. *)
THEOREM ExpiredAfterFailuresOnly ==
  Spec => [](outcome = "expired" => calls <= attempt)
  <1> DEFINE Dropped == outcome = "expired" => calls <= attempt /\ phase = "done"
  <1>1. Init => Dropped
    BY DEF Init
  <1>2. RetryInv /\ Dropped /\ [Next]_vars => Dropped'
    <2> SUFFICES ASSUME RetryInv, Dropped, [Next]_vars
                 PROVE  Dropped'
      OBVIOUS
    <2>1. CASE Acquire
      BY <2>1 DEF Acquire, Return, counts, RetryInv, AttemptInv
    <2>2. CASE StartCall
      BY <2>2 DEF StartCall, Return, counts, RetryInv, AttemptInv
    <2>3. CASE SdkResend \/ BackoffEnds \/ Tick
      BY <2>3 DEF SdkResend, BackoffEnds, Tick
    <2>4. CASE CallAnswers
      BY <2>4 DEF CallAnswers, Return
    <2>5. ASSUME NEW f \in Failures, CallFails(f)
          PROVE  Dropped'
      BY <2>5 DEF CallFails, Return, RetryInv, AttemptInv
    <2>6. CASE UNCHANGED vars
      BY <2>6 DEF vars, counts
    <2> QED
      BY <2>1, <2>2, <2>3, <2>4, <2>5, <2>6 DEF Next
  <1>3. Dropped => (outcome = "expired" => calls <= attempt)
    OBVIOUS
  <1> QED
    BY <1>1, <1>2, <1>3, RetryInvHolds, PTL DEF Spec

(* So a worker that does not retry never bills for a job it reports as expired. *)
THEOREM UnrunWithoutRetries ==
  ASSUME \A p \in Policies : p.attempts = 1
  PROVE  Spec => []ExpiredIsUnrun
  <1>1. RetryInv /\ (outcome = "expired" => calls <= attempt) => ExpiredIsUnrun
    <2> SUFFICES ASSUME RetryInv, outcome = "expired", calls <= attempt
                 PROVE  calls = 0
      BY DEF ExpiredIsUnrun
    <2>1. policy.attempts = 1 /\ attempt \in 0 .. policy.attempts - 1 /\ calls \in 0 .. policy.attempts
      BY DEF RetryInv, RetryTypeOK
    <2> QED
      BY <2>1
  <1> QED
    BY <1>1, RetryInvHolds, ExpiredAfterFailuresOnly, PTL

-----------------------------------------------------------------------------
(* The loop of Worker.                                                     *)

\* The first deadline check and the wait for a slot.
LEMMA AcquireIsTheWorkers ==
  ASSUME RetryInv, Acquire
  PROVE  W!Acquire
  <1>1. /\ phase = "attempt" /\ attempt' = attempt /\ calls' = calls /\ now' = now
        /\ policy' = policy /\ asked' = asked /\ model' = model /\ deadline' = deadline
        /\ priced' = priced /\ outcome = "none"
    BY DEF Acquire, given, counts, RetryInv, AttemptInv
  <1>2. CASE Expired
    BY <1>1, <1>2 DEF Acquire, Return, W!Acquire, W!Expired, W!FromSubmit, W!Msg, W!storeVars,
       W!producerVars, WorkerAt, AttemptOfWorker, Result, Day, Submitted, Expired, W!Error
  <1>3. CASE ~Expired
    BY <1>1, <1>3 DEF Acquire, Return, W!Acquire, W!Expired, W!FromSubmit, W!Msg, W!storeVars,
       W!producerVars, WorkerAt, AttemptOfWorker, Result, Day, Submitted, Expired, W!Error
  <1> QED
    BY <1>2, <1>3

\* The second check; a refusal of the adapter is the finalize the Worker may choose here.
LEMMA StartCallIsTheWorkers ==
  ASSUME RetryInv, StartCall
  PROVE  W!StartCall
  <1>1. /\ phase = "waiting" /\ attempt' = attempt /\ now' = now /\ outcome = "none"
        /\ policy' = policy /\ asked' = asked /\ model' = model /\ deadline' = deadline
        /\ priced' = priced
    BY DEF StartCall, given, RetryInv, AttemptInv
  <1>2. CASE phase' = "done"
    <2>1. calls' = calls /\ outcome' \in {"expired", "error"}
      BY <1>2 DEF StartCall, Return, counts
    <2> QED
      BY <1>1, <1>2, <2>1 DEF W!StartCall, W!Expired, W!FromSubmit, W!Msg, W!storeVars, W!producerVars,
       WorkerAt, AttemptOfWorker, Result, Day, Submitted, Expired, W!Error
  <1>3. CASE phase' # "done"
    <2>1. /\ ~Expired /\ phase' = "inflight" /\ outcome' = outcome
          /\ calls \in Nat /\ calls' = calls + 1
      BY <1>3, PolicyNumbers DEF StartCall, Return, RetryInv, RetryTypeOK
    <2>2. calls' > 0
      BY <2>1
    <2> QED
      BY <1>1, <2>1, <2>2 DEF W!StartCall, W!Expired, W!FromSubmit, W!Msg, W!storeVars, W!producerVars,
       WorkerAt, AttemptOfWorker, Result, Day, Submitted, Expired, W!Error
  <1> QED
    BY <1>2, <1>3

(* A whole answer is priced; any other ends the attempt like a failure that is final. *)
LEMMA AnswerIsTheWorkers ==
  ASSUME RetryInv, CallAnswers
  PROVE  W!CallAnswers \/ W!CallFails
  <1>1. /\ phase = "inflight" /\ phase' = "done" /\ outcome' \in {"ok", "error", "raised"}
        /\ outcome' = "ok" => priced
        /\ outcome' = "raised" => ~priced
        /\ attempt' = attempt /\ now' = now /\ calls' = calls /\ outcome = "none"
        /\ policy' = policy /\ asked' = asked /\ model' = model /\ deadline' = deadline
        /\ priced' = priced
    BY DEF CallAnswers, Return, given, counts, RetryInv, AttemptInv
  <1>2. CASE outcome' = "ok"
    BY <1>1, <1>2 DEF W!CallAnswers, W!Expired, W!FromSubmit, W!Msg, W!storeVars, W!producerVars,
       WorkerAt, AttemptOfWorker, Result, Day, Submitted, Expired, W!Error
  <1>3. CASE outcome' = "error"
    BY <1>1, <1>3 DEF W!CallFails, W!Expired, W!FromSubmit, W!Msg, W!storeVars, W!producerVars,
       WorkerAt, AttemptOfWorker, Result, Day, Submitted, Expired, W!Error
  <1>4. CASE outcome' = "raised"
    BY <1>1, <1>4 DEF W!CallAnswers, W!Expired, W!FromSubmit, W!Msg, W!storeVars, W!producerVars,
       WorkerAt, AttemptOfWorker, Result, Day, Submitted, Expired, W!Error
  <1> QED
    BY <1>1, <1>2, <1>3, <1>4

\* A failure is retried or final; the backoff is part of the next attempt.
LEMMA FailureIsTheWorkers ==
  ASSUME RetryInv, policy.attempts = LoopAttempts, NEW f \in Failures, CallFails(f)
  PROVE  W!CallFails
  <1>1. /\ phase = "inflight" /\ attempt' = attempt /\ now' = now /\ calls' = calls
        /\ outcome = "none"
        /\ policy' = policy /\ asked' = asked /\ model' = model /\ deadline' = deadline
        /\ priced' = priced
    BY DEF CallFails, given, counts, RetryInv, AttemptInv
  <1>2. CASE phase' = "done"
    <2>1. outcome' = "error"
      BY <1>2 DEF CallFails, Return
    <2> QED
      BY <1>1, <1>2, <2>1 DEF W!CallFails, W!Expired, W!FromSubmit, W!Msg, W!storeVars, W!producerVars,
       WorkerAt, AttemptOfWorker, Result, Day, Submitted, Expired, W!Error
  <1>3. CASE phase' # "done"
    <2>1. phase' = "backoff" /\ outcome' = outcome /\ attempt + 1 < LoopAttempts
      BY <1>3 DEF CallFails, Return
    <2> QED
      BY <1>1, <2>1 DEF W!CallFails, W!Expired, W!FromSubmit, W!Msg, W!storeVars, W!producerVars,
       WorkerAt, AttemptOfWorker, Result, Day, Submitted, Expired, W!Error
  <1> QED
    BY <1>2, <1>3

(* A request the SDK repeats and the end of a backoff are not seen by Worker. *)
LEMMA UnseenByTheWorker ==
  ASSUME RetryInv, SdkResend \/ BackoffEnds \/ UNCHANGED vars
  PROVE  UNCHANGED W!vars
  <1>1. /\ now' = now /\ calls' = calls /\ outcome' = outcome
        /\ policy' = policy /\ asked' = asked /\ model' = model /\ deadline' = deadline
        /\ priced' = priced
    BY DEF SdkResend, BackoffEnds, given, counts, vars
  <1>2. WorkerAt' = WorkerAt /\ AttemptOfWorker' = AttemptOfWorker
    <2>1. CASE SdkResend \/ UNCHANGED vars
      BY <2>1 DEF SdkResend, vars, WorkerAt, AttemptOfWorker
    <2>2. CASE BackoffEnds
      BY <2>2 DEF BackoffEnds, WorkerAt, AttemptOfWorker
    <2> QED
      BY <2>1, <2>2
  <1> QED
    BY <1>1, <1>2
    DEF W!vars, W!storeVars, W!producerVars, W!workerVars, Result, Day, Submitted, Expired

(* Time passes unseen until it passes the deadline. *)
LEMMA TimeIsTheWorkers ==
  ASSUME RetryInv, Tick
  PROVE  (W!Lapse("submit") /\ UNCHANGED W!workerVars) \/ UNCHANGED W!vars
  <1>1. /\ phase' = phase /\ attempt' = attempt /\ calls' = calls /\ outcome' = outcome
        /\ now \in Nat /\ now' = now + 1 /\ deadline \in Int \cup {Unset}
        /\ policy' = policy /\ asked' = asked /\ model' = model /\ deadline' = deadline
        /\ priced' = priced
    BY DEF Tick, given, counts, RetryInv, RetryTypeOK
  <1>2. WorkerAt' = WorkerAt /\ AttemptOfWorker' = AttemptOfWorker /\ Result' = Result
    BY <1>1 DEF WorkerAt, AttemptOfWorker, Result, Day
  <1>3. UNCHANGED W!workerVars
    BY <1>1, <1>2 DEF W!workerVars
  <1>4. CASE Expired' = Expired
    BY <1>1, <1>3, <1>4 DEF W!vars, W!storeVars, W!producerVars, Submitted, Day
  <1>5. CASE Expired' # Expired
    <2>1. deadline # Unset /\ Expired'
      BY <1>1, <1>5 DEF Expired
    <2>2. W!Lapse("submit")
      BY <1>1, <2>1 DEF W!Lapse, W!storeVars, Submitted, Day
    <2> QED
      BY <1>3, <2>2
  <1> QED
    BY <1>4, <1>5

(* The loop with a clock takes only steps of the loop Bus is proved with, whatever the
   settings, the job, the waits of the limiter, the failures and the answers. *)
THEOREM LoopImplementsTheWorkers == Spec => LoopIsTheWorkers
  <1>1. Init => Taken
    BY DEF Init, Taken, WorkerAt, AttemptOfWorker, Result, W!Error
  <1>2. RetryInv /\ [Next]_vars
          => [policy.attempts = LoopAttempts => LoopStep \/ UNCHANGED W!vars]_vars
    <2> SUFFICES ASSUME RetryInv, [Next]_vars, policy.attempts = LoopAttempts
                 PROVE  LoopStep \/ UNCHANGED W!vars
      OBVIOUS
    <2>1. CASE UNCHANGED vars
      BY <2>1, UnseenByTheWorker
    <2>2. CASE Next
      BY <2>2, AcquireIsTheWorkers, StartCallIsTheWorkers, AnswerIsTheWorkers,
         FailureIsTheWorkers, UnseenByTheWorker, TimeIsTheWorkers DEF Next, LoopStep
    <2> QED
      BY <2>1, <2>2
  <1> QED
    BY <1>1, <1>2, RetryInvHolds, PTL DEF Spec, LoopIsTheWorkers

=============================================================================
