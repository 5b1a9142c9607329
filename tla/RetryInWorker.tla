--------------------------- MODULE RetryInWorker ---------------------------
(***************************************************************************)
(* RetryLoop and Worker tell of the same _call_with_retry: here a job with *)
(* a clock, timers, a classified failure and an answer; there a phase of   *)
(* the one consumer in which all of these are a free choice.  This module  *)
(* says that whatever the first does is a step the second may take, for    *)
(* one message on the topic and a worker that allows LoopAttempts.         *)
(***************************************************************************)
EXTENDS RetryLoop, Sequences

CONSTANT LoopAttempts    \* the max_attempts of the worker that is looked at

ASSUME LoopAttemptsIsNumber == LoopAttempts \in Nat \ {0}

\* Where the worker is; a job in its backoff has begun its next attempt.
WorkerAt ==
  CASE phase \in {"attempt", "backoff"} -> "attempt"
    [] phase = "waiting"  -> "call"
    [] phase = "inflight" -> "inflight"
    [] phase = "done"     -> IF outcome = "raised" THEN "raised" ELSE "finalize"

AttemptOfWorker == IF phase = "backoff" THEN attempt + 1 ELSE attempt

\* The day of the job: 1 if it has a price point.
Day == IF priced THEN 1 ELSE 0

Result ==
  IF outcome = "ok" THEN [status |-> "ok", cost |-> [model |-> model, day |-> Day]]
  ELSE [status |-> "error", cost |-> "free"]

\* The Job passed to submit(), and the message it became.
Submitted ==
  [job |-> "job", model |-> model, key |-> "key", day |-> Day, ttl |-> deadline # Unset,
   callback |-> FALSE]

W == INSTANCE Worker WITH
  Jobs <- {"job"}, Models <- Models, NoModel <- "none", Days <- {0, 1}, NoDay <- "none",
  NoCost <- "free", Keys <- {"key"},
  Submits <- {"submit"}, Awaited <- {}, Requests <- {}, Asks <- {}, Routed <- Models,
  NoSubmit <- "none",
  Wired <- Models, PricedDays <- {1}, NoJob <- "none", ForeignMsgs <- {},
  MaxAttempts <- LoopAttempts, MaxFaults <- 0,
  row    <- [j \in {"job"} |-> [status |-> "pending", model |-> model, day |-> Day,
                                cost |-> "free"]],
  policy <- [k \in {"key"} |-> "none"],
  req    <- [s \in {"submit"} |-> Submitted],
  lapsed <- IF Expired THEN {"submit"} ELSE {},
  pc     <- [s \in {"submit"} |-> "sent"],
  chosen <- [s \in {"submit"} |-> model],
  got    <- [s \in {"submit"} |-> [status |-> "pending", cost |-> "free"]],
  log    <- << [sub |-> "submit", job |-> "job", model |-> model] >>,
  committed <- 0, pos <- 1, faults <- 0,
  raised <- IF outcome = "raised" THEN {1} ELSE {},
  wpc    <- WorkerAt, attempt <- AttemptOfWorker, outcome <- Result,
  ran    <- [j \in {"job"} |-> IF calls > 0 THEN {model} ELSE {}],
  posted <- [j \in {"job"} |-> <<>>]

\* What Fetch leaves when it has taken the message.
Taken == WorkerAt = "attempt" /\ AttemptOfWorker = 0 /\ Result = W!Error

LoopStep ==
  \/ W!Acquire \/ W!StartCall \/ W!CallAnswers \/ W!CallFails
  \/ W!Lapse("submit") /\ UNCHANGED W!workerVars

(* The loop with a clock implements the loop Bus is checked and proved with: from what a
   fetched message starts with, each step is the deadline check, the call, an answer, a
   failure or the passing of the deadline there, or cannot be seen there. *)
LoopIsTheWorkers ==
  /\ Taken
  /\ [][policy.attempts = LoopAttempts => LoopStep \/ UNCHANGED W!vars]_vars

=============================================================================
