------------------------------- MODULE Worker -------------------------------
(***************************************************************************)
(* The worker (worker.py, processing.py): one process that consumes the    *)
(* single partition in order, handles one message at a time and lets the   *)
(* SDK commit the offset after each.  The steps are the code's await       *)
(* points; the process may be killed between any two and is restarted by   *)
(* systemd.  The broker and its SDK (the stored offset, what happens to an *)
(* exception of the handler) are external and modelled from how run_worker *)
(* uses them.                                                              *)
(***************************************************************************)
EXTENDS Producer

CONSTANTS
  Wired,        \* routed models whose provider has an adapter configured
  PricedDays,   \* days on or after the first price point of cost.py
  NoJob,        \* the job field of a body that is not a Job
  ForeignMsgs,  \* messages put on the topic some other way, each at most once
  MaxAttempts,  \* RetryPolicy.max_attempts
  MaxFaults     \* bound: kills of the worker and store errors in one behaviour

ASSUME WiredAreRouted == Wired \subseteq Routed
ASSUME PricedAreDays == PricedDays \subseteq Days
ASSUME NoJobIsNoJob == NoJob \notin Jobs
ASSUME ForeignAssumption ==
  ForeignMsgs \subseteq [sub : {NoSubmit}, job : Jobs \cup {NoJob},
                         model : (Models \ Routed) \cup {NoModel}]
ASSUME BoundsAreNumbers == MaxAttempts \in Nat \ {0} /\ MaxFaults \in Nat

VARIABLES
  committed,    \* the offset stored for the consumer group: messages passed for good
  wpc,          \* where the worker is
  pos,          \* messages this worker process has taken since it joined, plus committed
  attempt,      \* attempt of _call_with_retry
  outcome,      \* the Result built for the message being handled
  faults,      \* kills and store errors so far
  ran,          \* history: the models called for each job, paid for or not
  posted,       \* history: the callbacks each job's receiver was sent, in order
  raised        \* history: positions whose handler ended in an exception

workerVars == <<committed, wpc, pos, attempt, outcome, faults, ran, posted, raised>>
vars == <<storeVars, producerVars, log, workerVars>>

WPC == {"down", "idle", "attempt", "call", "inflight", "raised",
        "finalize", "callback", "commit"}

Error == [status |-> "error", cost |-> NoCost]

Message == [sub : Submits \cup {NoSubmit}, job : Jobs \cup {NoJob},
            model : Models \cup {NoModel}]

WorkerTypeOK ==
  /\ log \in Seq(Message)
  /\ committed \in Nat /\ pos \in Nat
  /\ wpc \in WPC
  /\ attempt \in 0 .. MaxAttempts - 1
  /\ outcome \in Outcome
  /\ faults \in 0 .. MaxFaults
  /\ ran \in [Jobs -> SUBSET Models]
  /\ posted \in [Jobs -> Seq(Outcome)]
  /\ raised \subseteq Nat

WorkerInit ==
  /\ log = <<>>
  /\ committed = 0 /\ wpc = "down" /\ pos = 0
  /\ attempt = 0 /\ outcome = Error /\ faults = 0
  /\ ran = [j \in Jobs |-> {}]
  /\ posted = [j \in Jobs |-> <<>>]
  /\ raised = {}

\* The message being handled.
Msg == log[pos]
FromSubmit == Msg.sub # NoSubmit
Expired == FromSubmit /\ Msg.sub \in lapsed

\* Whether the message carries a callback_url: anything, for one no submit() sent.
MayWantCallback == IF FromSubmit THEN {req[Msg.sub].callback} ELSE BOOLEAN

\* A decoded job the worker can call a provider for.
Servable(m) == m.job # NoJob /\ m.model \in Wired

-----------------------------------------------------------------------------
(* The consumer: fetch, commit, process life.                              *)

\* Faulty variant: PollingStrategy.Last, a restart begins at the end of the topic.
StartAtEnd ==
  /\ wpc = "down"
  /\ wpc' = "idle" /\ pos' = Len(log)
  /\ UNCHANGED <<storeVars, producerVars, log, committed, attempt, outcome, faults,
                 ran, posted, raised>>

\* systemd starts the process; it joins the group and polls Next.
Start ==
  /\ wpc = "down"
  /\ wpc' = "idle" /\ pos' = committed
  /\ UNCHANGED <<storeVars, producerVars, log, committed, attempt, outcome, faults,
                 ran, posted, raised>>

\* Faulty variant: AutoCommitWhen.PollingMessages, the offset stored at the fetch.
FetchCommitting ==
  /\ wpc = "idle" /\ pos < Len(log)
  /\ pos' = pos + 1 /\ committed' = pos + 1
  /\ wpc' = IF Servable(log[pos + 1]) THEN "attempt" ELSE "commit"
  /\ attempt' = 0 /\ outcome' = Error
  /\ UNCHANGED <<storeVars, producerVars, log, faults, ran, posted, raised>>

\* The next message, by what _consume_one and process_job make of it before any
\* await: a body that is not a Job is dropped, a job without a model, with a model
\* nobody routes or whose provider has no adapter gets an error Result.
Fetch ==
  /\ wpc = "idle" /\ pos < Len(log)
  /\ pos' = pos + 1
  /\ LET m == log[pos + 1] IN
     \/ /\ m.job = NoJob
        /\ wpc' = "commit"
     \/ /\ m.job # NoJob /\ ~Servable(m)
        /\ wpc' = "finalize"
     \/ /\ Servable(m)
        /\ wpc' = "attempt"
  /\ attempt' = 0 /\ outcome' = Error
  /\ UNCHANGED <<storeVars, producerVars, log, committed, faults, ran, posted, raised>>

\* AutoCommitAfter.ConsumingEachMessage: the handler returned.  Storing the offset
\* may fail; the worker goes on and a later commit passes this message too.
Commit ==
  /\ wpc = "commit"
  /\ wpc' = "idle"
  /\ committed' \in {committed, pos}
  /\ attempt' = 0 /\ outcome' = Error
  /\ UNCHANGED <<storeVars, producerVars, log, pos, faults, ran, posted, raised>>

\* An exception left the handler.  What the SDK does with it is not ours: the
\* process may end with the offset where it was, or the loop may go on.
HandlerRaised ==
  /\ wpc = "raised"
  /\ wpc' \in {"down", "commit"}
  /\ attempt' = 0 /\ outcome' = Error
  /\ UNCHANGED <<storeVars, producerVars, log, committed, pos, faults, ran, posted, raised>>

\* The process is killed at any point; everything it held in memory is gone.
Crash ==
  /\ wpc # "down" /\ faults < MaxFaults
  /\ wpc' = "down" /\ faults' = faults + 1
  /\ attempt' = 0 /\ outcome' = Error
  /\ UNCHANGED <<storeVars, producerVars, log, committed, pos, ran, posted, raised>>

-----------------------------------------------------------------------------
(* _call_with_retry()                                                      *)

\* The deadline check before a slot of the rate limit is reserved, then the wait
\* for that slot.
Acquire ==
  /\ wpc = "attempt"
  /\ IF Expired
     THEN wpc' = "finalize" /\ outcome' = Error
     ELSE wpc' = "call" /\ UNCHANGED outcome
  /\ UNCHANGED <<storeVars, producerVars, log, committed, pos, attempt, faults,
                 ran, posted, raised>>

\* Faulty variant: no second look at the deadline after the wait.
StartCallUnchecked ==
  /\ wpc = "call"
  /\ wpc' = "inflight"
  /\ ran' = [ran EXCEPT ![Msg.job] = @ \cup {Msg.model}]
  /\ UNCHANGED <<storeVars, producerVars, log, committed, pos, attempt, outcome, faults,
                 posted, raised>>

\* The deadline check after the wait; then the adapter refuses the parameters, or the
\* provider call starts: from here the provider may bill.
StartCall ==
  /\ wpc = "call"
  /\ \/ /\ wpc' = "finalize" /\ outcome' = Error
        /\ UNCHANGED ran
     \/ /\ ~Expired
        /\ wpc' = "inflight"
        /\ ran' = [ran EXCEPT ![Msg.job] = @ \cup {Msg.model}]
        /\ UNCHANGED outcome
  /\ UNCHANGED <<storeVars, producerVars, log, committed, pos, attempt, faults,
                 posted, raised>>

\* The call answered: price it at the message's own submitted_at.  cost.py raises
\* for a day before its first price point, outside the try.
CallAnswers ==
  /\ wpc = "inflight"
  /\ LET day == req[Msg.sub].day IN
     IF day \in PricedDays
     THEN /\ outcome' = [status |-> "ok", cost |-> [model |-> Msg.model, day |-> day]]
          /\ wpc' = "finalize" /\ UNCHANGED raised
     ELSE /\ wpc' = "raised" /\ raised' = raised \cup {pos}
          /\ UNCHANGED outcome
  /\ UNCHANGED <<storeVars, producerVars, log, committed, pos, attempt, faults,
                 ran, posted>>

\* Faulty variant: attempt < max_attempts instead of attempt + 1 < max_attempts.
CallFailsOffByOne ==
  /\ wpc = "inflight"
  /\ \/ /\ attempt < MaxAttempts
        /\ attempt' = attempt + 1 /\ wpc' = "attempt" /\ UNCHANGED outcome
     \/ /\ wpc' = "finalize" /\ outcome' = Error /\ UNCHANGED attempt
  /\ UNCHANGED <<storeVars, producerVars, log, committed, pos, faults,
                 ran, posted, raised>>

\* The call timed out or failed: retried after a backoff while attempts remain and
\* the failure is transient, else terminal.
CallFails ==
  /\ wpc = "inflight"
  /\ \/ /\ attempt + 1 < MaxAttempts
        /\ attempt' = attempt + 1 /\ wpc' = "attempt" /\ UNCHANGED outcome
     \/ /\ wpc' = "finalize" /\ outcome' = Error /\ UNCHANGED attempt
  /\ UNCHANGED <<storeVars, producerVars, log, committed, pos, faults,
                 ran, posted, raised>>

-----------------------------------------------------------------------------
(* _finalize_and_notify()                                                  *)

\* Faulty variant: the callback is sent whether or not this delivery won.
FinalizeAlwaysNotify ==
  /\ wpc = "finalize"
  /\ Finalize(Msg.job, outcome)
  /\ \E wanted \in MayWantCallback : wpc' = IF wanted THEN "callback" ELSE "commit"
  /\ UNCHANGED <<policy, producerVars, log, committed, pos, attempt, outcome, faults,
                 ran, posted, raised>>

\* finalize(); the callback only if this delivery wrote the row.
FinalizeResult ==
  /\ wpc = "finalize"
  /\ Finalize(Msg.job, outcome)
  /\ \E wanted \in MayWantCallback :
       wpc' = IF Pending(Msg.job) /\ wanted THEN "callback" ELSE "commit"
  /\ UNCHANGED <<policy, producerVars, log, committed, pos, attempt, outcome, faults,
                 ran, posted, raised>>

\* The write fails (the database stays locked past busy_timeout): nothing in
\* process_job catches it.
StoreFails ==
  /\ wpc = "finalize" /\ faults < MaxFaults
  /\ wpc' = "raised" /\ faults' = faults + 1
  /\ raised' = raised \cup {pos}
  /\ UNCHANGED <<storeVars, producerVars, log, committed, pos, attempt, outcome,
                 ran, posted>>

\* _deliver(): the POST reaches the receiver or is logged and given up.
PostCallback ==
  /\ wpc = "callback"
  /\ wpc' = "commit"
  /\ \/ posted' = [posted EXCEPT ![Msg.job] = Append(@, outcome)]
     \/ UNCHANGED posted
  /\ UNCHANGED <<storeVars, producerVars, log, committed, pos, attempt, outcome, faults,
                 ran, raised>>

\* Everything the worker does by itself.
WorkerStep ==
  \/ Start \/ Fetch \/ Commit \/ HandlerRaised
  \/ Acquire \/ StartCall \/ CallAnswers \/ CallFails
  \/ FinalizeResult \/ PostCallback

=============================================================================
