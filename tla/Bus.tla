-------------------------------- MODULE Bus --------------------------------
(***************************************************************************)
(* The bus: producers, the store, the topic and the worker together, with  *)
(* an operator who edits the model policy and a topic that may also hold   *)
(* messages no submit() sent.  The properties are about what only their    *)
(* interleaving can break.                                                 *)
(***************************************************************************)
EXTENDS Worker, FiniteSets

Init == StoreInit /\ ProducerInit /\ WorkerInit

\* POST /policy: the form offers the routed models only.
EditPolicy(k, m) ==
  /\ SetModelPolicy(k, m)
  /\ UNCHANGED <<row, producerVars, log, workerVars>>

\* A message put on the topic some other way than submit().
ForeignSend(m) ==
  /\ \A i \in 1 .. Len(log) : log[i] # m
  /\ log' = Append(log, m)
  /\ UNCHANGED <<storeVars, producerVars, workerVars>>

Next ==
  \/ ProducerNext /\ UNCHANGED workerVars
  \/ WorkerStep \/ StoreFails \/ Crash
  \/ \E k \in Keys, m \in Routed : EditPolicy(k, m)
  \/ \E m \in ForeignMsgs : ForeignSend(m)

Spec == Init /\ [][Next]_vars

(* The worker is one process that systemd always restarts, so it keeps taking
   steps; a caller in await_result keeps polling, and its monotonic deadline
   cannot stay ahead of it for ever.  Nobody has to submit, to finish a submit, to
   edit a policy, and no fault has to happen. *)
FairSpec ==
  /\ Spec
  /\ WF_vars(WorkerStep)
  /\ \A s \in Awaited :
       /\ WF_vars(PollStep(s) /\ UNCHANGED workerVars)
       /\ SF_vars(PollTimeout(s) /\ UNCHANGED workerVars)

-----------------------------------------------------------------------------

TypeOK == StoreTypeOK /\ ProducerTypeOK /\ WorkerTypeOK

\* The messages submit() sent, by position.
Sent == {i \in 1 .. Len(log) : log[i].sub # NoSubmit}

(* The row and the topic tell the same story (client.submit): whatever concurrent
   or repeated submits of a job_id and policy edits between their steps, every
   message names the model its row records, and no other model is ever called for
   that job, on any delivery. *)
RowTopicAgree ==
  /\ \A i \in Sent : row[log[i].job].model = log[i].model
  /\ \A j \in Jobs : ran[j] \subseteq {row[j].model}

(* A job is never reported done at a cost its own model did not incur: an ok row is
   priced at the model the row names, and that model was called. *)
SpendIsAttributed ==
  \A j \in Jobs : row[j].status = "ok" =>
    row[j].cost.model = row[j].model /\ row[j].model \in ran[j]

(* The callback of a job is sent at most once over all deliveries, with the status and the
   cost that the store keeps. *)
CallbackOnce ==
  \A j \in Jobs : posted[j] # <<>> => Terminal(j) /\ posted[j] = <<ResultOf(j)>>

(* The offset only passes a message whose row has reached its terminal state, unless
   the handler of that message ended in an exception the SDK may skip. *)
CommittedMeansSettled ==
  \A i \in Sent : i <= committed => Terminal(log[i].job) \/ i \in raised

(* pending_count does not drift: a pending row is still owed to a message the worker
   has yet to pass, or to a submit that is on its way to the topic, unless a
   producer died in between or a handler raised. *)
PendingIsOwed ==
  \A j \in Jobs : Pending(j) =>
    \/ \E i \in Sent : log[i].job = j /\ (i > committed \/ i \in raised)
    \/ \E s \in Submits : Job(s) = j /\ pc[s] \in {"readback", "send", "aborted"}

(* What await_result() returned is the job's result and stays so: no later delivery
   can turn the stored result into another one. *)
GotIsFinal ==
  \A s \in Submits : pc[s] = "got" => Terminal(Job(s)) /\ got[s] = ResultOf(Job(s))

(* No provider call starts once the deadline of the job has passed, however long the
   rate limiter held it or how often it was retried or redelivered. *)
NoCallAfterDeadline ==
  [][wpc # "inflight" /\ wpc' = "inflight" => log[pos].sub \notin lapsed]_vars

(* The bus implements the abstract life cycle of a job: recorded once with one model and
   day, finished once, its callback sent at most once with that result. *)
Identity(j) == [model |-> row[j].model, day |-> row[j].day]
Recorded    == [j \in Jobs |-> Identity(j)]
Finished    == [j \in Jobs |-> IF Terminal(j) THEN ResultOf(j) ELSE NoResult]

Lifecycle == INSTANCE JobLifecycle WITH
  Identities <- [model : Routed, day : Days],
  NoIdentity <- [model |-> NoModel, day |-> NoDay],
  Results    <- Outcome,
  NoResult   <- NoResult,
  identity   <- Recorded,
  result     <- Finished,
  notified   <- posted

LifecycleSpec == Lifecycle!Spec

Delivered(s) == \E i \in Sent : log[i].sub = s
HandlerRaisedFor(s) == \E i \in Sent \cap raised : log[i].sub = s

\* The handler of a message before that of s, on the only partition, has just raised.
HeldUp(s) == wpc = "raised" /\ \E i \in Sent : log[i].sub = s /\ pos < i

(* Every job whose message reached the topic gets a terminal row, through kills and
   restarts of the worker, lost commits, poison, retries and the jobs ahead of it, unless
   its own handler raised or a message ahead of it comes back and raises for ever. *)
JobsFinish ==
  \A s \in Submits :
    [](Delivered(s) => \/ <>(Terminal(Job(s)) \/ HandlerRaisedFor(s))
                       \/ []<>HeldUp(s))

(* await_result() ends: with the result or with TimeoutError. *)
PollEnds ==
  \A s \in Awaited : pc[s] = "sent" ~> pc[s] \in {"got", "timedout"}

-----------------------------------------------------------------------------
(* Two statements of the code's own comments that the code does not keep.  *)

(* store.py on ProjectDayCost: a day's spend is grouped exactly as it was billed,
   so an ok row is priced at the day the ledger books it under. *)
PricedOnLedgerDay ==
  \A j \in Jobs : row[j].status = "ok" => row[j].cost.day = row[j].day

(* process_job: one bad job never stalls the loop, and every row reaches a terminal
   state; here without the escape JobsFinish grants to a handler that raised. *)
NoJobStalls == \A s \in Submits : Delivered(s) ~> Terminal(Job(s))

=============================================================================
