------------------------------ MODULE Producer ------------------------------
(***************************************************************************)
(* BusClient (client.py): one process per call of submit(), followed by    *)
(* the await_result() of the same caller, if it makes one.  A retry of a   *)
(* submit is another element of Submits with the same job.  The steps are  *)
(* the code's await points: policy read, insert, read-back of the recorded *)
(* model, send, poll read, deadline check; anything may happen between two *)
(* of them.                                                                *)
(***************************************************************************)
EXTENDS Store, Sequences, Naturals

CONSTANTS
  Submits,     \* calls of submit()
  Awaited,     \* those whose caller goes on to await_result(), once submit() returns
  Requests,    \* the Job objects callers may pass
  Asks,        \* which of them the calls pass, together
  Routed,      \* models CAPABILITIES routes to a provider
  NoSubmit     \* the sub field of a message no submit() sent

Request == [job : Jobs, model : Models \cup {NoModel}, key : Keys,
            day : Days, ttl : BOOLEAN, callback : BOOLEAN]

ASSUME RequestsAreJobs == Requests \subseteq Request
ASSUME AsksAreRequests == Asks \subseteq [Submits -> Requests]
ASSUME RoutedAreModels == Routed \subseteq Models
ASSUME AwaitedAreSubmits == Awaited \subseteq Submits
ASSUME NoSubmitIsNoCall == NoSubmit \notin Submits

VARIABLES
  req,         \* req[s]: the Job passed to submit call s
  lapsed,      \* the submit calls whose ttl_s has elapsed since submitted_at
  pc,          \* where each call is
  chosen,      \* the model of the copy of the job being submitted
  got,         \* the Result await_result returned
  log          \* the llm-jobs topic: its single partition, oldest first

producerVars == <<req, lapsed, pc, chosen, got>>

PC == {"resolve", "insert", "readback", "send", "sent", "checked",
       "got", "timedout", "rejected", "aborted"}

NoResult == [status |-> "pending", cost |-> NoCost]

ProducerTypeOK ==
  /\ req \in [Submits -> Request]
  /\ lapsed \subseteq Submits
  /\ pc \in [Submits -> PC]
  /\ chosen \in [Submits -> Models \cup {NoModel}]
  /\ got \in [Submits -> Outcome \cup {NoResult}]

ProducerInit ==
  /\ req \in Asks
  /\ lapsed = {}
  /\ pc = [s \in Submits |-> "resolve"]
  /\ chosen = [s \in Submits |-> NoModel]
  /\ got = [s \in Submits |-> NoResult]

Job(s) == req[s].job
Goto(s, label) == pc' = [pc EXCEPT ![s] = label]

\* The message a submit puts on the topic; day, ttl_s and callback_url ride in
\* the body too and are read through sub.
MessageOf(s, m) == [sub |-> s, job |-> Job(s), model |-> m]

-----------------------------------------------------------------------------
(* submit()                                                                *)

\* An explicit model wins; else the policy of the job's (project, kind).
ResolvedModel(s) ==
  IF req[s].model # NoModel THEN req[s].model ELSE policy[req[s].key]

\* resolve_model() raises when no model is set, provider_for() when the model is
\* not routed: both before the first side effect.
Resolve(s) ==
  /\ pc[s] = "resolve"
  /\ LET m == ResolvedModel(s) IN
     IF m \in Routed
     THEN Goto(s, "insert") /\ chosen' = [chosen EXCEPT ![s] = m]
     ELSE Goto(s, "rejected") /\ UNCHANGED chosen
  /\ UNCHANGED <<storeVars, log, req, lapsed, got>>

\* insert_pending(), and the branch on whether this call wrote the row.
Insert(s) ==
  /\ pc[s] = "insert"
  /\ InsertPending(Job(s), chosen[s], req[s].day)
  /\ Goto(s, IF Absent(Job(s)) THEN "send" ELSE "readback")
  /\ UNCHANGED <<policy, log, req, lapsed, chosen, got>>

\* Faulty variant: the duplicate keeps its own choice of model.
ReadBackIgnored(s) ==
  /\ pc[s] = "readback"
  /\ Goto(s, "send")
  /\ UNCHANGED <<storeVars, log, req, lapsed, chosen, got>>

\* _model_already_on_record(): a duplicate sends the model the row names.
ReadBack(s) ==
  /\ pc[s] = "readback"
  /\ chosen' = [chosen EXCEPT ![s] = IF Absent(Job(s)) THEN @ ELSE row[Job(s)].model]
  /\ Goto(s, "send")
  /\ UNCHANGED <<storeVars, log, req, lapsed, got>>

\* send_messages() appended the message; the caller may still see an error (the
\* acknowledgement was lost) and never reach await_result().
Send(s) ==
  /\ pc[s] = "send"
  /\ log' = Append(log, MessageOf(s, chosen[s]))
  /\ \E next \in {"sent", "aborted"} : Goto(s, next)
  /\ UNCHANGED <<storeVars, req, lapsed, chosen, got>>

\* The producer dies, or the store or the broker raises, before the message is on
\* the topic.
Abort(s) ==
  /\ pc[s] \in {"insert", "readback", "send"}
  /\ Goto(s, "aborted")
  /\ UNCHANGED <<storeVars, log, req, lapsed, chosen, got>>

-----------------------------------------------------------------------------
(* await_result() / poll_result()                                          *)

\* Faulty variant: the deadline is never looked at.
PollReadForever(s) ==
  /\ s \in Awaited /\ pc[s] = "sent" /\ Terminal(Job(s))
  /\ Goto(s, "got") /\ got' = [got EXCEPT ![s] = ResultOf(Job(s))]
  /\ UNCHANGED <<storeVars, log, req, lapsed, chosen>>

\* The row is read before the deadline is looked at.
PollRead(s) ==
  /\ s \in Awaited /\ pc[s] = "sent"
  /\ IF Terminal(Job(s))
     THEN Goto(s, "got") /\ got' = [got EXCEPT ![s] = ResultOf(Job(s))]
     ELSE Goto(s, "checked") /\ UNCHANGED got
  /\ UNCHANGED <<storeVars, log, req, lapsed, chosen>>

\* timeout_s has not elapsed: sleep poll_interval_s and read again.
PollAgain(s) ==
  /\ pc[s] = "checked"
  /\ Goto(s, "sent")
  /\ UNCHANGED <<storeVars, log, req, lapsed, chosen, got>>

\* timeout_s has elapsed: TimeoutError, whatever the row has become meanwhile.
PollTimeout(s) ==
  /\ pc[s] = "checked"
  /\ Goto(s, "timedout")
  /\ UNCHANGED <<storeVars, log, req, lapsed, chosen, got>>

\* Time passes the deadline submitted_at + ttl_s of a job that has one.  The clock
\* runs from the construction of the Job, so this can precede the submit.
Lapse(s) ==
  /\ req[s].ttl
  /\ lapsed' = lapsed \cup {s}
  /\ UNCHANGED <<storeVars, log, req, pc, chosen, got>>

SubmitStep(s) == Resolve(s) \/ Insert(s) \/ ReadBack(s) \/ Send(s) \/ Abort(s)
PollStep(s)   == PollRead(s) \/ PollAgain(s) \/ PollTimeout(s)

ProducerNext == \E s \in Submits : SubmitStep(s) \/ PollStep(s) \/ Lapse(s)

=============================================================================
