--------------------------- MODULE BusRefinement ---------------------------
(***************************************************************************)
(* Every behaviour of the bus is a behaviour of JobLifecycle: seen through *)
(* Recorded, Finished and posted, a step of the bus either does nothing or *)
(* records, finishes or notifies one job.  Three kinds of steps touch what *)
(* is seen: insert_pending, finalize and the callback.  A last theorem is  *)
(* the action property on deadlines.                                       *)
(***************************************************************************)
EXTENDS BusProofs

(* What the life cycle sees stays put under a step that leaves the jobs table and the
   callbacks alone. *)
LEMMA Unseen ==
  ASSUME UNCHANGED <<row, posted>>
  PROVE  UNCHANGED <<Recorded, Finished, posted>>
  BY DEF Recorded, Finished, Identity, Terminal, ResultOf

(* A row nobody inserted shows as no identity, and one somebody did as an identity:
   insert_pending only ever gets a routed model. *)
LEMMA IdentityOf ==
  ASSUME IndInv, NEW j \in Jobs
  PROVE  /\ row[j] \in Row
         /\ Absent(j) => Identity(j) = [model |-> NoModel, day |-> NoDay]
         /\ ~Absent(j) => Identity(j) # [model |-> NoModel, day |-> NoDay]
  <1>1. row[j] \in Row
    BY DEF IndInv, TypeOK, StoreTypeOK
  <1>2. Absent(j) => row[j] = NoRow
    BY DEF IndInv, RowInv
  <1>3. ~Absent(j) => row[j].model \in Models
    BY RoutedAreModels DEF IndInv, RowInv
  <1> QED
    BY <1>1, <1>2, <1>3, SentinelsAreNotValues DEF Identity, NoRow

(* An outcome is never mistaken for the absence of a result. *)
LEMMA OutcomeIsResult == ASSUME NEW r \in Outcome PROVE r # NoResult
  BY DEF Outcome, NoResult

(* Two functions that differ in one place. *)
LEMMA OneChanged ==
  ASSUME NEW S, NEW f, NEW g, NEW x \in S, NEW v,
         f = [k \in S |-> f[k]], g = [k \in S |-> g[k]],
         \A k \in S : k # x => g[k] = f[k], g[x] = v
  PROVE  g = [f EXCEPT ![x] = v]
  OBVIOUS

(* Init of the bus shows as Init of the life cycle. *)
LEMMA InitRefines == Init => Lifecycle!Init
  <1> SUFFICES ASSUME Init PROVE Lifecycle!Init
    OBVIOUS
  <1>1. \A j \in Jobs : row[j] = NoRow
    BY DEF Init, StoreInit
  <1>2. Recorded = [j \in Jobs |-> [model |-> NoModel, day |-> NoDay]]
    BY <1>1 DEF Recorded, Identity, NoRow
  <1>3. Finished = [j \in Jobs |-> NoResult]
    BY <1>1 DEF Finished, Terminal, NoRow
  <1>4. posted = [j \in Jobs |-> <<>>]
    BY DEF Init, WorkerInit
  <1> QED
    BY <1>2, <1>3, <1>4 DEF Lifecycle!Init

(* insert_pending shows as Record, or as nothing for a duplicate. *)
LEMMA InsertRefines ==
  ASSUME IndInv, NEW s \in Submits, Insert(s), UNCHANGED workerVars
  PROVE  Lifecycle!Next \/ UNCHANGED <<Recorded, Finished, posted>>
  <1> DEFINE j == Job(s)
             fresh == [status |-> "pending", model |-> chosen[s], day |-> req[s].day,
                       cost |-> NoCost]
  <1>1. posted' = posted
    BY DEF workerVars
  <1>2. CASE ~Absent(j)
    <2>1. row' = row
      BY <1>2 DEF Insert, InsertPending
    <2> QED
      BY <1>1, <2>1, Unseen
  <1>3. CASE Absent(j)
    <2>1. row' = [row EXCEPT ![j] = fresh]
      BY <1>3 DEF Insert, InsertPending
    <2>2. j \in Jobs /\ chosen[s] \in Routed /\ req[s].day \in Days
      BY RequestsAreJobs DEF IndInv, TypeOK, ProducerTypeOK, SubmitInv, Insert, Request, Job
    <2>3. row \in [Jobs -> Row]
      BY DEF IndInv, TypeOK, StoreTypeOK
    <2>4. Identity(j) = [model |-> NoModel, day |-> NoDay]
      BY <1>3, <2>2, IdentityOf
    <2>5. Recorded' = [Recorded EXCEPT ![j] = [model |-> chosen[s], day |-> req[s].day]]
      <3>1. \A k \in Jobs : k # j => row'[k] = row[k]
        BY <2>1, <2>3
      <3>2. row'[j] = fresh
        BY <2>1, <2>2, <2>3
      <3>3. /\ \A k \in Jobs : Recorded'[k] = [model |-> row'[k].model, day |-> row'[k].day]
            /\ \A k \in Jobs : Recorded[k] = [model |-> row[k].model, day |-> row[k].day]
        BY DEF Recorded, Identity
      <3>4. \A k \in Jobs : k # j => Recorded'[k] = Recorded[k]
        BY <3>1, <3>3
      <3>5. Recorded'[j] = [model |-> chosen[s], day |-> req[s].day]
        BY <2>2, <3>2, <3>3
      <3>6. /\ Recorded' = [k \in Jobs |-> Recorded'[k]]
            /\ Recorded = [k \in Jobs |-> Recorded[k]]
        BY DEF Recorded
      <3> HIDE DEF j
      <3> QED
        BY <2>2, <3>4, <3>5, <3>6, OneChanged
    <2>6. Finished' = Finished
      <3>1. \A k \in Jobs : k # j => row'[k] = row[k]
        BY <2>1, <2>3
      <3>2. row'[j].status = "pending" /\ row[j].status = "absent"
        BY <2>1, <2>2, <2>3, <1>3 DEF Absent
      <3> QED
        BY <3>1, <3>2 DEF Finished, Terminal, ResultOf
    <2>7. Lifecycle!Record(j)
      <3>1. Recorded[j] = [model |-> NoModel, day |-> NoDay]
        BY <2>2, <2>4 DEF Recorded
      <3>2. [model |-> chosen[s], day |-> req[s].day] \in [model : Routed, day : Days]
        BY <2>2
      <3> HIDE DEF j
      <3> QED
        BY <3>1, <3>2, <2>5, <2>6, <1>1 DEF Lifecycle!Record
    <2> QED
      BY <2>2, <2>7 DEF Lifecycle!Next
  <1> QED
    BY <1>2, <1>3

(* finalize shows as Finish when it won, and as nothing when it did not. *)
LEMMA FinalizeRefines ==
  ASSUME IndInv, FinalizeResult
  PROVE  Lifecycle!Next \/ UNCHANGED <<Recorded, Finished, posted>>
  <1> DEFINE j == Msg.job
  <1>1. /\ posted' = posted
        /\ row' = IF Pending(j)
                  THEN [row EXCEPT ![j] =
                          [status |-> outcome.status, model |-> @.model, day |-> @.day,
                           cost |-> outcome.cost]]
                  ELSE row
    BY DEF FinalizeResult, Finalize
  <1>2. CASE ~Pending(j)
    BY <1>1, <1>2, Unseen
  <1>3. CASE Pending(j)
    <2>1. /\ j \in Jobs /\ outcome \in Outcome
          /\ row \in [Jobs -> Row]
      BY DEF IndInv, HandlingInv, Handling, TypeOK, WorkerTypeOK, StoreTypeOK, FinalizeResult
    <2>2. /\ \A k \in Jobs : k # j => row'[k] = row[k]
          /\ row'[j] = [status |-> outcome.status, model |-> row[j].model,
                        day |-> row[j].day, cost |-> outcome.cost]
      BY <1>1, <1>3, <2>1
    <2> HIDE DEF j
    <2>3. Recorded' = Recorded
      BY <2>1, <2>2 DEF Recorded, Identity
    <2>4. /\ outcome = [status |-> outcome.status, cost |-> outcome.cost]
          /\ outcome.status \in {"ok", "error"}
      BY <2>1 DEF Outcome
    <2>5. Finished[j] = NoResult /\ Finished'[j] = outcome
      BY <1>3, <2>1, <2>2, <2>4 DEF Finished, Terminal, Pending, ResultOf
    <2>6. \A k \in Jobs : k # j => Finished'[k] = Finished[k]
      BY <2>2 DEF Finished, Terminal, ResultOf
    <2>7. /\ Finished' = [k \in Jobs |-> Finished'[k]]
          /\ Finished = [k \in Jobs |-> Finished[k]]
      BY DEF Finished
    <2>8. Finished' = [Finished EXCEPT ![j] = outcome]
      BY <2>1, <2>5, <2>6, <2>7, OneChanged
    <2>9. Recorded[j] # [model |-> NoModel, day |-> NoDay]
      BY <1>3, <2>1, IdentityOf DEF Recorded, Absent, Pending
    <2>10. Lifecycle!Finish(j)
      BY <1>1, <2>1, <2>3, <2>5, <2>8, <2>9 DEF Lifecycle!Finish
    <2> QED
      BY <2>1, <2>10 DEF Lifecycle!Next
  <1> QED
    BY <1>2, <1>3

(* A callback that reached its receiver shows as Notify. *)
LEMMA CallbackRefines ==
  ASSUME IndInv, PostCallback
  PROVE  Lifecycle!Next \/ UNCHANGED <<Recorded, Finished, posted>>
  <1> DEFINE j == Msg.job
  <1>1. row' = row
    BY DEF PostCallback, storeVars
  <1>2. CASE posted' = posted
    BY <1>1, <1>2, Unseen
  <1>3. CASE posted' = [posted EXCEPT ![j] = Append(@, outcome)]
    <2>1. /\ j \in Jobs /\ Terminal(j) /\ ResultOf(j) = outcome /\ posted[j] = <<>>
          /\ outcome \in Outcome /\ posted \in [Jobs -> Seq(Outcome)]
      BY DEF IndInv, HandlingInv, Handling, TypeOK, WorkerTypeOK, PostCallback
    <2> HIDE DEF j
    <2>2. Recorded' = Recorded /\ Finished' = Finished
      BY <1>1 DEF Recorded, Finished, Identity, Terminal, ResultOf
    <2>3. Finished[j] = outcome /\ outcome # NoResult
      BY <2>1, OutcomeIsResult DEF Finished
    <2>4. Append(posted[j], outcome) = <<outcome>>
      BY <2>1
    <2>5. posted' = [posted EXCEPT ![j] = <<Finished[j]>>]
      BY <1>3, <2>1, <2>3, <2>4
    <2>6. Lifecycle!Notify(j)
      BY <2>1, <2>2, <2>3, <2>5 DEF Lifecycle!Notify
    <2> QED
      BY <2>1, <2>6 DEF Lifecycle!Next
  <1> QED
    BY <1>2, <1>3 DEF PostCallback

(* Every step of the bus shows as a step of the life cycle or as nothing. *)
LEMMA NextRefines ==
  ASSUME IndInv, [Next]_vars
  PROVE  Lifecycle!Next \/ UNCHANGED <<Recorded, Finished, posted>>
  <1>1. ASSUME NEW s \in Submits, SubmitStep(s) \/ PollStep(s) \/ Lapse(s), UNCHANGED workerVars
        PROVE  Lifecycle!Next \/ UNCHANGED <<Recorded, Finished, posted>>
    <2>1. CASE Insert(s)
      BY <1>1, <2>1, InsertRefines
    <2>2. CASE ~Insert(s)
      <3>1. row' = row
        BY <1>1, <2>2 DEF SubmitStep, PollStep, Resolve, ReadBack, Send, Abort, PollRead,
           PollAgain, PollTimeout, Lapse, storeVars
      <3> QED
        BY <1>1, <3>1, Unseen DEF workerVars
    <2> QED
      BY <2>1, <2>2
  <1>2. CASE FinalizeResult
    BY <1>2, FinalizeRefines
  <1>3. CASE PostCallback
    BY <1>3, CallbackRefines
  <1>4. CASE Start \/ Fetch \/ Commit \/ HandlerRaised \/ StoreFails \/ Crash
    BY <1>4, Unseen DEF Start, Fetch, Commit, HandlerRaised, StoreFails, Crash, storeVars
  <1>5. CASE Acquire \/ StartCall \/ CallAnswers \/ CallFails
    BY <1>5, Unseen DEF Acquire, StartCall, CallAnswers, CallFails, storeVars
  <1>6. ASSUME NEW k \in Keys, NEW m \in Routed, EditPolicy(k, m)
        PROVE  UNCHANGED <<Recorded, Finished, posted>>
    BY <1>6, Unseen DEF EditPolicy, workerVars
  <1>7. ASSUME NEW m \in ForeignMsgs, ForeignSend(m)
        PROVE  UNCHANGED <<Recorded, Finished, posted>>
    BY <1>7, Unseen DEF ForeignSend, storeVars, workerVars
  <1>8. CASE UNCHANGED vars
    BY <1>8, Unseen DEF vars, storeVars, workerVars
  <1> QED
    BY <1>1, <1>2, <1>3, <1>4, <1>5, <1>6, <1>7, <1>8 DEF Next, ProducerNext, WorkerStep

-----------------------------------------------------------------------------

(* The bus implements JobLifecycle for every set of jobs, models, days, requests and
   submits and any number of kills, redeliveries and retries: a job is recorded once,
   finished once, and its callback sent at most once with that result. *)
THEOREM BusImplementsLifecycle == Spec => LifecycleSpec
  <1>1. IndInv /\ [Next]_vars => [Lifecycle!Next]_<<Recorded, Finished, posted>>
    BY NextRefines
  <1> QED
    BY <1>1, InitRefines, IndInvHolds, PTL DEF Spec, LifecycleSpec, Lifecycle!Spec

(* _call_with_retry: no step starts a provider call for a job whose deadline has passed,
   on any attempt of any delivery. *)
THEOREM DeadlineIsKept == Spec => NoCallAfterDeadline
  <1>1. IndInv /\ [Next]_vars
          => [wpc # "inflight" /\ wpc' = "inflight" => log[pos].sub \notin lapsed]_vars
    <2> SUFFICES ASSUME IndInv, Next, wpc # "inflight", wpc' = "inflight"
                 PROVE  log[pos].sub \notin lapsed
      OBVIOUS
    <2>1. StartCall
      BY DEF Next, ProducerNext, workerVars, WorkerStep, Start, Fetch, Commit, HandlerRaised,
         Acquire, CallAnswers, CallFails, FinalizeResult, PostCallback, StoreFails, Crash,
         EditPolicy, ForeignSend
    <2>2. Msg.sub # NoSubmit
      BY <2>1 DEF StartCall, IndInv, HandlingInv, Servicing, OfSubmit, Msg
    <2> QED
      BY <2>1, <2>2 DEF StartCall, Expired, FromSubmit, Msg
  <1> QED
    BY <1>1, IndInvHolds, PTL DEF Spec, NoCallAfterDeadline

-----------------------------------------------------------------------------
(* The day a job is billed at and the day the ledger books it under.       *)

\* The first submit of a job_id fixes the day of its row; the cost comes from the
\* submitted_at of the message that was run.  Both are days of Jobs with that job_id.
BookedDay(j) == \E r \in Requests : r.job = j /\ r.day = row[j].day
PricedDay(j) == \E r \in Requests : r.job = j /\ r.day = row[j].cost.day

DayInv ==
  /\ req \in [Submits -> Requests]
  /\ wpc = "finalize" /\ outcome.status = "ok" => outcome.cost.day = req[Msg.sub].day
  /\ \A j \in Jobs : ~Absent(j) => BookedDay(j)
  /\ \A j \in Jobs : row[j].status = "ok" => PricedDay(j)

\* Steps that neither write a row nor finish a call.
LEMMA DaysUntouched ==
  ASSUME IndInv, DayInv, UNCHANGED <<row, req>>,
         wpc' = "finalize" /\ outcome'.status = "ok" =>
           wpc = "finalize" /\ outcome' = outcome /\ Msg' = Msg
  PROVE  DayInv'
  BY DEF DayInv, Absent, BookedDay, PricedDay

LEMMA InsertKeepsDays ==
  ASSUME IndInv, DayInv, NEW s \in Submits, Insert(s), UNCHANGED workerVars
  PROVE  DayInv'
  <1>1. /\ UNCHANGED <<req, log, wpc, pos, outcome>>
        /\ InsertPending(Job(s), chosen[s], req[s].day)
    BY DEF Insert, workerVars
  <1>2. CASE row' = row
    BY <1>1, <1>2, DaysUntouched DEF Msg
  <1>3. CASE Absent(Job(s))
    <2> DEFINE j == Job(s)
               new == [status |-> "pending", model |-> chosen[s], day |-> req[s].day,
                       cost |-> NoCost]
    <2>1. row' = [row EXCEPT ![j] = new] /\ row \in [Jobs -> Row]
      BY <1>1, <1>3 DEF InsertPending, IndInv, TypeOK, StoreTypeOK
    <2>2. req[s] \in Requests /\ req[s].job = j
      BY DEF DayInv, Job
    <2>3. \A k \in Jobs : row'[k] = IF k = j THEN new ELSE row[k]
      BY <2>1
    <2>4. \A k \in Jobs : row'[k].status # "absent" =>
            \E r \in Requests : r.job = k /\ r.day = row'[k].day
      BY <2>2, <2>3 DEF DayInv, Absent, BookedDay
    <2>5. \A k \in Jobs : row'[k].status = "ok" =>
            \E r \in Requests : r.job = k /\ r.day = row'[k].cost.day
      BY <2>3 DEF DayInv, PricedDay
    <2> QED
      BY <1>1, <2>4, <2>5 DEF DayInv, Absent, BookedDay, PricedDay, Msg
  <1> QED
    BY <1>1, <1>2, <1>3 DEF InsertPending

LEMMA CallAnswersKeepsDays ==
  ASSUME IndInv, DayInv, CallAnswers
  PROVE  DayInv'
  <1>1. /\ UNCHANGED <<row, req, log, pos>>
        /\ \/ wpc' = "raised"
           \/ outcome'.cost.day = req[Msg.sub].day
    BY DEF CallAnswers, storeVars, producerVars
  <1> QED
    BY <1>1 DEF DayInv, Absent, BookedDay, PricedDay, Msg

LEMMA FinalizeKeepsDays ==
  ASSUME IndInv, DayInv, FinalizeResult
  PROVE  DayInv'
  <1> DEFINE j == Msg.job
             done == [status |-> outcome.status, model |-> row[j].model,
                      day |-> row[j].day, cost |-> outcome.cost]
  <1>1. /\ wpc = "finalize" /\ wpc' # "finalize" /\ req' = req
        /\ Finalize(j, outcome)
    BY DEF FinalizeResult, producerVars
  <1>2. pos \in 1 .. Len(log) /\ Msg = log[pos] /\ row \in [Jobs -> Row]
    BY <1>1, InHand DEF IndInv, TypeOK, StoreTypeOK
  <1>3. CASE row' = row
    BY <1>1, <1>3, DaysUntouched
  <1>4. CASE Pending(j)
    <2>1. \A k \in Jobs : row'[k] = IF k = j THEN done ELSE row[k]
      BY <1>1, <1>2, <1>4 DEF Finalize
    <2>2. \A k \in Jobs : row'[k].status # "absent" =>
            \E r \in Requests : r.job = k /\ r.day = row'[k].day
      BY <1>4, <2>1 DEF DayInv, Absent, Pending, BookedDay
    <2>3. outcome.status = "ok" => req[Msg.sub] \in Requests /\ req[Msg.sub].job = j
      BY <1>1, <1>2, OnTopic DEF IndInv, HandlingInv, DayInv
    <2>4. \A k \in Jobs : row'[k].status = "ok" =>
            \E r \in Requests : r.job = k /\ r.day = row'[k].cost.day
      BY <1>1, <2>1, <2>3 DEF DayInv, PricedDay
    <2> QED
      BY <1>1, <2>2, <2>4 DEF DayInv, Absent, BookedDay, PricedDay
  <1> QED
    BY <1>1, <1>3, <1>4 DEF Finalize

\* Nothing else finishes with an answer, and the message in hand stays the same.
LEMMA ElseKeepsDays ==
  ASSUME IndInv, DayInv, [Next]_vars, ~CallAnswers, ~FinalizeResult,
         \A s \in Submits : ~(Insert(s) /\ UNCHANGED workerVars)
  PROVE  DayInv'
  <1>1. wpc = "finalize" => pos \in 1 .. Len(log) /\ log \in Seq(Message)
    BY InHand DEF IndInv, TypeOK, WorkerTypeOK
  <1>2. ASSUME NEW m, log' = Append(log, m), wpc = "finalize"
        PROVE  log'[pos] = log[pos]
    BY <1>1, <1>2
  <1>3. ASSUME ProducerNext, UNCHANGED workerVars
        PROVE  UNCHANGED <<row, req, wpc, pos, outcome>> /\ (wpc = "finalize" => Msg' = Msg)
    <2>1. UNCHANGED <<row, req, wpc, pos, outcome>>
      BY <1>3
      DEF ProducerNext, SubmitStep, PollStep, Resolve, ReadBack, Send, Abort, PollRead,
          PollAgain, PollTimeout, Lapse, storeVars, workerVars
    <2>2. log' = log \/ \E m : log' = Append(log, m)
      BY <1>3
      DEF ProducerNext, SubmitStep, PollStep, Resolve, ReadBack, Send, Abort, PollRead,
          PollAgain, PollTimeout, Lapse
    <2> QED
      BY <1>2, <2>1, <2>2 DEF Msg
  <1>4. ASSUME NEW m \in ForeignMsgs, ForeignSend(m)
        PROVE  UNCHANGED <<row, req, wpc, pos, outcome>> /\ (wpc = "finalize" => Msg' = Msg)
    BY <1>2, <1>4 DEF ForeignSend, storeVars, producerVars, workerVars, Msg
  <1>5. ASSUME Start \/ Fetch \/ Commit \/ HandlerRaised \/ Crash \/ StoreFails \/ PostCallback
        PROVE  UNCHANGED <<row, req>> /\ (wpc' = "finalize" => outcome' = Error)
    BY <1>5 DEF Start, Fetch, Commit, HandlerRaised, Crash, StoreFails, PostCallback,
       storeVars, producerVars
  <1>6. ASSUME Acquire \/ StartCall \/ CallFails
        PROVE  UNCHANGED <<row, req>> /\ (wpc' = "finalize" => outcome' = Error)
    BY <1>6 DEF Acquire, StartCall, CallFails, storeVars, producerVars
  <1>7. ASSUME NEW k \in Keys, NEW m \in Routed, EditPolicy(k, m)
        PROVE  UNCHANGED <<row, req, wpc, pos, outcome, log>>
    BY <1>7 DEF EditPolicy, producerVars, workerVars
  <1>8. ASSUME UNCHANGED vars
        PROVE  UNCHANGED <<row, req, wpc, pos, outcome, log>>
    BY <1>8 DEF vars, storeVars, producerVars, workerVars
  <1> QED
    BY <1>3, <1>4, <1>5, <1>6, <1>7, <1>8, DaysUntouched DEF Next, WorkerStep, Error, Msg

THEOREM DayInvHolds == Spec => []DayInv
  <1>1. Init => DayInv
    BY AsksAreRequests DEF Init, StoreInit, ProducerInit, WorkerInit, DayInv, NoRow, Absent
  <1>2. IndInv /\ DayInv /\ [Next]_vars => DayInv'
    BY InsertKeepsDays, CallAnswersKeepsDays, FinalizeKeepsDays, ElseKeepsDays
  <1> QED
    BY <1>1, <1>2, IndInvHolds, PTL DEF Spec

(* store.py on ProjectDayCost, as far as it is so: as long as no two Jobs of one job_id were
   built on different days, a day's spend is grouped exactly as it was billed. *)
THEOREM OneDayPerJob ==
  ASSUME \A p, q \in Requests : p.job = q.job => p.day = q.day
  PROVE  Spec => []PricedOnLedgerDay
  <1>1. DayInv => PricedOnLedgerDay
    BY DEF DayInv, PricedOnLedgerDay, Absent, BookedDay, PricedDay
  <1> QED
    BY <1>1, DayInvHolds, PTL

=============================================================================
