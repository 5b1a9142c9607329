----------------------------- MODULE BusProofs -----------------------------
(***************************************************************************)
(* The safety properties of Bus, proved for every number of submits, jobs, *)
(* models and faults.  IndInv (BusInvariant.tla) is shown to be inductive, *)
(* one lemma per group of actions that touch the same variables; the       *)
(* properties are read off it.                                             *)
(***************************************************************************)
EXTENDS BusInvariant, TLAPS

(* What a step leaves alone when it touches only the worker's own registers
   (wpc, pos, attempt, outcome, faults, raised, committed). *)
LEMMA RegistersOnly ==
  ASSUME IndInv, UNCHANGED <<storeVars, producerVars, log, ran, posted>>
  PROVE  /\ StoreTypeOK' /\ ProducerTypeOK'
         /\ LogInv' /\ SubmitInv' /\ RowInv'
         /\ SpendIsAttributed' /\ CallbackOnce' /\ GotIsFinal' /\ OwedInv'
<1>1. UNCHANGED <<row, policy, req, lapsed, pc, chosen, got, log, ran, posted>>
  BY DEF storeVars, producerVars
<1>2. StoreTypeOK' /\ ProducerTypeOK'
  BY <1>1 DEF IndInv, TypeOK, StoreTypeOK, ProducerTypeOK
<1>3. LogInv' /\ SubmitInv' /\ RowInv'
  BY <1>1 DEF IndInv, LogInv, SubmitInv, RowInv, OfSubmit, Absent, Pending, Terminal,
              ResultOf, Job
<1>4. SpendIsAttributed' /\ CallbackOnce'
  BY <1>1 DEF IndInv, SpendIsAttributed, CallbackOnce, Terminal, ResultOf
<1>5. GotIsFinal' /\ OwedInv'
  BY <1>1 DEF IndInv, GotIsFinal, OwedInv, Terminal, Pending, ResultOf, Job, OfSubmit
<1>6. QED
  BY <1>2, <1>3, <1>4, <1>5

(* What a step of a submit or a poll leaves alone when it writes neither the row nor
   the topic. *)
LEMMA CallOnly ==
  ASSUME IndInv, UNCHANGED <<row, req, log, workerVars>>
  PROVE  /\ WorkerTypeOK' /\ CursorInv' /\ HandlingInv' /\ LogInv' /\ RowInv'
         /\ SpendIsAttributed' /\ CallbackOnce' /\ SettledInv'
<1>1. UNCHANGED <<row, req, log, committed, wpc, pos, attempt, outcome, faults, ran,
                  posted, raised>>
  BY DEF workerVars
<1>2. WorkerTypeOK' /\ CursorInv'
  BY <1>1 DEF IndInv, TypeOK, WorkerTypeOK, CursorInv
<1>3. HandlingInv'
  BY <1>1 DEF IndInv, HandlingInv, Handling, Servicing, OfSubmit, Msg, Terminal, ResultOf
<1>4. LogInv' /\ RowInv'
  BY <1>1 DEF IndInv, LogInv, RowInv, OfSubmit, Absent, Pending, Terminal, ResultOf, Job
<1>5. SpendIsAttributed' /\ CallbackOnce' /\ SettledInv'
  BY <1>1 DEF IndInv, SpendIsAttributed, CallbackOnce, SettledInv, Settled, OfSubmit,
              Terminal, ResultOf
<1>6. QED
  BY <1>2, <1>3, <1>4, <1>5

(* What the invariant says of one message of the topic. *)
LEMMA OnTopic ==
  ASSUME IndInv, NEW i \in 1 .. Len(log)
  PROVE  /\ log[i] \in Message
         /\ OfSubmit(i) => /\ log[i].sub \in Submits /\ log[i].job \in Jobs
                          /\ log[i].job = req[log[i].sub].job
                          /\ log[i].model \in Routed
                          /\ ~Absent(log[i].job)
                          /\ row[log[i].job].model = log[i].model
<1>1. log \in Seq(Message)
  BY DEF IndInv, TypeOK, WorkerTypeOK
<1>2. log[i] \in Message
  BY <1>1
<1>3. ASSUME OfSubmit(i) PROVE log[i].sub \in Submits
  BY <1>2, <1>3 DEF Message, OfSubmit
<1>4. ASSUME OfSubmit(i)
      PROVE  log[i].job = req[log[i].sub].job /\ log[i].model \in Routed
  BY <1>4 DEF IndInv, LogInv, Job
<1>5. ASSUME OfSubmit(i) PROVE log[i].job \in Jobs
  BY <1>3, <1>4, <1>5 DEF IndInv, TypeOK, ProducerTypeOK, Request
<1>6. ASSUME OfSubmit(i)
      PROVE  ~Absent(log[i].job) /\ row[log[i].job].model = log[i].model
  BY <1>6 DEF IndInv, RowInv
<1>7. QED
  BY <1>2, <1>3, <1>4, <1>5, <1>6

-----------------------------------------------------------------------------
(* The initial states.                                                     *)

LEMMA InitInd == Init => IndInv
<1> SUFFICES ASSUME Init PROVE IndInv
  OBVIOUS
<1> USE DEF Init, StoreInit, ProducerInit, WorkerInit
<1>1. StoreTypeOK
  BY DEF StoreTypeOK, Row, NoRow
<1>2. ProducerTypeOK
  BY RequestsAreJobs, AsksAreRequests DEF ProducerTypeOK, PC, NoResult
<1>3. WorkerTypeOK
  BY BoundsAreNumbers DEF WorkerTypeOK, WPC, Outcome, Error
<1>4. LogInv /\ CursorInv /\ HandlingInv /\ SubmitInv
  BY DEF LogInv, CursorInv, HandlingInv, Handling, Servicing, SubmitInv
<1>5. RowInv
  BY DEF RowInv, NoRow, Absent, Pending, Terminal, ResultOf
<1>6. SpendIsAttributed /\ CallbackOnce /\ GotIsFinal
  BY DEF SpendIsAttributed, CallbackOnce, GotIsFinal, NoRow
<1>7. SettledInv /\ OwedInv
  BY DEF SettledInv, OwedInv, Pending, NoRow
<1>8. QED
  BY <1>1, <1>2, <1>3, <1>4, <1>5, <1>6, <1>7 DEF IndInv, TypeOK

-----------------------------------------------------------------------------
(* Submits and polls.                                                      *)

LEMMA ResolveInd ==
  ASSUME IndInv, NEW s \in Submits, Resolve(s), UNCHANGED workerVars
  PROVE  IndInv'
<1>1. UNCHANGED <<row, policy, req, lapsed, got, log>>
  BY DEF Resolve, storeVars
<1>2. WorkerTypeOK' /\ CursorInv' /\ HandlingInv' /\ LogInv' /\ RowInv'
        /\ SpendIsAttributed' /\ CallbackOnce' /\ SettledInv'
  BY <1>1, CallOnly
<1>3. /\ pc[s] = "resolve"
      /\ \/ /\ ResolvedModel(s) \in Routed
            /\ pc' = [pc EXCEPT ![s] = "insert"]
            /\ chosen' = [chosen EXCEPT ![s] = ResolvedModel(s)]
         \/ pc' = [pc EXCEPT ![s] = "rejected"] /\ chosen' = chosen
  BY DEF Resolve, Goto
<1>4. StoreTypeOK' /\ ProducerTypeOK'
  BY <1>1, <1>3, RoutedAreModels
     DEF IndInv, TypeOK, StoreTypeOK, ProducerTypeOK, PC
<1>5. SubmitInv'
  BY <1>1, <1>3 DEF IndInv, TypeOK, ProducerTypeOK, SubmitInv, Absent, Job
<1>6. GotIsFinal'
  BY <1>1, <1>3 DEF IndInv, TypeOK, ProducerTypeOK, GotIsFinal, Terminal, ResultOf, Job
<1>7. OwedInv'
  BY <1>1, <1>3 DEF IndInv, TypeOK, ProducerTypeOK, OwedInv, Pending, Job, OfSubmit
<1>8. QED
  BY <1>2, <1>4, <1>5, <1>6, <1>7 DEF IndInv, TypeOK

LEMMA ReadBackInd ==
  ASSUME IndInv, NEW s \in Submits, ReadBack(s), UNCHANGED workerVars
  PROVE  IndInv'
<1>1. UNCHANGED <<row, policy, req, lapsed, got, log>>
  BY DEF ReadBack, storeVars
<1>2. WorkerTypeOK' /\ CursorInv' /\ HandlingInv' /\ LogInv' /\ RowInv'
        /\ SpendIsAttributed' /\ CallbackOnce' /\ SettledInv'
  BY <1>1, CallOnly
<1>3. Job(s) \in Jobs /\ ~Absent(Job(s)) /\ row[Job(s)].model \in Routed
  BY DEF IndInv, TypeOK, ProducerTypeOK, Request, SubmitInv, RowInv, ReadBack, Job
<1>4. /\ pc[s] = "readback"
      /\ pc' = [pc EXCEPT ![s] = "send"]
      /\ chosen' = [chosen EXCEPT ![s] = row[Job(s)].model]
  BY <1>3 DEF ReadBack, Goto
<1>5. StoreTypeOK' /\ ProducerTypeOK'
  BY <1>1, <1>3, <1>4, RoutedAreModels
     DEF IndInv, TypeOK, StoreTypeOK, ProducerTypeOK, PC
<1>6. SubmitInv'
  BY <1>1, <1>3, <1>4 DEF IndInv, TypeOK, ProducerTypeOK, SubmitInv, Absent, Job
<1>7. GotIsFinal'
  BY <1>1, <1>4 DEF IndInv, TypeOK, ProducerTypeOK, GotIsFinal, Terminal, ResultOf, Job
<1>8. OwedInv'
  BY <1>1, <1>4 DEF IndInv, TypeOK, ProducerTypeOK, OwedInv, Pending, Job, OfSubmit
<1>9. QED
  BY <1>2, <1>5, <1>6, <1>7, <1>8 DEF IndInv, TypeOK

(* Giving up a submit, sleeping between polls, timing out. *)
LEMMA MoveInd ==
  ASSUME IndInv, NEW s \in Submits, Abort(s) \/ PollAgain(s) \/ PollTimeout(s),
         UNCHANGED workerVars
  PROVE  IndInv'
<1>1. UNCHANGED <<row, policy, req, lapsed, chosen, got, log>>
  BY DEF Abort, PollAgain, PollTimeout, storeVars
<1>2. WorkerTypeOK' /\ CursorInv' /\ HandlingInv' /\ LogInv' /\ RowInv'
        /\ SpendIsAttributed' /\ CallbackOnce' /\ SettledInv'
  BY <1>1, CallOnly
<1>3. \/ pc[s] \in {"insert", "readback", "send"} /\ pc' = [pc EXCEPT ![s] = "aborted"]
      \/ pc[s] = "checked" /\ pc' = [pc EXCEPT ![s] = "sent"]
      \/ pc[s] = "checked" /\ pc' = [pc EXCEPT ![s] = "timedout"]
  BY DEF Abort, PollAgain, PollTimeout, Goto
<1>4. StoreTypeOK' /\ ProducerTypeOK'
  BY <1>1, <1>3 DEF IndInv, TypeOK, StoreTypeOK, ProducerTypeOK, PC
<1>5. SubmitInv'
  BY <1>1, <1>3 DEF IndInv, TypeOK, ProducerTypeOK, SubmitInv, Absent, Job
<1>6. GotIsFinal'
  BY <1>1, <1>3 DEF IndInv, TypeOK, ProducerTypeOK, GotIsFinal, Terminal, ResultOf, Job
<1>7. OwedInv'
  BY <1>1, <1>3 DEF IndInv, TypeOK, ProducerTypeOK, OwedInv, Pending, Job, OfSubmit
<1>8. QED
  BY <1>2, <1>4, <1>5, <1>6, <1>7 DEF IndInv, TypeOK

(* The read of a poll. *)
LEMMA PollReadInd ==
  ASSUME IndInv, NEW s \in Submits, PollRead(s), UNCHANGED workerVars
  PROVE  IndInv'
<1>1. UNCHANGED <<row, policy, req, lapsed, chosen, log>>
  BY DEF PollRead, storeVars
<1>2. WorkerTypeOK' /\ CursorInv' /\ HandlingInv' /\ LogInv' /\ RowInv'
        /\ SpendIsAttributed' /\ CallbackOnce' /\ SettledInv'
  BY <1>1, CallOnly
<1>3. /\ pc[s] = "sent"
      /\ \/ /\ Terminal(Job(s))
            /\ pc' = [pc EXCEPT ![s] = "got"]
            /\ got' = [got EXCEPT ![s] = ResultOf(Job(s))]
         \/ pc' = [pc EXCEPT ![s] = "checked"] /\ got' = got
  BY DEF PollRead, Goto
<1>4. Terminal(Job(s)) => ResultOf(Job(s)) \in Outcome
  BY DEF IndInv, TypeOK, ProducerTypeOK, Request, RowInv, Job
<1>5. StoreTypeOK' /\ ProducerTypeOK'
  BY <1>1, <1>3, <1>4 DEF IndInv, TypeOK, StoreTypeOK, ProducerTypeOK, PC
<1>6. SubmitInv'
  BY <1>1, <1>3 DEF IndInv, TypeOK, ProducerTypeOK, SubmitInv, Absent, Job
<1>7. GotIsFinal'
  BY <1>1, <1>3 DEF IndInv, TypeOK, ProducerTypeOK, GotIsFinal, Terminal, ResultOf, Job
<1>8. OwedInv'
  BY <1>1, <1>3 DEF IndInv, TypeOK, ProducerTypeOK, OwedInv, Pending, Job, OfSubmit
<1>9. QED
  BY <1>2, <1>5, <1>6, <1>7, <1>8 DEF IndInv, TypeOK

(* Time passing a deadline, and an edit of the policy: nothing the invariant speaks
   of, but its types, mentions them. *)
LEMMA EnvironmentInd ==
  ASSUME IndInv,
         \/ \E s \in Submits : Lapse(s) /\ UNCHANGED workerVars
         \/ \E k \in Keys, m \in Routed : EditPolicy(k, m)
  PROVE  IndInv'
<1>1. UNCHANGED <<row, req, pc, chosen, got, log, workerVars>>
  BY DEF Lapse, EditPolicy, storeVars, producerVars
<1>2. WorkerTypeOK' /\ CursorInv' /\ HandlingInv' /\ LogInv' /\ RowInv'
        /\ SpendIsAttributed' /\ CallbackOnce' /\ SettledInv'
  BY <1>1, CallOnly
<1>3. policy' \in [Keys -> Models \cup {NoModel}] /\ lapsed' \subseteq Submits
  BY RoutedAreModels
     DEF IndInv, TypeOK, StoreTypeOK, ProducerTypeOK, Lapse, EditPolicy, SetModelPolicy,
         storeVars, producerVars
<1>4. StoreTypeOK' /\ ProducerTypeOK'
  BY <1>1, <1>3 DEF IndInv, TypeOK, StoreTypeOK, ProducerTypeOK
<1>5. SubmitInv' /\ GotIsFinal' /\ OwedInv'
  BY <1>1 DEF IndInv, SubmitInv, GotIsFinal, OwedInv, Absent, Terminal, Pending,
              ResultOf, Job, OfSubmit
<1>6. QED
  BY <1>2, <1>4, <1>5 DEF IndInv, TypeOK

(* insert_pending(): the one step that writes a row for a submit.  A call that finds
   the row leaves the table alone; the call that writes it sends the model it wrote. *)
LEMMA InsertInd ==
  ASSUME IndInv, NEW s \in Submits, Insert(s), UNCHANGED workerVars
  PROVE  IndInv'
<1> DEFINE j == Job(s)
           new == [status |-> "pending", model |-> chosen[s], day |-> req[s].day,
                   cost |-> NoCost]
<1>1. UNCHANGED <<policy, log, req, lapsed, chosen, got, committed, wpc, pos, attempt,
                  outcome, faults, ran, posted, raised>>
  BY DEF Insert, workerVars
<1>2. /\ j \in Jobs /\ chosen[s] \in Routed /\ chosen[s] \in Models
      /\ req[s].day \in Days /\ pc[s] = "insert" /\ row \in [Jobs -> Row]
  BY RoutedAreModels
     DEF IndInv, TypeOK, ProducerTypeOK, StoreTypeOK, Request, SubmitInv, Insert, Job
<1>3. CASE ~Absent(j)
  <2>1. row' = row /\ pc' = [pc EXCEPT ![s] = "readback"]
    BY <1>3 DEF Insert, InsertPending, Goto
  <2>2. UNCHANGED workerVars
    BY <1>1 DEF workerVars
  <2>3. WorkerTypeOK' /\ CursorInv' /\ HandlingInv' /\ LogInv' /\ RowInv'
          /\ SpendIsAttributed' /\ CallbackOnce' /\ SettledInv'
    BY <1>1, <2>1, <2>2, CallOnly
  <2>4. StoreTypeOK' /\ ProducerTypeOK'
    BY <1>1, <2>1 DEF IndInv, TypeOK, StoreTypeOK, ProducerTypeOK, PC
  <2>5. SubmitInv'
    BY <1>1, <1>2, <1>3, <2>1
       DEF IndInv, TypeOK, ProducerTypeOK, SubmitInv, Absent, Job
  <2>6. GotIsFinal' /\ OwedInv'
    BY <1>1, <1>2, <2>1 DEF IndInv, TypeOK, ProducerTypeOK, GotIsFinal, OwedInv, Terminal,
                            Pending, ResultOf, Job, OfSubmit
  <2>7. QED
    BY <2>3, <2>4, <2>5, <2>6 DEF IndInv, TypeOK
<1>4. CASE Absent(j)
  <2>1. row' = [row EXCEPT ![j] = new] /\ pc' = [pc EXCEPT ![s] = "send"]
    BY <1>4 DEF Insert, InsertPending, Goto
  <2>2. new \in Row
    BY <1>2 DEF Row
  <2>3. /\ \A k \in Jobs : k # j => row'[k] = row[k]
        /\ row'[j] = new /\ row' \in [Jobs -> Row]
    BY <1>2, <2>1, <2>2
  <2>4. \A k \in Jobs : Absent(k)' => Absent(k)
    BY <1>4, <2>3 DEF Absent
  <2>5. \A k \in Jobs : Terminal(k) \/ Terminal(k)' => k # j /\ row'[k] = row[k]
    BY <1>4, <2>3 DEF Absent, Terminal
  <2>6. StoreTypeOK' /\ ProducerTypeOK'
    BY <1>1, <2>1, <2>3 DEF IndInv, TypeOK, StoreTypeOK, ProducerTypeOK, PC
  <2>7. WorkerTypeOK' /\ CursorInv' /\ LogInv'
    BY <1>1 DEF IndInv, TypeOK, WorkerTypeOK, CursorInv, LogInv, OfSubmit, Job
  <2>8. HandlingInv'
    BY <1>1, <2>5
       DEF IndInv, HandlingInv, Handling, Servicing, OfSubmit, Msg, Terminal, ResultOf
  <2>9. SubmitInv'
    <3> SUFFICES ASSUME NEW t \in Submits
                 PROVE  /\ pc'[t] \in {"insert", "readback", "send"} => chosen'[t] \in Routed
                        /\ pc'[t] = "readback" => ~Absent(Job(t))'
                        /\ pc'[t] = "send" =>
                             ~Absent(Job(t))' /\ chosen'[t] = row'[Job(t)'].model
      BY DEF SubmitInv
    <3>1. Job(t) \in Jobs /\ Job(t)' = Job(t)
      BY <1>1 DEF IndInv, TypeOK, ProducerTypeOK, Request, Job
    <3>2. CASE t = s
      BY <3>1, <3>2, <1>1, <1>2, <2>1, <2>3
         DEF Absent, IndInv, TypeOK, ProducerTypeOK
    <3>3. CASE t # s
      <4>1. pc'[t] = pc[t] /\ chosen'[t] = chosen[t]
        BY <3>3, <1>1, <2>1 DEF IndInv, TypeOK, ProducerTypeOK
      <4>2. ~Absent(Job(t)) => ~Absent(Job(t))' /\ row'[Job(t)] = row[Job(t)]
        BY <3>1, <1>4, <2>3 DEF Absent
      <4>3. QED
        BY <4>1, <4>2, <3>1 DEF IndInv, SubmitInv
    <3>4. QED
      BY <3>2, <3>3
  <2>10. RowInv'
    <3>1. ASSUME NEW i \in 1 .. Len(log), OfSubmit(i)
          PROVE  row'[log[i].job].status # "absent" /\ row'[log[i].job].model = log[i].model
      <4>1. /\ log[i].job \in Jobs
            /\ ~Absent(log[i].job) /\ row[log[i].job].model = log[i].model
        BY <3>1, OnTopic
      <4>2. log[i].job # j
        BY <4>1, <1>4
      <4>3. QED
        BY <4>1, <4>2, <2>3 DEF Absent
    <3>2. \A i \in 1 .. Len(log') :
            log'[i].sub # NoSubmit =>
              row'[log'[i].job].status # "absent" /\ row'[log'[i].job].model = log'[i].model
      BY <1>1, <3>1 DEF OfSubmit
    <3>3. ASSUME NEW k \in Jobs
          PROVE  /\ ran'[k] \subseteq {row'[k].model}
                 /\ Absent(k)' => row'[k] = NoRow /\ ran'[k] = {}
                 /\ ~Absent(k)' => row'[k].model \in Routed
                 /\ Pending(k)' => row'[k].cost = NoCost
                 /\ Terminal(k)' => ResultOf(k)' \in Outcome
                 /\ ~Terminal(k)' => posted'[k] = <<>>
      <4>1. CASE k = j
        <5>1. ran[k] = {} /\ posted[k] = <<>>
          BY <4>1, <1>4 DEF IndInv, RowInv, Terminal, Absent
        <5>2. QED
          BY <5>1, <4>1, <1>1, <1>2, <2>3 DEF Absent, Pending, Terminal
      <4>2. CASE k # j
        BY <4>2, <1>1, <2>3 DEF IndInv, RowInv, Absent, Pending, Terminal, ResultOf
      <4>3. QED
        BY <4>1, <4>2
    <3>4. QED
      BY <3>2, <3>3 DEF RowInv, OfSubmit, Absent, Pending, Terminal, ResultOf
  <2>11. SpendIsAttributed' /\ CallbackOnce'
    BY <1>1, <2>5 DEF IndInv, SpendIsAttributed, CallbackOnce, Terminal, ResultOf
  <2>12. GotIsFinal'
    <3> SUFFICES ASSUME NEW t \in Submits, pc'[t] = "got"
                 PROVE  Terminal(Job(t))' /\ got'[t] = ResultOf(Job(t))'
      BY DEF GotIsFinal
    <3>1. pc[t] = "got" /\ Job(t) \in Jobs
      BY <2>1, <1>2 DEF IndInv, TypeOK, ProducerTypeOK, Request, Job
    <3>2. QED
      BY <3>1, <1>1, <2>5 DEF IndInv, GotIsFinal, Terminal, ResultOf, Job
  <2>13. SettledInv'
    <3>1. \A i \in 1 .. Len(log) : Settled(i) => Settled(i)'
      <4> SUFFICES ASSUME NEW i \in 1 .. Len(log), Settled(i), OfSubmit(i)
                   PROVE  Terminal(log[i].job)' \/ i \in raised'
        BY <1>1 DEF Settled, OfSubmit
      <4>1. log[i].job \in Jobs
        BY OnTopic
      <4>2. QED
        BY <4>1, <1>1, <2>5 DEF Settled, Terminal
    <3>2. QED
      BY <1>1, <3>1 DEF IndInv, TypeOK, WorkerTypeOK, CursorInv, SettledInv
  <2>14. OwedInv'
    BY <1>1, <1>2, <2>1, <2>3
       DEF IndInv, TypeOK, ProducerTypeOK, OwedInv, Pending, Job, OfSubmit
  <2>15. QED
    BY <2>6, <2>7, <2>8, <2>9, <2>10, <2>11, <2>12, <2>13, <2>14 DEF IndInv, TypeOK
<1>5. QED
  BY <1>3, <1>4

-----------------------------------------------------------------------------
(* The topic grows: what the invariant said of its messages still stands.  *)

LEMMA AppendKeeps ==
  ASSUME IndInv, NEW m \in Message, log' = Append(log, m),
         UNCHANGED <<row, req, workerVars>>
  PROVE  /\ Len(log') = Len(log) + 1 /\ log'[Len(log) + 1] = m
         /\ \A i \in 1 .. Len(log) : i \in 1 .. Len(log') /\ log'[i] = log[i]
         /\ WorkerTypeOK' /\ CursorInv' /\ HandlingInv' /\ SettledInv'
         /\ SpendIsAttributed' /\ CallbackOnce'
<1>1. /\ log \in Seq(Message) /\ Len(log) \in Nat
      /\ committed \in Nat /\ pos \in Nat /\ committed <= Len(log) /\ pos <= Len(log)
  BY DEF IndInv, TypeOK, WorkerTypeOK, CursorInv
<1>2. UNCHANGED <<committed, wpc, pos, attempt, outcome, faults, ran, posted, raised>>
  BY DEF workerVars
<1>3. /\ Len(log') = Len(log) + 1 /\ log'[Len(log) + 1] = m /\ log' \in Seq(Message)
      /\ \A i \in 1 .. Len(log) : i \in 1 .. Len(log') /\ log'[i] = log[i]
  BY <1>1
<1>4. WorkerTypeOK' /\ CursorInv'
  BY <1>1, <1>2, <1>3 DEF IndInv, TypeOK, WorkerTypeOK, CursorInv
<1>5. wpc \notin {"down", "idle"} => pos \in 1 .. Len(log)
  BY <1>1 DEF IndInv, HandlingInv
<1>6. HandlingInv'
  <2>1. CASE wpc \in {"down", "idle"}
    BY <2>1, <1>2 DEF HandlingInv, Handling, Servicing
  <2>2. CASE wpc \notin {"down", "idle"}
    <3>1. log'[pos] = log[pos]
      BY <2>2, <1>3, <1>5
    <3>2. QED
      BY <3>1, <1>2
         DEF IndInv, HandlingInv, Handling, Servicing, OfSubmit, Msg, Terminal, ResultOf
  <2>3. QED
    BY <2>1, <2>2
<1>7. SettledInv'
  <2>1. \A i \in 1 .. Len(log) : Settled(i) => Settled(i)'
    BY <1>2, <1>3 DEF Settled, OfSubmit, Terminal
  <2>2. QED
    BY <2>1, <1>1, <1>2 DEF IndInv, SettledInv
<1>8. SpendIsAttributed' /\ CallbackOnce'
  BY <1>2 DEF IndInv, SpendIsAttributed, CallbackOnce, Terminal, ResultOf
<1>9. QED
  BY <1>3, <1>4, <1>6, <1>7, <1>8

(* send_job(): the message names the model this call wrote or read back, so the new
   entry of the topic agrees with its row. *)
LEMMA SendInd ==
  ASSUME IndInv, NEW s \in Submits, Send(s), UNCHANGED workerVars
  PROVE  IndInv'
<1> DEFINE m == MessageOf(s, chosen[s])
           n == Len(log) + 1
<1>1. /\ UNCHANGED <<row, policy, req, lapsed, chosen, got, committed, wpc, pos, attempt,
                     outcome, faults, ran, posted, raised>>
      /\ pc[s] = "send" /\ log' = Append(log, m)
      /\ pc' = [pc EXCEPT ![s] = "sent"] \/ pc' = [pc EXCEPT ![s] = "aborted"]
  BY DEF Send, Goto, storeVars, workerVars
<1>2. /\ Job(s) \in Jobs /\ chosen[s] \in Routed
      /\ ~Absent(Job(s)) /\ chosen[s] = row[Job(s)].model
  BY <1>1 DEF IndInv, TypeOK, ProducerTypeOK, Request, SubmitInv, Job
<1>3. m = [sub |-> s, job |-> Job(s), model |-> chosen[s]] /\ m \in Message
  BY <1>2, RoutedAreModels DEF MessageOf, Message
<1>4. /\ Len(log') = n /\ log'[n] = m
      /\ \A i \in 1 .. Len(log) : i \in 1 .. Len(log') /\ log'[i] = log[i]
      /\ WorkerTypeOK' /\ CursorInv' /\ HandlingInv' /\ SettledInv'
      /\ SpendIsAttributed' /\ CallbackOnce'
  BY <1>1, <1>3, AppendKeeps
<1>5. \A i \in 1 .. Len(log') : i \in 1 .. Len(log) \/ i = n
  BY <1>4 DEF IndInv, TypeOK, WorkerTypeOK
<1>6. StoreTypeOK' /\ ProducerTypeOK'
  BY <1>1 DEF IndInv, TypeOK, StoreTypeOK, ProducerTypeOK, PC
<1>7. LogInv'
  BY <1>1, <1>2, <1>3, <1>4, <1>5, NoSubmitIsNoCall DEF IndInv, LogInv, OfSubmit, Job
<1>8. RowInv'
  <2>1. \A i \in 1 .. Len(log') :
          log'[i].sub # NoSubmit =>
            row[log'[i].job].status # "absent" /\ row[log'[i].job].model = log'[i].model
    BY <1>2, <1>3, <1>4, <1>5 DEF IndInv, RowInv, OfSubmit, Absent
  <2>2. QED
    BY <2>1, <1>1 DEF IndInv, RowInv, OfSubmit, Absent, Pending, Terminal, ResultOf
<1>9. SubmitInv' /\ GotIsFinal'
  BY <1>1 DEF IndInv, TypeOK, ProducerTypeOK, SubmitInv, GotIsFinal, Absent, Terminal,
              ResultOf, Job
<1>10. OwedInv'
  <2> SUFFICES ASSUME NEW j \in Jobs, Pending(j)'
               PROVE  \/ \E i \in 1 .. Len(log') : OfSubmit(i)' /\ log'[i].job = j
                      \/ \E t \in Submits : Job(t)' = j
                           /\ pc'[t] \in {"readback", "send", "aborted"}
    BY DEF OwedInv, OfSubmit, Job
  <2>1. CASE Job(s) = j
    <3>1. n \in 1 .. Len(log') /\ log'[n].sub # NoSubmit /\ log'[n].job = j
      BY <2>1, <1>3, <1>4, NoSubmitIsNoCall DEF IndInv, TypeOK, WorkerTypeOK
    <3>2. QED
      BY <3>1 DEF OfSubmit
  <2>2. CASE Job(s) # j
    <3>1. \/ \E i \in 1 .. Len(log) : OfSubmit(i) /\ log[i].job = j
          \/ \E t \in Submits : Job(t) = j /\ pc[t] \in {"readback", "send", "aborted"}
      BY <1>1 DEF IndInv, OwedInv, Pending
    <3>2. ASSUME NEW t \in Submits, Job(t) = j PROVE pc'[t] = pc[t] /\ Job(t)' = j
      BY <3>2, <2>2, <1>1 DEF IndInv, TypeOK, ProducerTypeOK, Job
    <3>3. ASSUME NEW i \in 1 .. Len(log), OfSubmit(i), log[i].job = j
          PROVE  i \in 1 .. Len(log') /\ OfSubmit(i)' /\ log'[i].job = j
      BY <3>3, <1>4 DEF OfSubmit
    <3>4. QED
      BY <3>1, <3>2, <3>3
  <2>3. QED
    BY <2>1, <2>2
<1>11. QED
  BY <1>4, <1>6, <1>7, <1>8, <1>9, <1>10 DEF IndInv, TypeOK

(* A message put on the topic some other way is one the worker can never serve. *)
LEMMA ForeignSendInd ==
  ASSUME IndInv, NEW m \in ForeignMsgs, ForeignSend(m)
  PROVE  IndInv'
<1> DEFINE n == Len(log) + 1
<1>1. /\ UNCHANGED <<row, policy, req, lapsed, pc, chosen, got, ran, posted, workerVars>>
      /\ log' = Append(log, m)
  BY DEF ForeignSend, storeVars, producerVars, workerVars
<1>2. m \in Message /\ m.sub = NoSubmit /\ m.model \notin Routed
  BY ForeignAssumption, SentinelsAreNotValues, RoutedAreModels DEF Message
<1>3. /\ Len(log') = n /\ log'[n] = m
      /\ \A i \in 1 .. Len(log) : i \in 1 .. Len(log') /\ log'[i] = log[i]
      /\ WorkerTypeOK' /\ CursorInv' /\ HandlingInv' /\ SettledInv'
      /\ SpendIsAttributed' /\ CallbackOnce'
  BY <1>1, <1>2, AppendKeeps
<1>4. \A i \in 1 .. Len(log') : i \in 1 .. Len(log) \/ i = n
  BY <1>3 DEF IndInv, TypeOK, WorkerTypeOK
<1>5. StoreTypeOK' /\ ProducerTypeOK'
  BY <1>1 DEF IndInv, TypeOK, StoreTypeOK, ProducerTypeOK, PC
<1>6. LogInv'
  BY <1>1, <1>2, <1>3, <1>4 DEF IndInv, LogInv, OfSubmit, Job
<1>7. RowInv'
  <2>1. \A i \in 1 .. Len(log') :
          log'[i].sub # NoSubmit =>
            row[log'[i].job].status # "absent" /\ row[log'[i].job].model = log'[i].model
    BY <1>2, <1>3, <1>4 DEF IndInv, RowInv, OfSubmit, Absent
  <2>2. QED
    BY <2>1, <1>1 DEF IndInv, RowInv, OfSubmit, Absent, Pending, Terminal, ResultOf
<1>8. SubmitInv' /\ GotIsFinal'
  BY <1>1 DEF IndInv, SubmitInv, GotIsFinal, Absent, Terminal, ResultOf, Job
<1>9. OwedInv'
  BY <1>1, <1>3 DEF IndInv, OwedInv, Pending, OfSubmit, Job
<1>10. QED
  BY <1>3, <1>5, <1>6, <1>7, <1>8, <1>9 DEF IndInv, TypeOK

-----------------------------------------------------------------------------
(* The worker.                                                             *)

LEMMA InHand ==
  ASSUME IndInv, wpc \notin {"down", "idle"}
  PROVE  pos \in 1 .. Len(log) /\ Msg = log[pos] /\ Msg \in Message
<1>1. pos \in 1 .. Len(log)
  BY DEF IndInv, TypeOK, WorkerTypeOK, CursorInv, HandlingInv
<1>2. QED
  BY <1>1, OnTopic DEF Msg

LEMMA StartInd == ASSUME IndInv, Start PROVE IndInv'
<1>1. /\ UNCHANGED <<storeVars, producerVars, log, ran, posted>>
      /\ UNCHANGED <<committed, attempt, outcome, faults, raised>>
      /\ wpc' = "idle" /\ pos' = committed
  BY DEF Start
<1>2. /\ StoreTypeOK' /\ ProducerTypeOK' /\ LogInv' /\ SubmitInv' /\ RowInv'
      /\ SpendIsAttributed' /\ CallbackOnce' /\ GotIsFinal' /\ OwedInv'
  BY <1>1, RegistersOnly
<1>3. WorkerTypeOK' /\ CursorInv' /\ HandlingInv'
  BY <1>1 DEF IndInv, TypeOK, WorkerTypeOK, WPC, CursorInv, HandlingInv, Handling, Servicing
<1>4. UNCHANGED row
  BY <1>1 DEF storeVars
<1>5. SettledInv'
  BY <1>1, <1>4 DEF IndInv, TypeOK, WorkerTypeOK, SettledInv, Settled, OfSubmit, Terminal
<1>6. QED
  BY <1>2, <1>3, <1>5 DEF IndInv, TypeOK

LEMMA FetchInd == ASSUME IndInv, Fetch PROVE IndInv'
<1> DEFINE n == pos + 1
<1>1. /\ UNCHANGED <<storeVars, producerVars, log, ran, posted>>
      /\ UNCHANGED <<committed, faults, raised>>
      /\ wpc = "idle" /\ pos < Len(log) /\ pos' = n
      /\ attempt' = 0 /\ outcome' = Error
      /\ \/ log[n].job = NoJob /\ wpc' = "commit"
         \/ log[n].job # NoJob /\ ~Servable(log[n]) /\ wpc' = "finalize"
         \/ Servable(log[n]) /\ wpc' = "attempt"
  BY DEF Fetch
<1>2. /\ StoreTypeOK' /\ ProducerTypeOK' /\ LogInv' /\ SubmitInv' /\ RowInv'
      /\ SpendIsAttributed' /\ CallbackOnce' /\ GotIsFinal' /\ OwedInv'
  BY <1>1, RegistersOnly
<1>3. row' = row /\ n \in 1 .. Len(log) /\ pos \in Nat /\ committed \in Nat
  BY <1>1 DEF storeVars, IndInv, TypeOK, WorkerTypeOK
<1>4. /\ log[n] \in Message
      /\ OfSubmit(n) => log[n].job \in Jobs
      /\ ~OfSubmit(n) => log[n].model \notin Routed
  BY <1>3, OnTopic DEF IndInv, LogInv
<1>5. WorkerTypeOK'
  BY <1>1, <1>3, BoundsAreNumbers
     DEF IndInv, TypeOK, WorkerTypeOK, WPC, Outcome, Error
<1>6. CursorInv'
  BY <1>1, <1>3 DEF IndInv, CursorInv
<1>7. HandlingInv'
  <2>1. log[n].job # NoJob => log[n].job \in Jobs
    BY <1>4 DEF Message
  <2>2. Servable(log[n]) => OfSubmit(n) /\ log[n].job # NoJob
    BY <1>4, WiredAreRouted DEF Servable
  <2>3. log'[pos'] = log[n] /\ (OfSubmit(pos))' = OfSubmit(n)
    BY <1>1 DEF OfSubmit
  <2>4. QED
    BY <1>1, <1>3, <2>1, <2>2, <2>3
       DEF HandlingInv, Handling, Servicing, Msg, Error
<1>8. SettledInv'
  <2>1. wpc' = "commit" => ~OfSubmit(n)
    BY <1>1, <1>4, NoJobIsNoJob DEF Servable
  <2>2. QED
    BY <1>1, <1>3, <2>1 DEF IndInv, SettledInv, Settled, OfSubmit, Terminal
<1>9. QED
  BY <1>2, <1>5, <1>6, <1>7, <1>8 DEF IndInv, TypeOK

LEMMA CommitInd == ASSUME IndInv, Commit PROVE IndInv'
<1>1. /\ UNCHANGED <<storeVars, producerVars, log, ran, posted>>
      /\ UNCHANGED <<pos, faults, raised>>
      /\ wpc = "commit" /\ wpc' = "idle" /\ committed' \in {committed, pos}
      /\ attempt' = 0 /\ outcome' = Error
  BY DEF Commit
<1>2. /\ StoreTypeOK' /\ ProducerTypeOK' /\ LogInv' /\ SubmitInv' /\ RowInv'
      /\ SpendIsAttributed' /\ CallbackOnce' /\ GotIsFinal' /\ OwedInv'
  BY <1>1, RegistersOnly
<1>3. row' = row
  BY <1>1 DEF storeVars
<1>4. WorkerTypeOK' /\ CursorInv' /\ HandlingInv'
  BY <1>1, BoundsAreNumbers
     DEF IndInv, TypeOK, WorkerTypeOK, WPC, Outcome, Error, CursorInv, HandlingInv,
         Handling, Servicing
<1>5. SettledInv'
  BY <1>1, <1>3 DEF IndInv, TypeOK, WorkerTypeOK, SettledInv, Settled, OfSubmit, Terminal
<1>6. QED
  BY <1>2, <1>4, <1>5 DEF IndInv, TypeOK

LEMMA HandlerRaisedInd == ASSUME IndInv, HandlerRaised PROVE IndInv'
<1>1. /\ UNCHANGED <<storeVars, producerVars, log, ran, posted>>
      /\ UNCHANGED <<committed, pos, faults, raised>>
      /\ wpc = "raised" /\ wpc' \in {"down", "commit"}
      /\ attempt' = 0 /\ outcome' = Error
  BY DEF HandlerRaised
<1>2. /\ StoreTypeOK' /\ ProducerTypeOK' /\ LogInv' /\ SubmitInv' /\ RowInv'
      /\ SpendIsAttributed' /\ CallbackOnce' /\ GotIsFinal' /\ OwedInv'
  BY <1>1, RegistersOnly
<1>3. row' = row
  BY <1>1 DEF storeVars
<1>4. WorkerTypeOK' /\ CursorInv' /\ HandlingInv'
  BY <1>1, BoundsAreNumbers
     DEF IndInv, TypeOK, WorkerTypeOK, WPC, Outcome, Error, CursorInv, HandlingInv,
         Handling, Servicing
<1>5. SettledInv'
  BY <1>1, <1>3 DEF IndInv, TypeOK, WorkerTypeOK, SettledInv, Settled, OfSubmit, Terminal
<1>6. QED
  BY <1>2, <1>4, <1>5 DEF IndInv, TypeOK

LEMMA CrashInd == ASSUME IndInv, Crash PROVE IndInv'
<1>1. /\ UNCHANGED <<storeVars, producerVars, log, ran, posted>>
      /\ UNCHANGED <<committed, pos, raised>>
      /\ faults < MaxFaults /\ faults' = faults + 1
      /\ wpc' = "down" /\ attempt' = 0 /\ outcome' = Error
  BY DEF Crash
<1>2. /\ StoreTypeOK' /\ ProducerTypeOK' /\ LogInv' /\ SubmitInv' /\ RowInv'
      /\ SpendIsAttributed' /\ CallbackOnce' /\ GotIsFinal' /\ OwedInv'
  BY <1>1, RegistersOnly
<1>3. row' = row
  BY <1>1 DEF storeVars
<1>4. WorkerTypeOK' /\ CursorInv' /\ HandlingInv'
  BY <1>1, BoundsAreNumbers
     DEF IndInv, TypeOK, WorkerTypeOK, WPC, Outcome, Error, CursorInv, HandlingInv,
         Handling, Servicing
<1>5. SettledInv'
  BY <1>1, <1>3 DEF IndInv, SettledInv, Settled, OfSubmit, Terminal
<1>6. QED
  BY <1>2, <1>4, <1>5 DEF IndInv, TypeOK

(* A failed write and an unpriced call: the handler is left by an exception and its
   position is marked. *)
LEMMA StoreFailsInd == ASSUME IndInv, StoreFails PROVE IndInv'
<1>1. /\ UNCHANGED <<storeVars, producerVars, log, ran, posted>>
      /\ UNCHANGED <<committed, pos, attempt, outcome>>
      /\ faults < MaxFaults /\ faults' = faults + 1
      /\ wpc = "finalize" /\ wpc' = "raised" /\ raised' = raised \cup {pos}
  BY DEF StoreFails
<1>2. /\ StoreTypeOK' /\ ProducerTypeOK' /\ LogInv' /\ SubmitInv' /\ RowInv'
      /\ SpendIsAttributed' /\ CallbackOnce' /\ GotIsFinal' /\ OwedInv'
  BY <1>1, RegistersOnly
<1>3. row' = row /\ pos \in 1 .. Len(log)
  BY <1>1, InHand DEF storeVars
<1>4. WorkerTypeOK' /\ CursorInv' /\ HandlingInv'
  BY <1>1, <1>3, BoundsAreNumbers
     DEF IndInv, TypeOK, WorkerTypeOK, WPC, CursorInv, HandlingInv, Handling, Servicing
<1>5. SettledInv'
  BY <1>1, <1>3 DEF IndInv, TypeOK, WorkerTypeOK, SettledInv, Settled, OfSubmit, Terminal
<1>6. QED
  BY <1>2, <1>4, <1>5 DEF IndInv, TypeOK

LEMMA AcquireInd == ASSUME IndInv, Acquire PROVE IndInv'
<1>1. /\ UNCHANGED <<storeVars, producerVars, log, ran, posted>>
      /\ UNCHANGED <<committed, pos, attempt, faults, raised>>
      /\ wpc = "attempt"
      /\ \/ wpc' = "finalize" /\ outcome' = Error
         \/ wpc' = "call" /\ outcome' = outcome
  BY DEF Acquire
<1>2. /\ StoreTypeOK' /\ ProducerTypeOK' /\ LogInv' /\ SubmitInv' /\ RowInv'
      /\ SpendIsAttributed' /\ CallbackOnce' /\ GotIsFinal' /\ OwedInv'
  BY <1>1, RegistersOnly
<1>3. row' = row
  BY <1>1 DEF storeVars
<1>4. WorkerTypeOK' /\ CursorInv'
  BY <1>1 DEF IndInv, TypeOK, WorkerTypeOK, WPC, Outcome, Error, CursorInv
<1>5. HandlingInv'
  BY <1>1 DEF IndInv, HandlingInv, Handling, Servicing, OfSubmit, Msg, Error
<1>6. SettledInv'
  BY <1>1, <1>3 DEF IndInv, SettledInv, Settled, OfSubmit, Terminal
<1>7. QED
  BY <1>2, <1>4, <1>5, <1>6 DEF IndInv, TypeOK

LEMMA CallFailsInd == ASSUME IndInv, CallFails PROVE IndInv'
<1>1. /\ UNCHANGED <<storeVars, producerVars, log, ran, posted>>
      /\ UNCHANGED <<committed, pos, faults, raised>>
      /\ wpc = "inflight"
      /\ \/ /\ attempt + 1 < MaxAttempts /\ attempt' = attempt + 1
            /\ wpc' = "attempt" /\ outcome' = outcome
         \/ wpc' = "finalize" /\ outcome' = Error /\ attempt' = attempt
  BY DEF CallFails
<1>2. /\ StoreTypeOK' /\ ProducerTypeOK' /\ LogInv' /\ SubmitInv' /\ RowInv'
      /\ SpendIsAttributed' /\ CallbackOnce' /\ GotIsFinal' /\ OwedInv'
  BY <1>1, RegistersOnly
<1>3. row' = row
  BY <1>1 DEF storeVars
<1>4. WorkerTypeOK' /\ CursorInv'
  BY <1>1, BoundsAreNumbers
     DEF IndInv, TypeOK, WorkerTypeOK, WPC, Outcome, Error, CursorInv
<1>5. HandlingInv'
  BY <1>1 DEF IndInv, HandlingInv, Handling, Servicing, OfSubmit, Msg, Error
<1>6. SettledInv'
  BY <1>1, <1>3 DEF IndInv, SettledInv, Settled, OfSubmit, Terminal
<1>7. QED
  BY <1>2, <1>4, <1>5, <1>6 DEF IndInv, TypeOK

LEMMA CallAnswersInd == ASSUME IndInv, CallAnswers PROVE IndInv'
<1> DEFINE day == req[Msg.sub].day
<1>1. /\ UNCHANGED <<storeVars, producerVars, log, ran, posted>>
      /\ UNCHANGED <<committed, pos, attempt, faults>>
      /\ wpc = "inflight"
      /\ \/ /\ outcome' = [status |-> "ok", cost |-> [model |-> Msg.model, day |-> day]]
            /\ wpc' = "finalize" /\ raised' = raised
         \/ /\ wpc' = "raised" /\ raised' = raised \cup {pos} /\ outcome' = outcome
  BY DEF CallAnswers
<1>2. /\ StoreTypeOK' /\ ProducerTypeOK' /\ LogInv' /\ SubmitInv' /\ RowInv'
      /\ SpendIsAttributed' /\ CallbackOnce' /\ GotIsFinal' /\ OwedInv'
  BY <1>1, RegistersOnly
<1>3. row' = row /\ pos \in 1 .. Len(log) /\ Msg = log[pos]
  BY <1>1, InHand DEF storeVars
<1>4. OfSubmit(pos) /\ Msg.job \in Jobs /\ Msg.model \in ran[Msg.job]
  BY <1>1 DEF IndInv, HandlingInv, Handling, Servicing
<1>5. Msg.sub \in Submits /\ Msg.model \in Models
  BY <1>3, <1>4, OnTopic, RoutedAreModels
<1>6. day \in Days
  BY <1>5 DEF IndInv, TypeOK, ProducerTypeOK, Request
<1>7. [status |-> "ok", cost |-> [model |-> Msg.model, day |-> day]] \in Outcome
  BY <1>5, <1>6 DEF Outcome, Cost
<1>8. WorkerTypeOK' /\ CursorInv'
  BY <1>1, <1>3, <1>7 DEF IndInv, TypeOK, WorkerTypeOK, WPC, CursorInv
<1>9. HandlingInv'
  BY <1>1, <1>3, <1>4 DEF IndInv, HandlingInv, Handling, Servicing, OfSubmit, Msg
<1>10. SettledInv'
  BY <1>1, <1>3 DEF IndInv, TypeOK, WorkerTypeOK, SettledInv, Settled, OfSubmit, Terminal
<1>11. QED
  BY <1>2, <1>8, <1>9, <1>10 DEF IndInv, TypeOK

(* The provider is called with the message's model, which is the row's. *)
LEMMA StartCallInd == ASSUME IndInv, StartCall PROVE IndInv'
<1> DEFINE j == Msg.job
<1>1. /\ UNCHANGED <<row, policy, req, lapsed, pc, chosen, got, log, posted>>
      /\ UNCHANGED <<committed, pos, attempt, faults, raised>>
      /\ wpc = "call"
      /\ \/ wpc' = "finalize" /\ outcome' = Error /\ ran' = ran
         \/ /\ wpc' = "inflight" /\ outcome' = outcome
            /\ ran' = [ran EXCEPT ![j] = @ \cup {Msg.model}]
  BY DEF StartCall, storeVars, producerVars
<1>2. pos \in 1 .. Len(log) /\ Msg = log[pos]
  BY <1>1, InHand
<1>3. OfSubmit(pos) /\ j \in Jobs
  BY <1>1 DEF IndInv, HandlingInv, Handling, Servicing
<1>4. /\ Msg.model \in Models /\ ~Absent(j) /\ row[j].model = Msg.model
  BY <1>2, <1>3, OnTopic, RoutedAreModels
<1>5. /\ ran \in [Jobs -> SUBSET Models] /\ ran' \in [Jobs -> SUBSET Models]
      /\ \A k \in Jobs : k # j => ran'[k] = ran[k]
      /\ \A k \in Jobs : ran[k] \subseteq ran'[k]
      /\ ran'[j] \subseteq ran[j] \cup {Msg.model}
      /\ wpc' = "inflight" => Msg.model \in ran'[j]
  BY <1>1, <1>3, <1>4 DEF IndInv, TypeOK, WorkerTypeOK
<1>6. StoreTypeOK' /\ ProducerTypeOK'
  BY <1>1 DEF IndInv, TypeOK, StoreTypeOK, ProducerTypeOK
<1>7. WorkerTypeOK' /\ CursorInv'
  BY <1>1, <1>5 DEF IndInv, TypeOK, WorkerTypeOK, WPC, Outcome, Error, CursorInv
<1>8. LogInv' /\ SubmitInv' /\ GotIsFinal' /\ OwedInv'
  BY <1>1 DEF IndInv, LogInv, SubmitInv, GotIsFinal, OwedInv, OfSubmit, Absent, Pending,
              Terminal, ResultOf, Job
<1>9. RowInv'
  <2>1. \A k \in Jobs : ran'[k] \subseteq {row[k].model} /\ (Absent(k) => ran'[k] = {})
    BY <1>4, <1>5 DEF IndInv, RowInv
  <2>2. QED
    BY <2>1, <1>1 DEF IndInv, RowInv, OfSubmit, Absent, Pending, Terminal, ResultOf
<1>10. HandlingInv'
  BY <1>1, <1>2, <1>3, <1>5 DEF IndInv, HandlingInv, Handling, Servicing, OfSubmit, Msg, Error
<1>11. SpendIsAttributed' /\ CallbackOnce'
  BY <1>1, <1>5 DEF IndInv, SpendIsAttributed, CallbackOnce, Terminal, ResultOf
<1>12. SettledInv'
  BY <1>1 DEF IndInv, SettledInv, Settled, OfSubmit, Terminal
<1>13. QED
  BY <1>6, <1>7, <1>8, <1>9, <1>10, <1>11, <1>12 DEF IndInv, TypeOK

(* The callback of a job is sent in the one phase that only the winner of finalize()
   enters, so nothing was sent for it before. *)
LEMMA PostCallbackInd == ASSUME IndInv, PostCallback PROVE IndInv'
<1> DEFINE j == Msg.job
<1>1. /\ UNCHANGED <<row, policy, req, lapsed, pc, chosen, got, log, ran>>
      /\ UNCHANGED <<committed, pos, attempt, outcome, faults, raised>>
      /\ wpc = "callback" /\ wpc' = "commit"
      /\ \/ posted' = [posted EXCEPT ![j] = Append(@, outcome)]
         \/ posted' = posted
  BY DEF PostCallback, storeVars, producerVars
<1>2. /\ j \in Jobs /\ Terminal(j) /\ ResultOf(j) = outcome /\ posted[j] = <<>>
      /\ outcome \in Outcome /\ posted \in [Jobs -> Seq(Outcome)]
  BY <1>1 DEF IndInv, TypeOK, WorkerTypeOK, HandlingInv, Handling
<1>3. Append(posted[j], outcome) = <<outcome>> /\ <<outcome>> \in Seq(Outcome)
  BY <1>2
<1>4. /\ posted' \in [Jobs -> Seq(Outcome)]
      /\ \A k \in Jobs : k # j => posted'[k] = posted[k]
      /\ posted'[j] = <<>> \/ posted'[j] = <<outcome>>
  BY <1>1, <1>2, <1>3
<1>5. StoreTypeOK' /\ ProducerTypeOK'
  BY <1>1 DEF IndInv, TypeOK, StoreTypeOK, ProducerTypeOK
<1>6. WorkerTypeOK' /\ CursorInv' /\ HandlingInv'
  BY <1>1, <1>4 DEF IndInv, TypeOK, WorkerTypeOK, WPC, CursorInv, HandlingInv, Handling,
                    Servicing
<1>7. LogInv' /\ SubmitInv' /\ GotIsFinal' /\ OwedInv' /\ SpendIsAttributed'
  BY <1>1 DEF IndInv, LogInv, SubmitInv, GotIsFinal, OwedInv, SpendIsAttributed, OfSubmit,
              Absent, Pending, Terminal, ResultOf, Job
<1>8. RowInv'
  <2>1. \A k \in Jobs : ~Terminal(k) => posted'[k] = <<>>
    BY <1>2, <1>4 DEF IndInv, RowInv
  <2>2. QED
    BY <2>1, <1>1 DEF IndInv, RowInv, OfSubmit, Absent, Pending, Terminal, ResultOf
<1>9. CallbackOnce'
  BY <1>1, <1>2, <1>4 DEF IndInv, CallbackOnce, Terminal, ResultOf
<1>10. SettledInv'
  BY <1>1 DEF IndInv, SettledInv, Settled, OfSubmit, Terminal
<1>11. QED
  BY <1>5, <1>6, <1>7, <1>8, <1>9, <1>10 DEF IndInv, TypeOK

(* finalize(): the only step that ends a pending row.  A row that has its result is
   not touched, so a redelivery changes nothing and wins no callback. *)
LEMMA FinalizeInd == ASSUME IndInv, FinalizeResult PROVE IndInv'
<1> DEFINE j == Msg.job
           done == [status |-> outcome.status, model |-> row[j].model,
                    day |-> row[j].day, cost |-> outcome.cost]
<1>1. /\ UNCHANGED <<policy, req, lapsed, pc, chosen, got, log, ran, posted>>
      /\ UNCHANGED <<committed, pos, attempt, outcome, faults, raised>>
      /\ wpc = "finalize" /\ Finalize(j, outcome)
      /\ wpc' \in {"callback", "commit"} /\ (wpc' = "callback" => Pending(j))
  BY DEF FinalizeResult, producerVars
<1>2. pos \in 1 .. Len(log) /\ Msg = log[pos] /\ j \in Jobs
  BY <1>1, InHand DEF IndInv, HandlingInv, Handling
<1>3. row \in [Jobs -> Row] /\ outcome \in Outcome
  BY DEF IndInv, TypeOK, StoreTypeOK, WorkerTypeOK
<1>4. StoreTypeOK /\ ProducerTypeOK /\ LogInv /\ RowInv /\ SettledInv
  BY DEF IndInv, TypeOK
<1>5. OfSubmit(pos) => ~Absent(j) /\ row[j].model = Msg.model
  BY <1>2, OnTopic
<1>6. LogInv'
  BY <1>1, <1>4 DEF LogInv, OfSubmit, Job
<1>7. ProducerTypeOK'
  BY <1>1, <1>4 DEF ProducerTypeOK
<1>8. CASE ~Pending(j)
  <2>1. row' = row /\ wpc' = "commit"
    BY <1>1, <1>8 DEF Finalize
  <2>2. OfSubmit(pos) => Terminal(j)
    BY <1>2, <1>3, <1>5, <1>8 DEF Absent, Pending, Terminal, Row
  <2>3. StoreTypeOK' /\ WorkerTypeOK' /\ CursorInv' /\ HandlingInv'
    BY <1>1, <2>1 DEF IndInv, TypeOK, StoreTypeOK, WorkerTypeOK, WPC, CursorInv, HandlingInv,
                      Handling, Servicing
  <2>4. SubmitInv' /\ GotIsFinal' /\ OwedInv' /\ SpendIsAttributed' /\ CallbackOnce' /\ RowInv'
    BY <1>1, <2>1 DEF IndInv, SubmitInv, GotIsFinal, OwedInv, SpendIsAttributed, CallbackOnce,
                      RowInv, OfSubmit, Absent, Pending, Terminal, ResultOf, Job
  <2>5. SettledInv'
    BY <1>1, <1>2, <2>1, <2>2
       DEF IndInv, TypeOK, WorkerTypeOK, SettledInv, Settled, OfSubmit, Terminal
  <2>6. QED
    BY <1>6, <1>7, <2>3, <2>4, <2>5 DEF IndInv, TypeOK
<1>9. CASE Pending(j)
  <2>1. row' = [row EXCEPT ![j] = done]
    BY <1>1, <1>9 DEF Finalize
  <2>2. /\ outcome = [status |-> outcome.status, cost |-> outcome.cost]
        /\ outcome.status \in {"ok", "error"} /\ outcome.cost \in Cost \cup {NoCost}
    BY <1>3 DEF Outcome
  <2>3. done \in Row
    BY <1>2, <1>3, <2>2 DEF Row
  <2>4. /\ row' \in [Jobs -> Row]
        /\ \A k \in Jobs : k # j => row'[k] = row[k]
        /\ row'[j].status = outcome.status /\ row'[j].cost = outcome.cost
        /\ row'[j].model = row[j].model
    BY <1>2, <1>3, <2>1, <2>3
  <2>5. /\ row'[j].status \in {"ok", "error"}
        /\ [status |-> row'[j].status, cost |-> row'[j].cost] = outcome
        /\ ~Terminal(j) /\ ~Absent(j)
    BY <1>1, <1>9, <2>2, <2>4 DEF Terminal, Pending, Absent
  <2>6. \A k \in Jobs : Terminal(k) => k # j /\ row'[k] = row[k]
    BY <2>4, <2>5
  <2>7. posted[j] = <<>>
    BY <1>2, <1>4, <2>5 DEF RowInv
  <2>8. StoreTypeOK'
    BY <1>1, <1>4, <2>4 DEF StoreTypeOK
  <2>9. WorkerTypeOK' /\ CursorInv'
    BY <1>1 DEF IndInv, TypeOK, WorkerTypeOK, WPC, CursorInv
  <2>10. HandlingInv'
    <3>1. Msg' = Msg
      BY <1>1 DEF Msg
    <3>2. QED
      BY <1>1, <1>2, <2>5, <2>7, <3>1 DEF HandlingInv, Handling, Servicing, Terminal, ResultOf
  <2>11. SubmitInv'
    <3>1. \A t \in Submits : Job(t) \in Jobs
      BY <1>4 DEF ProducerTypeOK, Request, Job
    <3>2. \A k \in Jobs : row'[k].model = row[k].model /\ (~Absent(k) => row'[k].status # "absent")
      BY <2>2, <2>4 DEF Absent
    <3>3. QED
      BY <1>1, <3>1, <3>2 DEF IndInv, SubmitInv, Absent, Job
  <2>12. RowInv'
    <3>1. ASSUME NEW i \in 1 .. Len(log), OfSubmit(i)
          PROVE  row'[log[i].job].status # "absent" /\ row'[log[i].job].model = log[i].model
      <4>1. /\ log[i].job \in Jobs
            /\ ~Absent(log[i].job) /\ row[log[i].job].model = log[i].model
        BY <3>1, OnTopic
      <4>2. QED
        BY <4>1, <2>2, <2>4 DEF Absent
    <3>2. ASSUME NEW k \in Jobs
          PROVE  /\ ran'[k] \subseteq {row'[k].model}
                 /\ row'[k].status = "absent" => row'[k] = NoRow /\ ran'[k] = {}
                 /\ row'[k].status # "absent" => row'[k].model \in Routed
                 /\ row'[k].status = "pending" => row'[k].cost = NoCost
                 /\ row'[k].status \in {"ok", "error"} =>
                      [status |-> row'[k].status, cost |-> row'[k].cost] \in Outcome
                 /\ row'[k].status \notin {"ok", "error"} => posted'[k] = <<>>
      <4>1. CASE k = j
        BY <4>1, <1>1, <1>3, <1>4, <2>2, <2>4, <2>5 DEF RowInv
      <4>2. CASE k # j
        BY <4>2, <1>1, <1>4, <2>4 DEF RowInv, Absent, Pending, Terminal, ResultOf
      <4>3. QED
        BY <4>1, <4>2
    <3>3. QED
      BY <1>1, <3>1, <3>2 DEF RowInv, OfSubmit, Absent, Pending, Terminal, ResultOf
  <2>13. SpendIsAttributed'
    <3> SUFFICES ASSUME NEW k \in Jobs, row'[k].status = "ok"
                 PROVE  row'[k].cost.model = row'[k].model /\ row'[k].model \in ran[k]
      BY <1>1 DEF SpendIsAttributed
    <3>1. CASE k = j
      BY <3>1, <1>1, <1>2, <1>5, <2>4 DEF IndInv, HandlingInv
    <3>2. CASE k # j
      BY <3>2, <2>4 DEF IndInv, SpendIsAttributed
    <3>3. QED
      BY <3>1, <3>2
  <2>14. CallbackOnce'
    BY <1>1, <2>6 DEF IndInv, CallbackOnce, Terminal, ResultOf
  <2>15. GotIsFinal'
    <3>1. \A t \in Submits : Job(t) \in Jobs
      BY <1>4 DEF ProducerTypeOK, Request, Job
    <3>2. QED
      BY <1>1, <2>6, <3>1 DEF IndInv, GotIsFinal, Terminal, ResultOf, Job
  <2>16. SettledInv'
    <3>1. ASSUME NEW i \in 1 .. Len(log), OfSubmit(i), Terminal(log[i].job)
          PROVE  row'[log[i].job].status \in {"ok", "error"}
      BY <3>1, <2>6, OnTopic DEF Terminal
    <3>2. ASSUME NEW i \in 1 .. Len(log), Settled(i)
          PROVE  OfSubmit(i) => row'[log[i].job].status \in {"ok", "error"} \/ i \in raised
      BY <3>1, <3>2 DEF Settled
    <3>3. OfSubmit(pos) => row'[log[pos].job].status \in {"ok", "error"}
      BY <1>2, <2>5
    <3>4. /\ \A i \in 1 .. committed : Settled(i)
          /\ \A i \in 1 .. pos - 1 : Settled(i)
          /\ 1 .. committed \subseteq 1 .. Len(log)
          /\ pos \in Nat
      BY <1>1, <1>2, <1>4 DEF IndInv, TypeOK, WorkerTypeOK, CursorInv, SettledInv
    <3>5. \A i \in 1 .. pos :
            OfSubmit(i) => row'[log[i].job].status \in {"ok", "error"} \/ i \in raised
      BY <1>2, <3>2, <3>3, <3>4
    <3>6. \A i \in 1 .. committed :
            OfSubmit(i) => row'[log[i].job].status \in {"ok", "error"} \/ i \in raised
      BY <3>2, <3>4
    <3>7. QED
      BY <1>1, <3>4, <3>5, <3>6 DEF SettledInv, Settled, OfSubmit, Terminal
  <2>17. OwedInv'
    BY <1>1, <2>4, <2>5 DEF IndInv, OwedInv, Pending, Terminal, OfSubmit, Job
  <2>18. QED
    BY <1>6, <1>7, <2>8, <2>9, <2>10, <2>11, <2>12, <2>13, <2>14, <2>15, <2>16, <2>17
       DEF IndInv, TypeOK
<1>10. QED
  BY <1>8, <1>9

LEMMA StutterInd == ASSUME IndInv, UNCHANGED vars PROVE IndInv'
<1>1. /\ UNCHANGED <<storeVars, producerVars, log, ran, posted>>
      /\ UNCHANGED <<row, req, log, workerVars>>
  BY DEF vars, storeVars, producerVars, workerVars
<1>2. QED
  BY <1>1, RegistersOnly, CallOnly DEF IndInv, TypeOK

-----------------------------------------------------------------------------

LEMMA NextInd == ASSUME IndInv, [Next]_vars PROVE IndInv'
<1>1. CASE ProducerNext /\ UNCHANGED workerVars
  <2>1. PICK s \in Submits : SubmitStep(s) \/ PollStep(s) \/ Lapse(s)
    BY <1>1 DEF ProducerNext
  <2>2. QED
    BY <1>1, <2>1, ResolveInd, InsertInd, ReadBackInd, SendInd, MoveInd, PollReadInd,
       EnvironmentInd DEF SubmitStep, PollStep
<1>2. CASE WorkerStep
  BY <1>2, StartInd, FetchInd, CommitInd, HandlerRaisedInd, AcquireInd, StartCallInd,
     CallAnswersInd, CallFailsInd, FinalizeInd, PostCallbackInd DEF WorkerStep
<1>3. CASE StoreFails \/ Crash
  BY <1>3, StoreFailsInd, CrashInd
<1>4. CASE \E k \in Keys, m \in Routed : EditPolicy(k, m)
  BY <1>4, EnvironmentInd
<1>5. CASE \E m \in ForeignMsgs : ForeignSend(m)
  BY <1>5, ForeignSendInd
<1>6. CASE UNCHANGED vars
  BY <1>6, StutterInd
<1>7. QED
  BY <1>1, <1>2, <1>3, <1>4, <1>5, <1>6 DEF Next

(* The invariant from which the rest is read off, for any submits, requests, models,
   attempts and faults. *)
THEOREM IndInvHolds == Spec => []IndInv
<1>1. Init => IndInv
  BY InitInd
<1>2. IndInv /\ [Next]_vars => IndInv'
  BY NextInd
<1>3. QED
  BY <1>1, <1>2, PTL DEF Spec

(* Every variable keeps its type. *)
THEOREM TypeCorrect == Spec => []TypeOK
<1>1. IndInv => TypeOK
  BY DEF IndInv
<1>2. QED
  BY <1>1, IndInvHolds, PTL

(* The row and the topic tell the same story: no duplicate submit, policy edit,
   redelivery or crash makes a message, or a provider call, name another model than
   the row. *)
THEOREM RowTopicAgreement == Spec => []RowTopicAgree
<1>1. IndInv => RowTopicAgree
  BY DEF IndInv, RowInv, RowTopicAgree, Sent, OfSubmit
<1>2. QED
  BY <1>1, IndInvHolds, PTL

(* An ok row is priced at its own model, and that model was called. *)
THEOREM SpendAttribution == Spec => []SpendIsAttributed
<1>1. IndInv => SpendIsAttributed
  BY DEF IndInv
<1>2. QED
  BY <1>1, IndInvHolds, PTL

(* At most one callback per job, with the stored result. *)
THEOREM CallbackAtMostOnce == Spec => []CallbackOnce
<1>1. IndInv => CallbackOnce
  BY DEF IndInv
<1>2. QED
  BY <1>1, IndInvHolds, PTL

(* A result handed to a caller is the job's result for good. *)
THEOREM PolledResultIsFinal == Spec => []GotIsFinal
<1>1. IndInv => GotIsFinal
  BY DEF IndInv
<1>2. QED
  BY <1>1, IndInvHolds, PTL

(* Whatever the committed offset has passed is settled. *)
THEOREM CommittedIsSettled == Spec => []CommittedMeansSettled
<1>1. IndInv => CommittedMeansSettled
  BY DEF IndInv, TypeOK, WorkerTypeOK, SettledInv, Settled, CommittedMeansSettled, Sent, OfSubmit
<1>2. QED
  BY <1>1, IndInvHolds, PTL

(* A pending row is owed to a message ahead of the offset, or its submit is on the way
   or dead, or its handler raised. *)
THEOREM PendingRowsAreOwed == Spec => []PendingIsOwed
<1>1. ASSUME IndInv, NEW j \in Jobs, Pending(j),
             NEW i \in 1 .. Len(log), OfSubmit(i), log[i].job = j, i <= committed
      PROVE  i \in raised
  <2>1. i \in 1 .. committed
    BY <1>1 DEF IndInv, TypeOK, WorkerTypeOK
  <2>2. Terminal(j) \/ i \in raised
    BY <1>1, <2>1 DEF IndInv, SettledInv, Settled
  <2>3. QED
    BY <1>1, <2>2 DEF Pending, Terminal
<1>2. ASSUME IndInv PROVE PendingIsOwed
  <2> SUFFICES ASSUME NEW j \in Jobs, Pending(j)
               PROVE  \/ \E i \in Sent : log[i].job = j /\ (i > committed \/ i \in raised)
                      \/ \E s \in Submits : Job(s) = j
                           /\ pc[s] \in {"readback", "send", "aborted"}
    BY DEF PendingIsOwed
  <2>1. \/ \E i \in 1 .. Len(log) : OfSubmit(i) /\ log[i].job = j
        \/ \E s \in Submits : Job(s) = j /\ pc[s] \in {"readback", "send", "aborted"}
    BY <1>2 DEF IndInv, OwedInv
  <2>2. ASSUME NEW i \in 1 .. Len(log), OfSubmit(i), log[i].job = j
        PROVE  i \in Sent /\ (i > committed \/ i \in raised)
    BY <2>2, <1>1, <1>2 DEF Sent, OfSubmit, IndInv, TypeOK, WorkerTypeOK
  <2>3. QED
    BY <2>1, <2>2
<1>3. IndInv => PendingIsOwed
  BY <1>2
<1>4. QED
  BY <1>3, IndInvHolds, PTL

=============================================================================
