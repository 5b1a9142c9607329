---------------------------- MODULE JobLifecycle ----------------------------
(***************************************************************************)
(* What the bus promises about one job_id, whatever the broker redelivers, *)
(* whoever submits it twice and wherever a process dies: it is recorded    *)
(* once, with one model and one submission day; it gets one result, and    *)
(* never another; its callback is sent at most once, with that result.     *)
(***************************************************************************)
EXTENDS Sequences

CONSTANTS Jobs, Identities, NoIdentity, Results, NoResult

VARIABLES
  identity,    \* the model and day a job is recorded with
  result,      \* its result, once it has one
  notified     \* the results its callback was sent

Init ==
  /\ identity = [j \in Jobs |-> NoIdentity]
  /\ result = [j \in Jobs |-> NoResult]
  /\ notified = [j \in Jobs |-> <<>>]

Record(j) ==
  /\ identity[j] = NoIdentity
  /\ \E i \in Identities : identity' = [identity EXCEPT ![j] = i]
  /\ UNCHANGED <<result, notified>>

Finish(j) ==
  /\ identity[j] # NoIdentity /\ result[j] = NoResult
  /\ \E r \in Results : result' = [result EXCEPT ![j] = r]
  /\ UNCHANGED <<identity, notified>>

Notify(j) ==
  /\ result[j] # NoResult /\ notified[j] = <<>>
  /\ notified' = [notified EXCEPT ![j] = <<result[j]>>]
  /\ UNCHANGED <<identity, result>>

Next == \E j \in Jobs : Record(j) \/ Finish(j) \/ Notify(j)

Spec == Init /\ [][Next]_<<identity, result, notified>>

=============================================================================
