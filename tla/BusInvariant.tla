---------------------------- MODULE BusInvariant ----------------------------
(***************************************************************************)
(* The inductive invariant from which the safety properties of Bus follow. *)
(* TypeOK and the properties are not inductive: nothing in them says what  *)
(* a submit has established by the time it sends, or what the worker knows *)
(* of the message in its hands.                                            *)
(***************************************************************************)
EXTENDS Bus

\* The message at position i is one submit() sent.
OfSubmit(i) == log[i].sub # NoSubmit

\* What is on the topic: a submit's own job under a routed model, or a message the
\* worker can never serve.
LogInv ==
  \A i \in 1 .. Len(log) :
    IF OfSubmit(i)
    THEN log[i].job = Job(log[i].sub) /\ log[i].model \in Routed
    ELSE log[i].model \notin Routed

\* The committed offset never passes what the worker took, nor the end of the topic.
CursorInv ==
  /\ committed <= Len(log) /\ pos <= Len(log)
  /\ wpc # "down" => committed <= pos

\* What each phase of the worker says of the message at pos.
Handling  == wpc \in {"attempt", "call", "inflight", "finalize", "callback"}
Servicing == wpc \in {"attempt", "call", "inflight"}

HandlingInv ==
  /\ wpc \notin {"down", "idle"} => pos >= 1
  /\ Handling => Msg.job \in Jobs
  /\ Servicing => OfSubmit(pos) /\ outcome = Error
  /\ wpc = "inflight" => Msg.model \in ran[Msg.job]
  /\ wpc = "finalize" /\ outcome.status = "ok" =>
       /\ OfSubmit(pos)
       /\ outcome.cost.model = Msg.model
       /\ Msg.model \in ran[Msg.job]
  /\ wpc = "callback" =>
       Terminal(Msg.job) /\ ResultOf(Msg.job) = outcome /\ posted[Msg.job] = <<>>

\* What a submit has established of its row at each of its steps.
SubmitInv ==
  \A s \in Submits :
    /\ pc[s] \in {"insert", "readback", "send"} => chosen[s] \in Routed
    /\ pc[s] = "readback" => ~Absent(Job(s))
    /\ pc[s] = "send" => ~Absent(Job(s)) /\ chosen[s] = row[Job(s)].model

\* A row exists before its message, and carries its model; an absent row has no trace.
RowInv ==
  /\ \A i \in 1 .. Len(log) :
       OfSubmit(i) => ~Absent(log[i].job) /\ row[log[i].job].model = log[i].model
  /\ \A j \in Jobs :
       /\ ran[j] \subseteq {row[j].model}
       /\ Absent(j) => row[j] = NoRow /\ ran[j] = {}
       /\ ~Absent(j) => row[j].model \in Routed
       /\ Pending(j) => row[j].cost = NoCost
       /\ Terminal(j) => ResultOf(j) \in Outcome
       /\ ~Terminal(j) => posted[j] = <<>>

\* Everything the worker is past is settled: up to the committed offset for good, up
\* to its own position while it lives.
Settled(i) == OfSubmit(i) => Terminal(log[i].job) \/ i \in raised

SettledInv ==
  /\ \A i \in 1 .. committed : Settled(i)
  /\ wpc # "down" => \A i \in 1 .. pos - 1 : Settled(i)
  /\ wpc \in {"idle", "commit", "callback", "raised"} =>
       \A i \in 1 .. pos : Settled(i)

\* A pending row has its submit still on the way, dead, or its message on the topic.
OwedInv ==
  \A j \in Jobs : Pending(j) =>
    \/ \E i \in 1 .. Len(log) : OfSubmit(i) /\ log[i].job = j
    \/ \E s \in Submits : Job(s) = j /\ pc[s] \in {"readback", "send", "aborted"}

IndInv ==
  /\ TypeOK
  /\ LogInv /\ CursorInv /\ HandlingInv /\ SubmitInv /\ RowInv
  /\ SpendIsAttributed /\ CallbackOnce /\ GotIsFinal
  /\ SettledInv /\ OwedInv

=============================================================================
