----------------------------- MODULE WorkerBoot -----------------------------
(***************************************************************************)
(* How a worker and the producers come up (worker.run_worker,              *)
(* client.connect): load the environment, open the store, publish the run  *)
(* policy the worker runs with, connect to the broker, create the stream   *)
(* and the topic unless they are there, join.  Nothing orders the          *)
(* processes; the operator edits the environment at any time, and systemd  *)
(* restarts the worker each time it ends.  The broker is external:         *)
(* creating what exists raises, which is why the code looks first.         *)
(***************************************************************************)
EXTENDS Settings

CONSTANTS
  Environments, \* what .env may hold
  NoPolicy,     \* nothing published
  Producers,    \* processes that call BusClient.connect()
  worker,       \* the worker service
  MaxFaults     \* bound: kills of the worker and errors of the broker

Processes == Producers \cup {worker}

ASSUME WorkerIsNoProducer == worker \notin Producers
\* Whether every text setting is there, the rate limits, and the two retry policies.
ASSUME EnvironmentsAreTyped ==
  Environments \subseteq
    [texts : BOOLEAN, limits : SUBSET Setting, policy : WorkerSettings,
     connect : [attempts : Setting, base : Setting, max : Setting]]
ASSUME NoPolicyIsNone == NoPolicy \notin WorkerSettings
ASSUME FaultsAreBounded == MaxFaults \in Nat

\* parse_config() returns: the texts and the two limits of each provider are there.
ConfigParses(e) == e.texts /\ \A limit \in e.limits : Positive(limit)

\* parse_connect_policy() returns.
HandshakeParses(e) == RetryParses(e.connect.attempts, e.connect.base, e.connect.max)

\* Faulty variant: the settings of the handshake are not checked.
LoadsLoosely(e) == ConfigParses(e) /\ WorkerPolicyParses(e.policy)

\* _load() returns.
Loads(e) == ConfigParses(e) /\ WorkerPolicyParses(e.policy) /\ HandshakeParses(e)

\* The environments a worker can run with, and the policies it may publish.
Loadable == {e \in Environments : Loads(e)}
Policies == {e.policy : e \in Loadable}

ASSUME SomeEnvironmentLoads == Loadable # {}

VARIABLES
  table,        \* the committed worker_policy table: its shape and its one row
  draft,        \* the same table inside the worker's open transaction
  stream,       \* whether the stream exists
  topic,        \* whether the topic exists
  at,           \* where each process is
  env,          \* what .env holds
  running,      \* what the running worker has loaded
  tries,        \* failed attempts of connect_broker
  faults        \* kills and broker errors so far

vars == <<table, draft, stream, topic, at, env, running, tries, faults>>

\* An older release left the table with other columns.
Shapes == {"none", "old", "current"}
Tables == [shape : Shapes, row : Policies \cup {NoPolicy}]

Places == {"down", "open", "publish", "commit", "connect",
           "get_stream", "create_stream", "get_topic", "create_topic",
           "ready", "failed"}

BootTypeOK ==
  /\ table \in Tables /\ draft \in Tables
  /\ stream \in BOOLEAN /\ topic \in BOOLEAN
  /\ at \in [Processes -> Places]
  /\ env \in Environments /\ running \in Loadable
  /\ tries \in 0 .. running.connect.attempts - 1 /\ faults \in 0 .. MaxFaults

\* A first start, or one after older runs of this or of an earlier release.
Init ==
  /\ table \in {t \in Tables : t.shape = "none" => t.row = NoPolicy}
  /\ draft = table
  /\ stream \in BOOLEAN /\ topic \in BOOLEAN /\ (topic => stream)
  /\ at = [p \in Processes |-> "down"]
  /\ env \in Environments /\ running \in Loadable
  /\ tries = 0 /\ faults = 0

Goto(p, place) == at' = [at EXCEPT ![p] = place]

\* An exception: connect() of a producer raises; run_worker closes what it opened,
\* which rolls an open transaction back, and the process ends.
Fail(p) == Goto(p, IF p = worker THEN "down" ELSE "failed")

\* read_worker_policy(): a stale shape reads as nothing published.
ReadPolicy == IF table.shape = "current" THEN table.row ELSE NoPolicy

-----------------------------------------------------------------------------
(* The store                                                               *)

\* The operator edits .env, whether or not a worker is running.
Edit ==
  /\ env' \in Environments \ {env}
  /\ UNCHANGED <<table, draft, stream, topic, at, running, tries, faults>>

\* systemd starts the worker, which loads the environment first of all: what does not
\* load raises ConfigError before anything is opened, and the worker is down as before.
\* A producer calls connect(), once or again after it raised.
Start(p) ==
  /\ at[p] \in {"down", "failed"}
  /\ Goto(p, "open")
  /\ IF p = worker THEN Loads(env) /\ running' = env /\ tries' = 0
                   ELSE UNCHANGED <<running, tries>>
  /\ UNCHANGED <<table, draft, stream, topic, env, faults>>

\* Faulty variant: the worker consumes before it publishes, and then never does.
OpenUnpublished(p) ==
  /\ at[p] = "open"
  /\ table' = IF table.shape = "none" THEN [table EXCEPT !.shape = "current"] ELSE table
  /\ Goto(p, "connect")
  /\ UNCHANGED <<draft, stream, topic, env, running, tries, faults>>

\* Store.connect(): CREATE TABLE IF NOT EXISTS leaves a stale shape alone.
Open(p) ==
  /\ at[p] = "open"
  /\ table' = IF table.shape = "none" THEN [table EXCEPT !.shape = "current"] ELSE table
  /\ Goto(p, IF p = worker THEN "publish" ELSE "connect")
  /\ UNCHANGED <<draft, stream, topic, env, running, tries, faults>>

\* _rebuild_worker_policy_if_stale(): drop and create, the old row is lost.
Repaired(t) == IF t.shape = "old" THEN [shape |-> "current", row |-> NoPolicy] ELSE t

\* Faulty variant: no BEGIN IMMEDIATE, the table is dropped and created in a
\* transaction of its own.
PublishDropping ==
  /\ at[worker] = "publish"
  /\ table' = [shape |-> "current", row |-> NoPolicy]
  /\ draft' = [shape |-> "current", row |-> running.policy]
  /\ Goto(worker, "commit")
  /\ UNCHANGED <<stream, topic, env, running, tries, faults>>

\* Faulty variant: the stale shape is not repaired, so the INSERT raises.
PublishUnrepaired ==
  /\ at[worker] = "publish"
  /\ draft' = [table EXCEPT !.row = running.policy]
  /\ Goto(worker, IF table.shape = "old" THEN "down" ELSE "commit")
  /\ UNCHANGED <<table, stream, topic, env, running, tries, faults>>

\* Faulty variant: the environment is read again for the row.
PublishReread ==
  /\ at[worker] = "publish"
  /\ draft' = [Repaired(table) EXCEPT !.row = IF Loads(env) THEN env.policy ELSE running.policy]
  /\ Goto(worker, "commit")
  /\ UNCHANGED <<table, stream, topic, env, running, tries, faults>>

\* publish_worker_policy(), up to its commit: under BEGIN IMMEDIATE the shape is
\* inspected and repaired, and the pinned row upserted.
Publish ==
  /\ at[worker] = "publish"
  /\ draft' = [Repaired(table) EXCEPT !.row = running.policy]
  /\ Goto(worker, "commit")
  /\ UNCHANGED <<table, stream, topic, env, running, tries, faults>>

PublishCommit ==
  /\ at[worker] = "commit"
  /\ table' = draft
  /\ Goto(worker, "connect")
  /\ UNCHANGED <<draft, stream, topic, env, running, tries, faults>>

-----------------------------------------------------------------------------
(* The broker                                                              *)

Connect(p) ==
  /\ at[p] = "connect"
  /\ Goto(p, "get_stream")
  /\ UNCHANGED <<table, draft, stream, topic, env, running, tries, faults>>

\* Faulty variant: attempt < max_attempts instead of attempt + 1 < max_attempts.
ConnectFailsOffByOne(p) ==
  /\ at[p] = "connect" /\ faults < MaxFaults
  /\ faults' = faults + 1
  /\ IF p = worker /\ tries < running.connect.attempts
     THEN tries' = tries + 1 /\ UNCHANGED at
     ELSE Fail(p) /\ UNCHANGED tries
  /\ UNCHANGED <<table, draft, stream, topic, env, running>>

\* connect_broker() retries any failure with a fresh client, up to max_attempts; a
\* producer's connect() does not retry.
ConnectFails(p) ==
  /\ at[p] = "connect" /\ faults < MaxFaults
  /\ faults' = faults + 1
  /\ IF p = worker /\ tries + 1 < running.connect.attempts
     THEN tries' = tries + 1 /\ UNCHANGED at
     ELSE Fail(p) /\ UNCHANGED tries
  /\ UNCHANGED <<table, draft, stream, topic, env, running>>

\* Faulty variant: ensure_topology takes a stream for a topic.
GetStreamOnly(p) ==
  /\ at[p] = "get_stream"
  /\ Goto(p, IF stream THEN "ready" ELSE "create_stream")
  /\ UNCHANGED <<table, draft, stream, topic, env, running, tries, faults>>

\* ensure_topology(): check, then create, with other processes in between.
GetStream(p) ==
  /\ at[p] = "get_stream"
  /\ Goto(p, IF stream THEN "get_topic" ELSE "create_stream")
  /\ UNCHANGED <<table, draft, stream, topic, env, running, tries, faults>>

CreateStream(p) ==
  /\ at[p] = "create_stream"
  /\ IF stream THEN Fail(p) ELSE Goto(p, "get_topic")
  /\ stream' = TRUE
  /\ UNCHANGED <<table, draft, topic, env, running, tries, faults>>

GetTopic(p) ==
  /\ at[p] = "get_topic"
  /\ Goto(p, IF topic THEN "ready" ELSE "create_topic")
  /\ UNCHANGED <<table, draft, stream, topic, env, running, tries, faults>>

CreateTopic(p) ==
  /\ at[p] = "create_topic"
  /\ IF topic THEN Fail(p) ELSE Goto(p, "ready")
  /\ topic' = TRUE
  /\ UNCHANGED <<table, draft, stream, env, running, tries, faults>>

\* The broker refuses or drops a request of ensure_topology; the request may have
\* been carried out.
BrokerFails(p) ==
  /\ at[p] \in {"get_stream", "create_stream", "get_topic", "create_topic"}
  /\ faults < MaxFaults
  /\ faults' = faults + 1
  /\ \E done \in BOOLEAN :
       /\ stream' = (stream \/ (done /\ at[p] = "create_stream"))
       /\ topic' = (topic \/ (done /\ at[p] = "create_topic"))
  /\ Fail(p)
  /\ UNCHANGED <<table, draft, env, running, tries>>

\* The worker is killed, or consume_messages ends in an exception.
Crash ==
  /\ at[worker] # "down" /\ faults < MaxFaults
  /\ faults' = faults + 1
  /\ Goto(worker, "down")
  /\ UNCHANGED <<table, draft, stream, topic, env, running, tries>>

BootStep(p) ==
  \/ Open(p) \/ Connect(p)
  \/ GetStream(p) \/ CreateStream(p) \/ GetTopic(p) \/ CreateTopic(p)

WorkerBoots == Start(worker) \/ BootStep(worker) \/ Publish \/ PublishCommit

Next ==
  \/ WorkerBoots \/ Crash \/ Edit
  \/ \E p \in Producers : Start(p) \/ BootStep(p)
  \/ \E p \in Processes : ConnectFails(p) \/ BrokerFails(p)

Spec == Init /\ [][Next]_vars

\* Restart=always, and a process that keeps running; no producer and no operator has to
\* do anything.
FairSpec == Spec /\ WF_vars(WorkerBoots)

-----------------------------------------------------------------------------

\* The worker has published: it is connecting, creating the topology or consuming.
Published == at[worker] \notin {"down", "open", "publish", "commit"}

(* Publish before consuming: from the moment a worker may take a job, and already
   while it is still connecting, what a producer reads is the policy that worker runs
   with, whatever an earlier worker, an older release, a rolled-back publish or an
   edit of .env left. *)
PublishedIsRunning == Published => ReadPolicy = running.policy

(* Whoever is ready has a topic to send to or to consume, however the creations of
   several processes interleave and fail. *)
ReadyHasTopic == \A p \in Processes : at[p] = "ready" => stream /\ topic

(* Once a producer can read a policy it always can: neither a restart of the worker nor
   its repair of the table shows a producer an empty one. *)
PolicyNeverVanishes == [][ReadPolicy # NoPolicy => ReadPolicy' # NoPolicy]_vars

(* The worker comes up and stays up once the broker and the host behave and .env loads
   from some point on: with a stale table, with a topology that others are creating,
   after any failed handshake, and after settings that were refused. *)
WorkerComesUp == <>[]Loads(env) => <>[](at[worker] = "ready")

(* client.connect: a producer that races ahead of the worker still finds the topic to
   send to; here with a broker that never fails. *)
ConnectSucceeds == \A p \in Producers : at[p] # "failed"

=============================================================================
