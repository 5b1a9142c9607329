-------------------------- MODULE WorkerBootProofs --------------------------
(***************************************************************************)
(* Proofs about WorkerBoot: for any number of producers, policies, faults  *)
(* and attempts.                                                           *)
(***************************************************************************)
EXTENDS WorkerBoot, TLAPS

\* What the open transaction holds and which shape it found.
PublishInv ==
  /\ at[worker] # "failed"
  /\ at[worker] = "publish" => table.shape # "none"
  /\ at[worker] = "commit" => draft = [shape |-> "current", row |-> running.policy]

\* What each step of ensure_topology has established, for good.
TopologyInv ==
  /\ topic => stream
  /\ \A p \in Processes : at[p] \in {"get_topic", "create_topic"} => stream

BootInv == BootTypeOK /\ PublishInv /\ PublishedIsRunning /\ TopologyInv /\ ReadyHasTopic

\* Moving a process, and what it leaves alone.
LEMMA GotoOne ==
  ASSUME at \in [Processes -> Places], NEW p \in Processes, NEW place \in Places,
         Goto(p, place)
  PROVE  /\ at' \in [Processes -> Places]
         /\ at'[p] = place
         /\ \A q \in Processes : q # p => at'[q] = at[q]
  BY DEF Goto

\* What an environment that loads is known to hold.
LEMMA LoadedHolds ==
  ASSUME NEW e \in Loadable
  PROVE  e.policy \in Policies /\ e.policy # NoPolicy /\ e.connect.attempts \in Nat \ {0}
  <1>1. e \in Environments /\ Loads(e)
    BY DEF Loadable
  <1>2. e.policy \in WorkerSettings /\ Positive(e.connect.attempts)
    BY <1>1, EnvironmentsAreTyped DEF Loads, HandshakeParses, RetryParses
  <1> QED
    BY <1>2, NoPolicyIsNone DEF Policies, Positive

LEMMA WorkerIsProcess == worker \in Processes
  BY DEF Processes

\* A step that leaves the store alone and moves one process keeps the invariant, when
\* the worker only moves among the steps past its publish or goes down, and the places
\* it moves to are justified by the topology.
LEMMA BrokerStepKeepsInv ==
  ASSUME BootInv, NEW p \in Processes, NEW place \in Places, Goto(p, place),
         UNCHANGED <<table, draft, env, running>>,
         stream' \in BOOLEAN, topic' \in BOOLEAN,
         stream => stream', topic => topic', topic' => stream',
         tries' \in 0 .. running.connect.attempts - 1, faults' \in 0 .. MaxFaults,
         p = worker => \/ place \in {"down", "open"}
                       \/ Published /\ place \notin {"failed", "publish", "commit"},
         place \in {"get_topic", "create_topic"} => stream',
         place = "ready" => stream' /\ topic'
  PROVE  BootInv'
  <1>1. /\ at' \in [Processes -> Places]
        /\ at'[p] = place
        /\ \A q \in Processes : q # p => at'[q] = at[q]
    BY GotoOne DEF BootInv, BootTypeOK
  <1>2. BootTypeOK'
    BY <1>1 DEF BootInv, BootTypeOK
  <1>3. PublishInv' /\ PublishedIsRunning'
    <2>1. CASE p = worker
      BY <1>1, <2>1, WorkerIsProcess
      DEF BootInv, PublishInv, PublishedIsRunning, Published, ReadPolicy
    <2>2. CASE p # worker
      BY <1>1, <2>2, WorkerIsProcess
      DEF BootInv, PublishInv, PublishedIsRunning, Published, ReadPolicy
    <2> QED
      BY <2>1, <2>2
  <1>4. TopologyInv' /\ ReadyHasTopic'
    BY <1>1 DEF BootInv, TopologyInv, ReadyHasTopic
  <1> QED
    BY <1>2, <1>3, <1>4 DEF BootInv

\* A step of the store that moves one process: the topology is as it was.
LEMMA TopologyFrame ==
  ASSUME BootInv, NEW p \in Processes, NEW place \in Places, Goto(p, place),
         UNCHANGED <<stream, topic>>,
         place \notin {"get_topic", "create_topic", "ready"}
  PROVE  TopologyInv' /\ ReadyHasTopic'
  <1>1. /\ at'[p] = place
        /\ \A q \in Processes : q # p => at'[q] = at[q]
    BY GotoOne DEF BootInv, BootTypeOK
  <1> QED
    BY <1>1 DEF BootInv, TopologyInv, ReadyHasTopic

LEMMA InitBootInv == Init => BootInv
  <1> SUFFICES ASSUME Init
               PROVE  BootInv
    OBVIOUS
  <1>1. /\ table \in Tables /\ draft \in Tables /\ env \in Environments /\ running \in Loadable
        /\ at = [p \in Processes |-> "down"]
        /\ stream \in BOOLEAN /\ topic \in BOOLEAN /\ (topic => stream)
        /\ tries = 0 /\ faults = 0
    BY DEF Init
  <1>2. BootTypeOK /\ PublishInv /\ PublishedIsRunning
    <2>1. 0 \in 0 .. running.connect.attempts - 1 /\ 0 \in 0 .. MaxFaults
      BY <1>1, FaultsAreBounded, LoadedHolds
    <2>2. at \in [Processes -> Places] /\ at[worker] = "down"
      BY <1>1, WorkerIsProcess DEF Places
    <2> QED
      BY <1>1, <2>1, <2>2 DEF BootTypeOK, PublishInv, PublishedIsRunning, Published
  <1>3. TopologyInv /\ ReadyHasTopic
    BY <1>1 DEF TopologyInv, ReadyHasTopic
  <1> QED
    BY <1>2, <1>3 DEF BootInv

-----------------------------------------------------------------------------

LEMMA StartKeepsInv ==
  ASSUME BootInv, NEW p \in Processes, Start(p)
  PROVE  BootInv'
  <1>1. /\ at[p] \in {"down", "failed"} /\ Goto(p, "open")
        /\ running' \in Loadable /\ (p # worker => running' = running)
        /\ tries' \in 0 .. running'.connect.attempts - 1
        /\ UNCHANGED <<table, draft, stream, topic, env, faults>>
    BY LoadedHolds DEF Start, BootInv, BootTypeOK, Loadable
  <1>2. /\ at' \in [Processes -> Places]
        /\ at'[p] = "open"
        /\ \A q \in Processes : q # p => at'[q] = at[q]
    BY <1>1, GotoOne DEF BootInv, BootTypeOK, Places
  <1>3. BootTypeOK'
    BY <1>1, <1>2 DEF BootInv, BootTypeOK
  <1>4. PublishInv' /\ PublishedIsRunning'
    BY <1>1, <1>2, WorkerIsProcess
    DEF BootInv, PublishInv, PublishedIsRunning, Published, ReadPolicy
  <1>5. TopologyInv' /\ ReadyHasTopic'
    BY <1>1, TopologyFrame DEF Places
  <1> QED
    BY <1>3, <1>4, <1>5 DEF BootInv

LEMMA OpenKeepsInv ==
  ASSUME BootInv, NEW p \in Processes, Open(p)
  PROVE  BootInv'
  <1> DEFINE next == IF p = worker THEN "publish" ELSE "connect"
  <1>1. /\ at[p] = "open" /\ Goto(p, next)
        /\ table' = IF table.shape = "none" THEN [table EXCEPT !.shape = "current"] ELSE table
        /\ UNCHANGED <<draft, stream, topic, env, running, tries, faults>>
    BY DEF Open
  <1>2. table' \in Tables /\ table'.shape # "none" /\ (table.shape # "none" => table' = table)
    BY <1>1 DEF BootInv, BootTypeOK, Tables, Shapes
  <1>3. /\ at' \in [Processes -> Places]
        /\ at'[p] = next
        /\ \A q \in Processes : q # p => at'[q] = at[q]
    BY <1>1, GotoOne DEF BootInv, BootTypeOK, Places
  <1>4. BootTypeOK'
    BY <1>1, <1>2, <1>3 DEF BootInv, BootTypeOK
  <1>5. PublishInv'
    BY <1>1, <1>2, <1>3, WorkerIsProcess DEF BootInv, PublishInv
  <1>6. PublishedIsRunning'
    <2>1. CASE p = worker
      BY <1>3, <2>1 DEF PublishedIsRunning, Published
    <2>2. CASE p # worker
      <3>1. Published' => Published
        BY <1>3, <2>2, WorkerIsProcess DEF Published
      <3>2. Published => table.shape # "none"
        BY LoadedHolds DEF BootInv, BootTypeOK, PublishedIsRunning, ReadPolicy
      <3> QED
        BY <1>1, <1>2, <3>1, <3>2 DEF BootInv, PublishedIsRunning, ReadPolicy
    <2> QED
      BY <2>1, <2>2
  <1>7. TopologyInv' /\ ReadyHasTopic'
    BY <1>1, TopologyFrame DEF Places
  <1> QED
    BY <1>4, <1>5, <1>6, <1>7 DEF BootInv

LEMMA EditKeepsInv ==
  ASSUME BootInv, Edit
  PROVE  BootInv'
  BY DEF Edit, BootInv, BootTypeOK, PublishInv, PublishedIsRunning, Published, ReadPolicy,
         TopologyInv, ReadyHasTopic

LEMMA PublishKeepsInv ==
  ASSUME BootInv, Publish
  PROVE  BootInv'
  <1>1. /\ at[worker] = "publish" /\ Goto(worker, "commit")
        /\ draft' = [Repaired(table) EXCEPT !.row = running.policy]
        /\ UNCHANGED <<table, stream, topic, env, running, tries, faults>>
    BY DEF Publish
  <1>2. table \in Tables /\ table.shape \in {"old", "current"} /\ running.policy \in Policies
    BY <1>1, LoadedHolds DEF BootInv, BootTypeOK, PublishInv, Tables, Shapes
  <1>3. draft' = [shape |-> "current", row |-> running.policy]
    BY <1>1, <1>2 DEF Repaired, Tables
  <1>4. /\ at' \in [Processes -> Places]
        /\ at'[worker] = "commit"
        /\ \A q \in Processes : q # worker => at'[q] = at[q]
    BY <1>1, GotoOne, WorkerIsProcess DEF BootInv, BootTypeOK, Places
  <1>5. BootTypeOK'
    <2>1. draft' \in Tables
      BY <1>2, <1>3 DEF Tables, Shapes
    <2> QED
      BY <1>1, <1>4, <2>1 DEF BootInv, BootTypeOK
  <1>6. PublishInv' /\ PublishedIsRunning'
    BY <1>1, <1>3, <1>4 DEF PublishInv, PublishedIsRunning, Published
  <1>7. TopologyInv' /\ ReadyHasTopic'
    BY <1>1, TopologyFrame, WorkerIsProcess DEF Places
  <1> QED
    BY <1>5, <1>6, <1>7 DEF BootInv

LEMMA PublishCommitKeepsInv ==
  ASSUME BootInv, PublishCommit
  PROVE  BootInv'
  <1>1. /\ at[worker] = "commit" /\ Goto(worker, "connect") /\ table' = draft
        /\ UNCHANGED <<draft, stream, topic, env, running, tries, faults>>
    BY DEF PublishCommit
  <1>2. draft = [shape |-> "current", row |-> running.policy]
    BY <1>1 DEF BootInv, PublishInv
  <1>3. /\ at' \in [Processes -> Places]
        /\ at'[worker] = "connect"
        /\ \A q \in Processes : q # worker => at'[q] = at[q]
    BY <1>1, GotoOne, WorkerIsProcess DEF BootInv, BootTypeOK, Places
  <1>4. BootTypeOK'
    BY <1>1, <1>3 DEF BootInv, BootTypeOK
  <1>5. PublishInv' /\ PublishedIsRunning'
    BY <1>1, <1>2, <1>3 DEF PublishInv, PublishedIsRunning, Published, ReadPolicy
  <1>6. TopologyInv' /\ ReadyHasTopic'
    BY <1>1, TopologyFrame, WorkerIsProcess DEF Places
  <1> QED
    BY <1>4, <1>5, <1>6 DEF BootInv

\* The place an exception leads to is one a process may be sent to.
LEMMA FailIsGoto ==
  ASSUME NEW p \in Processes, Fail(p)
  PROVE  Goto(p, IF p = worker THEN "down" ELSE "failed")
  BY DEF Fail

LEMMA ConnectingKeepsInv ==
  ASSUME BootInv, NEW p \in Processes, Connect(p) \/ ConnectFails(p)
  PROVE  BootInv'
  <1>1. /\ at[p] = "connect" /\ UNCHANGED <<table, draft, stream, topic, env, running>>
        /\ stream \in BOOLEAN /\ topic \in BOOLEAN /\ (topic => stream)
        /\ tries \in 0 .. running.connect.attempts - 1 /\ faults \in 0 .. MaxFaults
        /\ running.connect.attempts \in Nat \ {0}
        /\ p = worker => Published
    BY LoadedHolds DEF Connect, ConnectFails, BootInv, BootTypeOK, TopologyInv, Published
  <1>2. CASE Connect(p)
    BY <1>1, <1>2, BrokerStepKeepsInv DEF Connect, Places
  <1>3. CASE ConnectFails(p)
    <2>1. faults' \in 0 .. MaxFaults /\ tries' \in 0 .. running.connect.attempts - 1
      BY <1>1, <1>3, FaultsAreBounded DEF ConnectFails
    <2>2. CASE UNCHANGED at
      <3>1. BootTypeOK'
        BY <1>1, <2>1, <2>2 DEF BootInv, BootTypeOK
      <3>2. PublishInv' /\ PublishedIsRunning' /\ TopologyInv' /\ ReadyHasTopic'
        BY <1>1, <2>2
        DEF BootInv, PublishInv, PublishedIsRunning, Published, ReadPolicy, TopologyInv,
            ReadyHasTopic
      <3> QED
        BY <3>1, <3>2 DEF BootInv
    <2>3. CASE Fail(p)
      BY <1>1, <2>1, <2>3, FailIsGoto, BrokerStepKeepsInv DEF Places
    <2> QED
      BY <1>3, <2>2, <2>3 DEF ConnectFails
  <1> QED
    BY <1>2, <1>3

LEMMA EnsureTopologyKeepsInv ==
  ASSUME BootInv, NEW p \in Processes,
         GetStream(p) \/ CreateStream(p) \/ GetTopic(p) \/ CreateTopic(p)
  PROVE  BootInv'
  <1>1. /\ UNCHANGED <<table, draft, env, running, tries, faults>>
        /\ at[p] \in {"get_stream", "create_stream", "get_topic", "create_topic"}
    BY DEF GetStream, CreateStream, GetTopic, CreateTopic
  <1>2. /\ stream \in BOOLEAN /\ topic \in BOOLEAN /\ (topic => stream)
        /\ at[p] \in {"get_topic", "create_topic"} => stream
        /\ tries \in 0 .. running.connect.attempts - 1 /\ faults \in 0 .. MaxFaults
        /\ p = worker => Published
    BY <1>1 DEF BootInv, BootTypeOK, TopologyInv, Published
  <1>3. CASE GetStream(p)
    <2>1. Goto(p, IF stream THEN "get_topic" ELSE "create_stream") /\ UNCHANGED <<stream, topic>>
      BY <1>3 DEF GetStream
    <2> QED
      BY <1>1, <1>2, <2>1, BrokerStepKeepsInv DEF Places
  <1>4. CASE CreateStream(p)
    <2>1. stream' = TRUE /\ UNCHANGED topic
      BY <1>4 DEF CreateStream
    <2>2. CASE Fail(p)
      BY <1>1, <1>2, <2>1, <2>2, FailIsGoto, BrokerStepKeepsInv DEF Places
    <2>3. CASE Goto(p, "get_topic")
      BY <1>1, <1>2, <2>1, <2>3, BrokerStepKeepsInv DEF Places
    <2> QED
      BY <1>4, <2>2, <2>3 DEF CreateStream
  <1>5. CASE GetTopic(p)
    <2>1. Goto(p, IF topic THEN "ready" ELSE "create_topic") /\ UNCHANGED <<stream, topic>>
      BY <1>5 DEF GetTopic
    <2>2. stream
      BY <1>2, <1>5 DEF GetTopic
    <2> QED
      BY <1>1, <1>2, <2>1, <2>2, BrokerStepKeepsInv DEF Places
  <1>6. CASE CreateTopic(p)
    <2>1. topic' = TRUE /\ UNCHANGED stream /\ stream
      BY <1>2, <1>6 DEF CreateTopic
    <2>2. CASE Fail(p)
      BY <1>1, <1>2, <2>1, <2>2, FailIsGoto, BrokerStepKeepsInv DEF Places
    <2>3. CASE Goto(p, "ready")
      BY <1>1, <1>2, <2>1, <2>3, BrokerStepKeepsInv DEF Places
    <2> QED
      BY <1>6, <2>2, <2>3 DEF CreateTopic
  <1> QED
    BY <1>3, <1>4, <1>5, <1>6

LEMMA BrokerFailsKeepsInv ==
  ASSUME BootInv, NEW p \in Processes, BrokerFails(p)
  PROVE  BootInv'
  <1>1. /\ at[p] \in {"get_stream", "create_stream", "get_topic", "create_topic"}
        /\ faults < MaxFaults /\ faults' = faults + 1
        /\ Fail(p) /\ UNCHANGED <<table, draft, env, running, tries>>
    BY DEF BrokerFails
  <1>2. /\ stream \in BOOLEAN /\ topic \in BOOLEAN /\ (topic => stream)
        /\ at[p] = "create_topic" => stream
        /\ tries \in 0 .. running.connect.attempts - 1 /\ faults' \in 0 .. MaxFaults
        /\ p = worker => Published
    BY <1>1, FaultsAreBounded DEF BootInv, BootTypeOK, TopologyInv, Published
  <1>3. PICK done \in BOOLEAN :
          /\ stream' = (stream \/ (done /\ at[p] = "create_stream"))
          /\ topic' = (topic \/ (done /\ at[p] = "create_topic"))
    BY DEF BrokerFails
  <1>4. /\ stream' \in BOOLEAN /\ topic' \in BOOLEAN
        /\ (stream => stream') /\ (topic => topic') /\ (topic' => stream')
    BY <1>2, <1>3
  <1> QED
    BY <1>1, <1>2, <1>4, FailIsGoto, BrokerStepKeepsInv DEF Places

LEMMA CrashKeepsInv ==
  ASSUME BootInv, Crash
  PROVE  BootInv'
  <1>1. /\ faults < MaxFaults /\ faults' = faults + 1 /\ Goto(worker, "down")
        /\ UNCHANGED <<table, draft, stream, topic, env, running, tries>>
    BY DEF Crash
  <1>2. /\ stream \in BOOLEAN /\ topic \in BOOLEAN /\ (topic => stream)
        /\ tries \in 0 .. running.connect.attempts - 1 /\ faults' \in 0 .. MaxFaults
    BY <1>1, FaultsAreBounded DEF BootInv, BootTypeOK, TopologyInv
  <1> QED
    BY <1>1, <1>2, WorkerIsProcess, BrokerStepKeepsInv DEF Places

(* The invariant of the boot holds in every reachable state: what a process has
   established at each step of run_worker() and of BusClient.connect(). *)
THEOREM BootInvHolds == Spec => []BootInv
  <1>1. Init => BootInv
    BY InitBootInv
  <1>2. BootInv /\ [Next]_vars => BootInv'
    <2> SUFFICES ASSUME BootInv, [Next]_vars
                 PROVE  BootInv'
      OBVIOUS
    <2>1. ASSUME NEW p \in Processes, Start(p)
          PROVE  BootInv'
      BY <2>1, StartKeepsInv
    <2>2. ASSUME NEW p \in Processes, BootStep(p)
          PROVE  BootInv'
      BY <2>2, OpenKeepsInv, ConnectingKeepsInv, EnsureTopologyKeepsInv DEF BootStep
    <2>3. CASE Publish \/ PublishCommit
      BY <2>3, PublishKeepsInv, PublishCommitKeepsInv
    <2>4. ASSUME NEW p \in Processes, ConnectFails(p) \/ BrokerFails(p)
          PROVE  BootInv'
      BY <2>4, ConnectingKeepsInv, BrokerFailsKeepsInv
    <2>5. CASE Crash \/ Edit
      BY <2>5, CrashKeepsInv, EditKeepsInv
    <2>6. CASE UNCHANGED vars
      BY <2>6
      DEF vars, BootInv, BootTypeOK, PublishInv, PublishedIsRunning, Published, ReadPolicy,
          TopologyInv, ReadyHasTopic
    <2> QED
      BY <2>1, <2>2, <2>3, <2>4, <2>5, <2>6, WorkerIsProcess DEF Next, WorkerBoots, Processes
  <1> QED
    BY <1>1, <1>2, PTL DEF Spec

(* The types of the boot: the failed handshakes of a worker stay below max_attempts. *)
THEOREM BootTypes == Spec => []BootTypeOK
  <1>1. BootInv => BootTypeOK
    BY DEF BootInv
  <1> QED
    BY <1>1, BootInvHolds, PTL

(* Publish before consuming: what a producer reads while a worker connects or consumes
   is the policy that worker runs with. *)
THEOREM PublishedHolds == Spec => []PublishedIsRunning
  <1>1. BootInv => PublishedIsRunning
    BY DEF BootInv
  <1> QED
    BY <1>1, BootInvHolds, PTL

(* A producer that has connected and a worker that consumes have their topic, for any
   number of racing creations. *)
THEOREM TopicHolds == Spec => []ReadyHasTopic
  <1>1. BootInv => ReadyHasTopic
    BY DEF BootInv
  <1> QED
    BY <1>1, BootInvHolds, PTL

(* A published policy never vanishes from a producer's view, across restarts and across
   the repair of a stale table. *)
THEOREM PolicyStaysPublished == Spec => PolicyNeverVanishes
  <1>1. BootInv /\ [Next]_vars => [ReadPolicy # NoPolicy => ReadPolicy' # NoPolicy]_vars
    <2> SUFFICES ASSUME BootInv, Next, ReadPolicy # NoPolicy
                 PROVE  ReadPolicy' # NoPolicy
      OBVIOUS
    <2>1. table.shape = "current" /\ table.row # NoPolicy
      BY DEF ReadPolicy
    <2>2. ASSUME NEW p \in Processes, Open(p)
          PROVE  table' = table
      BY <2>1, <2>2 DEF Open
    <2>3. ASSUME PublishCommit
          PROVE  ReadPolicy' # NoPolicy
      <3>1. table' = [shape |-> "current", row |-> running.policy] /\ running \in Loadable
        BY <2>3 DEF PublishCommit, BootInv, PublishInv, BootTypeOK
      <3> QED
        BY <3>1, LoadedHolds DEF ReadPolicy
    <2>4. PublishCommit \/ table' = table
      BY <2>2, WorkerIsProcess
      DEF Next, WorkerBoots, BootStep, Processes, Start, Connect, GetStream, CreateStream,
          GetTopic, CreateTopic, Publish, Edit, ConnectFails, BrokerFails, Crash
    <2> QED
      BY <2>1, <2>3, <2>4 DEF ReadPolicy
  <1> QED
    BY <1>1, BootInvHolds, PTL DEF Spec, PolicyNeverVanishes

(* client.connect, as far as it is so: the race is for the first creation only.  Where the
   topic is there already and the broker does not fail, every producer that connects finds
   it, with any number of workers' restarts and of producers at the same time. *)
THEOREM ConnectsToATopic ==
  ASSUME MaxFaults = 0
  PROVE  Spec /\ topic => []ConnectSucceeds
  <1> DEFINE Found == /\ topic
                      /\ \A p \in Processes :
                           at[p] \notin {"failed", "create_stream", "create_topic"}
  <1>1. Init /\ topic => Found
    BY DEF Init
  <1>2. BootInv /\ Found /\ [Next]_vars => Found'
    <2> SUFFICES ASSUME BootInv, Found, [Next]_vars
                 PROVE  Found'
      OBVIOUS
    <2>1. stream = TRUE /\ topic = TRUE /\ ~(faults < MaxFaults)
      BY DEF BootInv, BootTypeOK, TopologyInv
    <2>2. ASSUME NEW p \in Processes, NEW place \in Places, Goto(p, place), topic',
                 place \notin {"failed", "create_stream", "create_topic"}
          PROVE  Found'
      BY <2>2, GotoOne DEF BootInv, BootTypeOK
    <2>3. ASSUME NEW p \in Processes, Start(p)
          PROVE  Found'
      BY <2>1, <2>2, <2>3 DEF Start, Places
    <2>4. ASSUME NEW p \in Processes, BootStep(p)
          PROVE  Found'
      <3>1. ~CreateStream(p) /\ ~CreateTopic(p)
        BY DEF CreateStream, CreateTopic
      <3>2. CASE Open(p)
        BY <2>1, <2>2, <3>2 DEF Open, Places
      <3>3. CASE Connect(p)
        BY <2>1, <2>2, <3>3 DEF Connect, Places
      <3>4. CASE GetStream(p) \/ GetTopic(p)
        BY <2>1, <2>2, <3>4 DEF GetStream, GetTopic, Places
      <3> QED
        BY <2>4, <3>1, <3>2, <3>3, <3>4 DEF BootStep
    <2>5. CASE Publish \/ PublishCommit
      BY <2>1, <2>2, <2>5, WorkerIsProcess DEF Publish, PublishCommit, Places
    <2>6. CASE Edit \/ UNCHANGED vars
      BY <2>6 DEF Edit, vars
    <2>7. ~Crash /\ \A p \in Processes : ~ConnectFails(p) /\ ~BrokerFails(p)
      BY <2>1 DEF Crash, ConnectFails, BrokerFails
    <2> QED
      BY <2>3, <2>4, <2>5, <2>6, <2>7, WorkerIsProcess DEF Next, WorkerBoots, Processes
  <1>3. Found => ConnectSucceeds
    BY DEF ConnectSucceeds, Processes
  <1> QED
    BY <1>1, <1>2, <1>3, BootInvHolds, PTL DEF Spec

=============================================================================
