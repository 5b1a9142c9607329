---------------------------- MODULE CostsService ----------------------------
(***************************************************************************)
(* The costs server (server.py): a process that reads its configuration,   *)
(* binds one socket for each configured host and answers requests on       *)
(* threads of their own; systemd restarts it when it fails                 *)
(* (Restart=on-failure).  Addresses come and go with the network, and the  *)
(* operator edits the configuration, which only the next start reads.      *)
(***************************************************************************)
EXTENDS BindSettings

CONSTANTS
  Hosts,          \* what is configured as a host, apart from the refused spellings
  Addresses,      \* what sockets are bound to, one by one
  Every,          \* the address that means every interface
  AddressOf,      \* the address each host stands for: two may stand for one
  Configurations, \* what the environment, the flags and the disk may hold
  Requests,
  Asks,           \* what a request may carry
  Registered,     \* CAPABILITIES: the models a form may choose
  MaxFaults       \* bound: kills, edits and lost addresses

Stores  == {"file", "directory", "absent"}   \* what the store path names
Secrets == {"none", "ascii", "foreign"}      \* COSTS_AUTH_SECRET: unset, ASCII, not ASCII

ASSUME ConfigurationsAreTyped ==
  Configurations \subseteq
    [hosts : Seq(Hosts \cup Refused), port : Setting,
     hostFlags : Seq(Hosts \cup Refused), portFlag : Setting,
     secret : Secrets, store : Stores]
ASSUME HostsAreSpellings == Loopback \in Hosts /\ Hosts \cap Refused = {}
ASSUME HostsHaveAddresses ==
  /\ Every \notin Addresses /\ AddressOf \in [Hosts \cup Refused -> Addresses \cup {Every}]
  /\ \A h \in Refused : AddressOf[h] = Every
ASSUME AsksAreTyped ==
  Asks # {} /\ Asks \subseteq
    [method : {"GET", "POST"}, path : {"policy", "ledger"},
     password : {"missing", "wrong", "foreign", "right"}, origin : {"same", "other"},
     length : {"whole", "short"}, project : {"chat", "blank"}, model : Registered \cup {Junk}]
ASSUME FaultsAreBounded == MaxFaults \in Nat

VARIABLES
  up,          \* the addresses the host has
  config,      \* what a start would read
  process,     \* where the process is
  running,     \* the configuration the process has read
  bound,       \* sockets opened, in the order of BindHosts
  exit,        \* how the last process ended: its exit status
  faults,
  writes,      \* history: the upserts of model_policy committed, oldest first
  at,          \* where each request is
  ask,         \* what it carries
  wrote,       \* the position of its own upsert in writes
  floor,       \* history: how many upserts were committed before it came
  shown        \* how many of them the page it was answered with shows

hostVars    == <<up, config, faults>>
processVars == <<process, running, bound, exit>>
requestVars == <<at, ask, wrote, floor, shown>>
vars == <<hostVars, processVars, writes, requestVars>>

Stages == {"unsent", "guards", "write", "render", "ok", "notice", "refused", "lost"}

\* The requests a thread is serving.
Served == {r \in Requests : at[r] \in {"guards", "write", "render"}}

ServiceTypeOK ==
  /\ up \subseteq Addresses /\ config \in Configurations /\ running \in Configurations
  /\ process \in {"down", "starting", "binding", "serving"}
  /\ bound \in 0 .. Len(BindHosts(running)) /\ (process \in {"down", "starting"} => bound = 0)
  /\ exit \in {0, 1, 2} /\ faults \in 0 .. MaxFaults
  /\ writes \in Seq(Asks)
  /\ at \in [Requests -> Stages] /\ ask \in [Requests -> Asks]
  /\ wrote \in [Requests -> Nat] /\ floor \in [Requests -> Nat] /\ shown \in [Requests -> Nat]

Init ==
  /\ up \in SUBSET Addresses /\ config \in Configurations /\ running = config
  /\ process = "starting" /\ bound = 0 /\ exit = 0 /\ faults = 0
  /\ writes = <<>>
  /\ at = [r \in Requests |-> "unsent"]
  /\ ask = [r \in Requests |-> CHOOSE a \in Asks : TRUE]
  /\ wrote = [r \in Requests |-> 0] /\ floor = [r \in Requests |-> 0]
  /\ shown = [r \in Requests |-> 0]

-----------------------------------------------------------------------------
(* The host                                                                *)

AddressComesUp(a) ==
  /\ a \notin up
  /\ up' = up \cup {a}
  /\ UNCHANGED <<config, faults, processVars, writes, requestVars>>

\* The tailnet goes away; a socket that is bound stays bound.
AddressGoes(a) ==
  /\ a \in up /\ faults < MaxFaults
  /\ up' = up \ {a} /\ faults' = faults + 1
  /\ UNCHANGED <<config, processVars, writes, requestVars>>

\* The operator edits .env or the unit: the addresses, the secret, the store path.
Edit ==
  /\ faults < MaxFaults
  /\ config' \in Configurations \ {config} /\ faults' = faults + 1
  /\ UNCHANGED <<up, processVars, writes, requestVars>>

\* Restart=on-failure: after a non-zero exit status, whichever it is.
Restart ==
  /\ process = "down" /\ exit # 0
  /\ process' = "starting"
  /\ UNCHANGED <<hostVars, running, bound, exit, writes, requestVars>>

-----------------------------------------------------------------------------
(* main(), build_servers(), serve_forever()                                *)

\* Faulty variant: the sockets opened before a failed bind stay open.
EndKeepingSockets(status) ==
  /\ process' = "down" /\ exit' = status /\ UNCHANGED bound
  /\ at' = [r \in Requests |-> IF r \in Served THEN "lost" ELSE at[r]]

\* The process ends, and with it its sockets and the requests it was serving.
End(status) ==
  /\ process' = "down" /\ exit' = status /\ bound' = 0
  /\ at' = [r \in Requests |-> IF r \in Served THEN "lost" ELSE at[r]]

\* require_existing_store() and resolve_bind() return.
Valid(c) == c.store = "file" /\ BindParses(c)

\* A ConfigError exits 2, on purpose.
CheckConfiguration ==
  /\ process = "starting"
  /\ \/ /\ Valid(config)
        /\ process' = "binding" /\ running' = config /\ UNCHANGED <<bound, exit, at>>
     \/ ~Valid(config) /\ End(2) /\ UNCHANGED running
  /\ UNCHANGED <<hostVars, writes, ask, wrote, floor, shown>>

\* Both cannot be bound to the one port.
Clash(h, g) == AddressOf[h] = AddressOf[g] \/ Every \in {AddressOf[h], AddressOf[g]}

\* An address the machine does not have, or one this process already listens on, raises.
Bindable(hosts, i) ==
  /\ AddressOf[hosts[i]] \in up \cup {Every}
  /\ \A k \in 1 .. i - 1 : ~Clash(hosts[k], hosts[i])

\* Faulty variant: an address that cannot be bound is skipped.
BindSkipping ==
  LET hosts == BindHosts(running) IN
  /\ process = "binding"
  /\ \/ /\ bound < Len(hosts) /\ Bindable(hosts, bound + 1)
        /\ bound' = bound + 1 /\ UNCHANGED process
     \/ /\ bound < Len(hosts) => ~Bindable(hosts, bound + 1)
        /\ process' = "serving" /\ UNCHANGED bound
  /\ UNCHANGED <<hostVars, running, exit, writes, requestVars>>

\* One address after the other; an OSError closes those opened and ends the process.
Bind ==
  LET hosts == BindHosts(running) IN
  /\ process = "binding"
  /\ \/ /\ bound = Len(hosts)
        /\ process' = "serving" /\ UNCHANGED <<bound, exit, at>>
     \/ /\ bound < Len(hosts) /\ Bindable(hosts, bound + 1)
        /\ bound' = bound + 1 /\ UNCHANGED <<process, exit, at>>
     \/ /\ bound < Len(hosts) /\ ~Bindable(hosts, bound + 1)
        /\ End(1)
  /\ UNCHANGED <<hostVars, running, writes, ask, wrote, floor, shown>>

\* SIGKILL or a crash: SIGTERM counts as a clean stop.
Kill ==
  /\ process # "down" /\ faults < MaxFaults
  /\ faults' = faults + 1
  /\ End(1)
  /\ UNCHANGED <<up, config, running, writes, ask, wrote, floor, shown>>

-----------------------------------------------------------------------------
(* do_GET(), do_POST()                                                     *)

Goto(r, stage) == at' = [at EXCEPT ![r] = stage]

Receive(r) ==
  /\ process = "serving" /\ at[r] = "unsent"
  /\ Goto(r, "guards")
  /\ \E a \in Asks : ask' = [ask EXCEPT ![r] = a]
  /\ floor' = [floor EXCEPT ![r] = Len(writes)]
  /\ UNCHANGED <<hostVars, processVars, writes, wrote, shown>>

\* Faulty variant: without a secret the policy page is open.
AdmittedOpen(a) ==
  /\ a.path = "policy"
  /\ running.secret = "none" \/ (running.secret = "ascii" /\ a.password = "right")

\* The policy page is addressed, and _guard() lets the request in: a secret is set, and
\* the credentials carry it.
Admitted(a) == a.path = "policy" /\ running.secret = "ascii" /\ a.password = "right"

\* compare_digest() raises unless the password and the secret are ASCII: no answer at all,
\* and with such a secret none to the right password either.
Raises(a) ==
  /\ a.path = "policy" /\ a.password # "missing"
  /\ \/ running.secret = "foreign"
     \/ running.secret = "ascii" /\ a.password = "foreign"

\* Faulty variant: a body shorter than it declared is parsed anyway.
FramedLoosely(a) == a.origin # "other" /\ a.length \in {"whole", "short"}

\* origin_allowed(), parse_content_length(), the size cap, and as many bytes as declared.
Framed(a) == a.origin # "other" /\ a.length = "whole"

\* parse_policy_form() returns: no field is blank and the model is registered.
FormParses(a) == a.project # "blank" /\ a.model \in Registered

\* A POST that do_POST() carries out.
Accepted(a) == a.method = "POST" /\ Framed(a) /\ FormParses(a)

\* The guards of do_GET() and do_POST().  The ledger page asks for nothing; a form that
\* does not parse is answered with the page as well.
Guards(r) ==
  /\ at[r] = "guards"
  /\ LET a == ask[r] IN
     \/ a.method = "GET" /\ (a.path = "ledger" \/ Admitted(a)) /\ Goto(r, "render")
     \/ a.method = "POST" /\ Admitted(a) /\ Framed(a)
          /\ Goto(r, IF FormParses(a) THEN "write" ELSE "render")
     \/ Raises(a) /\ Goto(r, "lost")
     \/ /\ ~Raises(a) /\ ~(a.method = "GET" /\ a.path = "ledger")
        /\ ~(Admitted(a) /\ (a.method = "POST" => Framed(a)))
        /\ Goto(r, "refused")
  /\ UNCHANGED <<hostVars, processVars, writes, ask, wrote, floor, shown>>

\* write_policy(): an upsert in a connection of its own, which may also raise (a
\* locked database); the client then gets no answer.
Write(r) ==
  /\ at[r] = "write"
  /\ \/ /\ writes' = Append(writes, ask[r])
        /\ wrote' = [wrote EXCEPT ![r] = Len(writes) + 1]
        /\ Goto(r, "render")
     \/ /\ Goto(r, "lost")
        /\ UNCHANGED <<writes, wrote>>
  /\ UNCHANGED <<hostVars, processVars, ask, floor, shown>>

\* Faulty variant: the page shows what was there when the request came.
AnswerStale(r) ==
  /\ at[r] = "render"
  /\ Goto(r, "ok")
  /\ shown' = [shown EXCEPT ![r] = floor[r]]
  /\ UNCHANGED <<hostVars, processVars, writes, ask, wrote, floor>>

\* render_page() or render_policy_view() reads the store, in a connection of its own,
\* which may raise too.
Answer(r) ==
  /\ at[r] = "render"
  /\ \/ /\ Goto(r, IF ask[r].method = "GET" \/ FormParses(ask[r]) THEN "ok" ELSE "notice")
        /\ shown' = [shown EXCEPT ![r] = Len(writes)]
     \/ /\ Goto(r, "lost")
        /\ UNCHANGED shown
  /\ UNCHANGED <<hostVars, processVars, writes, ask, wrote, floor>>

Serve(r) == Guards(r) \/ Write(r) \/ Answer(r)

ProcessStep == CheckConfiguration \/ Bind \/ Restart

Next ==
  \/ \E a \in Addresses : AddressComesUp(a) \/ AddressGoes(a)
  \/ Edit \/ ProcessStep \/ Kill
  \/ \E r \in Requests : Receive(r) \/ Serve(r)

Spec == Init /\ [][Next]_vars

\* The main thread is scheduled and systemd restarts; neither the network, the operator
\* nor a browser has to do anything, and a thread may wait for a body for ever.
FairSpec == Spec /\ WF_vars(ProcessStep)

-----------------------------------------------------------------------------

(* The policy only changes by a POST that every guard let in, once for each, in a process
   that has a secret (without one the page is off, not open), and an answer tells: "ok" has
   written, a refusal and a notice have not, a lost one may have. *)
WritesAreAccepted ==
  /\ \A r \in Requests : at[r] = "write" => process = "serving" /\ running.secret # "none"
  /\ \A r \in Requests : wrote[r] # 0 =>
       /\ at[r] \in {"render", "ok", "lost"}
       /\ Accepted(ask[r]) /\ ask[r].path = "policy" /\ ask[r].password = "right"
       /\ wrote[r] \in 1 .. Len(writes) /\ writes[wrote[r]] = ask[r]
  /\ \A r \in Requests : at[r] = "ok" /\ ask[r].method = "POST" => wrote[r] # 0
  /\ \A i \in 1 .. Len(writes) : \E r \in Requests : wrote[r] = i
  /\ \A r, q \in Requests : wrote[r] # 0 /\ wrote[r] = wrote[q] => r = q

(* A page shows every write committed before it was asked for, and the own write of the
   POST it answers; threads, restarts and other writes in between do not matter. *)
PagesAreFresh ==
  \A r \in Requests : at[r] \in {"ok", "notice"} =>
    floor[r] <= shown[r] /\ wrote[r] <= shown[r] /\ shown[r] <= Len(writes)

\* A request as PolicyRegister sees it.
StageOf(place) ==
  CASE place = "unsent"                          -> "unasked"
    [] place \in {"guards", "write", "render"}   -> "pending"
    [] place \in {"ok", "notice"}                -> "answered"
    [] place \in {"refused", "lost"}             -> place

Register == INSTANCE PolicyRegister WITH
  Contents <- Asks,
  Edits    <- {a \in Asks : Accepted(a) /\ a.path = "policy" /\ a.password = "right"},
  history  <- writes,
  stage    <- [r \in Requests |-> StageOf(at[r])],
  content  <- ask,
  since    <- floor,
  effect   <- wrote,
  view     <- shown

(* Editing and reading the policy is atomic for everyone who does it: the service, with its
   threads, its connections, its guards, its kills and its restarts, is the one register
   of PolicyRegister. *)
PolicyIsOneRegister == Register!Spec

(* The hosts asked for: the flags', or else the environment's, or else loopback. *)
Wanted(c) ==
  IF c.hostFlags # <<>> THEN ToSet(c.hostFlags)
  ELSE IF ToSet(c.hosts) \subseteq {Blank} THEN {Loopback} ELSE ToSet(c.hosts) \ {Blank}

(* No socket is opened for a refused spelling, whichever way it came, by a flag or by the
   environment: the ledger page has no authentication of its own.  An address that means
   every interface has other spellings; those are not refused. *)
RefusedNeverBound ==
  \A i \in 1 .. bound : BindHosts(running)[i] \notin Refused

\* What the refusal is for.  It needs more than the code checks: that no host of another
\* spelling stands for every interface.
NeverEveryInterface ==
  \A i \in 1 .. bound : AddressOf[BindHosts(running)[i]] # Every

(* The pages are served on every host asked for or on none, and on no other. *)
AllOrNothing ==
  process = "serving" =>
    {BindHosts(running)[i] : i \in 1 .. bound} = Wanted(running)

\* The hosts asked for can all be bound: they have addresses that are up, and no two have
\* the same one.
Listenable(c) ==
  /\ \A h \in Wanted(c) : AddressOf[h] \in up \cup {Every}
  /\ \A h, g \in Wanted(c) : h # g => ~Clash(h, g)

(* A cold boot does not leave the page down: once the configuration stays valid and its
   hosts can be bound, the server comes up and stays up. *)
ServesInTheEnd ==
  <>[](Valid(config) /\ Listenable(config)) => <>[](process = "serving")

=============================================================================
