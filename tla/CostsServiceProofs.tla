------------------------- MODULE CostsServiceProofs -------------------------
(***************************************************************************)
(* Proofs about CostsService, for any addresses, configurations, requests  *)
(* and number of faults.                                                   *)
(***************************************************************************)
EXTENDS CostsService, Recurrences

-----------------------------------------------------------------------------
(* The addresses                                                           *)

LEMMA Ranges ==
  ASSUME NEW A, NEW s \in Seq(A)
  PROVE  ToSet(s) = {s[i] : i \in 1 .. Len(s)}
  BY DEF ToSet

LEMMA Appended ==
  ASSUME NEW A, NEW s \in Seq(A), NEW a \in A
  PROVE  ToSet(Append(s, a)) = ToSet(s) \cup {a}
  <1> DEFINE t == Append(s, a)
  <1>1. t \in Seq(A) /\ Len(t) = Len(s) + 1 /\ Len(s) \in Nat
    OBVIOUS
  <1>2. t[Len(s) + 1] = a /\ \A i \in 1 .. Len(s) : t[i] = s[i]
    OBVIOUS
  <1> HIDE DEF t
  <1>3. ToSet(t) = {t[i] : i \in 1 .. Len(s) + 1} /\ ToSet(s) = {s[i] : i \in 1 .. Len(s)}
    BY <1>1, Ranges
  <1>4. ToSet(t) \subseteq ToSet(s) \cup {a}
    <2>1. \A i \in 1 .. Len(s) + 1 : i \in 1 .. Len(s) \/ i = Len(s) + 1
      BY <1>1
    <2> QED
      BY <1>2, <1>3, <2>1
  <1>5. ToSet(s) \cup {a} \subseteq ToSet(t)
    <2>1. Len(s) + 1 \in 1 .. Len(s) + 1 /\ \A i \in 1 .. Len(s) : i \in 1 .. Len(s) + 1
      BY <1>1
    <2> QED
      BY <1>2, <1>3, <2>1
  <1> QED
    BY <1>4, <1>5 DEF t

(* Kept() keeps every address that is not blank, and nothing else. *)
LEMMA KeptHolds ==
  ASSUME NEW A, NEW hosts \in Seq(A)
  PROVE  Kept(hosts) \in Seq(A) /\ ToSet(Kept(hosts)) = ToSet(hosts) \ {Blank}
  <1> DEFINE L == Len(hosts)
             Drops(s, n) == hosts[n] \in ToSet(s) \cup {Blank}
             step == [x \in Seq(A) \X Nat |->
                        IF x[2] + 1 \in 1 .. L /\ ~Drops(x[1], x[2] + 1)
                          THEN Append(x[1], hosts[x[2] + 1]) ELSE x[1]]
             Solves(g) == g = [n \in 0 .. L |->
                                 IF n = 0 THEN <<>>
                                 ELSE IF hosts[n] \in ToSet(g[n - 1]) \cup {Blank} THEN g[n - 1]
                                      ELSE Append(g[n - 1], hosts[n])]
             Done(s, n) == s \in Seq(A) /\ ToSet(s) = {hosts[i] : i \in 1 .. n} \ {Blank}
  <1>1. L \in Nat /\ \A n \in 1 .. L : hosts[n] \in A
    OBVIOUS
  <1>2. step \in [Seq(A) \X Nat -> Seq(A)]
    <2>1. ASSUME NEW s \in Seq(A), NEW n \in Nat, n + 1 \in 1 .. L
          PROVE  Append(s, hosts[n + 1]) \in Seq(A)
      BY <1>1, <2>1
    <2> QED
      BY <2>1
  <1>3. PICK f \in Prefix(Seq(A), <<>>, step, L) : TRUE
    <2>1. <<>> \in Seq(A)
      OBVIOUS
    <2> HIDE DEF step
    <2> QED
      BY <1>1, <1>2, <2>1, PrefixExists
  <1>4. ASSUME NEW n \in 1 .. L
        PROVE  f[n] = IF Drops(f[n - 1], n) THEN f[n - 1] ELSE Append(f[n - 1], hosts[n])
    <2> DEFINE s == f[n - 1]
               k == n - 1
    <2>1. s \in Seq(A) /\ k \in Nat /\ k + 1 = n
      <3> HIDE DEF step, Drops, L
      <3>1. f \in [0 .. L -> Seq(A)]
        BY <1>3 DEF Prefix
      <3>2. n - 1 \in 0 .. L
        BY <1>1
      <3> QED
        BY <3>1, <3>2
    <2>2. f[n] = step[<<s, k>>]
      BY <1>3 DEF Prefix
    <2> HIDE DEF Drops
    <2>3. \A x \in Seq(A) \X Nat :
            step[x] = IF x[2] + 1 \in 1 .. L /\ ~Drops(x[1], x[2] + 1)
                        THEN Append(x[1], hosts[x[2] + 1]) ELSE x[1]
      OBVIOUS
    <2> HIDE DEF s, k, step, L
    <2>4. step[<<s, k>>] = IF k + 1 \in 1 .. L /\ ~Drops(s, k + 1)
                             THEN Append(s, hosts[k + 1]) ELSE s
      BY <2>1, <2>3
    <2>5. f[n] = IF Drops(s, n) THEN s ELSE Append(s, hosts[n])
      BY <2>1, <2>2, <2>4
    <2> QED
      BY <2>5 DEF s
  <1>5. Solves(f)
    <2>1. f = [n \in 0 .. L |-> f[n]] /\ f[0] = <<>>
      BY <1>1, <1>3 DEF Prefix
    <2>2. \A n \in 0 .. L : n = 0 \/ n \in 1 .. L
      BY <1>1
    <2> QED
      BY <2>1, <2>2, <1>4
  <1> DEFINE kept == CHOOSE g : Solves(g)
  <1>6. Kept(hosts) = kept[L]
    BY DEF Kept
  <1>7. Solves(kept)
    <2> HIDE DEF Solves
    <2> QED
      BY <1>5
  <1> HIDE DEF kept
  <1>8. kept[0] = <<>> /\ \A n \in 1 .. L :
          kept[n] = IF Drops(kept[n - 1], n) THEN kept[n - 1] ELSE Append(kept[n - 1], hosts[n])
    <2>1. kept = [n \in 0 .. L |->
                    IF n = 0 THEN <<>>
                    ELSE IF Drops(kept[n - 1], n) THEN kept[n - 1]
                         ELSE Append(kept[n - 1], hosts[n])]
      BY <1>7
    <2>2. 0 \in 0 .. L /\ \A n \in 1 .. L : n \in 0 .. L /\ n # 0
      BY <1>1
    <2> HIDE DEF Drops
    <2> QED
      BY <2>1, <2>2
  <1> HIDE DEF Solves
  <1> DEFINE T == {n \in Nat : n <= L /\ ~Done(kept[n], n)}
  <1>9. T = {}
    <2> SUFFICES ASSUME T # {}
                 PROVE  FALSE
      OBVIOUS
    <2>1. PICK m \in T : \A n \in T : m <= n
      BY LeastNatural
    <2>2. m # 0
      <3>1. Done(<<>>, 0)
        BY DEF ToSet
      <3> QED
        BY <1>8, <2>1, <3>1
    <2>3. m \in 1 .. L /\ m - 1 \in Nat /\ Done(kept[m - 1], m - 1)
      <3> HIDE DEF Done, L
      <3>1. m \in Nat /\ m <= L /\ m - 1 \in Nat /\ m - 1 <= L /\ ~(m <= m - 1)
        BY <1>1, <2>1, <2>2
      <3>2. m - 1 \notin T
        BY <2>1, <3>1
      <3> QED
        BY <2>2, <3>1, <3>2
    <2>4. {hosts[i] : i \in 1 .. m} = {hosts[i] : i \in 1 .. m - 1} \cup {hosts[m]}
      BY <2>3
    <2>5. ToSet(Append(kept[m - 1], hosts[m])) = ToSet(kept[m - 1]) \cup {hosts[m]}
      <3>1. kept[m - 1] \in Seq(A) /\ hosts[m] \in A
        BY <1>1, <2>3
      <3> QED
        BY <3>1, Appended
    <2>6. Done(kept[m], m)
      <3>1. CASE Drops(kept[m - 1], m)
        BY <1>8, <2>3, <2>4, <3>1
      <3>2. CASE ~Drops(kept[m - 1], m)
        <4>1. kept[m] = Append(kept[m - 1], hosts[m])
          BY <1>8, <2>3, <3>2
        <4>2. kept[m] \in Seq(A)
          BY <1>1, <2>3, <4>1
        <4> QED
          BY <2>3, <2>4, <2>5, <3>2, <4>1, <4>2
      <3> QED
        BY <3>1, <3>2
    <2> QED
      BY <2>1, <2>6
  <1>10. Done(kept[L], L)
    <2> HIDE DEF Done, L
    <2> QED
      BY <1>1, <1>9
  <1> QED
    BY <1>6, <1>10, Ranges

LEMMA BindHostsHold ==
  ASSUME NEW c \in Configurations
  PROVE  /\ BindHosts(c) \in Seq(Hosts \cup Refused)
         /\ Valid(c) => /\ ToSet(BindHosts(c)) = Wanted(c)
                        /\ ToSet(BindHosts(c)) \cap Refused = {}
  <1> DEFINE A == Hosts \cup Refused
  <1>1. c.hosts \in Seq(A) /\ c.hostFlags \in Seq(A)
    BY ConfigurationsAreTyped
  <1>2. /\ Kept(c.hosts) \in Seq(A) /\ ToSet(Kept(c.hosts)) = ToSet(c.hosts) \ {Blank}
        /\ Kept(c.hostFlags) \in Seq(A) /\ ToSet(Kept(c.hostFlags)) = ToSet(c.hostFlags) \ {Blank}
    BY <1>1, KeptHolds
  <1>3. <<Loopback>> \in Seq(A) /\ ToSet(<<Loopback>>) = {Loopback}
    BY HostsAreSpellings DEF ToSet
  <1>4. Kept(c.hosts) = <<>> <=> ToSet(c.hosts) \subseteq {Blank}
    <2>1. ASSUME NEW s \in Seq(A)
          PROVE  s = <<>> <=> ToSet(s) = {}
      <3>1. s # <<>> => Len(s) \in 1 .. Len(s)
        OBVIOUS
      <3>2. ToSet(s) = {s[i] : i \in 1 .. Len(s)}
        BY Ranges
      <3> QED
        BY <3>1, <3>2
    <2> QED
      BY <1>2, <2>1
  <1>5. BindHosts(c) \in Seq(A)
    BY <1>2, <1>3 DEF BindHosts
  <1>6. ASSUME Valid(c)
        PROVE  ToSet(BindHosts(c)) = Wanted(c) /\ ToSet(BindHosts(c)) \cap Refused = {}
    <2>1. /\ ToSet(c.hosts) \cap Refused \subseteq {Blank} /\ ToSet(c.hostFlags) \cap Refused = {}
          /\ Blank \in Refused
      BY <1>6 DEF Valid, BindParses, Refused
    <2>2. CASE c.hostFlags # <<>>
      BY <1>2, <2>1, <2>2 DEF BindHosts, Wanted
    <2>3. CASE c.hostFlags = <<>> /\ Kept(c.hosts) = <<>>
      BY <1>3, <1>4, <2>3, HostsAreSpellings DEF BindHosts, Wanted
    <2>4. CASE c.hostFlags = <<>> /\ Kept(c.hosts) # <<>>
      BY <1>2, <1>4, <2>1, <2>4 DEF BindHosts, Wanted
    <2> QED
      BY <2>2, <2>3, <2>4
  <1> QED
    BY <1>5, <1>6

-----------------------------------------------------------------------------
(* Types                                                                   *)

HostVarsOK ==
  up \subseteq Addresses /\ config \in Configurations /\ faults \in 0 .. MaxFaults

ProcessOK ==
  /\ running \in Configurations /\ exit \in {0, 1, 2}
  /\ process \in {"down", "starting", "binding", "serving"}
  /\ bound \in 0 .. Len(BindHosts(running)) /\ (process \in {"down", "starting"} => bound = 0)

RequestsOK ==
  /\ writes \in Seq(Asks)
  /\ at \in [Requests -> Stages] /\ ask \in [Requests -> Asks]
  /\ wrote \in [Requests -> Nat] /\ floor \in [Requests -> Nat] /\ shown \in [Requests -> Nat]

LEMMA TypesSplit == ServiceTypeOK <=> HostVarsOK /\ ProcessOK /\ RequestsOK
  BY DEF ServiceTypeOK, HostVarsOK, ProcessOK, RequestsOK

LEMMA EndOK ==
  ASSUME ProcessOK, RequestsOK, NEW status \in {1, 2}, End(status), UNCHANGED running
  PROVE  ProcessOK' /\ at' \in [Requests -> Stages]
  <1>1. Len(BindHosts(running)) \in Nat
    BY BindHostsHold DEF ProcessOK
  <1>2. ProcessOK'
    BY <1>1 DEF ProcessOK, End
  <1>3. at' \in [Requests -> Stages]
    BY DEF RequestsOK, End, Stages
  <1> QED
    BY <1>2, <1>3

LEMMA GotoOK ==
  ASSUME RequestsOK, NEW r \in Requests, NEW stage \in Stages, Goto(r, stage)
  PROVE  at' \in [Requests -> Stages]
  BY DEF RequestsOK, Goto

LEMMA InitTypes == Init => ServiceTypeOK
  <1> SUFFICES ASSUME Init
               PROVE  ServiceTypeOK
    OBVIOUS
  <1>1. Len(BindHosts(running)) \in Nat /\ 0 \in 0 .. MaxFaults
    BY BindHostsHold, FaultsAreBounded DEF Init
  <1>2. (CHOOSE a \in Asks : TRUE) \in Asks
    BY AsksAreTyped
  <1> QED
    BY <1>1, <1>2 DEF Init, ServiceTypeOK, Stages

LEMMA StepTypes == ServiceTypeOK /\ [Next]_vars => ServiceTypeOK'
  <1> SUFFICES ASSUME HostVarsOK, ProcessOK, RequestsOK, [Next]_vars
               PROVE  HostVarsOK' /\ ProcessOK' /\ RequestsOK'
    BY TypesSplit DEF ServiceTypeOK, HostVarsOK, ProcessOK, RequestsOK
  <1>1. ASSUME NEW a \in Addresses, AddressComesUp(a)
        PROVE  HostVarsOK' /\ ProcessOK' /\ RequestsOK'
    BY <1>1 DEF AddressComesUp, HostVarsOK, ProcessOK, RequestsOK, processVars, requestVars
  <1>2. ASSUME NEW a \in Addresses, AddressGoes(a)
        PROVE  HostVarsOK' /\ ProcessOK' /\ RequestsOK'
    BY <1>2, FaultsAreBounded
    DEF AddressGoes, HostVarsOK, ProcessOK, RequestsOK, processVars, requestVars
  <1>3. ASSUME Edit
        PROVE  HostVarsOK' /\ ProcessOK' /\ RequestsOK'
    BY <1>3, FaultsAreBounded DEF Edit, HostVarsOK, ProcessOK, RequestsOK, processVars, requestVars
  <1>4. ASSUME Restart
        PROVE  HostVarsOK' /\ ProcessOK' /\ RequestsOK'
    BY <1>4 DEF Restart, HostVarsOK, ProcessOK, RequestsOK, hostVars, requestVars
  <1>5. ASSUME CheckConfiguration
        PROVE  HostVarsOK' /\ ProcessOK' /\ RequestsOK'
    <2>1. HostVarsOK'
      BY <1>5 DEF CheckConfiguration, HostVarsOK, hostVars
    <2>2. CASE Valid(config) /\ process' = "binding" /\ running' = config
                 /\ UNCHANGED <<bound, exit, at>>
      <3>1. Len(BindHosts(config)) \in Nat
        BY BindHostsHold DEF HostVarsOK
      <3> QED
        BY <1>5, <2>1, <2>2, <3>1 DEF CheckConfiguration, HostVarsOK, ProcessOK, RequestsOK
    <2>3. CASE End(2) /\ UNCHANGED running
      <3>1. ProcessOK' /\ at' \in [Requests -> Stages]
        BY <2>3, EndOK
      <3> QED
        BY <1>5, <2>1, <3>1 DEF CheckConfiguration, RequestsOK
    <2> QED
      BY <1>5, <2>2, <2>3 DEF CheckConfiguration
  <1>6. ASSUME Bind
        PROVE  HostVarsOK' /\ ProcessOK' /\ RequestsOK'
    <2>1. HostVarsOK'
      BY <1>6 DEF Bind, HostVarsOK, hostVars
    <2>2. Len(BindHosts(running)) \in Nat
      BY BindHostsHold DEF ProcessOK
    <2>3. CASE End(1)
      <3>1. ProcessOK' /\ at' \in [Requests -> Stages]
        BY <1>6, <2>3, EndOK DEF Bind
      <3> QED
        BY <1>6, <2>1, <3>1 DEF Bind, RequestsOK
    <2>4. CASE ~End(1)
      <3>1. ProcessOK'
        BY <1>6, <2>2, <2>4 DEF Bind, ProcessOK
      <3>2. RequestsOK'
        BY <1>6, <2>4 DEF Bind, RequestsOK
      <3> QED
        BY <2>1, <3>1, <3>2
    <2> QED
      BY <2>3, <2>4
  <1>7. ASSUME Kill
        PROVE  HostVarsOK' /\ ProcessOK' /\ RequestsOK'
    <2>1. ProcessOK' /\ at' \in [Requests -> Stages]
      BY <1>7, EndOK DEF Kill
    <2> QED
      BY <1>7, <2>1, FaultsAreBounded DEF Kill, HostVarsOK, RequestsOK
  <1>8. ASSUME NEW r \in Requests, Receive(r)
        PROVE  HostVarsOK' /\ ProcessOK' /\ RequestsOK'
    <2>1. Len(writes) \in Nat
      BY DEF RequestsOK
    <2> QED
      BY <1>8, <2>1, GotoOK
      DEF Receive, HostVarsOK, ProcessOK, RequestsOK, hostVars, processVars, Stages
  <1>9. ASSUME NEW r \in Requests, Guards(r)
        PROVE  HostVarsOK' /\ ProcessOK' /\ RequestsOK'
    <2>1. at' \in [Requests -> Stages]
      BY <1>9, GotoOK DEF Guards, Stages
    <2> QED
      BY <1>9, <2>1 DEF Guards, HostVarsOK, ProcessOK, RequestsOK, hostVars, processVars
  <1>10. ASSUME NEW r \in Requests, Write(r)
         PROVE  HostVarsOK' /\ ProcessOK' /\ RequestsOK'
    <2>1. Len(writes) + 1 \in Nat /\ Append(writes, ask[r]) \in Seq(Asks)
      BY DEF RequestsOK
    <2>2. at' \in [Requests -> Stages]
      BY <1>10, GotoOK DEF Write, Stages
    <2> QED
      BY <1>10, <2>1, <2>2 DEF Write, HostVarsOK, ProcessOK, RequestsOK, hostVars, processVars
  <1>11. ASSUME NEW r \in Requests, Answer(r)
         PROVE  HostVarsOK' /\ ProcessOK' /\ RequestsOK'
    <2>1. Len(writes) \in Nat
      BY DEF RequestsOK
    <2>2. at' \in [Requests -> Stages]
      BY <1>11, GotoOK DEF Answer, Stages
    <2> QED
      BY <1>11, <2>1, <2>2 DEF Answer, HostVarsOK, ProcessOK, RequestsOK, hostVars, processVars
  <1>12. CASE UNCHANGED vars
    BY <1>12
    DEF vars, hostVars, processVars, requestVars, HostVarsOK, ProcessOK, RequestsOK
  <1> QED
    BY <1>1, <1>2, <1>3, <1>4, <1>5, <1>6, <1>7, <1>8, <1>9, <1>10, <1>11, <1>12
    DEF Next, ProcessStep, Serve

(* Types of the costs server. *)
THEOREM ServiceTypes == Spec => []ServiceTypeOK
  BY InitTypes, StepTypes, PTL DEF Spec

-----------------------------------------------------------------------------
(* The inductive invariant: what each request has established at its stage, *)
(* and what a process that has read its configuration has.                  *)

ProcessInv ==
  /\ process \in {"binding", "serving"} => Valid(running)
  /\ process = "serving" => bound = Len(BindHosts(running))

RequestInv(r) ==
  /\ r \in Served => process = "serving"
  /\ at[r] = "write" => Admitted(ask[r]) /\ Accepted(ask[r])
  /\ at[r] \in {"unsent", "guards", "write", "refused", "notice"} => wrote[r] = 0
  /\ wrote[r] # 0 =>
       /\ Accepted(ask[r]) /\ ask[r].path = "policy" /\ ask[r].password = "right"
       /\ wrote[r] \in 1 .. Len(writes) /\ writes[wrote[r]] = ask[r]
  /\ at[r] \in {"render", "ok"} /\ ask[r].method = "POST" /\ FormParses(ask[r]) => wrote[r] # 0
  /\ at[r] = "ok" => ask[r].method = "GET" \/ FormParses(ask[r])
  /\ floor[r] <= Len(writes)
  /\ at[r] \in {"ok", "notice"} =>
       floor[r] <= shown[r] /\ wrote[r] <= shown[r] /\ shown[r] <= Len(writes)

LogInv ==
  /\ \A i \in 1 .. Len(writes) : \E r \in Requests : wrote[r] = i
  /\ \A r, q \in Requests : wrote[r] # 0 /\ wrote[r] = wrote[q] => r = q

CostsInv ==
  ServiceTypeOK /\ ProcessInv /\ (\A r \in Requests : RequestInv(r)) /\ LogInv

\* What a step leaves alone when it only moves one request on.
OthersStay(r) ==
  \A q \in Requests \ {r} :
    at'[q] = at[q] /\ wrote'[q] = wrote[q] /\ floor'[q] = floor[q] /\ shown'[q] = shown[q]
      /\ ask'[q] = ask[q]

LEMMA EndInv ==
  ASSUME CostsInv, NEW status \in {1, 2}, End(status),
         UNCHANGED <<running, writes, ask, wrote, floor, shown>>
  PROVE  ProcessInv' /\ (\A r \in Requests : RequestInv(r)') /\ LogInv'
  <1>1. ProcessInv' /\ LogInv'
    BY DEF CostsInv, ProcessInv, LogInv, End
  <1>2. ASSUME NEW r \in Requests
        PROVE  RequestInv(r)'
    <2>1. at'[r] = IF r \in Served THEN "lost" ELSE at[r]
      BY DEF End, CostsInv, ServiceTypeOK
    <2>2. at'[r] = "lost" \/ (at'[r] = at[r] /\ r \notin Served)
      BY <2>1
    <2> QED
      BY <2>2 DEF CostsInv, RequestInv, Served, Accepted, Framed, FormParses
  <1> QED
    BY <1>1, <1>2

LEMMA QuietInv ==
  ASSUME CostsInv, UNCHANGED <<running, writes, requestVars>>,
         process' = process \/ Served = {}
  PROVE  (\A r \in Requests : RequestInv(r)') /\ LogInv'
  <1>1. LogInv'
    BY DEF CostsInv, LogInv, requestVars
  <1>2. ASSUME NEW r \in Requests
        PROVE  RequestInv(r)'
    BY DEF CostsInv, RequestInv, Served, requestVars, Admitted, Accepted, Framed, FormParses
  <1> QED
    BY <1>1, <1>2

THEOREM CostsInvHolds == Spec => []CostsInv
  <1>1. Init => CostsInv
    <2> SUFFICES ASSUME Init, ServiceTypeOK
                 PROVE  ProcessInv /\ (\A r \in Requests : RequestInv(r)) /\ LogInv
      BY InitTypes DEF CostsInv
    <2> QED
      BY DEF Init, ProcessInv, RequestInv, LogInv, Served
  <1>2. CostsInv /\ [Next]_vars => CostsInv'
    <2> SUFFICES ASSUME CostsInv, [Next]_vars
                 PROVE  ProcessInv' /\ (\A r \in Requests : RequestInv(r)') /\ LogInv'
      BY StepTypes DEF CostsInv
    <2> DEFINE Goal == ProcessInv' /\ (\A r \in Requests : RequestInv(r)') /\ LogInv'
    <2>0. ServiceTypeOK /\ ProcessInv /\ LogInv /\ \A r \in Requests : RequestInv(r)
      BY DEF CostsInv
    <2>1. ASSUME NEW a \in Addresses, AddressComesUp(a) \/ AddressGoes(a)
          PROVE  Goal
      BY <2>0, <2>1, QuietInv DEF AddressComesUp, AddressGoes, ProcessInv, processVars
    <2>2. ASSUME Edit
          PROVE  Goal
      BY <2>0, <2>2, QuietInv DEF Edit, ProcessInv, processVars
    <2>3. ASSUME Restart
          PROVE  Goal
      <3>1. Served = {}
        BY <2>0, <2>3 DEF Restart, RequestInv, Served
      <3> QED
        BY <2>0, <2>3, <3>1, QuietInv DEF Restart, ProcessInv
    <2>4. ASSUME CheckConfiguration
          PROVE  Goal
      <3>1. Served = {}
        BY <2>0, <2>4 DEF CheckConfiguration, RequestInv, Served
      <3>2. CASE End(2) /\ UNCHANGED running
        BY <2>4, <3>2, EndInv DEF CheckConfiguration
      <3>3. CASE Valid(config) /\ process' = "binding" /\ running' = config
                   /\ UNCHANGED <<bound, exit, at>>
        <4>1. ProcessInv'
          BY <3>3 DEF ProcessInv, Valid
        <4>2. LogInv'
          BY <2>0, <2>4, <3>3 DEF CheckConfiguration, LogInv
        <4>3. ASSUME NEW r \in Requests
              PROVE  RequestInv(r)'
          BY <2>0, <2>4, <3>1, <3>3
          DEF CheckConfiguration, RequestInv, Served, Accepted, Framed, FormParses
        <4> QED
          BY <4>1, <4>2, <4>3
      <3> QED
        BY <2>4, <3>2, <3>3 DEF CheckConfiguration
    <2>5. ASSUME Bind
          PROVE  Goal
      <3>1. CASE End(1)
        BY <2>5, <3>1, EndInv DEF Bind
      <3>2. CASE ~End(1)
        <4>1. Served = {}
          BY <2>0, <2>5 DEF Bind, RequestInv, Served
        <4>2. ProcessInv'
          BY <2>0, <2>5, <3>2 DEF Bind, ProcessInv
        <4> QED
          BY <2>5, <3>2, <4>1, <4>2, QuietInv DEF Bind, requestVars
      <3> QED
        BY <3>1, <3>2
    <2>6. ASSUME Kill
          PROVE  Goal
      BY <2>6, EndInv DEF Kill
    <2>7. ASSUME NEW r \in Requests, Receive(r)
          PROVE  Goal
      <3>1. ProcessInv' /\ LogInv'
        BY <2>0, <2>7 DEF Receive, ProcessInv, LogInv, processVars
      <3>2. /\ OthersStay(r) /\ process = "serving" /\ UNCHANGED <<processVars, writes>>
            /\ at[r] = "unsent" /\ at'[r] = "guards" /\ floor'[r] = Len(writes)
            /\ wrote' = wrote /\ shown' = shown
        BY <2>0, <2>7 DEF Receive, Goto, OthersStay, ServiceTypeOK
      <3>3. RequestInv(r)'
        <4>1. Len(writes) \in Nat /\ wrote[r] = 0
          BY <2>0, <3>2 DEF ServiceTypeOK, RequestInv
        <4> QED
          BY <3>2, <4>1 DEF RequestInv, Served, processVars
      <3>4. ASSUME NEW q \in Requests \ {r}
            PROVE  RequestInv(q)'
        BY <2>0, <3>2
        DEF OthersStay, RequestInv, Served, processVars, Admitted, Accepted, Framed, FormParses
      <3> QED
        BY <3>1, <3>3, <3>4
    <2>8. ASSUME NEW r \in Requests, Guards(r)
          PROVE  Goal
      <3>1. ProcessInv' /\ LogInv'
        BY <2>0, <2>8 DEF Guards, ProcessInv, LogInv, processVars
      <3>2. /\ OthersStay(r) /\ UNCHANGED <<processVars, writes, ask, wrote, floor, shown>>
            /\ at[r] = "guards" /\ process = "serving"
            /\ \/ at'[r] = "render" /\ (ask[r].method = "POST" => ~FormParses(ask[r]))
               \/ at'[r] = "write" /\ Admitted(ask[r]) /\ Accepted(ask[r])
               \/ at'[r] \in {"refused", "lost"}
        <4>1. at[r] = "guards" /\ process = "serving"
          BY <2>0, <2>8 DEF Guards, RequestInv, Served
        <4>2. UNCHANGED <<processVars, writes, ask, wrote, floor, shown>>
          BY <2>8 DEF Guards
        <4>3. ASSUME NEW stage, Goto(r, stage)
              PROVE  OthersStay(r) /\ at'[r] = stage
          BY <2>0, <4>2, <4>3 DEF Goto, OthersStay, ServiceTypeOK
        <4>4. CASE Goto(r, "write") /\ ask[r].method = "POST" /\ Admitted(ask[r]) /\ Framed(ask[r])
                     /\ FormParses(ask[r])
          BY <4>1, <4>2, <4>3, <4>4 DEF Accepted
        <4>5. CASE Goto(r, "render") /\ (ask[r].method = "POST" => ~FormParses(ask[r]))
          BY <4>1, <4>2, <4>3, <4>5
        <4>6. CASE Goto(r, "lost") \/ Goto(r, "refused")
          BY <4>1, <4>2, <4>3, <4>6
        <4> QED
          BY <2>8, <4>4, <4>5, <4>6 DEF Guards
      <3>3. RequestInv(r)'
        BY <2>0, <3>2
        DEF RequestInv, Served, processVars, Admitted, Accepted, Framed, FormParses
      <3>4. ASSUME NEW q \in Requests \ {r}
            PROVE  RequestInv(q)'
        BY <2>0, <3>2
        DEF OthersStay, RequestInv, Served, processVars, Admitted, Accepted, Framed, FormParses
      <3> QED
        BY <3>1, <3>3, <3>4
    <2>9. ASSUME NEW r \in Requests, Write(r)
          PROVE  Goal
      <3>1. ProcessInv'
        BY <2>0, <2>9 DEF Write, ProcessInv, processVars
      <3>2. /\ OthersStay(r) /\ UNCHANGED <<processVars, ask, floor, shown>>
            /\ at[r] = "write" /\ process = "serving"
        BY <2>0, <2>9 DEF Write, Goto, OthersStay, ServiceTypeOK, RequestInv, Served
      <3>3. Len(writes) \in Nat /\ wrote[r] = 0 /\ Admitted(ask[r]) /\ Accepted(ask[r])
        BY <2>0, <3>2 DEF ServiceTypeOK, RequestInv
      <3>4. CASE writes' = Append(writes, ask[r]) /\ at'[r] = "render"
                   /\ wrote'[r] = Len(writes) + 1
        <4> DEFINE n == Len(writes)
        <4>1. /\ Len(writes') = n + 1 /\ writes'[n + 1] = ask[r]
              /\ \A i \in 1 .. n : writes'[i] = writes[i]
          BY <2>0, <3>4 DEF ServiceTypeOK
        <4>2. RequestInv(r)'
          <5>1. floor[r] <= n /\ n + 1 # 0 /\ n + 1 \in 1 .. n + 1 /\ floor[r] <= n + 1
            BY <2>0, <3>3 DEF RequestInv, ServiceTypeOK
          <5> QED
            BY <3>2, <3>3, <3>4, <4>1, <5>1
            DEF RequestInv, Served, processVars, Admitted, Accepted, Framed, FormParses
        <4>3. ASSUME NEW q \in Requests \ {r}
              PROVE  RequestInv(q)'
          <5>1. /\ floor[q] <= n => floor[q] <= n + 1
                /\ shown[q] <= n => shown[q] <= n + 1
                /\ wrote[q] \in 1 .. n => wrote[q] \in 1 .. n + 1
            BY <2>0, <3>3 DEF ServiceTypeOK
          <5> QED
            BY <2>0, <3>2, <4>1, <5>1
            DEF OthersStay, RequestInv, Served, processVars, Admitted, Accepted, Framed, FormParses
        <4>4. LogInv'
          <5>1. ASSUME NEW i \in 1 .. n + 1
                PROVE  \E q \in Requests : wrote'[q] = i
            <6>1. CASE i = n + 1
              BY <3>4, <6>1
            <6>2. CASE i # n + 1
              <7>1. PICK q \in Requests : wrote[q] = i
                BY <2>0, <3>3, <6>2 DEF LogInv
              <7>2. q # r
                BY <3>3, <7>1
              <7> QED
                BY <3>2, <7>1, <7>2 DEF OthersStay
            <6> QED
              BY <6>1, <6>2
          <5>2. \A q \in Requests \ {r} : wrote'[q] = wrote[q] /\ wrote[q] # n + 1
            BY <2>0, <3>2, <3>3 DEF OthersStay, RequestInv
          <5>3. ASSUME NEW p \in Requests, NEW q \in Requests, wrote'[p] # 0, wrote'[p] = wrote'[q]
                PROVE  p = q
            BY <2>0, <3>4, <5>2, <5>3 DEF LogInv
          <5> QED
            BY <4>1, <5>1, <5>3 DEF LogInv
        <4> QED
          BY <3>1, <4>2, <4>3, <4>4
      <3>5. CASE at'[r] = "lost" /\ UNCHANGED <<writes, wrote>>
        <4>1. LogInv'
          BY <2>0, <3>5 DEF LogInv
        <4>2. RequestInv(r)'
          BY <2>0, <3>2, <3>3, <3>5
          DEF RequestInv, Served, processVars, Admitted, Accepted, Framed, FormParses
        <4>3. ASSUME NEW q \in Requests \ {r}
              PROVE  RequestInv(q)'
          BY <2>0, <3>2, <3>5
          DEF OthersStay, RequestInv, Served, processVars, Admitted, Accepted, Framed, FormParses
        <4> QED
          BY <3>1, <4>1, <4>2, <4>3
      <3>6. \/ writes' = Append(writes, ask[r]) /\ at'[r] = "render" /\ wrote'[r] = Len(writes) + 1
            \/ at'[r] = "lost" /\ UNCHANGED <<writes, wrote>>
        BY <2>0, <2>9 DEF Write, Goto, ServiceTypeOK
      <3> QED
        BY <3>4, <3>5, <3>6
    <2>10. ASSUME NEW r \in Requests, Answer(r)
           PROVE  Goal
      <3>1. ProcessInv' /\ LogInv'
        BY <2>0, <2>10 DEF Answer, ProcessInv, LogInv, processVars
      <3>2. /\ OthersStay(r) /\ UNCHANGED <<processVars, writes, ask, wrote, floor>>
            /\ at[r] = "render" /\ process = "serving"
        BY <2>0, <2>10 DEF Answer, Goto, OthersStay, ServiceTypeOK, RequestInv, Served
      <3>3. \/ at'[r] = "lost"
            \/ /\ shown'[r] = Len(writes)
               /\ at'[r] = IF ask[r].method = "GET" \/ FormParses(ask[r]) THEN "ok" ELSE "notice"
        BY <2>0, <2>10 DEF Answer, Goto, ServiceTypeOK
      <3>4. RequestInv(r)'
        <4>1. /\ floor[r] <= Len(writes) /\ wrote[r] <= Len(writes) /\ Len(writes) <= Len(writes)
              /\ wrote[r] # 0 => FormParses(ask[r])
          BY <2>0 DEF RequestInv, ServiceTypeOK, Accepted
        <4> QED
          BY <2>0, <3>2, <3>3, <4>1
          DEF RequestInv, Served, processVars, Admitted, Accepted, Framed, FormParses
      <3>5. ASSUME NEW q \in Requests \ {r}
            PROVE  RequestInv(q)'
        BY <2>0, <3>2
        DEF OthersStay, RequestInv, Served, processVars, Admitted, Accepted, Framed, FormParses
      <3> QED
        BY <3>1, <3>4, <3>5
    <2>11. CASE UNCHANGED vars
      BY <2>0, <2>11, QuietInv DEF vars, processVars, ProcessInv
    <2> QED
      BY <2>1, <2>2, <2>3, <2>4, <2>5, <2>6, <2>7, <2>8, <2>9, <2>10, <2>11
      DEF Next, ProcessStep, Serve
  <1> QED
    BY <1>1, <1>2, PTL DEF Spec

(* The policy changes only by accepted requests, once for each, and the answers tell. *)
THEOREM WritesHold == Spec => []WritesAreAccepted
  <1>1. CostsInv => WritesAreAccepted
    <2> SUFFICES ASSUME CostsInv
                 PROVE  WritesAreAccepted
      OBVIOUS
    <2>1. \A r \in Requests : at[r] = "write" => process = "serving" /\ running.secret # "none"
      BY DEF CostsInv, RequestInv, Served, Admitted
    <2>2. ASSUME NEW r \in Requests, wrote[r] # 0
          PROVE  at[r] \in {"render", "ok", "lost"}
      <3>1. at[r] \in Stages
        BY DEF CostsInv, ServiceTypeOK
      <3> QED
        BY <2>2, <3>1 DEF CostsInv, RequestInv, Stages
    <2>3. \A r \in Requests : at[r] = "ok" /\ ask[r].method = "POST" => wrote[r] # 0
      BY DEF CostsInv, RequestInv
    <2> QED
      BY <2>1, <2>2, <2>3 DEF CostsInv, RequestInv, LogInv, WritesAreAccepted
  <1> QED
    BY <1>1, CostsInvHolds, PTL

(* A page shows every write that was committed before it was asked for, and its own. *)
THEOREM PagesHold == Spec => []PagesAreFresh
  <1>1. CostsInv => PagesAreFresh
    BY DEF CostsInv, RequestInv, PagesAreFresh
  <1> QED
    BY <1>1, CostsInvHolds, PTL

(* No refused spelling reaches a socket, by the flags or by the environment. *)
THEOREM RefusedHolds == Spec => []RefusedNeverBound
  <1>1. CostsInv => RefusedNeverBound
    <2> SUFFICES ASSUME CostsInv, NEW i \in 1 .. bound
                 PROVE  BindHosts(running)[i] \notin Refused
      BY DEF RefusedNeverBound
    <2>1. /\ running \in Configurations /\ bound \in 0 .. Len(BindHosts(running))
          /\ process \in {"down", "starting", "binding", "serving"}
          /\ process \in {"down", "starting"} => bound = 0
      BY DEF CostsInv, ServiceTypeOK
    <2>2. BindHosts(running) \in Seq(Hosts \cup Refused) /\ bound # 0
      BY <2>1, BindHostsHold
    <2>3. Valid(running)
      BY <2>1, <2>2 DEF CostsInv, ProcessInv
    <2>4. i \in 1 .. Len(BindHosts(running))
      BY <2>1, <2>2
    <2>5. BindHosts(running)[i] \in ToSet(BindHosts(running))
      BY <2>2, <2>4, Ranges
    <2> QED
      BY <2>1, <2>3, <2>5, BindHostsHold
  <1> QED
    BY <1>1, CostsInvHolds, PTL

(* No socket listens on every interface, on one condition that the code leaves to the
   operator: that no host is configured which means every interface by another spelling
   than the refused ones. *)
THEOREM NeverEverywhere ==
  ASSUME \A h \in Hosts : AddressOf[h] # Every
  PROVE  Spec => []NeverEveryInterface
  <1>1. ServiceTypeOK /\ RefusedNeverBound => NeverEveryInterface
    <2> SUFFICES ASSUME ServiceTypeOK, RefusedNeverBound, NEW i \in 1 .. bound
                 PROVE  AddressOf[BindHosts(running)[i]] # Every
      BY DEF NeverEveryInterface
    <2>1. running \in Configurations /\ bound \in 0 .. Len(BindHosts(running))
      BY DEF ServiceTypeOK
    <2>2. BindHosts(running) \in Seq(Hosts \cup Refused)
      BY <2>1, BindHostsHold
    <2>3. BindHosts(running)[i] \in Hosts \cup Refused
      BY <2>1, <2>2
    <2> QED
      BY <2>3 DEF RefusedNeverBound
  <1> QED
    BY <1>1, ServiceTypes, RefusedHolds, PTL

(* A server that serves is bound to every host asked for, and to no other. *)
THEOREM AllOrNothingHolds == Spec => []AllOrNothing
  <1>1. CostsInv => AllOrNothing
    <2> SUFFICES ASSUME CostsInv, process = "serving"
                 PROVE  {BindHosts(running)[i] : i \in 1 .. bound} = Wanted(running)
      BY DEF AllOrNothing
    <2>1. running \in Configurations /\ Valid(running) /\ bound = Len(BindHosts(running))
      BY DEF CostsInv, ServiceTypeOK, ProcessInv
    <2>2. /\ BindHosts(running) \in Seq(Hosts \cup Refused)
          /\ ToSet(BindHosts(running)) = Wanted(running)
      BY <2>1, BindHostsHold
    <2>3. ToSet(BindHosts(running)) = {BindHosts(running)[i] : i \in 1 .. Len(BindHosts(running))}
      BY <2>2, Ranges
    <2> QED
      BY <2>1, <2>2, <2>3
  <1> QED
    BY <1>1, CostsInvHolds, PTL

-----------------------------------------------------------------------------
(* The register                                                            *)

\* The stages of the requests as PolicyRegister sees them.
Seen == [r \in Requests |-> StageOf(at[r])]

LEMMA PendingIsServed ==
  ASSUME CostsInv
  PROVE  /\ at \in [Requests -> Stages]
         /\ Register!Pending = Served
         /\ \A r \in Requests : r \in Served => Seen[r] = "pending"
  <1>1. at \in [Requests -> Stages]
    BY DEF CostsInv, ServiceTypeOK
  <1>2. \A r \in Requests : StageOf(at[r]) = "pending" <=> r \in Served
    BY <1>1 DEF StageOf, Served, Stages
  <1> QED
    BY <1>1, <1>2 DEF Register!Pending, Seen, Served

\* One request moves on.
LEMMA MovesOn ==
  ASSUME CostsInv, NEW r \in Requests, NEW place, Goto(r, place)
  PROVE  /\ Seen' = [Seen EXCEPT ![r] = StageOf(place)]
         /\ at[r] \in {"guards", "write", "render"} /\ place \in {"guards", "write", "render"}
              => Seen' = Seen
         /\ at[r] \in {"guards", "write", "render"} /\ place = "lost"
              => Seen' = [q \in Requests |-> IF q \in {r} THEN "lost" ELSE Seen[q]]
  <1>1. Seen' = [Seen EXCEPT ![r] = StageOf(place)]
    BY PendingIsServed DEF Goto, Seen
  <1>2. Seen = [q \in Requests |-> Seen[q]]
    BY DEF Seen
  <1>3. place \in {"guards", "write", "render"} => StageOf(place) = "pending"
    BY DEF StageOf
  <1>4. place = "lost" => StageOf(place) = "lost"
    BY DEF StageOf
  <1>5. at[r] \in {"guards", "write", "render"} => Seen[r] = "pending"
    BY PendingIsServed DEF Served
  <1> QED
    BY <1>1, <1>2, <1>3, <1>4, <1>5

\* A request that gets no answer.
LEMMA OneIsLost ==
  ASSUME CostsInv, NEW r \in Requests, at[r] \in {"guards", "write", "render"},
         Goto(r, "lost"), UNCHANGED <<writes, ask, wrote, floor, shown>>
  PROVE  Register!Next
  <1>1. {r} \in SUBSET Register!Pending
    BY PendingIsServed DEF Served
  <1>2. Register!Lose({r})
    BY MovesOn DEF Register!Lose, Seen
  <1> QED
    BY <1>1, <1>2 DEF Register!Next

\* All requests that are served are lost with the process, wherever they are.
LEMMA AllAreLost ==
  ASSUME CostsInv, NEW status, End(status), UNCHANGED <<writes, ask, wrote, floor, shown>>
  PROVE  Register!Next
  <1>1. at' = [r \in Requests |-> IF r \in Served THEN "lost" ELSE at[r]]
    BY DEF End
  <1>2. Seen' = [r \in Requests |-> IF r \in Served THEN "lost" ELSE Seen[r]]
    <2>1. StageOf("lost") = "lost"
      BY DEF StageOf
    <2> QED
      BY <1>1, <2>1 DEF Seen
  <1>3. Register!Lose(Served) /\ Served \in SUBSET Register!Pending
    BY <1>2, PendingIsServed DEF Register!Lose, Seen
  <1> QED
    BY <1>3 DEF Register!Next

\* The guards let a request on, refuse it or raise; none of this changes the register.
LEMMA GuardsOfTheRegister ==
  ASSUME CostsInv, NEW r \in Requests, Guards(r)
  PROVE  Register!Next \/ UNCHANGED Register!vars
  <1>1. at[r] = "guards" /\ UNCHANGED <<writes, ask, wrote, floor, shown>>
    BY DEF Guards
  <1>2. CASE Goto(r, "render") \/ Goto(r, "write")
    <2>1. Seen' = Seen
      BY <1>1, <1>2, MovesOn
    <2> QED
      BY <1>1, <2>1 DEF Register!vars, Seen
  <1>3. CASE Goto(r, "lost")
    BY <1>1, <1>3, OneIsLost
  <1>4. CASE Goto(r, "refused")
    <2>1. Seen' = [Seen EXCEPT ![r] = "refused"]
      BY <1>4, MovesOn DEF StageOf
    <2>2. wrote[r] = 0 /\ r \in Register!Pending
      BY <1>1, PendingIsServed DEF CostsInv, RequestInv, Served
    <2>3. Register!Refuse(r)
      BY <1>1, <2>1, <2>2 DEF Register!Refuse, Seen
    <2> QED
      BY <2>3 DEF Register!Next
  <1>5. Goto(r, "render") \/ Goto(r, "write") \/ Goto(r, "lost") \/ Goto(r, "refused")
    BY DEF Guards
  <1> QED
    BY <1>2, <1>3, <1>4, <1>5

\* The upsert is the moment an edit takes effect.
LEMMA WriteTakesEffect ==
  ASSUME CostsInv, NEW r \in Requests, Write(r)
  PROVE  Register!Next
  <1>1. at[r] = "write" /\ UNCHANGED <<ask, floor, shown>>
    BY DEF Write
  <1>2. CASE Goto(r, "lost") /\ UNCHANGED <<writes, wrote>>
    BY <1>1, <1>2, OneIsLost
  <1>3. CASE /\ writes' = Append(writes, ask[r])
             /\ wrote' = [wrote EXCEPT ![r] = Len(writes) + 1]
             /\ Goto(r, "render")
    <2>1. Seen' = Seen
      BY <1>1, <1>3, MovesOn
    <2>2. wrote[r] = 0 /\ Admitted(ask[r]) /\ Accepted(ask[r]) /\ ask[r] \in Asks
      BY <1>1 DEF CostsInv, RequestInv, ServiceTypeOK
    <2>3. ask[r] \in {a \in Asks : Accepted(a) /\ a.path = "policy" /\ a.password = "right"}
      BY <2>2 DEF Admitted
    <2>4. Len(writes') = Len(writes) + 1
      BY <1>3, <2>2 DEF CostsInv, ServiceTypeOK
    <2>5. r \in Register!Pending
      BY <1>1, PendingIsServed DEF Served
    <2>6. Register!TakeEffect(r)
      BY <1>1, <1>3, <2>1, <2>2, <2>3, <2>4, <2>5 DEF Register!TakeEffect, Seen
    <2> QED
      BY <2>6 DEF Register!Next
  <1> QED
    BY <1>2, <1>3 DEF Write

\* The page is read after the edit it confirms and after those it was asked behind.
LEMMA AnswerOfTheRegister ==
  ASSUME CostsInv, NEW r \in Requests, Answer(r)
  PROVE  Register!Next
  <1>1. at[r] = "render" /\ UNCHANGED <<writes, ask, wrote, floor>>
    BY DEF Answer
  <1>2. CASE Goto(r, "lost") /\ UNCHANGED shown
    BY <1>1, <1>2, OneIsLost
  <1>3. CASE /\ Goto(r, "ok") \/ Goto(r, "notice")
             /\ shown' = [shown EXCEPT ![r] = Len(writes)]
    <2>1. Seen' = [Seen EXCEPT ![r] = "answered"]
      BY <1>3, MovesOn DEF StageOf
    <2>2. /\ Len(writes) \in floor[r] .. Len(writes) /\ wrote[r] <= Len(writes)
          /\ Accepted(ask[r]) => wrote[r] # 0
      BY <1>1 DEF CostsInv, RequestInv, ServiceTypeOK, Accepted
    <2>3. r \in Register!Pending
      BY <1>1, PendingIsServed DEF Served
    <2>4. Register!Answer(r)
      BY <1>1, <1>3, <2>1, <2>2, <2>3 DEF Register!Answer, Seen
    <2> QED
      BY <2>4 DEF Register!Next
  <1> QED
    BY <1>2, <1>3 DEF Answer

LEMMA ReceiveAsks ==
  ASSUME CostsInv, NEW r \in Requests, Receive(r)
  PROVE  Register!Next
  <1>1. /\ at[r] = "unsent" /\ UNCHANGED <<writes, wrote, shown>>
        /\ \E a \in Asks : ask' = [ask EXCEPT ![r] = a]
        /\ floor' = [floor EXCEPT ![r] = Len(writes)]
        /\ Goto(r, "guards")
    BY DEF Receive
  <1>2. Seen' = [Seen EXCEPT ![r] = "pending"] /\ Seen[r] = "unasked"
    BY <1>1, MovesOn DEF StageOf, Seen
  <1>3. Register!Ask(r)
    BY <1>1, <1>2 DEF Register!Ask, Seen
  <1> QED
    BY <1>3 DEF Register!Next

(* The policy page implements one register, for any number of concurrent requests, any
   guards they meet, and any kills, restarts and edits of the configuration. *)
THEOREM ServiceImplementsRegister == Spec => PolicyIsOneRegister
  <1>1. Init => Register!Init
    <2> SUFFICES ASSUME Init
                 PROVE  Register!Init
      OBVIOUS
    <2>1. (CHOOSE a \in Asks : TRUE) \in Asks
      BY AsksAreTyped
    <2>2. StageOf("unsent") = "unasked"
      BY DEF StageOf
    <2> QED
      BY <2>1, <2>2 DEF Init, Register!Init
  <1>2. CostsInv /\ [Next]_vars => [Register!Next]_(Register!vars)
    <2> SUFFICES ASSUME CostsInv, [Next]_vars
                 PROVE  Register!Next \/ UNCHANGED Register!vars
      OBVIOUS
    <2>1. CASE UNCHANGED <<at, writes, ask, wrote, floor, shown>>
      BY <2>1 DEF Register!vars
    <2>2. ASSUME NEW a \in Addresses, AddressComesUp(a) \/ AddressGoes(a)
          PROVE  UNCHANGED <<at, writes, ask, wrote, floor, shown>>
      BY <2>2 DEF AddressComesUp, AddressGoes, requestVars
    <2>3. Edit \/ Restart \/ UNCHANGED vars => UNCHANGED <<at, writes, ask, wrote, floor, shown>>
      BY DEF Edit, Restart, vars, requestVars
    <2>4. ASSUME CheckConfiguration \/ Bind \/ Kill
          PROVE  Register!Next \/ UNCHANGED Register!vars
      <3>1. UNCHANGED <<writes, ask, wrote, floor, shown>>
        BY <2>4 DEF CheckConfiguration, Bind, Kill
      <3>2. UNCHANGED at \/ End(1) \/ End(2)
        BY <2>4 DEF CheckConfiguration, Bind, Kill
      <3> QED
        BY <2>1, <3>1, <3>2, AllAreLost
    <2> QED
      BY <2>1, <2>2, <2>3, <2>4, ReceiveAsks, GuardsOfTheRegister, WriteTakesEffect,
         AnswerOfTheRegister
      DEF Next, ProcessStep, Serve
  <1> QED
    BY <1>1, <1>2, CostsInvHolds, PTL DEF Spec, PolicyIsOneRegister, Register!Spec

=============================================================================
