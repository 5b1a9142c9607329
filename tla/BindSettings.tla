---------------------------- MODULE BindSettings ----------------------------
(***************************************************************************)
(* Where the costs server listens: COSTS_BIND_HOSTS and COSTS_PORT, or the *)
(* --host and --port flags.  A host is what the operator spelled: what it  *)
(* is compared with here is spellings too, never the address it stands     *)
(* for.  A blank entry of COSTS_BIND_HOSTS is dropped, a blank --host not. *)
(***************************************************************************)
EXTENDS Settings, SequencesExt

CONSTANTS
  Wildcards,   \* the spellings "0.0.0.0" and "::"
  Loopback     \* _DEFAULT_COSTS_HOST

\* _WILDCARD_HOSTS
Refused == Wildcards \cup {Blank}

\* Faulty variant: a repeated host is bound twice.
KeptRepeated(hosts) == SelectSeq(hosts, LAMBDA h : h # Blank)

\* parse_costs_bind() and validate_costs_hosts(): each host once, in order.
Kept(hosts) ==
  LET kept[n \in 0 .. Len(hosts)] ==
        IF n = 0 THEN <<>>
        ELSE IF hosts[n] \in ToSet(kept[n - 1]) \cup {Blank} THEN kept[n - 1]
             ELSE Append(kept[n - 1], hosts[n])
  IN  kept[Len(hosts)]

Port(v) == v \in 1 .. 65535

\* Faulty variant: the flags are not held against the refused spellings.
BindParsesFlagsFree(c) ==
  /\ ToSet(c.hosts) \cap Wildcards = {}
  /\ c.port = Blank \/ Port(c.port)
  /\ c.portFlag = Blank \/ Port(c.portFlag)

\* resolve_bind() returns.  The environment is parsed even when the flags win.
BindParses(c) ==
  /\ ToSet(c.hosts) \cap Wildcards = {}
  /\ c.port = Blank \/ Port(c.port)
  /\ ToSet(c.hostFlags) \cap Refused = {}
  /\ c.portFlag = Blank \/ Port(c.portFlag)

\* The hosts resolve_bind() returns.
BindHosts(c) ==
  IF c.hostFlags # <<>> THEN Kept(c.hostFlags)
  ELSE IF Kept(c.hosts) = <<>> THEN <<Loopback>> ELSE Kept(c.hosts)

=============================================================================
