--------------------------- MODULE MCCostsService ---------------------------
(* Small instances of CostsService for TLC. *)
EXTENDS CostsService, TLC

CONSTANTS localhost, tailnet, zero, wild, lo, ts

\* Two hosts that stand for one address, and one that means every interface without being
\* spelled as config.py spells it.
MCAddressOf ==
  (Loopback :> lo) @@ (localhost :> lo) @@ (tailnet :> ts) @@ (zero :> Every)
    @@ [h \in Refused |-> Every]

Config(hosts, port, hostFlags, portFlag, secret, store) ==
  [hosts |-> hosts, port |-> port, hostFlags |-> hostFlags, portFlag |-> portFlag,
   secret |-> secret, store |-> store]

\* Two hosts with a repeated and a blank entry; the default host with no secret; a flag,
\* with a setting it overrides that is refused all the same; a repeated flag, with a secret
\* that is not ASCII; two hosts with one address; every interface; and four that are refused.
MCConfigurations ==
  {Config(<<Loopback, Blank, tailnet, Loopback>>, Blank, <<>>, Blank, "ascii", "file"),
   Config(<<Blank>>, 8093, <<>>, Blank, "none", "file"),
   Config(<<>>, 70000, <<tailnet>>, 8093, "ascii", "file"),
   Config(<<tailnet>>, Blank, <<tailnet, tailnet>>, 8093, "foreign", "file"),
   Config(<<Loopback, localhost>>, Blank, <<>>, Blank, "ascii", "file"),
   Config(<<Loopback>>, Blank, <<zero>>, Blank, "none", "file"),
   Config(<<Loopback>>, Blank, <<Blank>>, Blank, "ascii", "file"),
   Config(<<Loopback, wild>>, Blank, <<Loopback>>, Blank, "ascii", "file"),
   Config(<<Loopback>>, Blank, <<wild>>, Blank, "ascii", "file"),
   Config(<<Loopback>>, Blank, <<>>, Blank, "ascii", "absent")}

Ask(method, path, password, origin, length, project, model) ==
  [method |-> method, path |-> path, password |-> password, origin |-> origin,
   length |-> length, project |-> project, model |-> model]

\* Two writes that are carried out, the pages, and one request for each guard.
MCAsks ==
  {Ask("POST", "policy", "right", "same", "whole", "chat", m) : m \in Registered}
  \cup {Ask("GET", "policy", "right", "same", "whole", "blank", Junk),
        Ask("GET", "ledger", "missing", "same", "whole", "blank", Junk),
        Ask("POST", "ledger", "right", "same", "whole", "chat", Junk),
        Ask("POST", "policy", "wrong", "same", "whole", "chat", CHOOSE m \in Registered : TRUE),
        Ask("POST", "policy", "foreign", "same", "whole", "chat", CHOOSE m \in Registered : TRUE),
        Ask("POST", "policy", "right", "other", "whole", "chat", CHOOSE m \in Registered : TRUE),
        Ask("POST", "policy", "right", "same", "short", "chat", CHOOSE m \in Registered : TRUE),
        Ask("POST", "policy", "right", "same", "whole", "chat", Junk)}

=============================================================================
