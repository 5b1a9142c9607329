---------------------------- MODULE MCWorkerBoot ----------------------------
(* Small instances of WorkerBoot for TLC. *)
EXTENDS WorkerBoot

Env(texts, limits, policy, connect) ==
  [texts |-> texts, limits |-> limits, policy |-> policy, connect |-> connect]

Policy(attempts, base, max) ==
  [attempts |-> attempts, base |-> base, max |-> max, timeout |-> 30, output |-> 1024]

Handshake(attempts, base, max) == [attempts |-> attempts, base |-> base, max |-> max]

\* Two environments that load, with different policies and handshakes, and three that do
\* not: an empty key with a limit of zero, a policy that is not a number, and a
\* handshake of no attempt.
MCEnvironments ==
  {Env(TRUE, {500, 30000}, Policy(3, 1, 8), Handshake(2, 1, 4)),
   Env(TRUE, {500}, Policy(1, 1, 1), Handshake(1, 1, 1)),
   Env(FALSE, {0}, Policy(3, 1, 8), Handshake(2, 1, 4)),
   Env(TRUE, {500}, Policy(Junk, 1, 8), Handshake(2, 1, 4)),
   Env(TRUE, {500}, Policy(3, 1, 8), Handshake(0, 1, 4))}

\* One that loads.
MCEnvironment == {Env(TRUE, {500}, Policy(1, 1, 1), Handshake(1, 1, 1))}

=============================================================================
