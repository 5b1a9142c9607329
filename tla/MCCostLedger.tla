---------------------------- MODULE MCCostLedger ----------------------------
(* A small instance of CostLedger for TLC. *)
EXTENDS CostLedger, TLC

CONSTANTS sonnet, haiku

\* One model with an introductory rate that ends after day 2, one with a single rate,
\* both from day 1 on: day 0 is before the first price point.
MCPricePoints ==
  (sonnet :> {[effective |-> 1, input |-> 2, output |-> 10],
              [effective |-> 3, input |-> 3, output |-> 15]}) @@
  (haiku :> {[effective |-> 1, input |-> 1, output |-> 5]})

MCSymmetry == Permutations(Jobs) \cup Permutations(Projects)

=============================================================================
