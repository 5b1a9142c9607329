--------------------------- MODULE MCRateLimiter ---------------------------
(* Small instances of RateLimiter for TLC. *)
EXTENDS RateLimiter

\* A request costs half a minute; the tokens of an attempt cost less, more, or more
\* than a whole bucket holds.
MCCosts ==
  {[requests |-> 2, tokens |-> 1], [requests |-> 2, tokens |-> 3],
   [requests |-> 2, tokens |-> 5]}

=============================================================================
