---------------------------- MODULE MCRetryLoop ----------------------------
(* Small instances of RetryLoop for TLC. *)
EXTENDS RetryInWorker

Env(attempts, base, max, timeout, output) ==
  [attempts |-> attempts, base |-> base, max |-> max, timeout |-> timeout, output |-> output]

\* No retry at all; backoffs that reach their cap at the second of three retries;
\* backoffs that start at it; and settings that are refused.
MCEnvironments ==
  {Env(1, 1, 1, 2, 2), Env(4, 2, 3, 2, 1), Env(3, 2, 2, 1, 1),
   Env(0, 1, 1, 1, 1), Env(2, 3, 2, 1, 1), Env(2, Junk, 2, 1, 1), Env(2, 1, 1, Blank, 1)}

Ask(ttl, temperature, max_tokens, format) ==
  [ttl |-> ttl, temperature |-> temperature, max_tokens |-> max_tokens, format |-> format,
   chars |-> 5]

\* With and without a deadline and an answer size; temperatures a model may take, is too
\* hot for, or that JSON loses; and jobs that cannot be built.
MCSubmissions ==
  {Ask(ttl, Unset, max_tokens, "text") : ttl \in {Unset, 4, 9}, max_tokens \in {Unset, 2}}
  \cup {Ask(5, temperature, 1, "strict_schema") : temperature \in {0, Hottest + 1, Infinite}}
  \cup {Ask(Infinite, Unset, Unset, "text"), Ask(MaxTtl + 1, Unset, Unset, "text"),
        Ask(Unset, Unset, 0, "text"), Ask(Unset, Unset, 1, "loose_schema")}

\* Deadlines already past, at the very start, and in the waits, calls and backoffs.
MCSubmittedAt == {-5, -4, -2, 0}

\* Buckets that are empty, full, or short of tokens.
MCLevels ==
  {[requests |-> 0, tokens |-> 0], [requests |-> Window, tokens |-> Window],
   [requests |-> Window, tokens |-> 1]}

=============================================================================
