------------------------------ MODULE Settings ------------------------------
(***************************************************************************)
(* What config.py makes of the environment: which settings it accepts, and *)
(* the policies a process runs with.  A setting is a number (times and     *)
(* rates in a fixed unit), unset or blank, or something else; a setting    *)
(* that is refused raises ConfigError and stops the process.               *)
(***************************************************************************)
EXTENDS Integers

CONSTANTS
  Blank,       \* unset, empty or only spaces
  Junk         \* not a finite number

ASSUME BlankAndJunkAreNotNumbers == Blank \notin Int /\ Junk \notin Int

Setting == Int \cup {Blank, Junk}

\* Faulty variant: any number passes, as a comparison with zero left out.
PositiveUnchecked(v) == v \in Int

\* _positive_int() and _positive_float() return v.
Positive(v) == v \in Int /\ v > 0

\* RetryPolicy: the WORKER_MAX_ATTEMPTS and WORKER_BACKOFF_* settings, or the
\* WORKER_CONNECT_* ones, with the rule that compares two of them.
RetryParses(attempts, base, max) ==
  /\ Positive(attempts) /\ Positive(base) /\ Positive(max)
  /\ max >= base

WorkerSettings ==
  [attempts : Setting, base : Setting, max : Setting, timeout : Setting, output : Setting]

\* parse_worker_policy() returns; the policy it returns has the settings for fields.
WorkerPolicyParses(env) ==
  /\ RetryParses(env.attempts, env.base, env.max)
  /\ Positive(env.timeout) /\ Positive(env.output)

=============================================================================
