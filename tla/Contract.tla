------------------------------ MODULE Contract ------------------------------
(***************************************************************************)
(* The job contract (schema.py): what a producer may write in a Job, and   *)
(* what of it arrives at the worker.  The job crosses the topic as JSON,   *)
(* which has no infinity: a float that is not finite becomes null, and     *)
(* null is an unset field.                                                 *)
(***************************************************************************)
EXTENDS Integers

CONSTANTS
  Unset,       \* None
  Infinite,    \* inf or nan
  MaxTtl       \* MAX_TTL_S

ASSUME SentinelsAreNotNumbers == Unset \notin Int /\ Infinite \notin Int /\ Unset # Infinite
ASSUME MaxTtlIsPositive == MaxTtl \in Nat \ {0}

Formats == {"text", "strict_schema", "loose_schema"}

\* The fields of a Job and its JobParams that say how and when to run it.
Asked ==
  [ttl : Int \cup {Unset, Infinite}, temperature : Int \cup {Unset, Infinite},
   max_tokens : Int \cup {Unset}, format : Formats, chars : Nat]

\* Faulty variant: only the sign of ttl_s is looked at.
TtlPositive(ttl) == ttl = Unset \/ ttl = Infinite \/ ttl > 0

\* ttl_s: gt=0, le=MAX_TTL_S.
TtlValid(ttl) == ttl = Unset \/ (ttl \in Int /\ 0 < ttl /\ ttl <= MaxTtl)

\* The Job can be built.  A temperature may be anything: the adapters look at it.
JobValid(a) ==
  /\ TtlValid(a.ttl)
  /\ a.max_tokens # Unset => a.max_tokens > 0
  /\ a.format # "loose_schema"

OnTheWire(v) == IF v = Infinite THEN Unset ELSE v

\* encode_job() and then decode_job().
Decoded(a) ==
  [a EXCEPT !.ttl = OnTheWire(a.ttl), !.temperature = OnTheWire(a.temperature)]

=============================================================================
