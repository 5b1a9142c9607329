------------------------------- MODULE MCBus -------------------------------
(* Small instances of Bus for TLC. *)
EXTENDS BusInvariant, TLC

CONSTANTS m1, m2, unwired, j1, j2, key

Wirable   == {m1, m2}
AllModels == {m1, m2, unwired}

Ask(job, model, day, ttl, callback) ==
  [job |-> job, model |-> model, key |-> key, day |-> day, ttl |-> ttl,
   callback |-> callback]

\* Any call may pass any of the Jobs.
AnyAsks == [Submits -> Requests]

\* Two submits of one job_id: an explicit model against the policy's choice.
DuplicateRequests ==
  {Ask(j1, NoModel, 1, FALSE, TRUE), Ask(j1, m2, 1, FALSE, TRUE)}

\* Calls that may pass the same jobs can be exchanged.
MCSymmetry == Permutations(Submits)

\* A job for whatever the policy says, and a job with a deadline whose pricing raises:
\* the awaited call submits the second, the other one the first, in either order.
Plain         == Ask(j1, NoModel, 1, FALSE, FALSE)
Raising       == Ask(j2, m1, 2, TRUE, FALSE)
QueueRequests == {Plain, Raising}
QueueAsks     == {[s \in Submits |-> IF s \in Awaited THEN Raising ELSE Plain]}

\* A duplicate of a job_id built on another day: submitted_at is set again.
TwoDayRequests == {Ask(j1, m1, 1, FALSE, FALSE), Ask(j1, m1, 2, FALSE, FALSE)}

\* A job dated before the first price point, and one that is not.
BackdatedRequests == {Ask(j1, m1, 2, FALSE, FALSE), Ask(j2, m1, 1, FALSE, FALSE)}

\* A body that is no Job.
Poison == {[sub |-> NoSubmit, job |-> NoJob, model |-> NoModel]}

=============================================================================
