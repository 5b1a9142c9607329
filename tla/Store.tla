------------------------------- MODULE Store -------------------------------
(***************************************************************************)
(* The SQLite results store (store.py): the jobs table and the model       *)
(* policy table.  Every operation is one committed SQL statement, so it is *)
(* one step here.  The columns kept are the ones the bus tells apart: the  *)
(* life-cycle status, the model and the submission day fixed at insert,    *)
(* and the cost, held as the (model, day) it was priced at rather than as  *)
(* a number of dollars.                                                    *)
(***************************************************************************)
CONSTANTS
  Jobs,        \* job_ids
  Models,      \* model names, routed or not
  NoModel,     \* Job.model is None; no model chosen for a policy key
  Days,        \* calendar days of submitted_at
  NoDay,       \* the day of an absent row
  NoCost,      \* cost_usd 0.0: nothing was priced
  Keys         \* (project, kind) pairs of the model policy

ASSUME SentinelsAreNotValues ==
  /\ NoModel \notin Models
  /\ NoDay \notin Days
  /\ NoCost \notin [model : Models, day : Days]

VARIABLES
  row,         \* the jobs table, by job_id
  policy       \* the model_policy table, by (project, kind)

storeVars == <<row, policy>>

Cost == [model : Models, day : Days]

\* What a worker writes over a pending row.
Outcome == [status : {"ok"}, cost : Cost] \cup [status : {"error"}, cost : {NoCost}]

Row == [status : {"absent", "pending", "ok", "error"},
        model  : Models \cup {NoModel},
        day    : Days \cup {NoDay},
        cost   : Cost \cup {NoCost}]

NoRow == [status |-> "absent", model |-> NoModel, day |-> NoDay, cost |-> NoCost]

StoreTypeOK ==
  /\ row \in [Jobs -> Row]
  /\ policy \in [Keys -> Models \cup {NoModel}]

StoreInit ==
  /\ row = [j \in Jobs |-> NoRow]
  /\ policy = [k \in Keys |-> NoModel]

Absent(j)   == row[j].status = "absent"
Pending(j)  == row[j].status = "pending"
Terminal(j) == row[j].status \in {"ok", "error"}

\* What a terminal row says to a producer, and the callback with it.  meta is left out: a
\* poll has the row's, a callback the message's, and a duplicate may have brought another.
ResultOf(j) == [status |-> row[j].status, cost |-> row[j].cost]

-----------------------------------------------------------------------------
(* Faulty variants, used only to show that the properties notice.          *)

\* INSERT OR REPLACE instead of ON CONFLICT DO NOTHING.
InsertReplacing(j, m, d) ==
  row' = [row EXCEPT ![j] =
            [status |-> "pending", model |-> m, day |-> d, cost |-> NoCost]]

\* UPDATE ... WHERE job_id = ? without the status guard.
FinalizeAgain(j, out) ==
  row' = IF Absent(j) THEN row
         ELSE [row EXCEPT ![j] =
                 [status |-> out.status, model |-> @.model, day |-> @.day,
                  cost |-> out.cost]]

-----------------------------------------------------------------------------

\* INSERT ... ON CONFLICT(job_id) DO NOTHING: the first submit of a job_id wins.
InsertPending(j, m, d) ==
  row' = IF Absent(j)
         THEN [row EXCEPT ![j] =
                 [status |-> "pending", model |-> m, day |-> d, cost |-> NoCost]]
         ELSE row

\* UPDATE ... WHERE job_id = ? AND status = 'pending': a one-shot transition
\* that leaves model and day alone.
Finalize(j, out) ==
  row' = IF Pending(j)
         THEN [row EXCEPT ![j] =
                 [status |-> out.status, model |-> @.model, day |-> @.day,
                  cost |-> out.cost]]
         ELSE row

\* Upsert of one (project, kind): the last writer wins.
SetModelPolicy(k, m) == policy' = [policy EXCEPT ![k] = m]

=============================================================================
