------------------------------ MODULE Retention ------------------------------
(***************************************************************************)
(* The retention policies: which rows of which table are deleted, and by   *)
(* which of their two times a row is old.  Days[t] is the configured       *)
(* window of table t; 0 switches its policy off.                           *)
(***************************************************************************)
EXTENDS Naturals

CONSTANT Days

Tables ==
    {"audit_logs", "eval_reports", "external_outbox", "emails", "workflow_jobs",
     "auth_login_attempts"}

\* Only the jobs are as old as their last change; all others as their creation.
TimestampColumn(t) == IF t = "workflow_jobs" THEN "updated_at" ELSE "created_at"

\* extra_where: the statuses a row may be deleted in; other tables have none.
Deletable(t) ==
    CASE t \in {"external_outbox", "workflow_jobs"} -> {"completed", "failed"}
      [] t = "emails" -> {"sent", "failed", "prepared"}
      [] OTHER -> {"none"}

Enabled(t) == Days[t] > 0

\* _policy_where at the cutoff of a moment
Old(t, row, now) ==
    /\ Enabled(t)
    /\ row[TimestampColumn(t)] + Days[t] < now
    /\ row.status \in Deletable(t)

=============================================================================
