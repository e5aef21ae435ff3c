---------------------------- MODULE MCAuditTrail ----------------------------
(***************************************************************************)
(* A small instance of AuditTrail for TLC: three writers whose ids may     *)
(* order against their times, a row from before the chain, a job.          *)
(***************************************************************************)
EXTENDS AuditTrail

SmallWindows ==
    [t \in Tables |-> CASE t = "audit_logs" -> 2 [] t = "workflow_jobs" -> 1 [] OTHER -> 0]

SomeRecords == {<<"workflow_jobs", 1>>}

\* Writers that overlap, writers that do not, and a log somebody alters.
WrittenAndAltered ==
    {[overlap |-> TRUE, sameInstant |-> FALSE, altered |-> FALSE],
     [overlap |-> TRUE, sameInstant |-> TRUE, altered |-> FALSE],
     [overlap |-> FALSE, sameInstant |-> FALSE, altered |-> FALSE],
     [overlap |-> FALSE, sameInstant |-> FALSE, altered |-> TRUE]}

=============================================================================
