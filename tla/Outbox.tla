------------------------------- MODULE Outbox -------------------------------
(***************************************************************************)
(* One external side effect (a ticket to create, an email to send) and its *)
(* row in external_outbox.                                                 *)
(*                                                                         *)
(* The workflow step that wants the effect, the dispatcher loops and the   *)
(* administrator's retry all run the same function, create_ticket or       *)
(* send_email: it looks for a local record under the idempotency key,      *)
(* finds or inserts the outbox row, calls the provider, writes the local   *)
(* record and completes the row.  The unique indexes on the key are the    *)
(* only thing that keeps two of them apart.                                *)
(*                                                                         *)
(* effects counts the requests the provider carried out.  The HTTP ticket  *)
(* service drops a repeated key; Jira and an SMTP server do not.           *)
(***************************************************************************)
EXTENDS Naturals

CONSTANTS
    Callers,        \* workflow steps that want this effect
    Dispatchers,    \* dispatcher loops, dedicated or embedded in the server
    Admins,         \* retry requests of an administrator
    MaxAttempts,    \* settings.outbox_max_attempts, at least 1
    Settings        \* the circumstances a behaviour may be in

\* What is given and never changes: may the effect be taken up while somebody
\* works on it, may the provider act although the call fails, does it drop a
\* repeated key, and a bound on the processes lost.
Circumstances ==
    [overlap : BOOLEAN, lost : BOOLEAN, keyed : BOOLEAN, crashes : Nat]

Procs == Callers \cup Dispatchers \cup Admins

ASSUME OutboxAssumption ==
    /\ Callers \cap Dispatchers = {}
    /\ Callers \cap Admins = {}
    /\ Dispatchers \cap Admins = {}
    /\ MaxAttempts \in Nat \ {0}
    /\ Settings \subseteq Circumstances

VARIABLES
    row,       \* external_outbox.status, "absent" before the insert
    attempts,  \* attempt_count
    due,       \* next_attempt_at is null or has passed
    local,     \* a ticket, or a sent email, is recorded under the key
    effects,   \* requests the provider carried out
    pc,        \* where each process continues
    crashes,
    setting

vars == <<row, attempts, due, local, effects, pc, crashes, setting>>

Statuses == {"absent", "pending", "running", "completed", "failed"}

Resting == {"idle", "done", "crashed"}

TypeOK ==
    /\ row \in Statuses
    /\ attempts \in Nat
    /\ due \in BOOLEAN
    /\ local \in BOOLEAN
    /\ effects \in Nat
    /\ pc \in [Procs -> Resting \cup
                 {"get", "find", "event", "insert", "run", "call", "fail", "record", "complete",
                  "schedule", "backoff", "exhausted"}]
    /\ setting \in Settings
    /\ crashes \in 0..setting.crashes

Init ==
    /\ row = "absent" /\ attempts = 0 /\ due = TRUE
    /\ local = FALSE /\ effects = 0
    /\ pc = [p \in Procs |-> "idle"]
    /\ crashes = 0
    /\ setting \in Settings

Goto(p, label) == pc' = [pc EXCEPT ![p] = label]

\* A dispatcher loop comes back for the next poll; everybody else is finished.
Return(p) == Goto(p, IF p \in Dispatchers THEN "idle" ELSE "done")

\* An error reaches the workflow step's caller, or retry_outbox_event.
Raise(p) == Goto(p, IF p \in Callers THEN "done" ELSE "schedule")

-----------------------------------------------------------------------------
(* Who takes the effect up, and when.                                      *)

MayStart(p) == setting.overlap \/ \A q \in Procs : pc[q] \in Resting

CallTool(p) ==
    /\ p \in Callers /\ pc[p] = "idle" /\ MayStart(p)
    /\ Goto(p, "find")
    /\ UNCHANGED <<row, attempts, due, local, effects, crashes, setting>>

\* list_due_outbox_events
Due == row \in {"pending", "failed"} /\ attempts < MaxAttempts /\ due

ListDue(p) ==
    /\ p \in Dispatchers /\ pc[p] = "idle" /\ MayStart(p)
    /\ Due
    /\ Goto(p, "get")
    /\ UNCHANGED <<row, attempts, due, local, effects, crashes, setting>>

RequestRetry(p) ==
    /\ p \in Admins /\ pc[p] = "idle" /\ MayStart(p)
    /\ row # "absent"
    /\ Goto(p, "get")
    /\ UNCHANGED <<row, attempts, due, local, effects, crashes, setting>>

\* retry_outbox_event reads the row again and skips a completed event.
GetEvent(p) ==
    /\ pc[p] = "get"
    /\ IF row = "completed" THEN Return(p) ELSE Goto(p, "find")
    /\ UNCHANGED <<row, attempts, due, local, effects, crashes, setting>>

-----------------------------------------------------------------------------
(* create_ticket and send_email                                            *)

\* Faulty variant: only the outbox row makes the effect idempotent.
FindNothing(p) ==
    /\ pc[p] = "find"
    /\ Goto(p, "event")
    /\ UNCHANGED <<row, attempts, due, local, effects, crashes, setting>>

\* A record under the key is returned as it is; the row is left alone.
FindLocal(p) ==
    /\ pc[p] = "find"
    /\ IF local THEN Return(p) ELSE Goto(p, "event")
    /\ UNCHANGED <<row, attempts, due, local, effects, crashes, setting>>

\* create_outbox_event looks for the key ...
FindEvent(p) ==
    /\ pc[p] = "event"
    /\ Goto(p, IF row = "absent" THEN "insert" ELSE "run")
    /\ UNCHANGED <<row, attempts, due, local, effects, crashes, setting>>

\* ... and inserts it, which the unique index refuses if it came meanwhile.
InsertEvent(p) ==
    /\ pc[p] = "insert"
    /\ IF row = "absent" THEN row' = "pending" /\ due' = TRUE /\ Goto(p, "run")
                         ELSE UNCHANGED <<row, due>> /\ Raise(p)
    /\ UNCHANGED <<attempts, local, effects, crashes, setting>>

\* Faulty variant: the attempt is not counted.
MarkRunningUncounted(p) ==
    /\ pc[p] = "run"
    /\ row' = "running"
    /\ Goto(p, "call")
    /\ UNCHANGED <<attempts, due, local, effects, crashes, setting>>

MarkRunning(p) ==
    /\ pc[p] = "run"
    /\ row' = "running"
    /\ attempts' = attempts + 1
    /\ Goto(p, "call")
    /\ UNCHANGED <<due, local, effects, crashes, setting>>

\* Faulty variant: the provider's refusal is logged and work goes on.
CallIgnoringErrors(p) ==
    /\ pc[p] = "call"
    /\ Goto(p, "record")
    /\ effects' \in {effects, effects + 1}
    /\ UNCHANGED <<row, attempts, due, local, crashes, setting>>

\* Faulty variant: the ticket service does not look for the key.
ServiceCreateAnew == effects' = effects + 1

\* create_ticket of the ticket service looks for the key and inserts within one
\* write transaction; a provider that takes no key acts again.
ServiceCreate == effects' = IF setting.keyed /\ effects > 0 THEN effects ELSE effects + 1

\* The provider acts, refuses, or acts without our hearing of it.
CallProvider(p) ==
    /\ pc[p] = "call"
    /\ \/ Goto(p, "record") /\ ServiceCreate
       \/ Goto(p, "fail") /\ UNCHANGED effects
       \/ setting.lost /\ Goto(p, "fail") /\ ServiceCreate
    /\ UNCHANGED <<row, attempts, due, local, crashes, setting>>

\* mark_outbox_failed without next_attempt_at: the event is due at once.
MarkFailed(p) ==
    /\ pc[p] = "fail"
    /\ row' = "failed"
    /\ due' = TRUE
    /\ Raise(p)
    /\ UNCHANGED <<attempts, local, effects, crashes, setting>>

\* The insert of the local record, which the unique index may refuse.
RecordLocal(p) ==
    /\ pc[p] = "record"
    /\ local' = TRUE
    /\ IF local THEN Raise(p) ELSE Goto(p, "complete")
    /\ UNCHANGED <<row, attempts, due, effects, crashes, setting>>

MarkCompleted(p) ==
    /\ pc[p] = "complete"
    /\ row' = "completed"
    /\ Return(p)
    /\ UNCHANGED <<attempts, due, local, effects, crashes, setting>>

-----------------------------------------------------------------------------
(* _schedule_outbox_retry                                                  *)

ReadAttempts(p) ==
    /\ pc[p] = "schedule"
    /\ Goto(p, IF attempts >= MaxAttempts THEN "exhausted" ELSE "backoff")
    /\ UNCHANGED <<row, attempts, due, local, effects, crashes, setting>>

\* mark_outbox_failed with the next attempt, or none, whatever the row says.
ScheduleRetry(p) ==
    /\ pc[p] \in {"exhausted", "backoff"}
    /\ row' = "failed"
    /\ due' = (pc[p] = "exhausted")
    /\ Return(p)
    /\ UNCHANGED <<attempts, local, effects, crashes, setting>>

\* next_attempt_at passes.
BackoffEnds ==
    /\ ~due
    /\ due' = TRUE
    /\ UNCHANGED <<row, attempts, local, effects, pc, crashes, setting>>

\* The process dies.  A dispatcher is started again by its supervisor.
Crash(p) ==
    /\ crashes < setting.crashes
    /\ pc[p] \notin Resting
    /\ crashes' = crashes + 1
    /\ Goto(p, IF p \in Dispatchers THEN "idle" ELSE "crashed")
    /\ UNCHANGED <<row, attempts, due, local, effects, setting>>

-----------------------------------------------------------------------------

Run(p) ==
    \/ GetEvent(p) \/ FindLocal(p) \/ FindEvent(p) \/ InsertEvent(p) \/ MarkRunning(p)
    \/ CallProvider(p) \/ MarkFailed(p) \/ RecordLocal(p) \/ MarkCompleted(p)
    \/ ReadAttempts(p) \/ ScheduleRetry(p)

Next ==
    \/ \E p \in Procs : CallTool(p) \/ ListDue(p) \/ RequestRetry(p) \/ Run(p) \/ Crash(p)
    \/ BackoffEnds

Spec == Init /\ [][Next]_vars

\* A process that started runs on, and a dispatcher loop never stops polling.
FairSpec ==
    /\ Spec
    /\ \A p \in Procs : WF_vars(Run(p))
    /\ \A d \in Dispatchers : WF_vars(ListDue(d))
    /\ WF_vars(BackoffEnds)

-----------------------------------------------------------------------------
(* Properties.                                                             *)

\* One process at a time; and besides no answer lost and nobody dead.
Serialised == ~setting.overlap
Calm == Serialised /\ ~setting.lost /\ setting.crashes = 0

\* What is recorded or reported as completed was really done by the provider,
\* whatever callers, dispatchers and retries overlap or die.
RecordedMeansPerformed == local \/ row = "completed" => effects > 0

\* A completed event has its local record, so that a later call reuses it.
CompletedIsRecorded == row = "completed" => local

\* "Side-effect idempotency": the provider acts once, by its own key whatever
\* overlaps, dies or is lost, and without a key in calm circumstances.
EffectOnce == Calm \/ setting.keyed => effects <= 1

\* One process at a time never reports a completed event as failed or under way.
CompletedIsFinal == [][Serialised /\ row = "completed" => row' = "completed"]_vars

Exhausted == row = "failed" /\ attempts >= MaxAttempts

\* An event ends completed or given up with its attempts used, unless the
\* process that works on it dies.
EventSettles ==
    setting.crashes = 0 /\ Serialised /\ row # "absent" ~> row = "completed" \/ Exhausted

\* One process recorded the effect and another one, overlapping, failed its row:
\* create_ticket returns the record before it would count the attempt.
FailedBehindRecord ==
    setting.overlap /\ local /\ row = "failed" /\ attempts < MaxAttempts

\* "Max-attempt limits": the dispatchers do not take one event up for ever, unless
\* its effect is on record and its row does not know.
DispatchEnds == <>[](FailedBehindRecord \/ \A d \in Dispatchers : pc[d] = "idle")

\* Provider, record and row are written in this order, and none ever claims what
\* the one before it does not show.
OnRecordMeansDone == TypeOK /\ RecordedMeansPerformed /\ CompletedIsRecorded

\* An event settles, and then the dispatchers leave it alone, with that exception.
OutboxDrains == EventSettles /\ DispatchEnds

=============================================================================
