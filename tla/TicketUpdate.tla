----------------------------- MODULE TicketUpdate -----------------------------
(***************************************************************************)
(* Status updates of one ticket that lives in an external ticket service:  *)
(* update_ticket, its ticket.update rows in external_outbox, their replay  *)
(* by dispatchers and administrators, and the service's PATCH handler.     *)
(*                                                                         *)
(* An update validates the transition, finds or inserts its outbox row,    *)
(* and replays it: validate again, call the service, write the local row,  *)
(* complete.  Each is a transaction of its own and none of the writes      *)
(* looks at what it overwrites.                                            *)
(*                                                                         *)
(* An outbox row is named for the update that inserted it.  Its key is the *)
(* wanted status and the updated_at the update started from.               *)
(***************************************************************************)
EXTENDS TicketStatus, Naturals

CONSTANTS
    Updates,      \* calls of update_ticket: workflow steps and operators
    Dispatchers,  \* dispatcher loops
    Admins,       \* retry requests of an administrator
    NoUpdate,     \* no outbox row at hand
    MaxAttempts,  \* settings.outbox_max_attempts, at least 1
    Settings      \* the circumstances a behaviour may be in

Procs == Updates \cup Dispatchers \cup Admins

\* What is given and never changes: who comes and which statuses are wanted,
\* may the ticket be taken up while somebody works on it, may the service act
\* although the call fails, is it Jira, which decides itself what it accepts,
\* may two local writes fall into one second of utc_now, and a bound on the
\* processes lost.
Circumstances ==
    [procs : SUBSET Procs, wanted : SUBSET TicketStatuses, overlap : BOOLEAN, lost : BOOLEAN,
     jira : BOOLEAN, sameSecond : BOOLEAN, crashes : Nat]

ASSUME UpdateAssumption ==
    /\ Updates \cap Dispatchers = {}
    /\ Updates \cap Admins = {}
    /\ Dispatchers \cap Admins = {}
    /\ NoUpdate \notin Updates
    /\ MaxAttempts \in Nat \ {0}
    /\ Settings \subseteq Circumstances

VARIABLES
    ticket,      \* tickets.status
    updated_at,  \* tickets.updated_at, in whole seconds
    external,    \* the service's status of the ticket
    row,         \* external_outbox.status of each update's row
    attempts,    \* its attempt_count
    due,         \* its next_attempt_at is null or has passed
    key,         \* what each update's idempotency key is made of
    inForce,     \* has the ticket had the wanted status since the update began?
    pc,          \* where each process continues
    event,       \* the row it replays
    sends,       \* does its call carry the status to the provider?
    crashes,
    setting

outbox == <<row, attempts, due>>
vars == <<ticket, updated_at, external, outbox, key, inForce, pc, event, sends, crashes,
          setting>>

Resting == {"idle", "answered", "refused", "crashed"}

NoKey == [base |-> 0, status |-> "open"]

TypeOK ==
    /\ ticket \in TicketStatuses /\ external \in TicketStatuses
    /\ updated_at \in Nat
    /\ row \in [Updates -> {"absent", "pending", "running", "completed", "failed"}]
    /\ attempts \in [Updates -> Nat]
    /\ due \in [Updates -> BOOLEAN]
    /\ key \in [Updates -> [base : Nat, status : TicketStatuses]]
    /\ inForce \in [Updates -> BOOLEAN]
    /\ pc \in [Procs -> Resting \cup
                 {"get", "event", "insert", "replay", "run", "call", "patch", "apply",
                  "complete", "fail", "schedule", "backoff", "exhausted"}]
    /\ event \in [Procs -> Updates \cup {NoUpdate}]
    /\ sends \in [Procs -> BOOLEAN]
    /\ setting \in Settings
    /\ crashes \in 0..setting.crashes

Init ==
    /\ ticket = "open" /\ external = "open" /\ updated_at = 0
    /\ row = [u \in Updates |-> "absent"]
    /\ attempts = [u \in Updates |-> 0]
    /\ due = [u \in Updates |-> TRUE]
    /\ key = [u \in Updates |-> NoKey]
    /\ inForce = [u \in Updates |-> FALSE]
    /\ pc = [p \in Procs |-> "idle"]
    /\ event = [p \in Procs |-> NoUpdate]
    /\ sends = [p \in Procs |-> TRUE]
    /\ crashes = 0
    /\ setting \in Settings

Goto(p, label) == pc' = [pc EXCEPT ![p] = label]

\* The caller has its ticket, or the dispatcher goes on to the next event.
Return(p) == Goto(p, IF p \in Dispatchers THEN "idle" ELSE "answered")

\* An error reaches update_ticket's caller, or retry_outbox_event.
Raise(p) == Goto(p, IF p \in Updates THEN "refused" ELSE "schedule")

\* The status the event at hand asks for.
Status(p) == key[event[p]].status

MayStart(p) ==
    /\ p \in setting.procs
    /\ pc[p] = "idle"
    /\ setting.overlap \/ \A q \in Procs : pc[q] \in Resting

-----------------------------------------------------------------------------
(* update_ticket                                                           *)

\* Faulty variant: the key does not say which version of the ticket is meant.
KeyOfStatus(s) == [base |-> 0, status |-> s]

\* _ticket_update_idempotency_key
Key(s) == [base |-> updated_at, status |-> s]

\* The row is read and the transition validated.
Ask(u, s) ==
    /\ MayStart(u)
    /\ IF LegalTransition(ticket, s)
       THEN /\ key' = [key EXCEPT ![u] = Key(s)]
            /\ inForce' = [inForce EXCEPT ![u] = (ticket = s)]
            /\ Goto(u, "event")
       ELSE UNCHANGED <<key, inForce>> /\ Goto(u, "refused")
    /\ UNCHANGED <<ticket, updated_at, external, outbox, event, sends, crashes, setting>>

\* create_outbox_event: the row of the same key, if there is one ...
SameEvent(u) == {e \in Updates : row[e] # "absent" /\ key[e] = key[u]}

FindEvent(u) ==
    /\ pc[u] = "event"
    /\ IF SameEvent(u) = {}
       THEN Goto(u, "insert") /\ UNCHANGED event
       ELSE \E e \in SameEvent(u) :
              /\ event' = [event EXCEPT ![u] = e]
              /\ IF row[e] = "completed" THEN Return(u) ELSE Goto(u, "replay")
    /\ UNCHANGED <<ticket, updated_at, external, outbox, key, inForce, sends, crashes, setting>>

\* ... or a new one, which the unique index may refuse.
InsertEvent(u) ==
    /\ pc[u] = "insert"
    /\ IF SameEvent(u) = {}
       THEN /\ row' = [row EXCEPT ![u] = "pending"]
            /\ event' = [event EXCEPT ![u] = u]
            /\ Goto(u, "replay")
       ELSE UNCHANGED <<row, event>> /\ Raise(u)
    /\ UNCHANGED <<ticket, updated_at, external, attempts, due, key, inForce, sends, crashes, setting>>

-----------------------------------------------------------------------------
(* replay_ticket_update, and the service it calls                          *)

\* Faulty variant: what was legal when the event was raised is written later.
ReplayUnvalidated(p) ==
    /\ pc[p] = "replay"
    /\ sends' = [sends EXCEPT ![p] = ~setting.jira \/ ticket # Status(p)]
    /\ Goto(p, "run")
    /\ UNCHANGED <<ticket, updated_at, external, outbox, key, inForce, event, crashes, setting>>

\* The ticket is read and the transition validated again, before the attempt
\* is counted.  Jira is not asked for the status the row has already.
ValidateReplay(p) ==
    /\ pc[p] = "replay"
    /\ sends' = [sends EXCEPT ![p] = ~setting.jira \/ ticket # Status(p)]
    /\ IF LegalTransition(ticket, Status(p)) THEN Goto(p, "run") ELSE Raise(p)
    /\ UNCHANGED <<ticket, updated_at, external, outbox, key, inForce, event, crashes, setting>>

\* mark_outbox_running
MarkRunning(p) ==
    /\ pc[p] = "run"
    /\ row' = [row EXCEPT ![event[p]] = "running"]
    /\ attempts' = [attempts EXCEPT ![event[p]] = @ + 1]
    /\ Goto(p, "call")
    /\ UNCHANGED <<ticket, updated_at, external, due, key, inForce, event, sends, crashes, setting>>

\* May the provider accept the status?  The service of this repository has the
\* same transitions as the platform, Jira those of its own workflow.
Acceptable(p) == setting.jira \/ LegalTransition(external, Status(p))

\* The service reads its ticket and validates; it may refuse, or be away.
CallService(p) ==
    /\ pc[p] = "call"
    /\ \/ sends[p] /\ Acceptable(p) /\ Goto(p, "patch")
       \/ ~sends[p] /\ Goto(p, "apply")
       \/ Goto(p, "fail")
    /\ UNCHANGED <<ticket, updated_at, external, outbox, key, inForce, event, sends, crashes, setting>>

\* The service writes and answers.
PatchExternal(p) ==
    /\ pc[p] = "patch"
    /\ external' = Status(p)
    /\ \/ Goto(p, "apply")
       \/ setting.lost /\ Goto(p, "fail")
    /\ UNCHANGED <<ticket, updated_at, outbox, key, inForce, event, sends, crashes, setting>>

\* _apply_local_ticket_update: the status is written by id alone.
ApplyLocal(p) ==
    /\ pc[p] = "apply"
    /\ ticket' = Status(p)
    /\ updated_at' \in {updated_at + 1} \cup (IF setting.sameSecond THEN {updated_at} ELSE {})
    /\ inForce' = [u \in Updates |-> inForce[u] \/ key[u].status = Status(p)]
    /\ Goto(p, "complete")
    /\ UNCHANGED <<external, outbox, key, event, sends, crashes, setting>>

\* mark_outbox_completed
MarkCompleted(p) ==
    /\ pc[p] = "complete"
    /\ row' = [row EXCEPT ![event[p]] = "completed"]
    /\ Return(p)
    /\ UNCHANGED <<ticket, updated_at, external, attempts, due, key, inForce, event, sends, crashes, setting>>

\* mark_outbox_failed without next_attempt_at: the event is due at once.
MarkFailed(p) ==
    /\ pc[p] = "fail"
    /\ row' = [row EXCEPT ![event[p]] = "failed"]
    /\ due' = [due EXCEPT ![event[p]] = TRUE]
    /\ Raise(p)
    /\ UNCHANGED <<ticket, updated_at, external, attempts, key, inForce, event, sends, crashes, setting>>

-----------------------------------------------------------------------------
(* Dispatchers and administrators                                          *)

\* list_due_outbox_events
Due(e) == row[e] \in {"pending", "failed"} /\ attempts[e] < MaxAttempts /\ due[e]

TakeUp(p, e) ==
    /\ MayStart(p)
    /\ \/ p \in Dispatchers /\ Due(e)
       \/ p \in Admins /\ row[e] # "absent"
    /\ event' = [event EXCEPT ![p] = e]
    /\ Goto(p, "get")
    /\ UNCHANGED <<ticket, updated_at, external, outbox, key, inForce, sends, crashes, setting>>

\* retry_outbox_event reads the row again and skips a completed event.
GetEvent(p) ==
    /\ pc[p] = "get"
    /\ IF row[event[p]] = "completed" THEN Return(p) ELSE Goto(p, "replay")
    /\ UNCHANGED <<ticket, updated_at, external, outbox, key, inForce, event, sends, crashes, setting>>

\* _schedule_outbox_retry reads the count ...
ReadAttempts(p) ==
    /\ pc[p] = "schedule"
    /\ Goto(p, IF attempts[event[p]] >= MaxAttempts THEN "exhausted" ELSE "backoff")
    /\ UNCHANGED <<ticket, updated_at, external, outbox, key, inForce, event, sends, crashes, setting>>

\* Faulty variant: no next attempt is ever scheduled.
ScheduleNothing(p) ==
    /\ pc[p] \in {"exhausted", "backoff"}
    /\ row' = [row EXCEPT ![event[p]] = "retrying"]
    /\ Return(p)
    /\ UNCHANGED <<ticket, updated_at, external, attempts, due, key, inForce, event, sends, crashes, setting>>

\* ... and writes failed, with the next attempt or none, whatever the row says.
ScheduleRetry(p) ==
    /\ pc[p] \in {"exhausted", "backoff"}
    /\ row' = [row EXCEPT ![event[p]] = "failed"]
    /\ due' = [due EXCEPT ![event[p]] = (pc[p] = "exhausted")]
    /\ Return(p)
    /\ UNCHANGED <<ticket, updated_at, external, attempts, key, inForce, event, sends, crashes, setting>>

\* next_attempt_at passes.
BackoffEnds(e) ==
    /\ ~due[e]
    /\ due' = [due EXCEPT ![e] = TRUE]
    /\ UNCHANGED <<ticket, updated_at, external, row, attempts, key, inForce, pc, event, sends, crashes, setting>>

\* The process dies.  A dispatcher is started again by its supervisor.
Crash(p) ==
    /\ crashes < setting.crashes
    /\ pc[p] \notin Resting
    /\ crashes' = crashes + 1
    /\ Goto(p, IF p \in Dispatchers THEN "idle" ELSE "crashed")
    /\ UNCHANGED <<ticket, updated_at, external, outbox, key, inForce, event, sends, setting>>

-----------------------------------------------------------------------------

Run(p) ==
    \/ GetEvent(p) \/ ValidateReplay(p) \/ MarkRunning(p) \/ CallService(p)
    \/ PatchExternal(p) \/ ApplyLocal(p) \/ MarkCompleted(p) \/ MarkFailed(p)
    \/ ReadAttempts(p) \/ ScheduleRetry(p)

Next ==
    \/ \E u \in Updates : (\E s \in setting.wanted : Ask(u, s)) \/ FindEvent(u) \/ InsertEvent(u)
    \/ \E p \in Procs : Run(p) \/ Crash(p)
    \/ \E e \in Updates : BackoffEnds(e) \/ \E p \in Dispatchers \cup Admins : TakeUp(p, e)

Spec == Init /\ [][Next]_vars

\* A handler that started runs on, a dispatcher never stops polling and gets to
\* every due event in turn (oldest first), and time passes.
FairSpec ==
    /\ Spec
    /\ \A u \in Updates : WF_vars(FindEvent(u) \/ InsertEvent(u) \/ Run(u))
    /\ \A p \in Dispatchers \cup Admins : WF_vars(Run(p))
    /\ \A d \in Dispatchers, e \in Updates : SF_vars(TakeUp(d, e))
    /\ \A e \in Updates : WF_vars(BackoffEnds(e))

-----------------------------------------------------------------------------
(* Properties.                                                             *)

\* One process at a time; and besides no answer lost and nobody dead.
Serialised == ~setting.overlap
Calm == Serialised /\ ~setting.lost /\ setting.crashes = 0

\* An update that is answered with success was in force at some time between
\* its call and its answer, if local writes differ in updated_at: the key's
\* base keeps it from being taken for an earlier one that asked for the same
\* status (update_ticket returning the ticket of a completed event).
NoUpdateSwallowed ==
    ~setting.sameSecond => \A u \in Updates : pc[u] = "answered" => inForce[u]

\* "An explicit state machine": no update, replayed however late, moves the
\* ticket along a transition that is not allowed, one process at a time.
LegalMoves == [][Serialised => LegalTransition(ticket, ticket')]_vars

\* The external service is changed first and the local row after it: between
\* updates the two agree, failed and retried calls included.
InStep == Calm /\ (\A p \in Procs : pc[p] \in Resting) => ticket = external

\* Where a dispatcher polls, a queued update is applied, given up with its
\* attempts used, or overtaken by a status it may not follow.
EventSettles ==
    \A e \in Updates :
        Calm /\ Dispatchers \cap setting.procs # {} /\ row[e] # "absent" ~>
            \/ row[e] = "completed"
            \/ row[e] = "failed" /\ attempts[e] >= MaxAttempts
            \/ ~LegalTransition(ticket, key[e].status)

\* What the caller is told and what the two sides hold is true: no update is
\* swallowed, and no side is left behind.
AnswersAreTrue == TypeOK /\ NoUpdateSwallowed /\ InStep

=============================================================================
