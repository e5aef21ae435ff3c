# A verification project for the enterprise workflow agent platform

TLA+ modules that model the control of the platform's server, workers and
dispatchers, TLC configurations that check them on small instances, and proofs
that hold for instances of any size.  The source is cited by its path below the
repository's root; `app/` stands for the application package.

## 1. The system

A FastAPI server (`app/main.py`) answers requests on a thread pool, in one or
more processes, over a SQLite or PostgreSQL database.  Worker processes run
workflow jobs, dispatcher loops retry external side effects, and a retention
worker deletes old rows.  Nothing is held in memory between requests that other
code relies on: the tables are the shared state, every `with get_connection()`
is one transaction, and handlers interleave between them.

| part | state | operations | interacts with |
|---|---|---|---|
| Human-approval protocol (`services/agent/executor.py`, `services/multi_agent/durable_executor.py`, `services/tools/approvals.py`, `services/it/execution.py`) | `workflow_runs`, `workflow_steps`, `approvals`, `multi_agent_runs`, LangGraph checkpoints | resolve request, decide, resume | tickets, risk gate, audit |
| Self-correction loop (same graph; `agents.py` critic and correction) | graph state: attempts, report, held execution | critic, correct, repeat | approval protocol |
| Risk gate (`services/it/risk_gate.py`) | none (a function), inputs merged by the graph | evaluate, merge | assets, triage, resolution |
| Jobs and queue (`services/jobs.py`, `services/queue.py`) | `workflow_jobs`, a Redis list | create, claim, complete, fail, retry | workflow executor |
| Outbox (`services/outbox.py`, `outbox_dispatcher.py`, `tools/ticketing.py`, `tools/email.py`) | `external_outbox`, `tickets`, `emails` | create, dispatch, retry | ticket providers, SMTP |
| Tickets (`services/tools/ticketing.py`) | `tickets`, `ticket_events` | create, update, replay | outbox, providers |
| Audit (`services/audit.py`) | `audit_logs` hash chain | append, verify | every component |
| Business workflow (`executor.py`, `agent/planner.py`, `agent/ticket_commands.py`) | `business_requests`, `workflow_runs`, approvals with a proposed ticket | plan, run, decide, command | tickets, email, risk agents |
| Step retries (`agent/retry.py`, `_run_step`) | `workflow_steps` | attempt, back off, record | every tool |
| Multi-agent graph (`durable_executor.py`, `coordination.py`, `agents.py`) | graph state, `multi_agent_tasks`, `agent_checkpoints` | one node each | gate, workflow, models |
| Accounts: sessions, OIDC, SCIM (`auth.py`, `oidc.py`, `scim.py`) | users, login attempts, sessions, the state cookie | login, sign-in, revoke, provision | every endpoint |
| Retention (`retention.py`) | all tables | purge | log, jobs, outbox |
| External ticket service (`external_ticket_service/server.py`) | its own tickets and idempotency keys | create, update | ticketing |
| Text and model layers (`it/triage.py`, `llm.py`) | none | classify, ask, merge | inputs of the graph |
| Presentation, metrics, operations, scripts | none | report | read the tables |

What is hard here:

* **Interleavings.** Reads and writes of one handler are different
  transactions; most UPDATEs name a row by its id and do not repeat the condition
  the handler read.  `mark_approval` and `claim_job` are the exceptions.
* **Ordering.** An approval row is visible before the run it belongs to has
  parked.  An outbox row is due before the step that inserted it has called the
  provider.
* **Crashes.** Nothing leases a claimed job, a running outbox row or a resumed
  run; a process that dies leaves what it wrote.
* **Retries.** Steps, jobs, outbox events and the correction loop all repeat
  work, and rely on idempotency keys, attempt counters or the graph state to
  stop.

What makes each part correct is stated as the properties below; `PROJECT.json`
lists the hazards, each at its line and with the properties that cover it.

## 2. The modules

Every module is translated from the code `PROJECT.json` maps it to.  A handler is cut
at its transactions: `pc[p]` is the place where process `p` will continue, and
one action is one transaction with the local computation around it.

| module | models | state and actions |
|---|---|---|
| `TicketStatus` | `ALLOWED_STATUS_TRANSITIONS`, `validate_ticket_transition` | constants only |
| `GateVerdict` | the gate's verdict as the executor sees it | constants only |
| `ITResolution` | resolve, park, decide, resume around one ticket | the rows of one ticket's runs; one action per transaction of `it_resolve_request`, `run_workflow`'s IT branch, `decide_approval`, `ticket_ops` |
| `ActionGate` | what that protocol promises | an authority and a count per run: `Judge`, `Rule`, `Perform` |
| `CorrectionLoop` | one run with self-correction | one action per graph node; the human phase is one step |
| `RiskGate` | `evaluate`, `merge_*`, the merge in `_risk_gate_node` | one proposal; a step learns something worse about it |
| `JobQueue` | jobs, Redis signals, workers, retries | one action per transaction or Redis call |
| `Outbox` | one effect, its row, local record and provider | one action per transaction or provider call |
| `TicketUpdate` | `update_ticket`, its outbox events, their replay, the provider's PATCH handler | one ticket on both sides; one action per transaction or provider call |
| `AuditTrail` | `record_audit`, `verify_audit_log_integrity`, and the rows of other tables that are swept | the log in the order of its insertions, writers between reading a time, the last hash and inserting |
| `Retention` | the policies of `retention.py` | constants only |
| `Accounts` | `auth.py`, `scim.py`: logins, lockout, sessions, requests, provisioning | one user row, attempts, sessions; one action per transaction |
| `SignOn` | `oidc.py`, its routes, the provider's codes; extends `Accounts` | cookie, states, codes |
| `Planner` | the policy of `planner.py` and its merge with models and the consensus | constants only |
| `WorkflowRun` | `run_workflow` for business requests and commands, `decide_approval`, `_run_step` | runs, steps, approvals, tickets, mails; one action per transaction or tool call |
| `Triage` | `triage.classify`, `llm.call`, `triage.llm_fallback` | constants only |
| `AgentGraph` | the graph of `durable_executor.py`; extends `RiskGate` and `Triage` | the superstep that is under way, tasks, checkpoints, the values handed on; one action per node and phase |

`MC*` modules give the constants of a run their values; the `*Proofs` modules
hold the theorems.  Definitions marked *Faulty variant* are not part of any
specification: each replaces the definition that follows it by a plausible bug,
and the property it is paired with in `PROJECT.json` then fails.

### ITResolution

A run, its workflow run and its approval carry the name of the request that
created them, because the code creates at most one of each per request.
`thread` is what LangGraph's checkpoint would resume at: `interrupted` once the
approval node has stopped, `past` once its result is checkpointed.  `seen` is
the workflow status `get_run_detail` returned, which is what decides whether the
graph parks and whether a decider resumes it.  `draft` is a validated status
that `update_ticket` has not written yet.  A behaviour picks its
circumstances at the start and keeps them (`setting`): who takes part, whether a
reviewer may decide before the graph has parked (`beforePause`), whether
decisions may overlap, how many processes may die.  Properties name the
circumstances they need, so that one run checks what holds always and what
patient reviewers may rely on.  The critic's score is arbitrary
within what its penalties rule out (`CriticMayPass`).  Which penalties apply depends on
how the objective was read, so here only a failed or refused workflow rules a
pass out; `CorrectionLoop` computes the score.  Self-correction is off in this
module (it is off by default for resolve requests) and is `CorrectionLoop`'s
subject too.  The objective may be diverted before the IT branch (prompt guard,
ticket command): the run's status is modelled, the command's effect on other
tickets is not, and on this ticket it is one of `OperateTicket`'s moves.

### CorrectionLoop

The graph state that survives a pass (`held`, `attempts`, `report`) and the
steps of the pass's workflow run, as far as the critic counts them.  What the
model's review subtracts is any member of `OtherPenalties`.  Every pass may get
another verdict from the gate, because it retrieves evidence anew, and another
reading of the objective (`diverts`), because a correction adds words to it.  An
objective that reads as a ticket command leaves `run_workflow` before the IT
branch (`ObeyCommand`), and the critic asks for the command's tool only
(`CategoryPenalty`); otherwise the gate's verdict is what it asks for
(`ITPenalty`).

### RiskGate

`Evaluate` is the cascade as the code orders it, with the rule ids left out.
The specification starts from every proposal and only ever makes it worse, so
that `NeverTalkedDown` compares a verdict with the next.  `Environments` and
`Criticalities` are parameters because the asset table does not constrain the
two columns.

### JobQueue

A job is named by its place in the order (`created_at`, `id`).  Redis may lose a
push or an answer; the scan of the table is atomic, which is what
`BEGIN IMMEDIATE` and `FOR UPDATE SKIP LOCKED` give, except that PostgreSQL may
skip a row that a retry is just updating: the worker then finds it at its next
poll.  A claim, and even a completion, may fall between a retry's read and its
write; the history variable `raced` keeps the jobs whose status such a write
overwrote.

### Outbox

One idempotency key.  The processes share `create_ticket` / `send_email`:
look for the local record, find or insert the row, mark it running, call the
provider, record, complete.  `effects` counts what the provider did.  The
`setting` says whether processes may overlap on the effect, whether a failing
call may have acted (`lost`), whether the provider honours the key (`keyed`: the
ticket service of this repository does, SMTP does not) and how many processes
may die.  Dispatchers come back for ever, which is why the model may stop
(`CHECK_DEADLOCK FALSE`) only when the event is settled or its row is lost.
`create_ticket` validates its arguments before it looks for the record; the row
exists because they were valid once, a dispatcher passes the same ones, and no
code deletes a customer, so the validation is left out.

### TicketUpdate

One external ticket, whose status the platform (`ticket`) and the provider
(`external`) both keep.  An update validates, finds or inserts its outbox row,
and replays it exactly as a dispatcher would later; a row carries the name of
the update that inserted it.  `key` is what tells events apart: the wanted
status and the `updated_at` the update began with, in whole seconds.
`inForce[u]` is a history variable: the ticket has had the status `u` wants at
some time since `u` began.  The `setting` says who takes part and asks for
what, whether the ticket may be taken up while somebody works on it
(`overlap`), whether a failing call may have acted (`lost`), whether the
provider is Jira, which accepts what its own workflow accepts, instead of the
service of this repository (`jira`), whether two writes may fall into one second
(`sameSecond`), and how many processes may die.  Left out: owner, priority, comments and due
date, which travel with the status; database errors other than the death of the
process.  A second attempt of the workflow step that calls `update_ticket` is
one more member of `Updates`.  The dispatcher may take up any due event; strong
fairness for each stands for `ORDER BY created_at`, which serves the oldest
first and reaches them all within its batch.

### AuditTrail and Retention

A hash is the row it was computed from, so a row links to the row it names.
Rows sort by their time and then their id, and ids are random: two rows of one
instant may sort either way.  A writer takes its time, then reads the last hash,
then inserts; the verifier is a function of the log.  An intruder may edit a row
or clear its hash.  `Work` stands for whoever creates and moves the rows of the
other tables that the sweep deletes from; a sweep is one transaction over all of
them.  Time is counted in units of the shortest retention.

### Accounts and SignOn

One account with a password at first, and what is said to it.  A try reads the
user, the lockout and the password, counts the failures of the window, and
inserts its row; a session is stored in a last transaction.  A request checks
the session and then the account.  `asked` is a history variable: what the last
create, PUT, PATCH or sign-in asked the account to be, field by field.
`Reasons` against serving a request are collected when it arrives, and taken
back by what re-admits an account.  `SignOn` adds the browser with its one state
cookie, the provider's codes, the callback, and requests that carry an id token.
Calls follow each other unless the `setting` lets them overlap.

### WorkflowRun and Planner

All runs of one business request, or one ticket command.  `worker[p]` is the
place of a thread: before, in and after each step.  A step is a call of its
tool, which may fail before or after it took effect, then perhaps a second call,
then the number and the insert of its row.  What an error leads to is decided by
`After`, from what the code reads out of the step's result: some steps end the
run, some are taken for an empty answer, and two raise on a missing key and
leave the run as it is.  `Planner` is the policy that decides whether a request
must wait; the categories and amounts that its tables find in a sentence are
data.

### AgentGraph and Triage

`at` is the current superstep: its nodes and how far each has come (due,
working, returned, numbered, done).  Two nodes run side by side after the two
forks; each starts and finishes its task, and numbers its checkpoint under a
lock.  A value carries in `since` the earliest attempt that anything it was made
from belongs to, which is a history variable.  Evidence, votes and the gate's
verdict are computed by the code's rules; the workflow that the graph runs, the
human's decision and the critic's scores are arbitrary here, because other
modules are about them.  A text is what the keyword tables of `triage.py` find
in it, and a model's answer is any member of the schema after the fields outside
the vocabularies are dropped.

All numbers are distinct states.  "Violation" runs state something that the
repository says and the code does not do; `findings` in `PROJECT.json` quotes
the line.

| run | instance | checks |
|---|---|---|
| `it` | 1 request, 2 deciders at any time, operator, 1 crash; or 2 requests and 2 patient deciders, fair; 403 k | `DecisionsAreObeyed` (types, `ExecutedOnlyIfAuthorised`, `OutcomeFollowsDecision`), `DecisionIsFinal`, refinement of `ActionGate`, `PatienceSuffices` (`RunsOnceIfPatient`, `ResolvedMeansExecuted`, `NobodyStrandedIfPatient`), `DecisionSettlesRun` |
| `it_twice` | 1 request, 2 overlapping deciders | violation of `RunsOnce` |
| `it_stranded` | 1 request, 1 decider before the graph has parked | violation of `NoStrandedApproval` |
| `correction` | up to 3 corrections, clear and command-like objectives, operator, fair; 21.5 k | `CorrectionIsSafe` (types, `OnlyLastPassTouches`), `CompletedAsDecided`, `Terminates` |
| `correction_twice` | 2 corrections | violation of `RunsOnce` |
| `gate` | the gate on every input, one unknown value on each ladder; the graph for 7 kinds of clear and 9 of unclear tickets, every answer of the triage model, 12 requests with risk experts, 2 runs with corrections, fair; 425 k | of the gate: `GateIsSafe` (types, `SideEffectsNeedHuman`, `RunnableIsGrounded`), `NeverTalkedDown`; of the graph: `TasksInOrder` (types, `DependenciesDone`, `TasksSettle`), `ActsOnOwnEvidence` (`ActsOnThisAttempt`, `PrecedentIsNoBasis`), `CheckpointsCount`, `ModelOnlyEscalates`, `ReadingRemovesNoHuman`, `GraphEnds` |
| `jobs` | 2 jobs (2 and 1 attempts), 2 workers, 1 retry at any time, lost signals, 1 crash, fair; 280 k | `JobsKeepAttempts` (types, `RunsWithinAttempts`, `GivenUpMeansExhausted`), `OneWorkerPerJob`, `CompletedIsFinal`, `EveryJobEnds` |
| `outbox` | 2 callers, 1 dispatcher, retry, 3 attempts; overlapping with lost answers and 1 crash, or one at a time, fair; 1.0 M | `OnRecordMeansDone` (types, `RecordedMeansPerformed`, `CompletedIsRecorded`), `EffectOnce`, `CompletedIsFinal`, `OutboxDrains` (`EventSettles`, `DispatchEnds`) |
| `update` | 3 updates overlapping, or 2 with a retry and a crash, or 2 with dispatcher and retry one at a time, fair; 179 k | `AnswersAreTrue` (types, `NoUpdateSwallowed`, `InStep`), `LegalMoves`, `EventSettles` |
| `audit` | writers that overlap or not, one job row, sweeps, edits; 2.0 M | `TrailIsSound` (types, `LoneWriterLinks`, `SerialLogVerifies`), `AlterationsAreReported`, `SweepIsHarmless` (`SweepKeepsVerdict`, `SweptIsSettled`) |
| `accounts` | 4 tries in turn or 3 at once; sessions under 2 provisioning calls; 2 sign-ins in two tabs; a lost answer; 1.0 M | `LockoutHolds`, `HonestTryGetsIn`, `StandingAsAsked`, `ServedAreWelcome`, `SignInsMakeSessions` (types, `OneSessionPerCode`, `LoneSignInSucceeds`) |
| `workflow` | every kind of request the policy tells apart, commands, 2 runs, 2 reviewers, 2 failing calls, 1 crash, fair; 133 k | `ActsWithinAuthority` (types, `NothingBeforeApproval`, `CommandsKeepScope`), `EffectsOnce`, `CompletedMeansDone`, `RecordTellsTheStory` (`StepsNumberedInOrder`, `RequestFollowsRuns`), `RunsEndAsDecided` (`EndIsFinal`, `DecisionTakesEffect`, `RunsEnd`) |

Invariants are conjunctions of named parts, which the table gives in brackets;
the text below speaks of the parts.

The `gate` run has two kinds of behaviour: in one the gate's proposal is learnt
about and no graph runs, in the other a graph runs and the proposal stands
still.  The properties of each module hold trivially of the other half.


**Bounds.** Two handlers of one kind are the fewest that can overtake each
other, and two requests the fewest that can compete for one ticket.  In
the hasty half of `it` a single request suffices, because requests share nothing
but the ticket and the operator moves the ticket wherever another request could.  Two
jobs and two workers let a worker overtake another and the older job starve the
younger.  Three updates let a status be reached, left and asked for again, which
is what a key has to tell apart.  One crash lets a process disappear at every
place; a second only repeats it, because nothing recovers.  Three corrections
are the maximum the code accepts.  The risk gate is checked on its whole input
space.  The graph gets tickets on both sides of every test that triage, the
choice of an action and the gate make; requests with corrections pass through
three attempts, with and without research.  Three writers of the log are the
fewest of whom two meet while the third links to one of them, and a log of four
rows has neighbours on both sides of a gap.  Four tries reach the limit of wrong
passwords, are locked out and come back.  Two provisioning calls can overtake
each other, two sign-ins share the cookie, and two callbacks repeat a code.  The invariants of these runs that are proved (section 5) hold without
the bounds.

**Fairness.** Weak fairness per process for steps of a handler that has
started: server threads, workers and dispatchers are scheduled by the operating
system and never suspended for good.  No fairness for arrivals, human verdicts,
administrators and crashes.  Dispatchers and workers poll in an endless loop
(`run_worker_loop`, `outbox_dispatcher_loop`), and `next_attempt_at` passes
because time does.  In `WorkflowRun` the fairness is that of the threads, not of
the calls they make: a call may fail as often as the bound allows.  `AgentGraph`
assumes that the process that drives the graph goes on (LangGraph's `invoke`
loops over supersteps) and that the lock, which has no timeout, is taken by a
thread that waits for it; nobody has to decide, and no node has to fail.

## 4. What the runs say about the code

Held by the code: the gate and the human stand before every tool run; a verdict
is final and the workflow run ends as it says, whatever overlaps or crashes; the
loop stops correcting and never repeats a pass that changed a ticket; a run whose
last pass reached the IT branch is reported completed only if it did what the
gate decided; a job is not run more often than its attempts; nothing is on record that was not performed; no update
of a ticket is answered with the result of an older one.

Not held, each with a run that fails: the tool may run twice when decisions
overlap (`it_twice`) or when a third pass follows one that found the ticket
executed already (`correction_twice`); a decision taken before the graph has
parked strands it (`it_stranded`).

Limits that the passing runs step around, by a switch or in the wording of a
property, because the code makes no claim there or is known not to keep it:

* a failed ticket update after a granted approval is recorded in the graph as a
  denial, and two resolve requests may each run their tool on one ticket;
* the critic judges a run whose objective reads as a ticket command by that
  command (`agents.py:1002-1031`), so such a run is reported completed with
  nothing done of what the gate decided, although `_it_critic_penalty` says that
  "a run that reached a different outcome than the gate decided is defective"
  (`CompletedAsDecided` asks for the command instead);
* a value that is on no severity ladder is ignored next to a known one, so
  adding a known source can lower the verdict (`NeverTalkedDown` compares known
  values);
* a job retried after its last attempt is queued and never claimed
  (`EveryJobEnds` speaks of claimable jobs), and a retry whose check races a
  claim undoes the claim, or the completion that followed (`raced`);
* a dispatcher may perform an effect that a step is just performing, unless the
  provider honours the key (`setting.overlap`, `setting.keyed` of `Outbox`); if
  the step records the effect and the dispatcher, failing, marks the row, the
  row is dispatched for ever without an attempt being counted
  (`FailedBehindRecord`);
* a step of `WorkflowRun` does its effect once as far as the run's own calls go;
  a row that it left failed or unknown is the dispatcher's, who may repeat the
  effect at a provider without keys (SMTP, Jira): `EffectOnce` of `Outbox` says
  when not;
* overlapping updates write transitions nobody validated and may leave provider
  and row apart (`setting.overlap` of `TicketUpdate`); two updates within one
  second share a key, and the second may be swallowed (`setting.sameSecond`); an
  update that was overtaken fails its validation before its attempt is counted
  and is scheduled again for ever (`EventSettles` calls it overtaken);
* audit writers that overlap, or share an instant, fork the chain, and the
  verifier then reports a log nobody altered as broken (`LoneWriterLinks` and
  `SerialLogVerifies` say when it does not);
* the hash of a log row takes no key: whoever can write the table can compute it
  anew, or delete the newest rows, unnoticed; the intruder of `AuditTrail` does
  neither;
* overlapping wrong passwords are counted only when they are recorded, and an
  overlapping PATCH is undone (`setting.overlap` of `Accounts`); a lockout
  configured shorter than the window lets more through than the limit
  (`LockoutHolds` asks for `Lockout >= Window`); a sign-in at the
  provider enables an account that the directory disabled; a second tab replaces
  the state cookie, and a failing callback of either deletes it;
* a failing planning step, or a failing insert of the approval, raises on a
  missing key and leaves its run `running` (`RunsEnd` names these ends); a
  reviewer's decision leaves the business request at `waiting_approval`; a
  command that asks for an illegal status is reported as completed, and a failed
  customer lookup drops the mail; the mail of a small refund to an address that
  the CRM supplied needs no approval, because the guard looks at the text; a
  command checks what its requester may see before a later update
  (`setting.handmade`);
* the consensus of the risk agents does not reach the branch of ticket commands;
* the triage model may fill in what a request left open, and so turn a verdict
  nobody could have run into an automatic execution; `durable_executor.py:427`
  says "never on a laxer one", which is kept for priority and approval;
* a call of the model that timed out once and is then rejected reports one
  retry, where the comment at `llm.py:341` expects none;
* a run whose process dies while it drives the graph stays `running`.

## 5. The proofs

All proofs are checked by TLAPS for every value of the constants that the named
ASSUMEs allow (disjoint kinds of processes, positive limits, an id token that
lives for at least one unit of time, answers within their schema).

* `ITResolutionProofs`: `OutcomeFollowsDecision` and `ExecutedOnlyIfAuthorised`
  are not inductive, because they say nothing of handlers under way.  The
  invariant adds what a handler at each place knows: a decider on the approving
  or rejecting path applied exactly that verdict, at most one decider owns the
  path of an approval, a request that asks has a gate that requires approval, a
  request that is past its own parking cannot overwrite a verdict.  From the
  same invariant follow `DecisionIsFinal` and the refinement of `ActionGate`:
  each step of the protocol is one of its three actions or leaves the authority
  and the count alone.
* `ITResolutionProofs`, on patient reviewers (`PatientInv`): one decider is at
  work at a time, on a run whose graph has stopped (`TurnTaking`), and nobody
  decides while the graph runs (`NobodyHurries`).  Hence a run that was executed
  has ended or is just being resumed (`OneResumption`), whoever will write that the
  ticket is resolved has seen a tool run (`Earned`), and a decided run that is
  parked has a decider at work who will resume it (`Attended`): `PatienceIsEnough`.
* `AgentGraphProofs`, of the gate: the merge returns a claim at least as severe as every claim
  on the ladder (`WorstClaimWins`), whatever else is among the claims; two of
  the properties are then a case analysis of the cascade.  For `NeverTalkedDown`
  a merge of known values is "production" or "critical" exactly if a source is
  (`WorstNeedsAClaim`), and the rules of the cascade, ordered by what they
  forbid, are monotone in what is known (`WorseIsStricter`).
* The same module on the graph.  The properties look at one moment of a run, and what they say of it
  was made many supersteps earlier.  `InPlace` gives every node its place in the
  order of the supersteps, so that what is done in the present attempt can be
  read off from where the run is; `GoodValues` says of every value which attempt
  it is from and which rule it was computed by as soon as its node is done;
  `TasksInPlace` does the same for the status of every task, failing siblings
  included; `Numbering` for the checkpoints, with the lock that the branch which
  has read its number holds.  `NoHumanRemoved` then compares two calls of the
  gate and is again an argument about the cascade.
* `WorkflowProofs`, of `WorkflowRun`: a step moves one worker, and the run it concerns is that
  worker's (`StepKinds`), so the invariant is stated run by run.  `Roles` says
  which workers can be on a run and where: its own, and, once the approval is decided, the one
  reviewer whose guarded update decided it.  On it rest what was granted
  (`OwnGrant`, `Warranted`: the plan asks for approval wherever the policy
  does, `PlanHeedsPolicy`), the status and whom it was reported to (`Status`,
  `Told`), the numbers of the steps (`Counted`), the scope of commands
  (`Scope`), and how far the run has come (`Done`: at each place what has been
  created, attached and sent, and that nothing that matters has failed on the
  way there).  `EndsAreFinal` is the safety half of `RunsEndAsDecided`.
* `WorkflowProofs`, of `CorrectionLoop`: what holds at every node of a pass about the verdict,
  the steps, the workflow run and the execution that is held (`Pass`); that a
  score of 80 leaves no room for the penalties (`PassingScore`), those of the command or
  those of the IT context; hence what a passing report stands for (`Passed`).  A run that the gate denies although it
  holds an earlier execution is kept from completing only because its pass lacks
  the ticket update, which the invariant has to say.
* `SignOnProofs`: nearly every part of the invariant says what a call at each
  place has read and that it still holds.  A lockout is always explained by a
  wrong password that is on record (`Lockouts`), which rows never leave
  (`Rows`).  A session is stored once and stays revoked (`Sessions`); where calls do
  not overlap, a PATCH writes back the row it read (`Standing`) and a request
  that must not be served meets a disabled account (`Unwelcome`).  A code is
  spent by the callback that redeems it (`Codes`), and a lone tab's cookie is the
  one its answer needs (`Cookies`).  `LockoutHolds` counts: of every window, past
  and present, it says that a full one has locked the account beyond its end
  (`WindowHolds`), which a try that is about to fill it has to know already
  (`FillsKnowingly`).  The theorem assumes a limit of at least two and, in the
  property itself, a lockout as long as the window: a row that locks the account
  must outlast the rows it was counted with.  With a
  limit of one the property is false, as TLC shows: a try takes the moment it counts
  from and the time of its row separately, and a tick between them lets the lockout
  end within the window of the row; the defaults are five failures and
  fifteen minutes for window and lockout (`config.py:119-121`), and nothing enforces either
  condition.
* `JobQueueProofs`: an attempt is counted at the claim and a run at its start,
  so runs + claims under way <= attempts <= limit is inductive; exclusive claims
  and final completions need the invariant that a held job is `running` unless a
  retry overwrote it (`raced`), and assume nothing of retries.
* `OutboxProofs`: a process about to record has performed, and one about to
  complete has recorded; neither is ever taken back.  Where processes do not
  overlap, the one at work has looked up the record (`Serial`), hence
  `CompletionIsFinal`; where also answers arrive and nobody dies, an effect
  always leaves a record or a process about to write one (`Once`), and a keyed
  provider acts once whatever happens, hence `EffectsHappenOnce`.
* `TicketUpdateProofs`: an event that was applied has a base older than the
  ticket, so an update that begins later has another key, and one that began
  earlier has seen its status come into force (`Keyed`); this needs every write
  to move `updated_at`, hence the condition `~setting.sameSecond`, but allows any
  overlap, loss and crash.  `MovesAreLegal` and `StaysInStep` speak of settings
  in which updates do not overlap: then at most one process is at work (`Alone`), what it
  validated still holds when it writes (`Serial`), and the provider is ahead of
  the row only while the row is about to follow (`Following`).

* `AuditTrailProofs`: ids are unique and an edit can only be hidden by clearing
  the hash, hence `NoAlterationPasses`; rows are swept oldest first, so with a row
  every later one survives, hence `SweepsAreHarmless`.  For the chain: everything
  that was done before a lone writer took its time is older than it, and
  everything that comes after it is done is younger (`Solo`), so the row it read
  stays the last one before its own, as long as the log has any (`Linked`).

The settings are a variable that no step changes, so the theorems need no
assumption about them: a property that holds in some circumstances says so.

Only model-checked is every liveness property, because TLAPS does not reason
about fairness here: `DecisionSettlesRun`, `Terminates`, `EveryJobEnds`,
`OutboxDrains`, `EventSettles`, `GraphEnds`, and of `RunsEndAsDecided` the parts
`DecisionTakesEffect` and `RunsEnd`.  Every invariant and every action property
of the passing runs has a theorem.  The constant modules (`Planner`, `Triage`,
`TicketStatus`, `Retention`) have none of their own: what is needed of them is a
lemma where it is used.

## 6. Not modelled, and the plan

`PROJECT.json` lists every component with its status.  Keyword tables, the
parsing of sentences and answers, presentation and reports are inputs or outputs
of the modelled control and stay out.  Tenancy is a filter on every query: the
modules hold one tenant's rows.  `app/db.py` is schema and connections: its
unique indexes and transactions are what the actions assume.  The older
sequential orchestrator, approvals recorded by an older version, hand-off
messages, traces and telemetry rows are left out, as are the CRM and knowledge
tools, whose answers are inputs of the workflow.

The order of the remaining work:

1. The abstract specification of an exactly recorded effect, which `Outbox` and
   `TicketUpdate` would both implement, with the refinement proved.
2. Intake: the ticket an IT request is filed as, and the asset it is tied to.
3. The scoring of service mentions in `triage.py` and of past tickets in
   `history.py`, as pure operators next to `Triage`.

