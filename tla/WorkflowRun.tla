----------------------------- MODULE WorkflowRun ----------------------------
(***************************************************************************)
(* Business requests: run_workflow from the prompt guard to a ticket, a    *)
(* mail or a parked approval, and the reviewer's decision that resumes it. *)
(*                                                                         *)
(* Every step goes through _run_step: the tool is called, perhaps again    *)
(* after an error, then the number of the next step row is read and the    *)
(* row inserted, in three separate transactions.  A worker is a thread of  *)
(* a server process that carries one run, or one reviewer's decision,      *)
(* through its nodes.  Nothing recovers a worker that raised or died.      *)
(*                                                                         *)
(* The runs all serve one business request; each creates at most one       *)
(* approval and one ticket, named by the run.                              *)
(***************************************************************************)
EXTENDS Planner, Sequences, FiniteSets, TicketStatus

CONSTANTS
    Runs,             \* runs of one business request
    Reviewers,        \* approval decisions
    NoRun,
    MaxAttempts,      \* settings.tool_retry_max_attempts
    Settings          \* the circumstances a behaviour may be in

Workers == Runs \cup Reviewers

\* What is asked, and by whom.  A command is an objective that names existing
\* tickets; a requester sees the tickets of its department, an admin all.
Departments == {"ours", "theirs"}

Inputs ==
    [safe : BOOLEAN,                            \* passes guard_objective
     command : {"none", "query", "update"},
     sees : {"all", "nothing"} \cup Departments,
     text : Readings, model : Suggestions,
     handed : BOOLEAN, consensus : Consensus,   \* from a multi-agent run
     known : BOOLEAN]                           \* the CRM finds the customer

\* What is given and never changes.  workers: who comes.  beforePark: a reviewer
\* may decide before the run has parked.  handmade: people change tickets.
\* faults and crashes bound the failing calls and the lost workers.
Circumstances ==
    [workers : SUBSET Workers, input : Inputs, beforePark : BOOLEAN, handmade : BOOLEAN,
     faults : Nat, crashes : Nat]

ASSUME WorkflowAssumption ==
    /\ Runs \cap Reviewers = {}
    /\ NoRun \notin Runs
    /\ MaxAttempts \in Nat \ {0}
    /\ Settings \subseteq Circumstances

-----------------------------------------------------------------------------
(* The nodes of a run.                                                     *)

Steps ==
    {"guard", "plan", "interpret", "query", "update", "rag", "policy", "customer",
     "approval", "denied", "ticket", "notify", "sync", "draft", "send", "finalize"}

\* default_retry_policy: never the tools whose repetition would show outside,
\* nor the steps that call no tool.
Retried == {"query", "update", "rag", "policy", "customer", "notify", "sync", "draft", "finalize"}

\* Steps that reach a database or a provider, and so may raise.
Fallible == Steps \ {"guard", "interpret", "draft", "denied"}

\* Places between steps, and the ways a worker ends.
Silent == {"classify", "begin", "attach", "settle", "report"}
Ends == {"done", "raised", "crashed"}

Phases == {"read", "call", "number", "insert"}
Results == {"none", "ok", "error", "permission_denied"}

RunStatuses ==
    {"none", "running", "waiting_approval", "completed", "failed", "refused", "cancelled"}
Final == {"completed", "failed", "refused", "cancelled"}
NoTicket == "none"

VARIABLES
    runs,      \* workflow_runs: status, plan, the customer found, a ticket attached
    request,   \* business_requests.status
    approvals, \* approvals.status of the run's approval
    steps,     \* workflow_steps of each run, in the order of their insertion
    tickets,   \* status of the ticket each run created
    desk,      \* department of the existing ticket a command names
    worker,    \* where each worker continues, and what it holds
    created, mailed,  \* tickets and mails of each run that reached the outside
    changes,   \* whose commands changed the existing ticket, and its department then
    faults, crashes, setting

tables == <<runs, request, approvals, steps, tickets, desk>>
outside == <<created, mailed, changes>>
limits == <<faults, crashes, setting>>
vars == <<tables, worker, outside, limits>>

Input == setting.input

\* The plan of a command, whose run never looks at it.
NoPlan ==
    [category |-> "ticket", recipient |-> FALSE, risk |-> "low", approval |-> FALSE,
     final |-> "open"]

TypeOKWorkflow ==
    /\ runs \in [Runs -> [status : RunStatuses, plan : Plans \cup {NoPlan}, known : BOOLEAN,
                          attached : BOOLEAN]]
    /\ request \in {"new"} \cup (RunStatuses \ {"none", "cancelled"})
    /\ approvals \in [Runs -> {"none", "pending", "approved", "denied"}]
    /\ \A r \in Runs : \A i \in DOMAIN steps[r] :
        steps[r][i] \in [step : Steps, number : Nat \ {0}, ok : BOOLEAN]
    /\ tickets \in [Runs -> TicketStatuses \cup {NoTicket}]
    /\ desk \in Departments
    /\ worker \in [Workers -> [run : Runs \cup {NoRun}, at : {"idle"} \cup Steps \cup Silent \cup Ends,
                               phase : Phases, tries : 0..MaxAttempts, result : Results,
                               number : Nat, verdict : RunStatuses, seen : Departments]]
    /\ created \in [Runs -> Nat] /\ mailed \in [Runs -> Nat]
    /\ changes \subseteq [by : {"all", "nothing"} \cup Departments, department : Departments]
    /\ faults \in 0..setting.faults /\ crashes \in 0..setting.crashes
    /\ setting \in Settings

Init ==
    /\ runs = [r \in Runs |-> [status |-> "none", plan |-> NoPlan, known |-> FALSE,
                               attached |-> FALSE]]
    /\ request = "new"
    /\ approvals = [r \in Runs |-> "none"]
    /\ steps = [r \in Runs |-> <<>>]
    /\ tickets = [r \in Runs |-> NoTicket]
    /\ desk \in Departments
    /\ worker = [w \in Workers |->
                    [run |-> NoRun, at |-> "idle", phase |-> "call", tries |-> 0,
                     result |-> "none", number |-> 0, verdict |-> "none", seen |-> "ours"]]
    /\ created = [r \in Runs |-> 0] /\ mailed = [r \in Runs |-> 0]
    /\ changes = {}
    /\ faults = 0 /\ crashes = 0
    /\ setting \in Settings

-----------------------------------------------------------------------------
(* Where a worker goes.                                                    *)

RunOf(w) == worker[w].run
PlanOf(w) == runs[RunOf(w)].plan

\* An attempt of a command begins with a look at the ticket.
FirstPhase(place) == IF place = "update" THEN "read" ELSE "call"

\* The worker that goes on to a place, about to begin the step there.
At(w, place) ==
    [worker[w] EXCEPT !.at = place, !.phase = FirstPhase(place), !.tries = 0, !.result = "none"]

Goto(w, place) == worker' = [worker EXCEPT ![w] = At(w, place)]

\* _complete_run(status = verdict), and then the request's own status.
Ending(w, verdict) == [At(w, "settle") EXCEPT !.verdict = verdict]

\* _build_email_payload: a customer-facing plan with an address, the one in the
\* text or that of the customer found.
Mails(w) ==
    /\ PlanOf(w).category \in CustomerFacing
    /\ PlanOf(w).recipient \/ runs[RunOf(w)].known

Replying(w) == IF Mails(w) THEN "draft" ELSE "finalize"

Acting(w) == IF PlanOf(w).approval THEN "approval" ELSE "ticket"

\* Steps whose recorded error ends the run as failed; an unplanned run, and one
\* whose approval was not recorded, read a missing key and raise; the errors of
\* the others are taken for an empty answer.
Failing == {"query", "update", "ticket", "send", "finalize"}
Raising == {"plan", "approval"}

\* The guard, and the run of a command.
OnwardToCommand(w) ==
    CASE worker[w].at = "guard" -> IF Input.safe THEN At(w, "plan") ELSE Ending(w, "refused")
      [] worker[w].at = "interpret" -> At(w, "begin")
      [] worker[w].at = "query" -> Ending(w, "completed")
      [] worker[w].at = "update" ->
            Ending(w, IF worker[w].result = "permission_denied" THEN "refused" ELSE "completed")

\* From the plan to the ticket, or to the approval that parks the run.
OnwardToTicket(w) ==
    CASE worker[w].at = "plan" -> At(w, "classify")
      [] worker[w].at = "rag" -> At(w, "policy")
      [] worker[w].at = "policy" ->
            At(w, IF PlanOf(w).category \in CustomerFacing THEN "customer" ELSE Acting(w))
      [] worker[w].at = "customer" -> At(w, Acting(w))
      [] worker[w].at = "approval" -> Ending(w, "waiting_approval")
      [] worker[w].at = "denied" -> Ending(w, "cancelled")

\* From the ticket to the end, in the request and in the reviewer's resumption.
OnwardFromTicket(w) ==
    CASE worker[w].at = "ticket" -> At(w, "attach")
      [] worker[w].at = "notify" -> At(w, "sync")
      [] worker[w].at = "sync" -> At(w, Replying(w))
      [] worker[w].at = "draft" -> At(w, "send")
      [] worker[w].at = "send" -> At(w, "finalize")
      [] worker[w].at = "finalize" -> Ending(w, "completed")

\* What follows a step that did not end the run by its error.
Onward(w) ==
    CASE worker[w].at \in {"guard", "interpret", "query", "update"} -> OnwardToCommand(w)
      [] worker[w].at \in {"plan", "rag", "policy", "customer", "approval", "denied"} ->
            OnwardToTicket(w)
      [] worker[w].at \in {"ticket", "notify", "sync", "draft", "send", "finalize"} ->
            OnwardFromTicket(w)

\* Faulty variant: a refused mail is treated like a refused notification.
AfterTolerating(w) ==
    IF worker[w].result = "error" /\ worker[w].at \in Raising THEN At(w, "raised")
    ELSE IF worker[w].result = "error" /\ worker[w].at \in Failing \ {"send"}
         THEN Ending(w, "failed")
    ELSE Onward(w)

\* Faulty variant: a refused objective ends the worker and not its run.
AfterQuietRefusal(w) ==
    IF worker[w].at = "guard" /\ ~Input.safe THEN At(w, "done")
    ELSE IF worker[w].result = "error" /\ worker[w].at \in Raising THEN At(w, "raised")
    ELSE IF worker[w].result = "error" /\ worker[w].at \in Failing THEN Ending(w, "failed")
    ELSE Onward(w)

After(w) ==
    IF worker[w].result = "error" /\ worker[w].at \in Raising THEN At(w, "raised")
    ELSE IF worker[w].result = "error" /\ worker[w].at \in Failing THEN Ending(w, "failed")
    ELSE Onward(w)

-----------------------------------------------------------------------------
(* _run_step: attempts, the number, the row.                               *)

InPhase(w, phase) == worker[w].at \in Steps /\ worker[w].phase = phase

\* execute_ticket_update reads the ticket and judges the requester by it.
ReadDesk(w) ==
    /\ InPhase(w, "read")
    /\ worker' = [worker EXCEPT ![w].phase = "call",
                                ![w].seen = desk]
    /\ UNCHANGED <<tables, outside, limits>>

CanView(w) == Input.sees \in {"all", worker[w].seen}

\* _final_ticket_status.
FinalTicketStatus(w) == IF Mails(w) THEN "waiting_customer" ELSE PlanOf(w).final

Refused(w) ==
    worker[w].at = "finalize" /\ ~LegalTransition(tickets[RunOf(w)], FinalTicketStatus(w))

\* What the tool of a step does: the rows it writes and what leaves the house.
\* A command may also find nothing to change, or ask for an illegal status,
\* which is reported in a completed run.
Effect(w) ==
    LET r == RunOf(w)
        step == worker[w].at
    IN /\ approvals' = IF step = "approval" THEN [approvals EXCEPT ![r] = "pending"] ELSE approvals
       /\ tickets' = CASE step = "ticket" -> [tickets EXCEPT ![r] = "open"]
                       [] step = "finalize" -> [tickets EXCEPT ![r] = FinalTicketStatus(w)]
                       [] OTHER -> tickets
       /\ created' = IF step = "ticket" THEN [created EXCEPT ![r] = @ + 1] ELSE created
       /\ mailed' = IF step = "send" THEN [mailed EXCEPT ![r] = @ + 1] ELSE mailed
       /\ IF step = "update" /\ CanView(w)
          THEN \E change \in {{}, {[by |-> Input.sees, department |-> desk]}} :
                  changes' = changes \cup change
          ELSE UNCHANGED changes

Answer(w) ==
    IF worker[w].at = "update" /\ ~CanView(w) THEN "permission_denied" ELSE "ok"

CallTool(w) ==
    /\ InPhase(w, "call")
    /\ ~Refused(w)
    /\ Effect(w)
    /\ worker' = [worker EXCEPT ![w].phase = "number", ![w].result = Answer(w)]
    /\ runs' = IF worker[w].at = "customer" THEN [runs EXCEPT ![RunOf(w)].known = Input.known]
               ELSE runs
    /\ UNCHANGED <<request, steps, desk, limits>>

\* Faulty variant: every tool is called again after an error.
AttemptsOfAll(step) == MaxAttempts

Attempts(step) == IF step \in Retried THEN MaxAttempts ELSE 1

\* The attempt raised: the tool is called again, or its error is the output.
AttemptAgain(w) ==
    worker' =
        [worker EXCEPT ![w] =
            IF worker[w].tries + 1 < Attempts(worker[w].at)
            THEN [@ EXCEPT !.tries = worker[w].tries + 1, !.phase = FirstPhase(worker[w].at)]
            ELSE [@ EXCEPT !.phase = "number", !.result = "error"]]

\* update_ticket refuses to move a ticket somebody else has moved.
RefuseMove(w) ==
    /\ InPhase(w, "call")
    /\ Refused(w)
    /\ AttemptAgain(w)
    /\ UNCHANGED <<tables, outside, limits>>

\* A database or a provider fails: before the tool did anything, after it did
\* everything, or between the provider's ticket and the local row.
FailCall(w) ==
    /\ InPhase(w, "call")
    /\ worker[w].at \in Fallible
    /\ ~Refused(w)
    /\ faults < setting.faults
    /\ faults' = faults + 1
    /\ AttemptAgain(w)
    /\ \/ UNCHANGED <<approvals, tickets, outside>>
       \/ Effect(w)
       \/ /\ worker[w].at = "ticket"
          /\ created' = [created EXCEPT ![RunOf(w)] = @ + 1]
          /\ UNCHANGED <<approvals, tickets, mailed, changes>>
    /\ UNCHANGED <<runs, request, steps, desk, crashes, setting>>

LastNumber(r) ==
    IF steps[r] = <<>> THEN 0
    ELSE CHOOSE n \in {steps[r][i].number : i \in DOMAIN steps[r]} :
            \A i \in DOMAIN steps[r] : steps[r][i].number <= n

\* Faulty variant: the number continues the worker's own count.
ReadNumberOfContext(w) ==
    /\ InPhase(w, "number")
    /\ worker' = [worker EXCEPT ![w].number = @ + 1, ![w].phase = "insert"]
    /\ UNCHANGED <<tables, outside, limits>>

\* _next_step_index, a transaction of its own.
ReadNumber(w) ==
    /\ InPhase(w, "number")
    /\ worker' = [worker EXCEPT ![w].number = LastNumber(RunOf(w)) + 1, ![w].phase = "insert"]
    /\ UNCHANGED <<tables, outside, limits>>

InsertStep(w) ==
    /\ InPhase(w, "insert")
    /\ steps' = [steps EXCEPT ![RunOf(w)] =
                    Append(@, [step |-> worker[w].at, number |-> worker[w].number,
                               ok |-> worker[w].result # "error"])]
    /\ worker' = [worker EXCEPT ![w] = After(w)]
    /\ UNCHANGED <<runs, request, approvals, tickets, desk, outside, limits>>

-----------------------------------------------------------------------------
(* What a worker does between steps.                                       *)

\* POST /api/requests/{id}/run, or a job: the run's row.
Start(r) ==
    /\ r \in setting.workers /\ worker[r].at = "idle"
    /\ runs' = [runs EXCEPT ![r].status = "running"]
    /\ worker' = [worker EXCEPT ![r] = [At(r, "guard") EXCEPT !.run = r]]
    /\ UNCHANGED <<request, approvals, steps, tickets, desk, outside, limits>>

PlanGiven ==
    IF Input.command # "none" THEN NoPlan
    ELSE IF Input.handed THEN Escalate(PlanWorkflow(Input.text, Input.model), Input.consensus)
    ELSE PlanWorkflow(Input.text, Input.model)

\* _update_run_plan.
Classify(w) ==
    /\ worker[w].at = "classify"
    /\ runs' = [runs EXCEPT ![RunOf(w)].plan = PlanGiven]
    /\ Goto(w, IF Input.command = "none" THEN "begin" ELSE "interpret")
    /\ UNCHANGED <<request, approvals, steps, tickets, desk, outside, limits>>

\* update_business_request_status(running).
Begin(w) ==
    /\ worker[w].at = "begin"
    /\ request' = "running"
    /\ Goto(w, IF Input.command = "none" THEN "rag" ELSE Input.command)
    /\ UNCHANGED <<runs, approvals, steps, tickets, desk, outside, limits>>

\* _set_run_ticket.
Attach(w) ==
    /\ worker[w].at = "attach"
    /\ runs' = [runs EXCEPT ![RunOf(w)].attached = TRUE]
    /\ Goto(w, IF PlanOf(w).category \in Internal THEN "notify" ELSE Replying(w))
    /\ UNCHANGED <<request, approvals, steps, tickets, desk, outside, limits>>

\* _complete_run: an unconditional UPDATE.  A refused objective and a
\* reviewer's decision leave the business request as it is.
Settle(w) ==
    /\ worker[w].at = "settle"
    /\ runs' = [runs EXCEPT ![RunOf(w)].status = worker[w].verdict]
    /\ Goto(w, IF w \in Reviewers \/ ~Input.safe THEN "done" ELSE "report")
    /\ UNCHANGED <<request, approvals, steps, tickets, desk, outside, limits>>

Report(w) ==
    /\ worker[w].at = "report"
    /\ request' = worker[w].verdict
    /\ Goto(w, "done")
    /\ UNCHANGED <<runs, approvals, steps, tickets, desk, outside, limits>>

-----------------------------------------------------------------------------
(* The reviewer, the people at the tickets, and crashes.                   *)

MayDecide(r) == setting.beforePark \/ worker[r].at \in Ends

\* mark_approval: one guarded UPDATE; who did not apply it goes no further.
Decide(v, r, approved) ==
    /\ v \in setting.workers /\ worker[v].at = "idle"
    /\ approvals[r] # "none" /\ MayDecide(r)
    /\ IF approvals[r] = "pending"
       THEN /\ approvals' = [approvals EXCEPT ![r] = IF approved THEN "approved" ELSE "denied"]
            /\ worker' = [worker EXCEPT ![v] =
                             [At(v, IF approved THEN "ticket" ELSE "denied") EXCEPT !.run = r]]
       ELSE UNCHANGED approvals /\ Goto(v, "done")
    /\ UNCHANGED <<runs, request, steps, tickets, desk, outside, limits>>

\* A person, or the provider's sync, moves a ticket a run has created.
MoveTicket(r) ==
    /\ setting.handmade /\ tickets[r] # NoTicket
    /\ tickets' \in {[tickets EXCEPT ![r] = to] : to \in Allowed[tickets[r]]}
    /\ UNCHANGED <<runs, request, approvals, steps, desk, worker, outside, limits>>

\* A person gives the existing ticket to another department.
Reassign ==
    /\ setting.handmade
    /\ desk' \in Departments \ {desk}
    /\ UNCHANGED <<runs, request, approvals, steps, tickets, worker, outside, limits>>

\* The worker's process ends between two transactions.
Crash(w) ==
    /\ crashes < setting.crashes
    /\ worker[w].at \notin {"idle"} \cup Ends
    /\ Goto(w, "crashed")
    /\ crashes' = crashes + 1
    /\ UNCHANGED <<tables, outside, faults, setting>>

Work(w) ==
    \/ ReadDesk(w) \/ CallTool(w) \/ RefuseMove(w) \/ ReadNumber(w) \/ InsertStep(w)
    \/ Classify(w) \/ Begin(w) \/ Attach(w) \/ Settle(w) \/ Report(w)

Next ==
    \/ \E r \in Runs : Start(r) \/ MoveTicket(r)
    \/ \E w \in Workers : Work(w) \/ FailCall(w) \/ Crash(w)
    \/ \E v \in Reviewers, r \in Runs, approved \in BOOLEAN : Decide(v, r, approved)
    \/ Reassign

\* A server process runs the thread of a request on.
Fairness == \A w \in Workers : WF_vars(Work(w))

Spec == Init /\ [][Next]_vars /\ Fairness

-----------------------------------------------------------------------------
(* Properties.                                                             *)

\* What the policy wants a person to see first: a request that is itself
\* sensitive, or that the risk agents want seen.
Sensitive(text) ==
    \/ text.category \in Internal
    \/ text.amount >= ApprovalThreshold
    \/ text.category = "refund" /\ text.amount = NoAmount
    \/ text.category \in {"refund", "procurement"} /\ text.recipient /\ GuardMail

MustWait ==
    \/ ~Input.model.sure /\ Sensitive(Input.text)
    \/ Input.handed /\ Input.consensus.approval

\* The tools that leave a trace outside have run, or are recorded to have.
Acted(r) ==
    \/ created[r] + mailed[r] > 0
    \/ \E i \in DOMAIN steps[r] : steps[r][i].step \in {"ticket", "notify", "send"}

\* "Pause before creating external business artifacts; only approved requests
\* create tickets": however the calls fail and whoever decides when, a request
\* that must wait leaves no ticket, mail or notification before its approval,
\* and a refused objective or a command leaves none at all.
NothingBeforeApproval ==
    \A r \in Runs : Acted(r) =>
        /\ Input.safe /\ Input.command = "none"
        /\ MustWait => approvals[r] = "approved"

\* However many reviewers decide, and whatever calls fail before or after they
\* took effect, a run creates one ticket and sends one mail at most: the tools
\* that are not repeated and the guarded decision see to it.
EffectsOnce == \A r \in Runs : created[r] <= 1 /\ mailed[r] <= 1

\* A completed run did what it promised: its ticket exists and is attached,
\* its mail left the house, and no step that matters is recorded as failed.
CompletedMeansDone ==
    \A r \in Runs : runs[r].status = "completed" /\ Input.command = "none" =>
        /\ created[r] = 1 /\ tickets[r] # NoTicket /\ runs[r].attached
        /\ (runs[r].plan.category \in CustomerFacing /\ (runs[r].plan.recipient \/ runs[r].known))
              => mailed[r] = 1
        /\ \A i \in DOMAIN steps[r] :
              steps[r][i].ok \/ steps[r][i].step \notin Failing

\* The step log tells the story in order, across the pause for approval: the
\* numbers are those of the insertions, unless a reviewer works on a run whose
\* first worker has not stopped.
StepsNumberedInOrder ==
    ~setting.beforePark =>
        \A r \in Runs : \A i \in DOMAIN steps[r] : steps[r][i].number = i

\* The status of the business request is that of one of its runs, or the pause
\* of one whose approval has been decided since.
RequestFollowsRuns ==
    request \notin {"new", "running"} =>
        \E r \in Runs : \/ runs[r].status = request
                        \/ request = "waiting_approval" /\ approvals[r] \in {"approved", "denied"}

\* A command changes only tickets the requester may see at that moment, unless
\* people reassign tickets between its look and its update.
CommandsKeepScope ==
    ~setting.handmade => \A c \in changes : c.by \in {"all", c.department}

\* A run that came to its end keeps it, unless a reviewer decided before the
\* run had parked.
EndIsFinal ==
    [][~setting.beforePark =>
        \A r \in Runs : runs[r].status \in Final => runs'[r].status = runs[r].status]_vars

\* Once decided, a parked run ends as the verdict says, even when calls fail.
DecisionTakesEffect ==
    ~setting.beforePark /\ setting.crashes = 0 =>
        \A r \in Runs :
            /\ approvals[r] = "approved" ~> runs[r].status \in {"completed", "failed"}
            /\ approvals[r] = "denied" ~> runs[r].status = "cancelled"

\* A run ends, parks, or its worker raised or died: it never waits for ever.
RunsEnd ==
    \A r \in Runs :
        runs[r].status = "running" ~> runs[r].status # "running" \/ worker[r].at \in {"raised", "crashed"}

\* Nobody's word is taken before it is given or beyond its reach: approvals come
\* before effects, and commands stay within what their requester sees.
ActsWithinAuthority == TypeOKWorkflow /\ NothingBeforeApproval /\ CommandsKeepScope

\* What is on record of a request is what happened: its steps in their order and
\* a status that one of its runs has.
RecordTellsTheStory == StepsNumberedInOrder /\ RequestFollowsRuns

\* A run ends, as its verdict says, and once.
RunsEndAsDecided == EndIsFinal /\ DecisionTakesEffect /\ RunsEnd

=============================================================================
