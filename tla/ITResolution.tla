---------------------------- MODULE ITResolution ----------------------------
(***************************************************************************)
(* The human-approval protocol around one IT ticket.                       *)
(*                                                                         *)
(* A resolve request (POST /api/it/requests/{id}/resolve) starts one       *)
(* multi-agent run, which starts one workflow run, which either executes   *)
(* the action the risk gate cleared or creates one approval row and parks. *)
(* A decider (POST /api/approvals/{id}/decide) records a human verdict,    *)
(* finishes the parked workflow run and then resumes the parked graph.     *)
(* An operator (PATCH /api/tickets/{id}/ops) changes the ticket status by  *)
(* hand.  Handlers run on a thread pool and in several server processes,   *)
(* so each one is cut at its database transactions: pc[p] is the place     *)
(* where handler p will continue.  Nothing recovers a handler that died.   *)
(*                                                                         *)
(* Run r, its workflow run and its approval are all named by the request r *)
(* that created them: the code creates at most one of each per request.    *)
(***************************************************************************)
EXTENDS Naturals, TicketStatus, GateVerdict

CONSTANTS
    Requests,           \* resolve requests for the ticket
    Deciders,           \* approval decision requests
    Operators,          \* manual ticket updates
    NoRun,              \* a decider that has not named an approval yet
    Settings            \* the circumstances a behaviour may be in

Procs == Requests \cup Deciders \cup Operators

\* What is given and never changes: who comes, may a reviewer act before the
\* graph has paused, may a decision arrive while another is processed, and a
\* bound on the handlers lost to a server crash.
Circumstances ==
    [procs : SUBSET Procs, beforePause : BOOLEAN, overlap : BOOLEAN, crashes : Nat]

ASSUME ProcessAssumption ==
    /\ Requests \cap Deciders = {}
    /\ Requests \cap Operators = {}
    /\ Deciders \cap Operators = {}
    /\ NoRun \notin Requests
    /\ Settings \subseteq Circumstances

-----------------------------------------------------------------------------
(* What execute_it_action returns.                                         *)

\* Faulty variant: an approval is taken to make any action runnable.
ExecuteResultsIgnoringRunnable(g, approved) ==
    IF g.decision = "deny" THEN {"risk_deny"}
    ELSE IF g.decision = "require_approval" /\ ~approved THEN {"approval_required"}
    ELSE {"executed", "tool_error"}

\* The refusal ladder of execute_it_action, in the order of its tests.
ExecuteResults(g, approved) ==
    IF g.decision = "deny" THEN {"risk_deny"}
    ELSE IF ~g.executable THEN {"not_executable"}
    ELSE IF g.decision = "require_approval" /\ ~approved THEN {"approval_required"}
    ELSE {"executed", "tool_error"}

Outcomes ==
    {"none", "executed", "tool_error", "risk_deny", "not_executable",
     "approval_required", "approval_denied"}

-----------------------------------------------------------------------------
VARIABLES
    ticket,      \* tickets.status of the one ticket
    gate,        \* it_risk_decision in the graph state of each run
    wf,          \* workflow_runs.status
    appr,        \* approvals.status
    ma,          \* multi_agent_runs.status
    thread,      \* what the LangGraph checkpoint of the run's thread resumes at
    executions,  \* number of times the run's tool really ran
    pc,          \* where each handler continues
    draft,       \* a validated ticket UPDATE a handler has yet to issue
    outcome,     \* the execution result a handler holds
    seen,        \* the workflow status a handler has read
    choice,      \* the approval and the verdict a decider was called with
    crashes,
    setting

tables == <<ticket, gate, wf, appr, ma, thread, executions>>
locals == <<pc, draft, outcome, seen, choice>>
vars == <<tables, locals, crashes, setting>>

NoDraft == "none"

WorkflowStatuses ==
    {"none", "running", "waiting_approval", "completed", "cancelled", "failed", "refused",
     "forbidden"}
ApprovalStatuses == {"none", "pending", "approved", "denied"}
Decided == {"approved", "denied"}
RunStatuses == {"none", "running", "waiting_approval", "completed", "cancelled", "failed"}
Settled == {"completed", "cancelled", "failed"}
ThreadPoints == {"none", "running", "interrupted", "past"}

Labels ==
    {"idle", "move", "run", "graph", "ask", "park", "await", "detail", "pause",
     "execute", "finalize", "reject", "approve", "complete", "cancel", "fail",
     "resume", "node", "sync", "checkpoint", "critic", "abort", "ops", "done",
     "crashed"}

TypeOK ==
    /\ ticket \in TicketStatuses
    /\ gate \in [Requests -> GateDecisions \cup {NoGate}]
    /\ wf \in [Requests -> WorkflowStatuses]
    /\ appr \in [Requests -> ApprovalStatuses]
    /\ ma \in [Requests -> RunStatuses]
    /\ thread \in [Requests -> ThreadPoints]
    /\ executions \in [Requests -> Nat]
    /\ pc \in [Procs -> Labels]
    /\ draft \in [Procs -> TicketStatuses \cup {NoDraft}]
    /\ outcome \in [Procs -> Outcomes]
    /\ seen \in [Procs -> WorkflowStatuses]
    /\ choice \in [Deciders -> [run : Requests \cup {NoRun}, approved : BOOLEAN]]
    /\ setting \in Settings
    /\ crashes \in Nat

Init ==
    /\ ticket = "open"
    /\ gate = [r \in Requests |-> NoGate]
    /\ wf = [r \in Requests |-> "none"]
    /\ appr = [r \in Requests |-> "none"]
    /\ ma = [r \in Requests |-> "none"]
    /\ thread = [r \in Requests |-> "none"]
    /\ executions = [r \in Requests |-> 0]
    /\ pc = [p \in Procs |-> "idle"]
    /\ draft = [p \in Procs |-> NoDraft]
    /\ outcome = [p \in Procs |-> "none"]
    /\ seen = [p \in Procs |-> "none"]
    /\ choice = [d \in Deciders |-> [run |-> NoRun, approved |-> FALSE]]
    /\ crashes = 0
    /\ setting \in Settings

RunOf(p) == IF p \in Requests THEN p ELSE choice[p].run

Goto(p, label) == pc' = [pc EXCEPT ![p] = label]

-----------------------------------------------------------------------------
(* update_ticket, shared by every handler: one transaction reads the row   *)
(* and validates the transition, a later one issues an UPDATE that does    *)
(* not look at the status again.                                           *)

StepStatus ==
    [move |-> "investigating", park |-> "waiting_approval", finalize |-> "resolved",
     reject |-> "rejected", approve |-> "approved", sync |-> "resolved"]

UpdateSteps == DOMAIN StepStatus

\* After approval a ticket whose action did not run goes back to a human.
WantedStatus(p) ==
    IF pc[p] = "sync" /\ outcome[p] # "executed" THEN "investigating"
    ELSE StepStatus[pc[p]]

AfterWrite ==
    [move |-> "run", park |-> "await", finalize |-> "complete", reject |-> "cancel",
     approve |-> "complete", sync |-> "checkpoint", ops |-> "done"]

\* A refused update ends the request (move), fails the workflow (approve) or
\* the graph (sync); the other callers ignore the step's error.
AfterRefusal ==
    [move |-> "done", park |-> "await", finalize |-> "complete", reject |-> "cancel",
     approve |-> "fail", sync |-> "abort"]

ReadTicket(p) ==
    /\ pc[p] \in UpdateSteps
    /\ draft[p] = NoDraft
    /\ LegalTransition(ticket, WantedStatus(p))
    /\ draft' = [draft EXCEPT ![p] = WantedStatus(p)]
    /\ UNCHANGED <<tables, pc, outcome, seen, choice, crashes, setting>>

\* The retries of _run_step only delay the attempt that counts, so the final
\* refusal may come at any moment at which the transition is illegal.
RefuseUpdate(p) ==
    /\ pc[p] \in UpdateSteps
    /\ draft[p] = NoDraft
    /\ ~LegalTransition(ticket, WantedStatus(p))
    /\ Goto(p, AfterRefusal[pc[p]])
    /\ UNCHANGED <<tables, draft, outcome, seen, choice, crashes, setting>>

WriteTicket(p) ==
    /\ draft[p] # NoDraft
    /\ ticket' = draft[p]
    /\ draft' = [draft EXCEPT ![p] = NoDraft]
    /\ Goto(p, AfterWrite[pc[p]])
    /\ UNCHANGED <<gate, wf, appr, ma, thread, executions, outcome, seen, choice, crashes, setting>>

\* PATCH /api/tickets/{id}/ops: the same update_ticket, with any status.
OperateTicket(o) ==
    /\ o \in setting.procs /\ pc[o] = "idle"
    /\ \E to \in TicketStatuses :
        /\ LegalTransition(ticket, to)
        /\ draft' = [draft EXCEPT ![o] = to]
    /\ Goto(o, "ops")
    /\ UNCHANGED <<tables, outcome, seen, choice, crashes, setting>>

-----------------------------------------------------------------------------
(* The resolve request and the graph it drives up to the approval node.    *)

\* it_resolve_request reads the status once; only "open" is moved on.
Arrive(r) ==
    /\ r \in setting.procs /\ pc[r] = "idle"
    /\ Goto(r, CASE ticket = "open" -> "move"
                 [] ticket = "investigating" -> "run"
                 [] OTHER -> "done")
    /\ UNCHANGED <<tables, draft, outcome, seen, choice, crashes, setting>>

\* run_multi_agent inserts the run; the graph computes the gate's decision.
StartRun(r) ==
    /\ pc[r] = "run"
    /\ ma' = [ma EXCEPT ![r] = "running"]
    /\ thread' = [thread EXCEPT ![r] = "running"]
    /\ \E g \in GateDecisions : gate' = [gate EXCEPT ![r] = g]
    /\ Goto(r, "graph")
    /\ UNCHANGED <<ticket, wf, appr, executions, draft, outcome, seen, choice, crashes, setting>>

\* tool_execution enters the IT branch of run_workflow.
EnterBranch(r) ==
    /\ pc[r] = "graph"
    /\ wf' = [wf EXCEPT ![r] = "running"]
    /\ Goto(r, IF gate[r].decision = "require_approval" THEN "ask" ELSE "execute")
    /\ UNCHANGED <<ticket, gate, appr, ma, thread, executions,
                   draft, outcome, seen, choice, crashes, setting>>

\* run_workflow ends before the IT branch: the prompt guard refused the
\* objective, or it read as a command about some existing ticket, which was
\* carried out, failed, or was refused to this requester ("forbidden").
\* What such a command does to this ticket is a hand on it (OperateTicket).
DivertWorkflow(r) ==
    /\ pc[r] = "graph"
    /\ \E status \in {"refused", "forbidden", "completed", "failed"} :
        /\ wf' = [wf EXCEPT ![r] = status]
        /\ seen' = [seen EXCEPT ![r] = status]
    /\ Goto(r, "critic")
    /\ UNCHANGED <<ticket, gate, appr, ma, thread, executions,
                   draft, outcome, choice, crashes, setting>>

\* create_approval commits a row that every reviewer can see at once.
CreateApproval(r) ==
    /\ pc[r] = "ask"
    /\ appr' = [appr EXCEPT ![r] = "pending"]
    /\ Goto(r, "park")
    /\ UNCHANGED <<ticket, gate, wf, ma, thread, executions,
                   draft, outcome, seen, choice, crashes, setting>>

FailApproval(r) ==
    /\ pc[r] = "ask"
    /\ wf' = [wf EXCEPT ![r] = "failed"]
    /\ Goto(r, "detail")
    /\ UNCHANGED <<ticket, gate, appr, ma, thread, executions,
                   draft, outcome, seen, choice, crashes, setting>>

\* _complete_run(status="waiting_approval"): an unconditional UPDATE.
AwaitApproval(r) ==
    /\ pc[r] = "await"
    /\ wf' = [wf EXCEPT ![r] = "waiting_approval"]
    /\ Goto(r, "detail")
    /\ UNCHANGED <<ticket, gate, appr, ma, thread, executions,
                   draft, outcome, seen, choice, crashes, setting>>

\* _pause_run, after the graph has stopped at the interrupt.
PauseRun(r) ==
    /\ pc[r] = "pause"
    /\ ma' = [ma EXCEPT ![r] = "waiting_approval"]
    /\ Goto(r, "done")
    /\ UNCHANGED <<ticket, gate, wf, appr, thread, executions,
                   draft, outcome, seen, choice, crashes, setting>>

\* execute_it_action called by handler p for run r, and where p goes next.
RunAction(p, r, approved, ifExecuted, ifNot) ==
    \E result \in ExecuteResults(gate[r], approved) :
        /\ outcome' = [outcome EXCEPT ![p] = result]
        /\ executions' =
              [executions EXCEPT ![r] = IF result = "executed" THEN @ + 1 ELSE @]
        /\ Goto(p, IF result = "executed" THEN ifExecuted ELSE ifNot)

ExecuteAction(r) ==
    /\ pc[r] = "execute"
    /\ RunAction(r, r, FALSE, "finalize", "reject")
    /\ UNCHANGED <<ticket, gate, wf, appr, ma, thread, draft, seen, choice, crashes, setting>>

-----------------------------------------------------------------------------
(* Steps shared by the two handlers that drive a workflow run.             *)

\* _complete_run: an unconditional UPDATE of the workflow run's status.  An
\* action that broke is a failed run, one that was refused a cancelled run.
FinishedStatus(p) ==
    IF pc[p] = "complete" THEN "completed"
    ELSE IF pc[p] = "fail" \/ outcome[p] = "tool_error" THEN "failed"
    ELSE "cancelled"

FinishWorkflow(p) ==
    /\ pc[p] \in {"complete", "cancel", "fail"}
    /\ wf' = [wf EXCEPT ![RunOf(p)] = FinishedStatus(p)]
    /\ Goto(p, "detail")
    /\ UNCHANGED <<ticket, gate, appr, ma, thread, executions,
                   draft, outcome, seen, choice, crashes, setting>>

\* get_run_detail, read back after the last write; the status it returns
\* decides whether the graph interrupts, and whether a decider resumes it.
ReadDetail(p) ==
    LET r == RunOf(p) IN
    /\ pc[p] = "detail"
    /\ seen' = [seen EXCEPT ![p] = wf[r]]
    /\ IF wf[r] = "waiting_approval"
       THEN IF p \in Requests
            THEN Goto(p, "pause") /\ thread' = [thread EXCEPT ![r] = "interrupted"]
            ELSE Goto(p, "done") /\ UNCHANGED thread
       ELSE Goto(p, IF p \in Requests THEN "critic" ELSE "resume") /\ UNCHANGED thread
    /\ UNCHANGED <<ticket, gate, wf, appr, ma, executions, draft, outcome, choice, crashes, setting>>

\* The quality gate fails a failed workflow and a refused objective; otherwise the
\* model's own findings may still fail it.  Its comparison with the gate's decision
\* fails no further run: one that neither asked for nor performed what was decided
\* failed, or read as a ticket command, which is not compared (CorrectionLoop).
CriticMayPass(r) == wf[r] \notin {"failed", "refused"}

FinalStatus(passed, status) ==
    IF passed /\ status = "cancelled" THEN "cancelled"
    ELSE IF passed /\ status # "failed" THEN "completed"
    ELSE "failed"

\* critic, memory_write, finalize and the final _complete_run.
CompleteGraph(p) ==
    LET r == RunOf(p) IN
    /\ pc[p] = "critic"
    /\ \E passed \in BOOLEAN :
        /\ passed => CriticMayPass(r)
        /\ ma' = [ma EXCEPT ![r] = FinalStatus(passed, seen[p])]
    /\ Goto(p, "done")
    /\ UNCHANGED <<ticket, gate, wf, appr, thread, executions,
                   draft, outcome, seen, choice, crashes, setting>>

\* _fail_run: a node of the graph raised.
FailGraph(p) ==
    /\ pc[p] \in {"graph", "critic", "abort"}
    /\ ma' = [ma EXCEPT ![RunOf(p)] = "failed"]
    /\ Goto(p, "done")
    /\ UNCHANGED <<ticket, gate, wf, appr, thread, executions,
                   draft, outcome, seen, choice, crashes, setting>>

-----------------------------------------------------------------------------
(* The approval decision and the resumption of the parked graph.           *)

\* When a reviewer acts: patient reviewers wait for the graph to pause, and for
\* each other.
MayDecide(r) ==
    /\ setting.beforePause \/ ma[r] # "running"
    /\ setting.overlap \/ \A d \in Deciders : pc[d] \in {"idle", "done", "crashed"}

\* Faulty variant: mark_approval without "AND status = 'pending'".
DecideUnguarded(d, r, approved) ==
    /\ d \in setting.procs /\ pc[d] = "idle"
    /\ appr[r] # "none"
    /\ MayDecide(r)
    /\ choice' = [choice EXCEPT ![d] = [run |-> r, approved |-> approved]]
    /\ appr' = [appr EXCEPT ![r] = IF approved THEN "approved" ELSE "denied"]
    /\ Goto(d, IF approved THEN "approve" ELSE "reject")
    /\ UNCHANGED <<ticket, gate, wf, ma, thread, executions, draft, outcome, seen, crashes, setting>>

\* mark_approval: one guarded UPDATE.  A decider that did not apply its
\* verdict skips the workflow and only returns the run's detail.
Decide(d, r, approved) ==
    /\ d \in setting.procs /\ pc[d] = "idle"
    /\ appr[r] # "none"
    /\ MayDecide(r)
    /\ choice' = [choice EXCEPT ![d] = [run |-> r, approved |-> approved]]
    /\ IF appr[r] = "pending"
       THEN /\ appr' = [appr EXCEPT ![r] = IF approved THEN "approved" ELSE "denied"]
            /\ Goto(d, IF approved THEN "approve" ELSE "reject")
       ELSE UNCHANGED appr /\ Goto(d, "detail")
    /\ UNCHANGED <<ticket, gate, wf, ma, thread, executions, draft, outcome, seen, crashes, setting>>

\* Faulty variant: the graph is resumed only after a granted approval.
ResumeOnlyCompleted(d) ==
    LET r == choice[d].run IN
    /\ pc[d] = "resume"
    /\ Goto(d, IF ma[r] # "waiting_approval" \/ seen[d] # "completed" THEN "done"
               ELSE IF thread[r] = "interrupted" THEN "node" ELSE "critic")
    /\ UNCHANGED <<tables, draft, outcome, seen, choice, crashes, setting>>

\* Faulty variant: the row and the checkpoint are not looked at.
ResumeIgnoringCheckpoint(d) ==
    /\ pc[d] = "resume"
    /\ Goto(d, "node")
    /\ UNCHANGED <<tables, draft, outcome, seen, choice, crashes, setting>>

\* resume_multi_agent_for_workflow: only a run whose row still says
\* waiting_approval is resumed, from wherever its thread's checkpoint stands.
Resume(d) ==
    LET r == choice[d].run IN
    /\ pc[d] = "resume"
    /\ Goto(d, IF ma[r] # "waiting_approval" THEN "done"
               ELSE IF thread[r] = "interrupted" THEN "node" ELSE "critic")
    /\ UNCHANGED <<tables, draft, outcome, seen, choice, crashes, setting>>

\* _execute_it_action_after_approval for a workflow that did not complete.
SkipAction(d) ==
    /\ pc[d] = "node"
    /\ seen[d] # "completed"
    /\ outcome' = [outcome EXCEPT ![d] = "approval_denied"]
    /\ Goto(d, "checkpoint")
    /\ UNCHANGED <<tables, draft, seen, choice, crashes, setting>>

\* ... and for one that did: the approval id is read back from the table.
RunApprovedAction(d) ==
    LET r == choice[d].run IN
    /\ pc[d] = "node"
    /\ seen[d] = "completed"
    /\ RunAction(d, r, appr[r] = "approved", "sync", "sync")
    /\ UNCHANGED <<ticket, gate, wf, appr, ma, thread, draft, seen, choice, crashes, setting>>

\* The checkpointer records that the approval node is behind the thread.
CheckpointNode(d) ==
    /\ pc[d] = "checkpoint"
    /\ thread' = [thread EXCEPT ![choice[d].run] = "past"]
    /\ Goto(d, "critic")
    /\ UNCHANGED <<ticket, gate, wf, appr, ma, executions,
                   draft, outcome, seen, choice, crashes, setting>>

-----------------------------------------------------------------------------
\* The server process running the handler dies; no other code takes over.
Crash(p) ==
    /\ crashes < setting.crashes
    /\ pc[p] \notin {"idle", "done", "crashed"}
    /\ crashes' = crashes + 1
    /\ draft' = [draft EXCEPT ![p] = NoDraft]
    /\ Goto(p, "crashed")
    /\ UNCHANGED <<tables, outcome, seen, choice, setting>>

UpdateTicket(p) == ReadTicket(p) \/ RefuseUpdate(p) \/ WriteTicket(p)

DriveWorkflow(p) == FinishWorkflow(p) \/ ReadDetail(p) \/ CompleteGraph(p) \/ FailGraph(p)

RequestStep(r) ==
    \/ UpdateTicket(r) \/ DriveWorkflow(r)
    \/ StartRun(r) \/ EnterBranch(r) \/ DivertWorkflow(r)
    \/ CreateApproval(r) \/ FailApproval(r) \/ AwaitApproval(r) \/ PauseRun(r)
    \/ ExecuteAction(r)

DeciderStep(d) ==
    \/ UpdateTicket(d) \/ DriveWorkflow(d)
    \/ Resume(d) \/ SkipAction(d) \/ RunApprovedAction(d) \/ CheckpointNode(d)

Next ==
    \/ \E r \in Requests : Arrive(r) \/ RequestStep(r) \/ Crash(r)
    \/ \E d \in Deciders :
        \/ \E r \in Requests, approved \in BOOLEAN : Decide(d, r, approved)
        \/ DeciderStep(d)
        \/ Crash(d)
    \/ \E o \in Operators : OperateTicket(o) \/ UpdateTicket(o)

Spec == Init /\ [][Next]_vars

\* A started handler runs on: it is a thread of the server, never suspended
\* for good.  Requests, verdicts and operators arrive when they like.
Fairness ==
    /\ \A r \in Requests : WF_vars(RequestStep(r))
    /\ \A d \in Deciders : WF_vars(DeciderStep(d))
    /\ \A o \in Operators : WF_vars(UpdateTicket(o))

FairSpec == Spec /\ Fairness

-----------------------------------------------------------------------------
(* Properties.                                                             *)

\* May the tool of run r run at all, given the gate and the human verdict?
Authorised(r) ==
    /\ gate[r].executable
    /\ gate[r].decision \in {"auto_execute", "require_approval"}
    /\ gate[r].decision = "require_approval" => appr[r] = "approved"

\* No tool ran unless the risk gate cleared it as runnable, and none that the
\* gate sent to a human ran before that human approved (execute_it_action).
ExecutedOnlyIfAuthorised ==
    \A r \in Requests : executions[r] > 0 => Authorised(r)

\* The authority each run's tool rests on, read off the gate's decision and
\* the approval row.
Authority ==
    [r \in Requests |->
        CASE gate[r] = NoGate -> "unjudged"
          [] gate[r] # NoGate /\ ~gate[r].executable -> "refused"
          [] gate[r] # NoGate /\ gate[r].executable ->
                IF gate[r].decision = "auto_execute" THEN "cleared"
                ELSE IF appr[r] = "approved" THEN "granted"
                ELSE IF appr[r] = "denied" THEN "denied"
                ELSE "asked"]

Promise == INSTANCE ActionGate WITH
    Runs <- Requests, authority <- Authority, performed <- executions

\* The protocol implements the promise: one judgement per run, one ruling per
\* approval, and no tool run under anything else (execute_it_action reading
\* what mark_approval and the risk gate left in the tables).
ImplementsPromise == Promise!Spec

\* A verdict is final: whatever deciders, crashes and late requests follow,
\* an approved or denied row never changes again (mark_approval).
DecisionIsFinal ==
    [][\A r \in Requests : appr[r] \in Decided => appr'[r] = appr[r]]_vars

\* The workflow run ends the way its reviewer decided: completed only under an
\* approval that was granted, cancelled only under one that was denied
\* (decide_approval_and_resume racing the parking request).
OutcomeFollowsDecision ==
    \A r \in Requests : appr[r] # "none" =>
        /\ wf[r] = "completed" => appr[r] = "approved"
        /\ wf[r] = "cancelled" => appr[r] = "denied"

\* Reviewers who wait for the pause and for each other, no hand on the ticket
\* but the agents', and nobody dead.
Patient ==
    /\ ~setting.beforePause /\ ~setting.overlap /\ setting.crashes = 0
    /\ setting.procs \cap Operators = {}

\* "Runs once, never twice": one run's tool is called at most once.
RunsOnce == \A r \in Requests : executions[r] <= 1

\* ... which holds of patient reviewers, however many decide.
RunsOnceIfPatient == Patient => RunsOnce

\* A ticket that agents alone have worked on, for patient reviewers, is resolved
\* only if an action ran (the sync after the approval node).
ResolvedMeansExecuted ==
    Patient /\ ticket = "resolved" => \E r \in Requests : executions[r] > 0

Quiescent == \A p \in Procs : pc[p] \in {"idle", "done"}

\* When every handler has returned, no run whose approval is decided is still
\* parked: the decision has resumed the graph.
NoStrandedApproval ==
    Quiescent => \A r \in Requests : appr[r] \in Decided => ma[r] # "waiting_approval"

\* ... which holds of patient reviewers.
NobodyStrandedIfPatient == Patient => NoStrandedApproval

\* A patient decision ends both runs for good: the workflow run and the graph
\* leave waiting_approval and never come back to it.
DecisionSettlesRun ==
    \A r \in Requests :
        Patient /\ appr[r] \in Decided ~> [](wf[r] \in Settled /\ ma[r] \in Settled)

\* The gate and the human stand before every tool run, and the workflow ends as
\* the human said, whatever overlaps, dies or comes late.
DecisionsAreObeyed == TypeOK /\ ExecutedOnlyIfAuthorised /\ OutcomeFollowsDecision

\* With patient reviewers each approved tool runs once, a resolved ticket has
\* had its action, and no graph is left parked.
PatienceSuffices == RunsOnceIfPatient /\ ResolvedMeansExecuted /\ NobodyStrandedIfPatient

=============================================================================
