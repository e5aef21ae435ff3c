--------------------------- MODULE CorrectionLoop ---------------------------
(***************************************************************************)
(* One multi-agent run of an IT ticket with self-correction switched on.   *)
(*                                                                         *)
(* A pass through the graph computes the gate's decision, drives one       *)
(* workflow run, and is scored by the critic.  A pass that scored below 80 *)
(* and left no successful side effect among its workflow steps is repeated *)
(* from the planner on, at most maxAttempts times.  Meanwhile an operator  *)
(* may move the ticket, which makes the workflow's own updates illegal.    *)
(*                                                                         *)
(* The words of the request decide where a pass goes: one that reads as a  *)
(* query or an update of some existing ticket never reaches the IT branch, *)
(* and the critic judges it by the command.  A correction adds words.      *)
(*                                                                         *)
(* The run's parked phase is ITResolution's subject: here a human verdict  *)
(* and what follows it up to the critic are one step.                      *)
(***************************************************************************)
EXTENDS Integers, FiniteSets, TicketStatus, GateVerdict

CONSTANTS
    MaxCorrections,   \* max_correction_attempts as clamped to 0..3
    MaxOperations,    \* bound on manual ticket updates during the run
    OtherPenalties    \* what the rest of the critic may subtract

ASSUME BoundAssumption ==
    /\ MaxCorrections \in 0..3
    /\ MaxOperations \in Nat
    /\ OtherPenalties \subseteq 0..100

Tools == {"it_tool", "update_ticket", "request_approval", "query_tickets"}

\* SIDE_EFFECT_TOOLS, as far as an IT workflow runs them.
SIDE_EFFECT_TOOLS == {"update_ticket", "request_approval"}

Step(tool, ok) == [tool |-> tool, ok |-> ok]

\* The intents of a ticket command, and the tool that carries each out.
Commands == {"query", "update"}

CommandTool == [query |-> "query_tickets", update |-> "update_ticket"]

\* What run_workflow makes of the objective: an IT run, a request the guard
\* refuses, or a ticket command.
ObjectiveKinds == {"no", "refused"} \cup Commands

VARIABLES
    node,        \* where the graph stands
    ticket,      \* tickets.status
    diverts,     \* where this objective makes run_workflow leave
    gate,        \* it_risk_decision of this pass
    held,        \* it_execution in the graph state
    toolSteps,   \* the tool steps of this pass's workflow run
    wf,          \* its status
    attempts,    \* correction_attempts
    report,      \* critic_report
    status,      \* multi_agent_runs.status
    executions,  \* how often the tool really ran
    touched,     \* passes that left a successful side effect
    operations   \* manual ticket updates so far

loopVars == <<node, ticket, diverts, gate, held, toolSteps, wf, attempts, report, status,
              executions, touched, operations>>

Nodes ==
    {"risk_gate", "workflow", "execute", "resolve", "reject", "ask", "park", "lift",
     "human_approval", "critic", "self_correction", "end"}

NoReport == [passed |-> FALSE, safe |-> FALSE, unsafe |-> FALSE]

TypeOK ==
    /\ node \in Nodes
    /\ ticket \in TicketStatuses
    /\ diverts \in ObjectiveKinds
    /\ gate \in GateDecisions \cup {NoGate}
    /\ held \in {"none", "executed", "not_executed"}
    /\ toolSteps \subseteq [tool : Tools, ok : BOOLEAN]
    /\ wf \in {"none", "running", "waiting_approval", "completed", "cancelled", "failed",
               "refused", "forbidden"}
    /\ attempts \in 0..MaxCorrections
    /\ report \in [passed : BOOLEAN, safe : BOOLEAN, unsafe : BOOLEAN]
    /\ status \in {"running", "waiting_approval", "completed", "cancelled", "failed"}
    /\ executions \in Nat /\ touched \in Nat /\ operations \in 0..MaxOperations

LoopInit ==
    /\ node = "risk_gate"
    /\ ticket = "investigating"
    /\ diverts \in ObjectiveKinds
    /\ gate = NoGate
    /\ held = "none"
    /\ toolSteps = {}
    /\ wf = "none"
    /\ attempts = 0
    /\ report = NoReport
    /\ status = "running"
    /\ executions = 0 /\ touched = 0 /\ operations = 0

-----------------------------------------------------------------------------
(* One pass: the gate, then one workflow run.                              *)

\* risk_gate: every pass retrieves evidence again and judges it again.
EvaluateGate ==
    /\ node = "risk_gate"
    /\ gate' \in GateDecisions
    /\ node' = "workflow"
    /\ UNCHANGED <<ticket, diverts, held, toolSteps, wf, attempts, report, status, executions,
                   touched, operations>>

\* run_workflow up to the IT branch.
EnterBranch ==
    /\ node = "workflow"
    /\ diverts = "no"
    /\ toolSteps' = {}
    /\ wf' = "running"
    /\ node' = IF gate.decision = "require_approval" THEN "ask" ELSE "execute"
    /\ UNCHANGED <<ticket, diverts, gate, held, attempts, report, status, executions,
                   touched, operations>>

\* ... or out of it: the guard refuses the objective ...
Refuse ==
    /\ node = "workflow"
    /\ diverts = "refused"
    /\ toolSteps' = {}
    /\ wf' = "refused"
    /\ node' = "lift"
    /\ UNCHANGED <<ticket, diverts, gate, held, attempts, report, status, executions,
                   touched, operations>>

\* ... or it reads as a command about some existing ticket, perhaps this one.
\* An update the requester may not make, or that finds no ticket, is a
\* completed step all the same; a tool that raises fails the workflow.
ObeyCommand ==
    /\ node = "workflow"
    /\ diverts \in Commands
    /\ \E ok \in BOOLEAN :
        /\ toolSteps' = {Step(CommandTool[diverts], ok)}
        /\ wf' \in (IF ~ok THEN {"failed"}
                   ELSE IF diverts = "update" THEN {"completed", "forbidden"}
                   ELSE {"completed"})
        /\ ticket' \in (IF ok /\ diverts = "update" THEN {ticket} \cup Allowed[ticket]
                       ELSE {ticket})
    /\ node' = "lift"
    /\ UNCHANGED <<diverts, gate, held, attempts, report, status, executions, touched,
                   operations>>

\* execute_it_action: an execution the graph state holds short-circuits.
Execute ==
    /\ node = "execute"
    /\ toolSteps' = {Step("it_tool", TRUE)}
    /\ \/ /\ held = "executed"
          /\ node' = "lift" /\ wf' = "completed" /\ UNCHANGED executions
       \/ /\ held # "executed" /\ gate.executable
          /\ executions' = executions + 1
          /\ node' = "resolve" /\ UNCHANGED wf
       \/ /\ held # "executed"
          /\ node' = "reject"
          /\ wf' \in (IF gate.executable THEN {"failed"} ELSE {"cancelled"})
          /\ UNCHANGED executions
    /\ UNCHANGED <<ticket, diverts, gate, held, attempts, report, status, touched, operations>>

\* create_approval
AskApproval ==
    /\ node = "ask"
    /\ \E ok \in BOOLEAN :
        /\ toolSteps' = {Step("request_approval", ok)}
        /\ IF ok THEN node' = "park" /\ UNCHANGED wf
                 ELSE node' = "lift" /\ wf' = "failed"
    /\ UNCHANGED <<ticket, diverts, gate, held, attempts, report, status, executions,
                   touched, operations>>

Wanted == [resolve |-> "resolved", reject |-> "rejected", park |-> "waiting_approval"]

\* The workflow's own ticket update and its _complete_run.  A refused update
\* is a failed step that nobody looks at before the critic.
UpdateTicket ==
    /\ node \in DOMAIN Wanted
    /\ LET legal == LegalTransition(ticket, Wanted[node]) IN
        /\ ticket' = IF legal THEN Wanted[node] ELSE ticket
        /\ toolSteps' = toolSteps \cup {Step("update_ticket", legal)}
    /\ wf' = CASE node = "resolve" -> "completed"
               [] node = "reject" -> wf
               [] node = "park" -> "waiting_approval"
    /\ node' = "lift"
    /\ UNCHANGED <<diverts, gate, held, attempts, report, status, executions, touched,
                   operations>>

\* The end of the tool_execution node: the result on the it_operation step
\* replaces it_execution; a pass without such a step leaves it alone.
LiftExecution ==
    /\ node = "lift"
    /\ held' = IF Step("it_tool", TRUE) \notin toolSteps THEN held
               ELSE IF wf = "completed" /\ held # "executed" THEN "executed"
               ELSE "not_executed"
    /\ IF wf = "waiting_approval"
       THEN node' = "human_approval" /\ status' = "waiting_approval"
       ELSE node' = "critic" /\ UNCHANGED status
    /\ UNCHANGED <<ticket, diverts, gate, toolSteps, wf, attempts, report, executions, touched,
                   operations>>

-----------------------------------------------------------------------------
(* The parked graph.                                                       *)

\* A denial cancels the workflow and rejects the ticket if it still can.
Deny ==
    /\ node = "human_approval"
    /\ wf' = "cancelled"
    /\ ticket' = IF LegalTransition(ticket, "rejected") THEN "rejected" ELSE ticket
    /\ toolSteps' = toolSteps \cup {Step("update_ticket", LegalTransition(ticket, "rejected"))}
    /\ held' = IF held = "executed" THEN held ELSE "not_executed"
    /\ node' = "critic"
    /\ UNCHANGED <<diverts, gate, attempts, report, status, executions, touched, operations>>

\* An approval the ticket no longer accepts fails the workflow.
ApproveInVain ==
    /\ node = "human_approval"
    /\ ~LegalTransition(ticket, "approved")
    /\ wf' = "failed"
    /\ toolSteps' = toolSteps \cup {Step("update_ticket", FALSE)}
    /\ held' = IF held = "executed" THEN held ELSE "not_executed"
    /\ node' = "critic"
    /\ UNCHANGED <<ticket, diverts, gate, attempts, report, status, executions, touched,
                   operations>>

\* Otherwise the graph runs the action unless it holds an execution already.
Approve ==
    /\ node = "human_approval"
    /\ LegalTransition(ticket, "approved")
    /\ wf' = "completed"
    /\ toolSteps' = toolSteps \cup {Step("update_ticket", TRUE)}
    /\ \/ held = "executed" /\ ticket' = "approved" /\ UNCHANGED <<held, executions>>
       \/ /\ held # "executed" /\ gate.executable
          /\ held' = "executed" /\ executions' = executions + 1 /\ ticket' = "resolved"
       \/ /\ held # "executed"
          /\ held' = "not_executed" /\ ticket' = "investigating" /\ UNCHANGED executions
    /\ node' = "critic"
    /\ UNCHANGED <<diverts, gate, attempts, report, status, touched, operations>>

-----------------------------------------------------------------------------
(* The quality gate and the correction.                                    *)

Ran(tool) == \E s \in toolSteps : s.tool = tool

Points(condition, penalty) == IF condition THEN penalty ELSE 0

\* Faulty variant: the critic is not told of the IT context.
ITPenaltyUntold == 0

\* _it_critic_penalty: what happened against what the gate decided.
ITPenalty ==
    Points(~Ran("update_ticket"), 25)
    + Points(gate.decision = "require_approval" /\ ~Ran("request_approval"), 40)
    + Points(gate.decision = "auto_execute" /\ ~Ran("it_tool") /\ held # "executed", 40)
    + Points(gate.decision = "deny" /\ held = "executed", 40)

\* The critic's branch on the plan's category, which the planner reads off the
\* objective as run_workflow does: of a ticket command it wants the tool only.
CategoryPenalty ==
    IF diverts \in Commands THEN Points(~Ran(CommandTool[diverts]), 25) ELSE ITPenalty

\* CriticAgent.run, but for what other may subtract: a missing notification, a
\* vote for an approval nobody asked for, and the findings of the model's review.
Score(other) ==
    100 - other - CategoryPenalty
    - Points(gate.decision = "require_approval"
             /\ wf \notin {"waiting_approval", "completed", "cancelled"}, 20)
    - Points(\E s \in toolSteps : ~s.ok, 10)
    - Points(wf = "failed", 40)
    - Points(wf = "refused", 40)

SideEffects == {s \in toolSteps : s.ok /\ s.tool \in SIDE_EFFECT_TOOLS}

\* critic, and the edge that leaves it.
Critic ==
    /\ node = "critic"
    /\ \E other \in OtherPenalties :
        report' = [passed |-> Score(other) >= 80,
                   safe   |-> SideEffects = {},
                   unsafe |-> wf = "refused"]
    /\ touched' = IF SideEffects = {} THEN touched ELSE touched + 1
    /\ node' = IF report'.passed \/ attempts >= MaxCorrections THEN "end" ELSE "self_correction"
    /\ UNCHANGED <<ticket, diverts, gate, held, toolSteps, wf, attempts, status, executions,
                   operations>>

\* Faulty variant: the next attempt is not counted.
CorrectUncounted ==
    /\ node = "self_correction"
    /\ node' = IF report.safe /\ ~report.unsafe THEN "risk_gate" ELSE "end"
    /\ UNCHANGED <<ticket, diverts, gate, held, toolSteps, wf, attempts, report, status,
                   executions, touched, operations>>

\* Faulty variant: side effects do not block the next attempt.
CorrectUnsafely ==
    /\ node = "self_correction"
    /\ node' = IF ~report.unsafe THEN "risk_gate" ELSE "end"
    /\ attempts' = IF ~report.unsafe THEN attempts + 1 ELSE attempts
    /\ UNCHANGED <<ticket, diverts, gate, held, toolSteps, wf, report, status, executions,
                   touched, operations>>

\* self_correction: a score below 80 always yields an addition to the objective,
\* and the next pass reads the objective with the additions, which may name
\* tickets.  An update reads as one still.
Correct ==
    /\ node = "self_correction"
    /\ LET should_retry == report.safe /\ ~report.unsafe IN
        /\ node' = IF should_retry THEN "risk_gate" ELSE "end"
        /\ attempts' = IF should_retry THEN attempts + 1 ELSE attempts
        /\ diverts' \in (IF should_retry /\ diverts \in {"no", "query"}
                        THEN {"no"} \cup Commands ELSE {diverts})
    /\ UNCHANGED <<ticket, gate, held, toolSteps, wf, report, status, executions, touched,
                   operations>>

\* memory_write, finalize and _complete_run.
Finish ==
    /\ node = "end"
    /\ status \in {"running", "waiting_approval"}
    /\ status' = IF report.passed /\ wf = "cancelled" THEN "cancelled"
                 ELSE IF report.passed /\ wf # "failed" THEN "completed"
                 ELSE "failed"
    /\ UNCHANGED <<node, ticket, diverts, gate, held, toolSteps, wf, attempts, report,
                   executions, touched, operations>>

\* _fail_run: a node of the graph raised.
Fail ==
    /\ node \notin {"human_approval", "end"}
    /\ node' = "end"
    /\ status' = "failed"
    /\ UNCHANGED <<ticket, diverts, gate, held, toolSteps, wf, attempts, report, executions,
                   touched, operations>>

\* PATCH /api/tickets/{id}/ops, while the run is under way.
OperateTicket ==
    /\ operations < MaxOperations
    /\ operations' = operations + 1
    /\ ticket' \in Allowed[ticket]
    /\ UNCHANGED <<node, diverts, gate, held, toolSteps, wf, attempts, report, status,
                   executions, touched>>

Graph ==
    \/ EvaluateGate \/ EnterBranch \/ Refuse \/ ObeyCommand \/ Execute \/ AskApproval
    \/ UpdateTicket \/ LiftExecution \/ Critic \/ Correct \/ Finish \/ Fail

LoopNext == Graph \/ Deny \/ ApproveInVain \/ Approve \/ OperateTicket

LoopSpec == LoopInit /\ [][LoopNext]_loopVars

\* The graph runs in one thread of the server; humans act when they like.
FairSpec == LoopSpec /\ WF_loopVars(Graph)

-----------------------------------------------------------------------------
(* Properties.                                                             *)

\* "Stops the correction loop from running it a second time": whatever the
\* critic says of the passes, the run's tool is called at most once.
RunsOnce == executions <= 1

\* Replanning never repeats what already took effect: only the last pass of a
\* run can have changed the ticket or asked for an approval (safe_to_retry).
OnlyLastPassTouches ==
    /\ touched <= 1
    /\ touched = 1 => node \in {"end", "self_correction"}

\* A run reported as completed did what its last gate decision demanded: an
\* automatic action was executed, an approval was requested, and nothing ran
\* that the gate denied (the critic's penalties add up to a veto).  The gate has
\* no say in a last pass that read the objective as a ticket command: such a run
\* carried out the command.
CompletedAsDecided ==
    status = "completed" =>
        IF diverts \in Commands
        THEN Ran(CommandTool[diverts])
        ELSE /\ gate.decision = "auto_execute" => executions > 0
             /\ gate.decision = "require_approval" => Ran("request_approval")
             /\ gate.decision = "deny" => executions = 0

\* However the critic judges, the graph stops correcting: it ends, or waits for
\* a human.
Terminates == <>[](node = "human_approval" \/ status \notin {"running", "waiting_approval"})

\* The run keeps its types and its limit of attempts, and whatever the critic
\* says, no attempt follows one that took effect.
CorrectionIsSafe == TypeOK /\ OnlyLastPassTouches

=============================================================================
