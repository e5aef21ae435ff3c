----------------------------- MODULE AgentGraph -----------------------------
(***************************************************************************)
(* One run of the multi-agent graph (durable_executor), from the retrieval *)
(* of memories to the final summary: the supersteps of the graph, the      *)
(* tasks its nodes register, start and finish, the numbered checkpoints,   *)
(* and what the nodes hand to each other.                                  *)
(*                                                                         *)
(* Every value carries in "since" the earliest attempt that anything it    *)
(* was made from belongs to.  The workflow that tool_execution runs, the   *)
(* decision of the human and the critic's scores are open here: the other  *)
(* modules are about them.                                                 *)
(***************************************************************************)
EXTENDS RiskGate, Triage, Integers, Sequences, FiniteSetsExt, Functions

CONSTANTS
    Runs,           \* what runs are given: see RunTypes
    Suggestions     \* what a risk expert's model may answer

Findings == {"plain", "restart", "cache"}
RISK_ORDER == [low |-> 0, medium |-> 1, high |-> 2, critical |-> 3]
Risks == DOMAIN RISK_ORDER
Votes == [risk : Risks, approval : BOOLEAN]
Plans == [risk : Risks, approval : BOOLEAN, research : BOOLEAN, side_effect : BOOLEAN]
FailureCodes == {"approval_state_wrong", "failed_steps", "workflow_failed"}

\* it: the run is for an IT ticket; filed: the text the ticket was filed with, or
\* the run's own; plans: what the planner may make of the objective, which a
\* correction rewords; memory: findings of similar failed runs; known: what one
\* search may find; limit: corrections.
RunTypes ==
    [it : BOOLEAN, text : Texts, filed : Texts, threshold : Nat, ready : BOOLEAN,
     expert : BOOLEAN, plans : SUBSET Plans, memory : SUBSET FailureCodes,
     known : SUBSET SUBSET Findings, limit : 0..3,
     asset : (Environments \cup {Unreadable}) \X (Criticalities \cup {Unreadable})]

ASSUME GraphAssumption ==
    /\ Runs \subseteq RunTypes
    /\ Suggestions \subseteq [risk : Risks \cup {None}, approval : BOOLEAN]

VARIABLES
    run,            \* what this run is given
    at,             \* the nodes of the superstep and how far each has come
    attempt,        \* correction_attempts
    tasks,          \* multi_agent_tasks: their status by key and attempt
    checkpoints,    \* the numbers of agent_checkpoints, in order of insertion
    values,         \* the state the nodes hand on
    status          \* multi_agent_runs.status

graphVars == <<run, at, attempt, tasks, checkpoints, values, status>>

-----------------------------------------------------------------------------
(* The graph.                                                              *)

NodeTask ==
    [memory_retrieve |-> "memory.retrieve", it_triage |-> "it.triage",
     supervisor |-> "plan.supervisor", research_dispatch |-> None,
     research_bypass |-> None, enterprise_rag_research |-> "research.enterprise_rag",
     local_policy_research |-> "research.local_policy",
     evidence_synthesis |-> "research.synthesis", it_history |-> "it.history",
     it_resolution |-> "it.resolution", risk_dispatch |-> None,
     compliance_risk |-> "risk.compliance_vote",
     operational_risk |-> "risk.operational_vote", risk_consensus |-> "risk.consensus",
     risk_gate |-> None, tool_execution |-> "action.execute",
     human_approval |-> "approval.resume", critic |-> "quality.critic",
     self_correction |-> "quality.self_correction", memory_write |-> "memory.write",
     finalize |-> None]

Nodes == DOMAIN NodeTask
TaskKeys == {NodeTask[n] : n \in Nodes} \ {None}
ItNodes == {"it_triage", "it_history", "it_resolution", "risk_gate"}
Unrecorded == {"research_dispatch", "risk_dispatch", "compliance_risk", "operational_risk"}

\* In a run that is not about an IT ticket the IT nodes return at once.
Idle(n) == n \in ItNodes /\ ~run.it

\* Faulty variant: a corrected run goes back to the vote only.
RetryAtTheVote == {"risk_dispatch"}

Retry == {"supervisor"}

ToHuman == {"human_approval"}

\* Where the edges out of a node lead, given what the nodes have left.
Successors(n) ==
    CASE n = "memory_retrieve" -> {"it_triage"}
      [] n = "it_triage" -> {"supervisor"}
      [] n = "supervisor" -> IF run.it \/ values.plan.research
                             THEN {"research_dispatch"} ELSE {"research_bypass"}
      [] n = "research_dispatch" -> {"enterprise_rag_research", "local_policy_research"}
      [] n \in {"enterprise_rag_research", "local_policy_research"} -> {"evidence_synthesis"}
      [] n \in {"evidence_synthesis", "research_bypass"} -> {"it_history"}
      [] n = "it_history" -> {"it_resolution"}
      [] n = "it_resolution" -> {"risk_dispatch"}
      [] n = "risk_dispatch" -> {"compliance_risk", "operational_risk"}
      [] n \in {"compliance_risk", "operational_risk"} -> {"risk_consensus"}
      [] n = "risk_consensus" -> {"risk_gate"}
      [] n = "risk_gate" -> {"tool_execution"}
      [] n = "tool_execution" -> IF values.execution = "waiting_approval"
                                 THEN ToHuman ELSE {"critic"}
      [] n = "human_approval" -> {"critic"}
      [] n = "critic" -> IF values.passed \/ attempt >= run.limit
                         THEN {"memory_write"} ELSE {"self_correction"}
      [] n = "self_correction" -> IF values.retry THEN Retry ELSE {"memory_write"}
      [] n = "memory_write" -> {"finalize"}
      [] n = "finalize" -> {}

\* depends_on of the task graph the supervisor registers with its attempt.
RiskDependency(research) ==
    IF research THEN {"research.synthesis"} ELSE {"plan.supervisor"}

TaskGraph(plan) ==
    {<<"risk.compliance_vote", d>> : d \in RiskDependency(plan.research)}
    \cup {<<"risk.operational_vote", d>> : d \in RiskDependency(plan.research)}
    \cup {<<"risk.consensus", "risk.compliance_vote">>,
          <<"risk.consensus", "risk.operational_vote">>,
          <<"action.execute", "risk.consensus">>, <<"quality.critic", "action.execute">>,
          <<"memory.write", "quality.critic">>}
    \cup (IF ~plan.research THEN {}
          ELSE {<<"research.enterprise_rag", "plan.supervisor">>,
                <<"research.local_policy", "plan.supervisor">>,
                <<"research.synthesis", "research.enterprise_rag">>,
                <<"research.synthesis", "research.local_policy">>})

-----------------------------------------------------------------------------
(* What the agents make of what they are given.                            *)

Higher(a, b) == IF RISK_ORDER[a] >= RISK_ORDER[b] THEN a ELSE b

ComplianceVote(plan) ==
    [risk |-> plan.risk,
     approval |-> \/ plan.approval
                  \/ run.memory \cap {"approval_state_wrong", "workflow_failed"} # {}]

OperationalVote(plan, research) ==
    LET blind == plan.side_effect /\ research.searched /\ research.evidence = {}
        failedBefore == run.memory \cap {"failed_steps", "workflow_failed"} # {}
    IN [risk |-> IF blind \/ failedBefore THEN Higher(plan.risk, "medium") ELSE plan.risk,
        approval |-> plan.approval \/ blind \/ failedBefore]

\* Faulty variant: the expert's answer is the vote.
TakeSuggestion(vote, s) ==
    [risk |-> IF s.risk = None THEN vote.risk ELSE s.risk, approval |-> s.approval]

\* _apply_expert_risk_suggestion.
ApplySuggestion(vote, s) ==
    [risk |-> IF s.risk = None THEN vote.risk ELSE Higher(vote.risk, s.risk),
     approval |-> vote.approval \/ s.approval]

\* The vote as it is cast, whatever the model says if it is asked and answers.
Cast(vote) ==
    {vote} \cup {ApplySuggestion(vote, s) :
                    s \in IF run.expert /\ "success" \in Outcomes(run.ready)
                          THEN Suggestions ELSE {}}

Consensus(plan, votes) ==
    [risk |-> CHOOSE r \in {plan.risk} \cup {v.risk : v \in votes} :
                  \A v \in votes \cup {plan} : Higher(r, v.risk) = r,
     approval |-> plan.approval \/ \E v \in votes : v.approval]

\* The action named by the request, else by the incident, else by the evidence.
SelectAction(r, evidence) ==
    IF r.intent = "PERMISSION_REQUEST" THEN "permission_grant"
    ELSE IF r.intent \in {"ASSET_REQUEST", "SOFTWARE_REQUEST"} THEN "no_action"
    ELSE IF run.text.cue = "restart" THEN "service_restart"
    ELSE IF run.text.cue = "cache" THEN "cache_flush"
    ELSE IF r.environment = "production" /\ r.service \in CriticalCodes THEN "service_restart"
    ELSE IF "restart" \in evidence THEN "service_restart"
    ELSE IF "cache" \in evidence THEN "cache_flush"
    ELSE "diagnostic_read"

Proposal(r, evidence) ==
    [action |-> IF evidence = {} THEN "no_action" ELSE SelectAction(r, evidence),
     evidence |-> evidence]

\* Without formal knowledge nothing is proposed, whatever was done in the past.
Resolve(r, evidence, history) == Proposal(r, evidence)

\* What the gate is asked, given a reading of the request.
Handed(r, proposed) ==
    [action_type |-> proposed.action,
     asset_environment |-> run.asset[1], asset_criticality |-> run.asset[2],
     text_environment |-> r.environment, urgent |-> r.urgent,
     triage_needs_approval |-> r.needs_approval,
     evidence |-> proposed.evidence # {},
     missing_information |-> r.missing # {}]

-----------------------------------------------------------------------------
(* The life of a run.                                                      *)

Never == -1
Base == Classify(run.filed)

\* What was made, with the earliest attempt that anything it was made from has.
Dated(made, since) ==
    [f \in DOMAIN made \cup {"since"} |-> IF f = "since" THEN since ELSE made[f]]

NoVote == [since |-> Never, risk |-> "low", approval |-> FALSE]
NoEvidence == [since |-> Never, evidence |-> {}]

NoValues ==
    [reading |-> Base,
     plan |-> [since |-> Never, risk |-> "low", approval |-> FALSE,
               research |-> TRUE, side_effect |-> FALSE],
     enterprise |-> NoEvidence, local |-> NoEvidence,
     research |-> [since |-> Never, evidence |-> {}, searched |-> FALSE],
     history |-> NoEvidence,
     resolution |-> [since |-> Never, action |-> "no_action", evidence |-> {}],
     compliance |-> NoVote, operational |-> NoVote, consensus |-> NoVote,
     verdict |-> [since |-> Never, gate |-> NoGate],
     execution |-> "none", passed |-> FALSE, retry |-> FALSE]

Phase(p) == [phase |-> p, number |-> 0]
Entering(nodes) == [n \in nodes |-> Phase("due")]
In(n, p) == n \in DOMAIN at /\ at[n].phase = p
Move(n, p) == at' = [at EXCEPT ![n] = Phase(p)]

GraphInit ==
    /\ run \in Runs
    /\ at = Entering({"memory_retrieve"})
    /\ attempt = 0
    /\ tasks = [t \in TaskKeys \X (0..run.limit) |-> "absent"]
    /\ checkpoints = <<>>
    /\ values = NoValues
    /\ status = "running"

\* The memory is read and finally written under fixed attempts.
TaskOf(n) == <<NodeTask[n], IF n = "memory_retrieve" THEN 0 ELSE attempt>>

Begin(n) ==
    /\ In(n, "due")
    /\ NodeTask[n] # None /\ ~Idle(n) /\ n # "human_approval"
    /\ Move(n, "working")
    /\ tasks' = [tasks EXCEPT ![TaskOf(n)] = "running"]
    /\ UNCHANGED <<run, attempt, checkpoints, values, status>>

Pass(n) ==
    /\ In(n, "due")
    /\ Idle(n) \/ n \in {"research_dispatch", "risk_dispatch"}
    /\ Move(n, "done")
    /\ UNCHANGED <<run, attempt, tasks, checkpoints, values, status>>

\* Faulty variant: the error is raised before the task is finished.
FinishUnlessFailed(n, outcome) ==
    IF outcome = "failed" THEN tasks ELSE [tasks EXCEPT ![TaskOf(n)] = outcome]

Finish(n, outcome) == [tasks EXCEPT ![TaskOf(n)] = outcome]

\* _run_agent_message when the agent raises; the sibling still runs to its end.
Raise(n) ==
    /\ In(n, "working")
    /\ Move(n, "failed")
    /\ tasks' = Finish(n, "failed")
    /\ UNCHANGED <<run, attempt, checkpoints, values, status>>

\* The end of a node's work: its task is finished and its values are handed on.
Return(n, handed) ==
    /\ In(n, "working")
    /\ Move(n, IF n \in Unrecorded THEN "done" ELSE "returned")
    /\ values' = handed
    /\ tasks' = Finish(n, "completed")
    /\ UNCHANGED <<run, attempt, checkpoints, status>>

\* The same for a node without a task.
Leave(n, handed) ==
    /\ In(n, "due") /\ NodeTask[n] = None /\ ~Idle(n)
    /\ Move(n, "returned")
    /\ values' = handed
    /\ UNCHANGED <<run, attempt, tasks, checkpoints, status>>

-----------------------------------------------------------------------------
(* The nodes.                                                              *)

RetrieveMemories == Return("memory_retrieve", values)

\* The model is asked when the reading is unsure; what it says may be unusable.
ItTriage ==
    \/ Return("it_triage", values)
    \/ /\ In("it_triage", "working") /\ NeedsFallback(Base, run.threshold)
       /\ "success" \in Outcomes(run.ready)
       /\ \E answer \in Answers :
              Return("it_triage", [values EXCEPT !.reading = LlmFallback(Base, answer, run.text)])

Supervise ==
    /\ In("supervisor", "working")
    /\ Move("supervisor", "returned")
    /\ \E plan \in run.plans :
        /\ values' = [values EXCEPT !.plan = Dated(plan, attempt)]
        /\ LET registered == {edge[1] : edge \in TaskGraph(plan)} IN
           tasks' = [t \in DOMAIN tasks |->
                        IF t = TaskOf("supervisor") THEN "completed"
                        ELSE IF t[1] \in registered /\ t[2] = attempt /\ tasks[t] = "absent"
                        THEN "pending"
                        ELSE tasks[t]]
    /\ UNCHANGED <<run, attempt, checkpoints, status>>

BypassResearch ==
    Leave("research_bypass",
          [values EXCEPT !.research = [since |-> attempt, evidence |-> {}, searched |-> FALSE]])

SearchEnterprise ==
    \E found \in run.known :
        Return("enterprise_rag_research",
               [values EXCEPT !.enterprise = [since |-> attempt, evidence |-> found]])

SearchLocal ==
    \E found \in run.known :
        Return("local_policy_research",
               [values EXCEPT !.local = [since |-> attempt, evidence |-> found]])

Synthesise ==
    Return("evidence_synthesis",
           [values EXCEPT !.research =
               [since |-> Min({values.enterprise.since, values.local.since}),
                evidence |-> values.enterprise.evidence \cup values.local.evidence,
                searched |-> TRUE]])

SearchHistory ==
    \E found \in run.known :
        Return("it_history", [values EXCEPT !.history = [since |-> attempt, evidence |-> found]])

ProposeResolution ==
    Return("it_resolution",
           [values EXCEPT !.resolution =
               Dated(Resolve(values.reading, values.research.evidence, values.history.evidence),
                     Min({values.research.since, values.history.since}))])

VoteSince == Min({values.plan.since, values.research.since})

VoteOnCompliance ==
    /\ In("compliance_risk", "working")
    /\ \E vote \in Cast(ComplianceVote(values.plan)) :
        Return("compliance_risk", [values EXCEPT !.compliance = Dated(vote, VoteSince)])

VoteOnOperations ==
    /\ In("operational_risk", "working")
    /\ \E vote \in Cast(OperationalVote(values.plan, values.research)) :
        Return("operational_risk", [values EXCEPT !.operational = Dated(vote, VoteSince)])

ReachConsensus ==
    Return("risk_consensus",
           [values EXCEPT !.consensus =
               Dated(Consensus(values.plan, {values.compliance, values.operational}),
                     Min({values.plan.since, values.compliance.since,
                          values.operational.since}))])

ApplyGate ==
    Leave("risk_gate",
          [values EXCEPT !.verdict = [since |-> values.resolution.since,
                                      gate |-> Evaluate(Handed(values.reading, values.resolution))]])

ExecuteTools ==
    \E outcome \in {"completed", "waiting_approval", "failed"} :
        Return("tool_execution", [values EXCEPT !.execution = outcome])

\* interrupt: the graph is parked and the run waits.
AskHuman ==
    /\ In("human_approval", "due")
    /\ Move("human_approval", "asked")
    /\ status' = "waiting_approval"
    /\ UNCHANGED <<run, attempt, tasks, checkpoints, values>>

\* The node runs again from its start with the decided workflow; the status of
\* the run is left as it is.
Resume ==
    /\ In("human_approval", "asked")
    /\ Move("human_approval", "working")
    /\ tasks' = [tasks EXCEPT ![TaskOf("human_approval")] = "running"]
    /\ UNCHANGED <<run, attempt, checkpoints, values, status>>

SummariseDecision ==
    \E outcome \in {"completed", "cancelled", "failed"} :
        Return("human_approval", [values EXCEPT !.execution = outcome])

Criticise ==
    \E passed \in BOOLEAN : Return("critic", [values EXCEPT !.passed = passed])

NextAttempt(retry) == IF retry THEN attempt + 1 ELSE attempt

\* The task belongs to the attempt that is given up.
Correct ==
    /\ In("self_correction", "working")
    /\ Move("self_correction", "returned")
    /\ tasks' = Finish("self_correction", "completed")
    /\ \E retry \in BOOLEAN :
        /\ values' = [values EXCEPT !.retry = retry]
        /\ attempt' = NextAttempt(retry)
    /\ UNCHANGED <<run, checkpoints, status>>

WriteMemory == Return("memory_write", values)

Summarise == Leave("finalize", values)

-----------------------------------------------------------------------------
(* Checkpoints and supersteps.                                             *)

\* Faulty variant: a parallel branch numbers its checkpoint meanwhile.
LockOpen == TRUE

\* Faulty variant: the lock is not given back.
LockKept == \A n \in DOMAIN at : at[n].phase \notin {"numbered", "done"}

\* _checkpoint_lock.
LockFree == \A n \in DOMAIN at : at[n].phase # "numbered"

\* _record_checkpoint: the number is read, then the row inserted.
NumberCheckpoint(n) ==
    /\ In(n, "returned")
    /\ LockFree
    /\ at' = [at EXCEPT ![n] = [phase |-> "numbered",
                                number |-> Max({0} \cup Range(checkpoints)) + 1]]
    /\ UNCHANGED <<run, attempt, tasks, checkpoints, values, status>>

InsertCheckpoint(n) ==
    /\ In(n, "numbered")
    /\ checkpoints' = Append(checkpoints, at[n].number)
    /\ Move(n, "done")
    /\ UNCHANGED <<run, attempt, tasks, values, status>>

\* The next superstep: every node of this one has written its values.
Advance ==
    /\ DOMAIN at # {} /\ \A n \in DOMAIN at : In(n, "done")
    /\ "finalize" \notin DOMAIN at
    /\ at' = Entering(UNION {Successors(n) : n \in DOMAIN at})
    /\ UNCHANGED <<run, attempt, tasks, checkpoints, values, status>>

Complete ==
    /\ In("finalize", "done")
    /\ at' = Entering({})
    /\ status' = IF ~values.passed \/ values.execution = "failed" THEN "failed"
                 ELSE IF values.execution = "cancelled" THEN "cancelled"
                 ELSE "completed"
    /\ UNCHANGED <<run, attempt, tasks, checkpoints, values>>

\* _fail_run, when the nodes of the superstep have ended.
FailRun ==
    /\ \E n \in DOMAIN at : In(n, "failed")
    /\ \A n \in DOMAIN at : In(n, "done") \/ In(n, "failed")
    /\ at' = Entering({})
    /\ status' = "failed"
    /\ UNCHANGED <<run, attempt, tasks, checkpoints, values>>

NodeReturns ==
    \/ RetrieveMemories \/ ItTriage \/ Supervise \/ BypassResearch
    \/ SearchEnterprise \/ SearchLocal \/ Synthesise \/ SearchHistory \/ ProposeResolution
    \/ VoteOnCompliance \/ VoteOnOperations \/ ReachConsensus \/ ApplyGate
    \/ ExecuteTools \/ AskHuman \/ SummariseDecision
    \/ Criticise \/ Correct \/ WriteMemory \/ Summarise

Engine ==
    \/ NodeReturns
    \/ \E n \in DOMAIN at : Begin(n) \/ Pass(n) \/ NumberCheckpoint(n) \/ InsertCheckpoint(n)
    \/ Advance \/ Complete \/ FailRun

GraphNext == Engine \/ Resume \/ \E n \in DOMAIN at : Raise(n)

\* The process that drives the graph goes on; nobody has to decide or to fail.
GraphSpec == GraphInit /\ [][GraphNext]_graphVars /\ WF_graphVars(Engine)

-----------------------------------------------------------------------------
(* Properties.                                                             *)

Over == DOMAIN at = {}

\* The state has its type; the nodes of a superstep are one node or the two
\* branches of a fork, which is what the edges of _build_graph allow.
TypeOKGraph ==
    /\ run \in RunTypes /\ attempt \in 0..run.limit
    /\ DOMAIN at \subseteq Nodes
    /\ Cardinality(DOMAIN at) < 2
       \/ DOMAIN at \in {{"enterprise_rag_research", "local_policy_research"},
                         {"compliance_risk", "operational_risk"}}
    /\ \A n \in DOMAIN at :
           at[n].phase \in {"due", "working", "asked", "returned", "numbered", "done", "failed"}
    /\ \A t \in DOMAIN tasks :
           tasks[t] \in {"absent", "pending", "running", "completed", "failed"}
    /\ values.reading \in Readings /\ values.verdict.gate \in GateDecisions \cup {NoGate}
    /\ status \in {"running", "waiting_approval", "completed", "cancelled", "failed"}

\* The plan, the votes and the verdict that tools are executed under were all
\* made in the attempt that executes them: a correction never acts on the
\* evidence or the agreement of the pass it corrects.
ActsOnThisAttempt ==
    In("tool_execution", "working") =>
        /\ values.consensus.since = attempt
        /\ run.it => values.verdict.since = attempt

\* A task that the supervisor put into the graph of an attempt starts only when
\* everything it depends on has completed in that attempt.
DependenciesDone ==
    values.plan.since = attempt =>
        \A edge \in TaskGraph(values.plan) :
            tasks[<<edge[1], attempt>>] \in {"running", "completed", "failed"} =>
                tasks[<<edge[2], attempt>>] = "completed"

\* When the run is over no task is left running, a failed task has failed the
\* run, and a run that got to its end has done every task of its last attempt.
TasksSettle ==
    Over =>
        /\ \A t \in DOMAIN tasks : tasks[t] # "running"
        /\ (\E t \in DOMAIN tasks : tasks[t] = "failed") => status = "failed"
        /\ status \in {"completed", "cancelled"} =>
               \A t \in DOMAIN tasks : tasks[t] = "pending" =>
                   t[1] = "memory.write" /\ t[2] < attempt

\* agent_checkpoints of a run are numbered 1, 2, 3... in the order they are
\* inserted, parallel branches included: the trace is replayed by number.
CheckpointsCount == \A i \in DOMAIN checkpoints : checkpoints[i] = i

\* A model can raise the risk and ask for approval, never lower either: the
\* consensus is at least what the plan and both deterministic votes call for.
ModelOnlyEscalates ==
    In("risk_consensus", "done") =>
        \A vote \in {values.plan, ComplianceVote(values.plan),
                     OperationalVote(values.plan, values.research)} :
            /\ Higher(values.consensus.risk, vote.risk) = values.consensus.risk
            /\ vote.approval => values.consensus.approval

\* Whatever was done on similar tickets, nothing is runnable in an attempt whose
\* search of the formal knowledge found nothing.
PrecedentIsNoBasis ==
    In("risk_gate", "done") /\ run.it /\ values.verdict.gate.executable =>
        values.research.evidence # {} /\ values.research.since = attempt

\* The model's reading removes no human: where the keyword rules ask for
\* approval, or the gate would have asked a human to agree to an action, nothing
\* is changed unattended.
ReadingRemovesNoHuman ==
    In("risk_gate", "done") /\ run.it =>
        LET asked == Evaluate(Handed(Base, Resolve(Base, values.research.evidence, {})))
            action == values.resolution.action
        IN \/ Base.needs_approval \/ Base.urgent
           \/ asked.decision = "require_approval" /\ asked.executable
           => ~(/\ values.verdict.gate.decision = "auto_execute"
                /\ ACTION_CLASSES[action].side_effect)

\* A run ends or waits for a human: no path through the corrections is endless.
GraphEnds == <>[](Over \/ In("human_approval", "asked"))

\* Tools act on the plan, the votes, the verdict and the formal knowledge of
\* their own attempt, whatever earlier attempts and past tickets have left.
ActsOnOwnEvidence == ActsOnThisAttempt /\ PrecedentIsNoBasis

\* The supersteps are those of the graph, and its tasks start after what they
\* depend on and are settled when the run is over, failing nodes included.
TasksInOrder == TypeOKGraph /\ DependenciesDone /\ TasksSettle

=============================================================================
