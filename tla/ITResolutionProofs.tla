------------------------- MODULE ITResolutionProofs -------------------------
(***************************************************************************)
(* Theorems about ITResolution, for every number of requests, deciders,    *)
(* operators and crashes.                                                  *)
(*                                                                         *)
(* Everything rests on one inductive invariant, IndInv: the types, the     *)
(* labels each kind of handler can stand at, and what a handler's label    *)
(* says about the approval row of the run it works on.  What patient       *)
(* reviewers may rely on needs a second one on top of it, PatientInv: who  *)
(* is at work, and what that says about the graph of the run.              *)
(***************************************************************************)
EXTENDS ITResolution, TLAPS

RequestLabels ==
    {"idle", "move", "run", "graph", "ask", "park", "await", "detail", "pause",
     "execute", "finalize", "reject", "complete", "cancel", "critic", "done", "crashed"}

DeciderLabels ==
    {"idle", "approve", "reject", "complete", "cancel", "fail", "detail", "resume",
     "node", "sync", "checkpoint", "critic", "abort", "done", "crashed"}

OperatorLabels == {"idle", "ops", "done"}

\* Each kind of handler stays among its own labels, and holds a validated
\* UPDATE only where it is about to issue one.
LabelInv ==
    /\ \A r \in Requests : pc[r] \in RequestLabels
    /\ \A d \in Deciders : pc[d] \in DeciderLabels
    /\ \A o \in Operators : pc[o] \in OperatorLabels
    /\ \A p \in Procs : draft[p] # NoDraft => pc[p] \in UpdateSteps \cup {"ops"}

\* A decider that has started works on a run whose approval row exists.
ChoiceInv ==
    \A d \in Deciders : pc[d] # "idle" =>
        choice[d].run \in Requests /\ appr[choice[d].run] # "none"

\* A request that has not asked for approval has no approval row, and one that
\* has not run the gate has no decision and no execution.
BeforeAsking ==
    {"idle", "move", "run", "graph", "ask", "execute", "finalize", "reject",
     "complete", "cancel"}

RequestInv ==
    \A r \in Requests :
        /\ pc[r] \in BeforeAsking => appr[r] = "none"
        /\ pc[r] \in {"idle", "move", "run"} => gate[r] = NoGate /\ executions[r] = 0
        /\ pc[r] = "ask" => wf[r] = "running"

\* The branch a decider walks is the one of the verdict in the table.
VerdictInv ==
    \A d \in Deciders :
        /\ pc[d] \in {"approve", "complete", "fail"} => appr[choice[d].run] = "approved"
        /\ pc[d] \in {"reject", "cancel"} => appr[choice[d].run] = "denied"

TypeInv == TypeOK /\ LabelInv /\ ChoiceInv

\* What the type invariant leaves of the inductive invariant.
ProtocolInv ==
    RequestInv /\ VerdictInv /\ ExecutedOnlyIfAuthorised /\ OutcomeFollowsDecision

IndInv == TypeInv /\ ProtocolInv

USE DEF Procs, NoDraft

-----------------------------------------------------------------------------
(* Types, labels and choices.                                              *)

\* Before anything happened the tables and the handlers are of their types.
LEMMA TypeInit == Init => TypeInv
BY ProcessAssumption
   DEF Circumstances, Init, TypeInv, TypeOK, LabelInv, ChoiceInv, TicketStatuses, Gate,
       NoGate, GateDecisions,
       WorkflowStatuses, ApprovalStatuses, RunStatuses, ThreadPoints, Labels, Outcomes,
       RequestLabels, DeciderLabels, OperatorLabels, UpdateSteps, StepStatus

\* Every step of every handler keeps the types, the labels a handler of its kind
\* can be at, and the approval a decider was called with.
LEMMA TypeStep == TypeInv /\ [Next]_vars => TypeInv'
<1> SUFFICES ASSUME TypeInv, [Next]_vars PROVE TypeInv'
  OBVIOUS
<1> USE ProcessAssumption
    DEF TypeInv, TypeOK, LabelInv, ChoiceInv, tables, locals, vars, TicketStatuses, Gate,
        NoGate,
        GateDecisions, WorkflowStatuses, ApprovalStatuses, RunStatuses, ThreadPoints, Labels,
        Outcomes, RequestLabels, DeciderLabels, OperatorLabels, UpdateSteps, StepStatus, Goto,
            RunOf
<1>1. ASSUME NEW r \in Requests, Arrive(r) PROVE TypeInv'
  BY <1>1 DEF Arrive
<1>2. ASSUME NEW r \in Requests, StartRun(r) PROVE TypeInv'
  BY <1>2 DEF StartRun
<1>3. ASSUME NEW r \in Requests, EnterBranch(r) PROVE TypeInv'
  BY <1>3 DEF EnterBranch
<1>4. ASSUME NEW r \in Requests, DivertWorkflow(r) PROVE TypeInv'
  BY <1>4 DEF DivertWorkflow
<1>5. ASSUME NEW r \in Requests, CreateApproval(r) PROVE TypeInv'
  BY <1>5 DEF CreateApproval
<1>6. ASSUME NEW r \in Requests, FailApproval(r) PROVE TypeInv'
  BY <1>6 DEF FailApproval
<1>7. ASSUME NEW r \in Requests, AwaitApproval(r) PROVE TypeInv'
  BY <1>7 DEF AwaitApproval
<1>8. ASSUME NEW r \in Requests, PauseRun(r) PROVE TypeInv'
  BY <1>8 DEF PauseRun
<1>9. ASSUME NEW r \in Requests, ExecuteAction(r) PROVE TypeInv'
  BY <1>9 DEF ExecuteAction, RunAction, ExecuteResults
<1>10. ASSUME NEW p \in Procs, ReadTicket(p) PROVE TypeInv'
  BY <1>10 DEF ReadTicket, WantedStatus, LegalTransition
<1>11. ASSUME NEW p \in Procs, RefuseUpdate(p) PROVE TypeInv'
  BY <1>11 DEF RefuseUpdate, AfterRefusal
<1>12. ASSUME NEW p \in Procs, WriteTicket(p) PROVE TypeInv'
  BY <1>12 DEF WriteTicket, AfterWrite
<1>13. ASSUME NEW p \in (Requests \cup Deciders), FinishWorkflow(p) PROVE TypeInv'
  BY <1>13 DEF FinishWorkflow, FinishedStatus
<1>14. ASSUME NEW p \in (Requests \cup Deciders), ReadDetail(p) PROVE TypeInv'
  <2>1. RunOf(p) \in Requests
    BY <1>14 DEF ReadDetail
  <2>2. seen' \in [Procs -> WorkflowStatuses]
    BY <1>14, <2>1 DEF ReadDetail
  <2>3. thread' \in [Requests -> ThreadPoints]
    BY <1>14, <2>1 DEF ReadDetail
  <2>4. \E l \in {"pause", "critic", "done", "resume"} :
          /\ Goto(p, l)
          /\ p \in Requests => l \in {"pause", "critic"}
          /\ p \in Deciders => l \in {"done", "resume"}
    BY <1>14 DEF ReadDetail
  <2>5. UNCHANGED <<ticket, gate, wf, appr, ma, executions, draft, outcome, choice, crashes,
            setting>>
    BY <1>14 DEF ReadDetail
  <2>6. draft[p] = NoDraft /\ pc[p] # "idle"
    BY <1>14 DEF ReadDetail
  <2> QED
    BY <2>2, <2>3, <2>4, <2>5, <2>6
<1>15. ASSUME NEW p \in (Requests \cup Deciders), CompleteGraph(p) PROVE TypeInv'
  BY <1>15 DEF CompleteGraph, FinalStatus
<1>16. ASSUME NEW p \in (Requests \cup Deciders), FailGraph(p) PROVE TypeInv'
  BY <1>16 DEF FailGraph
<1>17. ASSUME NEW p \in (Requests \cup Deciders), Crash(p) PROVE TypeInv'
  BY <1>17 DEF Crash
<1>18. ASSUME NEW d \in Deciders, NEW r \in Requests, NEW approved \in BOOLEAN,
              Decide(d, r, approved)
       PROVE  TypeInv'
  <2>1. choice' \in [Deciders -> [run : Requests \cup {NoRun}, approved : BOOLEAN]]
    BY <1>18 DEF Decide
  <2>2. appr' \in [Requests -> ApprovalStatuses]
    <3>1. appr' = appr \/ \E v \in ApprovalStatuses : appr' = [appr EXCEPT ![r] = v]
      BY <1>18 DEF Decide
    <3>2. appr \in [Requests -> ApprovalStatuses]
      OBVIOUS
    <3> HIDE DEF TypeInv
    <3> QED
      BY <3>1, <3>2
  <2>3. \E l \in {"approve", "reject", "detail"} : Goto(d, l)
    BY <1>18 DEF Decide
  <2>4. LabelInv' /\ pc' \in [Procs -> Labels]
    BY <1>18, <2>3 DEF Decide
  <2>5. ChoiceInv'
    BY <1>18 DEF Decide
  <2> QED
    BY <1>18, <2>1, <2>2, <2>4, <2>5 DEF Decide
<1>19. ASSUME NEW d \in Deciders, Resume(d) PROVE TypeInv'
  BY <1>19 DEF Resume
<1>20. ASSUME NEW d \in Deciders, SkipAction(d) PROVE TypeInv'
  BY <1>20 DEF SkipAction
<1>21. ASSUME NEW d \in Deciders, RunApprovedAction(d) PROVE TypeInv'
  BY <1>21 DEF RunApprovedAction, RunAction, ExecuteResults
<1>22. ASSUME NEW d \in Deciders, CheckpointNode(d) PROVE TypeInv'
  BY <1>22 DEF CheckpointNode
<1>23. ASSUME NEW o \in Operators, OperateTicket(o) PROVE TypeInv'
  BY <1>23 DEF OperateTicket
<1>24. CASE UNCHANGED vars
  BY <1>24
<1> HIDE DEF TypeInv, vars
<1> QED
  BY <1>1, <1>2, <1>3, <1>4, <1>5, <1>6, <1>7, <1>8, <1>9, <1>10, <1>11, <1>12, <1>13,
     <1>14, <1>15, <1>16, <1>17, <1>18, <1>19, <1>20, <1>21, <1>22, <1>23, <1>24
     DEF Next, RequestStep, DeciderStep, UpdateTicket, DriveWorkflow

-----------------------------------------------------------------------------
(* The protocol invariant.                                                 *)

\* Before anything happened nothing was asked, decided or executed.
LEMMA ProtocolInit == Init => ProtocolInv
BY DEF Init, ProtocolInv, RequestInv, VerdictInv, BeforeAsking, ExecutedOnlyIfAuthorised,
       OutcomeFollowsDecision

\* Every step keeps the verdicts, executions and outcomes in agreement.
LEMMA ProtocolStep == TypeInv /\ TypeInv' /\ ProtocolInv /\ [Next]_vars => ProtocolInv'
<1> SUFFICES ASSUME TypeInv, TypeInv', ProtocolInv, [Next]_vars PROVE ProtocolInv'
  OBVIOUS
<1> USE ProcessAssumption
    DEF TypeInv, TypeOK, LabelInv, ChoiceInv, tables, locals, vars, Goto, RunOf,
        RequestLabels, DeciderLabels, OperatorLabels, UpdateSteps, StepStatus,
        ProtocolInv, RequestInv, VerdictInv, BeforeAsking,
        ExecutedOnlyIfAuthorised, Authorised, OutcomeFollowsDecision, Gate, NoGate,
            GateDecisions
<1>1. ASSUME NEW r \in Requests, Arrive(r) PROVE ProtocolInv'
  BY <1>1 DEF Arrive
<1>2. ASSUME NEW r \in Requests, StartRun(r) PROVE ProtocolInv'
  BY <1>2 DEF StartRun
<1>3. ASSUME NEW r \in Requests, EnterBranch(r) PROVE ProtocolInv'
  BY <1>3 DEF EnterBranch
<1>4. ASSUME NEW r \in Requests, DivertWorkflow(r) PROVE ProtocolInv'
  BY <1>4 DEF DivertWorkflow
<1>5. ASSUME NEW r \in Requests, CreateApproval(r) PROVE ProtocolInv'
  BY <1>5 DEF CreateApproval
<1>6. ASSUME NEW r \in Requests, FailApproval(r) PROVE ProtocolInv'
  BY <1>6 DEF FailApproval
<1>7. ASSUME NEW r \in Requests, AwaitApproval(r) PROVE ProtocolInv'
  BY <1>7 DEF AwaitApproval
<1>8. ASSUME NEW r \in Requests, PauseRun(r) PROVE ProtocolInv'
  BY <1>8 DEF PauseRun
<1>9. ASSUME NEW r \in Requests, ExecuteAction(r) PROVE ProtocolInv'
  BY <1>9 DEF ExecuteAction, RunAction, ExecuteResults
<1>10. ASSUME NEW p \in Procs, ReadTicket(p) PROVE ProtocolInv'
  BY <1>10 DEF ReadTicket
<1>11. ASSUME NEW p \in Procs, RefuseUpdate(p) PROVE ProtocolInv'
  BY <1>11, SMTT(30) DEF RefuseUpdate, AfterRefusal
<1>12. ASSUME NEW p \in Procs, WriteTicket(p) PROVE ProtocolInv'
  BY <1>12, SMTT(30) DEF WriteTicket, AfterWrite
<1>13. ASSUME NEW p \in (Requests \cup Deciders), FinishWorkflow(p) PROVE ProtocolInv'
  BY <1>13 DEF FinishWorkflow, FinishedStatus
<1>14. ASSUME NEW p \in (Requests \cup Deciders), ReadDetail(p) PROVE ProtocolInv'
  BY <1>14 DEF ReadDetail
<1>15. ASSUME NEW p \in (Requests \cup Deciders), CompleteGraph(p) PROVE ProtocolInv'
  BY <1>15 DEF CompleteGraph
<1>16. ASSUME NEW p \in (Requests \cup Deciders), FailGraph(p) PROVE ProtocolInv'
  BY <1>16 DEF FailGraph
<1>17. ASSUME NEW p \in (Requests \cup Deciders), Crash(p) PROVE ProtocolInv'
  BY <1>17 DEF Crash
<1>18. ASSUME NEW d \in Deciders, NEW r \in Requests, NEW approved \in BOOLEAN,
              Decide(d, r, approved)
       PROVE  ProtocolInv'
  <2>1. /\ appr[r] # "none" /\ appr'[r] # "none"
        /\ appr[r] # "pending" => appr' = appr
        /\ \A s \in Requests : s # r => appr'[s] = appr[s]
        /\ UNCHANGED <<gate, wf, executions>>
    BY <1>18 DEF Decide
  <2>2. /\ choice'[d].run = r
        /\ pc'[d] \in {"approve", "reject", "detail"}
        /\ pc'[d] = "approve" => appr'[r] = "approved"
        /\ pc'[d] = "reject" => appr'[r] = "denied"
        /\ \A p \in Procs \ {d} : pc'[p] = pc[p]
        /\ \A e \in Deciders \ {d} : choice'[e] = choice[e]
    BY <1>18 DEF Decide
  <2>3. RequestInv'
    BY <2>1, <2>2
  <2>4. VerdictInv'
    BY <2>1, <2>2
  <2>5. ExecutedOnlyIfAuthorised'
    BY <2>1
  <2>6. OutcomeFollowsDecision'
    BY <2>1
  <2> QED
    BY <2>3, <2>4, <2>5, <2>6
<1>19. ASSUME NEW d \in Deciders, Resume(d) PROVE ProtocolInv'
  BY <1>19 DEF Resume
<1>20. ASSUME NEW d \in Deciders, SkipAction(d) PROVE ProtocolInv'
  BY <1>20 DEF SkipAction
<1>21. ASSUME NEW d \in Deciders, RunApprovedAction(d) PROVE ProtocolInv'
  BY <1>21 DEF RunApprovedAction, RunAction, ExecuteResults
<1>22. ASSUME NEW d \in Deciders, CheckpointNode(d) PROVE ProtocolInv'
  BY <1>22 DEF CheckpointNode
<1>23. ASSUME NEW o \in Operators, OperateTicket(o) PROVE ProtocolInv'
  BY <1>23 DEF OperateTicket
<1>24. CASE UNCHANGED vars
  BY <1>24
<1> HIDE DEF TypeInv, ProtocolInv, vars
<1> QED
  BY <1>1, <1>2, <1>3, <1>4, <1>5, <1>6, <1>7, <1>8, <1>9, <1>10, <1>11, <1>12, <1>13,
     <1>14, <1>15, <1>16, <1>17, <1>18, <1>19, <1>20, <1>21, <1>22, <1>23, <1>24
     DEF Next, RequestStep, DeciderStep, UpdateTicket, DriveWorkflow

\* The inductive invariant holds of every reachable state.
THEOREM Invariance == Spec => []IndInv
<1>1. Init => IndInv
  BY TypeInit, ProtocolInit DEF IndInv
<1>2. IndInv /\ [Next]_vars => IndInv'
  BY TypeStep, ProtocolStep DEF IndInv
<1> QED
  BY <1>1, <1>2, PTL DEF Spec

-----------------------------------------------------------------------------
(* The results.                                                            *)

\* Every table and every handler keeps its type.
THEOREM TypeCorrect == Spec => []TypeOK
<1>1. IndInv => TypeOK
  BY DEF IndInv, TypeInv
<1> QED
  BY <1>1, Invariance, PTL

\* However many requests, reviewers and operators act on the ticket and wherever
\* they crash, no tool runs that the gate and the human verdict do not allow.
THEOREM OnlyAuthorisedExecutions == Spec => []ExecutedOnlyIfAuthorised
<1>1. IndInv => ExecutedOnlyIfAuthorised
  BY DEF IndInv, ProtocolInv
<1> QED
  BY <1>1, Invariance, PTL

\* A workflow run that asked for approval ends as its reviewer decided, although
\* its two handlers write its status without looking at it.
THEOREM OutcomesFollowDecisions == Spec => []OutcomeFollowsDecision
<1>1. IndInv => OutcomeFollowsDecision
  BY DEF IndInv, ProtocolInv
<1> QED
  BY <1>1, Invariance, PTL

-----------------------------------------------------------------------------
(* What a step may do to the tables the authority of a run is read from.   *)

JudgeStep(r) ==
    /\ gate[r] = NoGate /\ appr[r] = "none"
    /\ \E g \in GateDecisions : gate' = [gate EXCEPT ![r] = g]
    /\ UNCHANGED <<appr, executions>>

AskStep(r) ==
    /\ appr[r] = "none"
    /\ appr' = [appr EXCEPT ![r] = "pending"]
    /\ UNCHANGED <<gate, executions>>

RuleStep(r) ==
    /\ appr[r] = "pending"
    /\ \E v \in Decided : appr' = [appr EXCEPT ![r] = v]
    /\ UNCHANGED <<gate, executions>>

PerformStep(r) ==
    /\ Authorised(r)
    /\ executions' = [executions EXCEPT ![r] = @ + 1]
    /\ UNCHANGED <<gate, appr>>

\* A step judges one run, asks for, rules on or performs one action, or leaves
\* all three tables alone.
LEMMA AuthoritySteps ==
    ASSUME IndInv, [Next]_vars
    PROVE  \/ UNCHANGED <<gate, appr, executions>>
           \/ \E r \in Requests : JudgeStep(r) \/ AskStep(r) \/ RuleStep(r) \/ PerformStep(r)
<1> DEFINE Quiet == UNCHANGED <<gate, appr, executions>>
<1>1. ASSUME NEW r \in Requests, StartRun(r) PROVE JudgeStep(r)
  BY <1>1 DEF StartRun, JudgeStep, IndInv, ProtocolInv, RequestInv, BeforeAsking
<1>2. ASSUME NEW r \in Requests, CreateApproval(r) PROVE AskStep(r)
  BY <1>2 DEF CreateApproval, AskStep, IndInv, ProtocolInv, RequestInv, BeforeAsking
<1>3. ASSUME NEW d \in Deciders, NEW r \in Requests, NEW approved \in BOOLEAN,
             Decide(d, r, approved)
      PROVE  RuleStep(r) \/ Quiet
  BY <1>3 DEF Decide, RuleStep, Decided
<1>4. ASSUME NEW p \in Procs, NEW r \in Requests, NEW approved \in BOOLEAN,
             NEW yes, NEW no, RunAction(p, r, approved, yes, no),
             approved => appr[r] = "approved", UNCHANGED <<gate, appr>>
      PROVE  PerformStep(r) \/ Quiet
  <2>1. PICK result \in ExecuteResults(gate[r], approved) :
          executions' = [executions EXCEPT ![r] = IF result = "executed" THEN @ + 1 ELSE @]
    BY <1>4 DEF RunAction
  <2>2. CASE result = "executed"
    <3>1. gate[r] \in GateDecisions \cup {NoGate}
      BY DEF IndInv, TypeInv, TypeOK
    <3>2. Authorised(r)
      BY <1>4, <2>1, <2>2, <3>1 DEF ExecuteResults, Authorised, GateDecisions, Gate, NoGate
    <3> QED
      BY <1>4, <2>1, <2>2, <3>2 DEF PerformStep
  <2>3. CASE result # "executed"
    BY <1>4, <2>1, <2>3 DEF IndInv, TypeInv, TypeOK
  <2> QED
    BY <2>2, <2>3
<1>5. ASSUME NEW r \in Requests, ExecuteAction(r) PROVE PerformStep(r) \/ Quiet
  BY <1>4, <1>5 DEF ExecuteAction
<1>6. ASSUME NEW d \in Deciders, RunApprovedAction(d)
      PROVE  \E r \in Requests : PerformStep(r) \/ Quiet
  <2>1. choice[d].run \in Requests
    BY <1>6 DEF RunApprovedAction, IndInv, TypeInv, ChoiceInv
  <2> QED
    BY <1>4, <1>6, <2>1 DEF RunApprovedAction
<1>7. ASSUME NEW r \in Requests,
             \/ Arrive(r) \/ EnterBranch(r) \/ DivertWorkflow(r)
             \/ FailApproval(r) \/ AwaitApproval(r) \/ PauseRun(r)
      PROVE  Quiet
  BY <1>7 DEF Arrive, EnterBranch, DivertWorkflow, FailApproval, AwaitApproval, PauseRun, tables
<1>8. ASSUME NEW p, UpdateTicket(p) \/ DriveWorkflow(p) \/ Crash(p) PROVE Quiet
  BY <1>8 DEF UpdateTicket, ReadTicket, RefuseUpdate, WriteTicket, DriveWorkflow,
     FinishWorkflow,
              ReadDetail, CompleteGraph, FailGraph, Crash, tables
<1>9. ASSUME NEW d, Resume(d) \/ SkipAction(d) \/ CheckpointNode(d) PROVE Quiet
  BY <1>9 DEF Resume, SkipAction, CheckpointNode, tables
<1>10. ASSUME NEW o, OperateTicket(o) PROVE Quiet
  BY <1>10 DEF OperateTicket, tables
<1>11. ASSUME UNCHANGED vars PROVE Quiet
  BY <1>11 DEF vars, tables
<1> HIDE DEF Quiet
<1> QED
  <2> DEFINE Step == \E r \in Requests : JudgeStep(r) \/ AskStep(r) \/ RuleStep(r)
          \/ PerformStep(r)
  <2>1. ASSUME NEW r \in Requests, Arrive(r) \/ RequestStep(r) \/ Crash(r) PROVE Quiet \/ Step
    BY <2>1, <1>1, <1>2, <1>5, <1>7, <1>8 DEF RequestStep
  <2>2. ASSUME NEW d \in Deciders, NEW r \in Requests, NEW approved \in BOOLEAN,
               Decide(d, r, approved)
        PROVE  Quiet \/ Step
    BY <2>2, <1>3
  <2>3. ASSUME NEW d \in Deciders, DeciderStep(d) \/ Crash(d) PROVE Quiet \/ Step
    BY <2>3, <1>6, <1>8, <1>9 DEF DeciderStep
  <2>4. ASSUME NEW o \in Operators, OperateTicket(o) \/ UpdateTicket(o) PROVE Quiet \/ Step
    BY <2>4, <1>8, <1>10
  <2>5. Quiet \/ Step
    <3> HIDE DEF Step
    <3> QED
      BY <2>1, <2>2, <2>3, <2>4, <1>11 DEF Next
  <2> QED
    BY <2>5 DEF Quiet

\* A verdict is final, for any number of deciders of the same approval.
THEOREM DecisionsAreFinal == Spec => DecisionIsFinal
<1>1. IndInv /\ [Next]_vars
          => [\A r \in Requests : appr[r] \in Decided => appr'[r] = appr[r]]_vars
  BY AuthoritySteps
     DEF IndInv, TypeInv, TypeOK, JudgeStep, AskStep, RuleStep, PerformStep, Decided
<1> QED
  BY <1>1, Invariance, PTL DEF Spec, DecisionIsFinal

\* The protocol of requests, deciders and operators implements ActionGate: its
\* tables never show a run judged twice, a ruling taken back, or a tool run
\* that rests on neither.
THEOREM ProtocolImplementsPromise == Spec => ImplementsPromise
<1>1. Init => Promise!Init
  BY DEF Init, Promise!Init, Authority
<1>2. ASSUME IndInv, [Next]_vars PROVE [Promise!Next]_<<Authority, executions>>
  <2> USE DEF Authority, Gate, NoGate, GateDecisions
  <2>0. appr \in [Requests -> ApprovalStatuses]
            /\ gate \in [Requests -> GateDecisions \cup {NoGate}]
    BY <1>2 DEF IndInv, TypeInv, TypeOK
  <2>1. CASE UNCHANGED <<gate, appr, executions>>
    BY <2>1
  <2>2. ASSUME NEW r \in Requests, JudgeStep(r)
        PROVE  \E v \in Promise!Authorities : Promise!Judge(r, v)
    <3>1. Authority[r] = "unjudged"
      BY <2>0, <2>2 DEF JudgeStep
    <3>2. Authority'[r] \in {"cleared", "refused", "asked"}
      BY <2>0, <2>2 DEF JudgeStep
    <3>3. Authority' = [Authority EXCEPT ![r] = Authority'[r]]
      BY <2>0, <2>2 DEF JudgeStep
    <3>4. UNCHANGED executions
      BY <2>2 DEF JudgeStep
    <3> HIDE DEF Authority
    <3> QED
      BY <3>1, <3>2, <3>3, <3>4 DEF Promise!Judge, Promise!Authorities
  <2>3. ASSUME NEW r \in Requests, AskStep(r) PROVE UNCHANGED <<Authority, executions>>
    BY <2>0, <2>3 DEF AskStep, ApprovalStatuses
  <2>4. ASSUME NEW r \in Requests, RuleStep(r)
        PROVE  \/ UNCHANGED <<Authority, executions>>
               \/ \E v \in Promise!Authorities : Promise!Rule(r, v)
    BY <2>0, <2>4 DEF RuleStep, Decided, ApprovalStatuses, Promise!Rule, Promise!Authorities
  <2>5. ASSUME NEW r \in Requests, PerformStep(r) PROVE Promise!Perform(r)
    BY <2>0, <2>5 DEF PerformStep, Authorised, Promise!Perform
  <2> HIDE DEF Authority
  <2> QED
    BY <1>2, <2>1, <2>2, <2>3, <2>4, <2>5, AuthoritySteps DEF Promise!Next
<1> QED
  BY <1>1, <1>2, Invariance, PTL DEF Spec, ImplementsPromise, Promise!Spec

\* The gate and the human are obeyed, in one statement.
THEOREM DecisionsObeyed == Spec => []DecisionsAreObeyed
  BY TypeCorrect, OnlyAuthorisedExecutions, OutcomesFollowDecisions, PTL DEF DecisionsAreObeyed

-----------------------------------------------------------------------------
(* Patient reviewers.  A run is executed twice, or left parked, only if two *)
(* handlers work on it at once; the invariant is that patient ones do not,  *)
(* and what the one at work has still to do.                                *)

AtWork ==
    {"graph", "ask", "park", "await", "detail", "pause", "execute", "finalize", "reject",
     "complete", "cancel", "critic"}

Resuming == {"sync", "checkpoint", "critic", "abort"}

Engaged(d) == pc[d] \notin {"idle", "done"}

\* One decider is at work at a time, on a run whose graph has stopped, and nobody else
\* touches the ticket.
TurnTaking ==
    /\ \A p \in Procs : pc[p] # "crashed"
    /\ \A o \in Operators : pc[o] = "idle"
    /\ \A d, e \in Deciders : Engaged(d) /\ Engaged(e) => d = e
    /\ \A d \in Deciders : Engaged(d) => ma[choice[d].run] \notin {"none", "running"}

\* A graph is running exactly while its request works, and nobody has decided then.
NobodyHurries ==
    \A r \in Requests :
        /\ pc[r] \in {"idle", "move", "run"} => ma[r] = "none"
        /\ pc[r] \in AtWork => ma[r] = "running"
        /\ ma[r] = "none" => appr[r] = "none"
        /\ ma[r] = "running" => appr[r] \notin Decided

\* A run that asked for approval and was executed has ended, or is being resumed.
OneResumption ==
    /\ \A d \in Deciders :
        pc[d] \in Resuming \cup {"node"} => ma[choice[d].run] = "waiting_approval"
    /\ \A r \in Requests :
        /\ executions[r] <= 1
        /\ pc[r] \in {"idle", "move", "run", "graph", "ask", "execute"} => executions[r] = 0
        /\ executions[r] > 0 /\ appr[r] # "none" =>
            \/ ma[r] \in Settled
            \/ \E d \in Deciders : choice[d].run = r /\ pc[d] \in Resuming

\* Whoever will write that the ticket is resolved has seen a tool run.
MayResolve(p) ==
    \/ draft[p] = "resolved"
    \/ pc[p] = "finalize"
    \/ pc[p] = "sync" /\ outcome[p] = "executed"

Earned ==
    ticket = "resolved" \/ (\E p \in Procs : MayResolve(p)) =>
        \E r \in Requests : executions[r] > 0

\* A decided run that is parked has a decider at work who will not take it for
\* undecided.
Attended ==
    /\ \A r \in Requests : ma[r] = "waiting_approval" /\ appr[r] \in Decided =>
        \E d \in Deciders : choice[d].run = r /\ Engaged(d)
    /\ \A d \in Deciders : pc[d] = "detail" /\ ma[choice[d].run] = "waiting_approval" =>
        wf[choice[d].run] # "waiting_approval"

Waiting == TurnTaking /\ NobodyHurries /\ OneResumption /\ Earned /\ Attended

PatientInv == Patient => Waiting

\* Before anything happened nobody is at work and nothing is resolved.
LEMMA PatienceInit == Init => PatientInv
BY ProcessAssumption
   DEF Init, PatientInv, Waiting, TurnTaking, NobodyHurries, OneResumption, Earned,
       MayResolve, Attended,
       Engaged, AtWork, Resuming, Decided

\* Every step of patient handlers keeps them out of each other's way.
LEMMA PatienceStep ==
    TypeInv /\ TypeInv' /\ ProtocolInv /\ PatientInv /\ [Next]_vars => PatientInv'
<1> SUFFICES ASSUME TypeInv, TypeInv', ProtocolInv, PatientInv, [Next]_vars, Patient'
             PROVE  Waiting'
  BY DEF PatientInv
<1>s. UNCHANGED setting
  BY DEF Next, Arrive, RequestStep, DeciderStep, UpdateTicket, DriveWorkflow, Crash, Decide,
         OperateTicket, ReadTicket, RefuseUpdate, WriteTicket, FinishWorkflow, ReadDetail,
         CompleteGraph, FailGraph, StartRun, EnterBranch, DivertWorkflow, CreateApproval,
         FailApproval, AwaitApproval, PauseRun, ExecuteAction, Resume, SkipAction,
         RunApprovedAction, CheckpointNode, vars
<1>p. Patient /\ TurnTaking /\ NobodyHurries /\ OneResumption /\ Earned /\ Attended
  BY <1>s DEF Patient, PatientInv, Waiting
<1> USE ProcessAssumption, <1>p
    DEF TypeInv, TypeOK, LabelInv, ChoiceInv, tables, locals, vars, Goto, RunOf,
        RequestLabels, DeciderLabels, UpdateSteps, StepStatus,
        ProtocolInv, RequestInv, BeforeAsking, Decided, Settled, Engaged, AtWork, Resuming,
            MayResolve,
        TurnTaking, NobodyHurries, OneResumption, Earned, Attended
<1>1. ASSUME NEW r \in Requests, Arrive(r) PROVE Waiting'
  BY <1>1 DEF Arrive, Waiting
<1>2. ASSUME NEW r \in Requests, StartRun(r) PROVE Waiting'
  BY <1>2 DEF StartRun, Waiting
<1>3. ASSUME NEW r \in Requests, EnterBranch(r) PROVE Waiting'
  BY <1>3 DEF EnterBranch, Waiting
<1>4. ASSUME NEW r \in Requests, DivertWorkflow(r) PROVE Waiting'
  BY <1>4 DEF DivertWorkflow, Waiting
<1>5. ASSUME NEW r \in Requests, CreateApproval(r) PROVE Waiting'
  BY <1>5 DEF CreateApproval, Waiting
<1>6. ASSUME NEW r \in Requests, FailApproval(r) PROVE Waiting'
  BY <1>6 DEF FailApproval, Waiting
<1>7. ASSUME NEW r \in Requests, AwaitApproval(r) PROVE Waiting'
  BY <1>7 DEF AwaitApproval, Waiting
<1>8. ASSUME NEW r \in Requests, PauseRun(r) PROVE Waiting'
  BY <1>8 DEF PauseRun, Waiting
<1>9. ASSUME NEW r \in Requests, ExecuteAction(r) PROVE Waiting'
  BY <1>9 DEF ExecuteAction, RunAction, ExecuteResults, Waiting
<1>10. ASSUME NEW p \in Procs, ReadTicket(p) PROVE Waiting'
  BY <1>10 DEF ReadTicket, WantedStatus, Waiting
<1>11. ASSUME NEW p \in Procs, RefuseUpdate(p) PROVE Waiting'
  BY <1>11 DEF RefuseUpdate, AfterRefusal, Waiting
<1>12. ASSUME NEW p \in Procs, WriteTicket(p) PROVE Waiting'
  <2>1. /\ draft[p] # NoDraft /\ ticket' = draft[p]
        /\ draft' = [draft EXCEPT ![p] = NoDraft]
        /\ pc' = [pc EXCEPT ![p] = AfterWrite[pc[p]]]
        /\ UNCHANGED <<gate, wf, appr, ma, executions, outcome, choice, setting>>
    BY <1>12 DEF WriteTicket
  <2>2. TurnTaking'
    BY <2>1 DEF AfterWrite
  <2>3. NobodyHurries'
    BY <2>1 DEF AfterWrite
  <2>4. OneResumption'
    BY <2>1 DEF AfterWrite
  <2>5. Earned'
    <3>1. MayResolve(p) \/ ticket' # "resolved"
      BY <2>1
    <3>2. AfterWrite[pc[p]] \notin {"finalize", "sync"}
      BY <1>12 DEF WriteTicket, AfterWrite
    <3>3. \A q \in Procs : MayResolve(q)' => MayResolve(q)
      BY <2>1, <3>2
    <3> QED
      BY <2>1, <3>1, <3>3
  <2>6. Attended'
    BY <2>1 DEF AfterWrite
  <2> QED
    BY <2>2, <2>3, <2>4, <2>5, <2>6 DEF Waiting
<1>13. ASSUME NEW p \in (Requests \cup Deciders), FinishWorkflow(p) PROVE Waiting'
  BY <1>13 DEF FinishWorkflow, FinishedStatus, Waiting
<1>14. ASSUME NEW p \in (Requests \cup Deciders), ReadDetail(p) PROVE Waiting'
  <2> DEFINE run == IF p \in Requests THEN p ELSE choice[p].run
  <2>1. /\ UNCHANGED <<ticket, gate, wf, appr, ma, executions, draft, outcome, choice, setting>>
        /\ pc[p] = "detail"
        /\ \A q \in Procs \ {p} : pc'[q] = pc[q]
        /\ p \in Requests => pc'[p] \in {"pause", "critic"}
        /\ p \in Deciders => pc'[p] = IF wf[run] = "waiting_approval" THEN "done" ELSE "resume"
    BY <1>14 DEF ReadDetail
  <2>2. p \in Deciders => choice[p].run \in Requests
    BY <2>1
  <2>3. TurnTaking'
    BY <2>1
  <2>4. NobodyHurries'
    BY <2>1
  <2>5. OneResumption'
    BY <2>1
  <2>6. Earned'
    BY <2>1
  <2>7. Attended'
    BY <2>1, <2>2
  <2> QED
    BY <2>3, <2>4, <2>5, <2>6, <2>7 DEF Waiting
<1>15. ASSUME NEW p \in (Requests \cup Deciders), CompleteGraph(p) PROVE Waiting'
  BY <1>15 DEF CompleteGraph, FinalStatus, Waiting
<1>16. ASSUME NEW p \in (Requests \cup Deciders), FailGraph(p) PROVE Waiting'
  BY <1>16 DEF FailGraph, Waiting
<1>17. ASSUME NEW p \in (Requests \cup Deciders), Crash(p) PROVE Waiting'
  BY <1>17 DEF Crash, Patient, Waiting
<1>18. ASSUME NEW d \in Deciders, NEW r \in Requests, NEW approved \in BOOLEAN,
              Decide(d, r, approved)
       PROVE  Waiting'
  <2>1. /\ pc[d] = "idle" /\ appr[r] # "none" /\ ma[r] # "running"
        /\ \A e \in Deciders : pc[e] \in {"idle", "done"}
        /\ UNCHANGED <<ticket, gate, wf, ma, executions, draft, outcome>>
    BY <1>18 DEF Decide, MayDecide, Patient
  <2>2. /\ choice'[d].run = r
        /\ pc'[d] \in {"approve", "reject", "detail"}
        /\ pc'[d] = "detail" => appr[r] \in Decided
        /\ \A p \in Procs \ {d} : pc'[p] = pc[p]
        /\ \A e \in Deciders \ {d} : choice'[e] = choice[e]
    BY <1>18 DEF Decide, ApprovalStatuses
  <2>3. \A s \in Requests : s # r => appr'[s] = appr[s]
    BY <1>18 DEF Decide
  <2>a. \A e \in Deciders : e # d => pc'[e] \in {"idle", "done"}
    BY <2>1, <2>2
  <2>b. ma[r] \notin {"none", "running"}
    BY <2>1
  <2>4. TurnTaking'
    <3>1. \A p \in Procs : pc'[p] # "crashed"
      BY <2>2
    <3>2. \A o \in Operators : pc'[o] = "idle"
      BY <2>2
    <3>3. \A e, f \in Deciders :
            pc'[e] \notin {"idle", "done"} /\ pc'[f] \notin {"idle", "done"} => e = f
      BY <2>a
    <3>4. \A e \in Deciders :
            pc'[e] \notin {"idle", "done"} => ma'[choice'[e].run] \notin {"none", "running"}
      BY <2>1, <2>2, <2>a, <2>b
    <3> QED
      BY <3>1, <3>2, <3>3, <3>4
  <2>5. NobodyHurries'
    BY <2>1, <2>2, <2>3
  <2>6. OneResumption'
    <3>1. \A e \in Deciders : pc'[e] \notin {"node", "sync", "checkpoint", "critic", "abort"}
      BY <2>2, <2>a
    <3>2. \A s \in Requests : executions[s] > 0 /\ appr'[s] # "none" => ma[s] \in Settled
      <4>1. \A e \in Deciders : pc[e] \notin {"sync", "checkpoint", "critic", "abort"}
        BY <2>1
      <4>2. \A s \in Requests : executions[s] > 0 /\ appr[s] # "none" => ma[s] \in Settled
        BY <4>1
      <4> QED
        BY <2>1, <2>3, <4>2
    <3>3. \A s \in Requests : pc'[s] = pc[s]
      BY <2>2
    <3> QED
      BY <2>1, <3>1, <3>2, <3>3
  <2>7. Earned'
    BY <2>1, <2>2
  <2>8. Attended'
    <3>1. pc'[d] = "detail" => ma[r] # "waiting_approval"
      BY <2>1, <2>2
    <3>2. \A s \in Requests : s # r => ~(ma[s] = "waiting_approval" /\ appr'[s] \in Decided)
      BY <2>1, <2>3
    <3> QED
      BY <2>1, <2>2, <2>a, <3>1, <3>2
  <2> QED
    BY <2>4, <2>5, <2>6, <2>7, <2>8 DEF Waiting
<1>19. ASSUME NEW d \in Deciders, Resume(d) PROVE Waiting'
  BY <1>19 DEF Resume, Waiting
<1>20. ASSUME NEW d \in Deciders, SkipAction(d) PROVE Waiting'
  BY <1>20 DEF SkipAction, Waiting
<1>21. ASSUME NEW d \in Deciders, RunApprovedAction(d) PROVE Waiting'
  BY <1>21 DEF RunApprovedAction, RunAction, ExecuteResults, Waiting
<1>22. ASSUME NEW d \in Deciders, CheckpointNode(d) PROVE Waiting'
  BY <1>22 DEF CheckpointNode, Waiting
<1>23. ASSUME NEW o \in Operators, OperateTicket(o) PROVE Waiting'
  BY <1>23 DEF OperateTicket, Patient, Waiting
<1>24. ASSUME UNCHANGED vars PROVE Waiting'
  BY <1>24 DEF Waiting
<1> HIDE DEF TypeInv, ProtocolInv, vars
<1>25. ASSUME NEW p \in Procs, UpdateTicket(p) PROVE Waiting'
  BY <1>10, <1>11, <1>12, <1>25 DEF UpdateTicket
<1>26. ASSUME NEW p \in (Requests \cup Deciders), DriveWorkflow(p) PROVE Waiting'
  BY <1>13, <1>14, <1>15, <1>16, <1>26 DEF DriveWorkflow
<1>27. ASSUME NEW r \in Requests, RequestStep(r) PROVE Waiting'
  BY <1>2, <1>3, <1>4, <1>5, <1>6, <1>7, <1>8, <1>9, <1>25, <1>26, <1>27
     DEF RequestStep
<1>28. ASSUME NEW d \in Deciders, DeciderStep(d) PROVE Waiting'
  BY <1>19, <1>20, <1>21, <1>22, <1>25, <1>26, <1>28 DEF DeciderStep
<1>29. Waiting'
  <2>1. CASE \E r \in Requests : Arrive(r) \/ RequestStep(r) \/ Crash(r)
    BY <2>1, <1>1, <1>17, <1>27
  <2>2. ASSUME NEW d \in Deciders,
               \/ \E r \in Requests, approved \in BOOLEAN : Decide(d, r, approved)
               \/ DeciderStep(d)
               \/ Crash(d)
        PROVE  Waiting'
    BY <2>2, <1>17, <1>18, <1>28
  <2>3. CASE \E o \in Operators : OperateTicket(o) \/ UpdateTicket(o)
    BY <2>3, <1>23, <1>25 DEF Procs
  <2>4. QED
    BY <2>1, <2>2, <2>3, <1>24 DEF Next
<1> QED
  BY <1>29

\* With reviewers who wait for the pause and for each other, an approved tool
\* runs once, a resolved ticket has had its action and nobody is left parked,
\* for any number of requests and reviewers.
THEOREM PatienceIsEnough == Spec => []PatienceSuffices
<1>1. IndInv /\ PatientInv => PatienceSuffices
  <2> SUFFICES ASSUME IndInv, PatientInv, Patient
               PROVE  /\ RunsOnce
                      /\ ticket = "resolved" => \E r \in Requests : executions[r] > 0
                      /\ NoStrandedApproval
    BY DEF PatienceSuffices, RunsOnceIfPatient, ResolvedMeansExecuted, NobodyStrandedIfPatient
  <2> QED
    BY DEF PatientInv, Waiting, OneResumption, Earned, Attended, RunsOnce, NoStrandedApproval,
       Quiescent,
           Engaged
<1>2. Init => PatientInv
  BY PatienceInit
<1>3. IndInv /\ IndInv' /\ PatientInv /\ [Next]_vars => PatientInv'
  BY PatienceStep DEF IndInv
<1> QED
  BY <1>1, <1>2, <1>3, Invariance, PTL DEF Spec

=============================================================================
