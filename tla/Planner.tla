------------------------------ MODULE Planner -------------------------------
(***************************************************************************)
(* How one business request becomes a plan: the deterministic reading of   *)
(* its text, the model's suggestion when there is one, the rules that turn *)
(* category, amount and recipient into risk and approval, and the plan and *)
(* risk consensus a multi-agent run hands over.                            *)
(*                                                                         *)
(* A text is what the planner's patterns extract from it.                  *)
(***************************************************************************)
EXTENDS Integers

CONSTANTS
    ApprovalThreshold,    \* settings.approval_amount_threshold
    GuardMail             \* settings.external_email_requires_approval

ASSUME PlannerAssumption == ApprovalThreshold \in Nat \ {0} /\ GuardMail \in BOOLEAN

Categories ==
    {"refund", "complaint", "communication", "security", "access_request", "remote_work",
     "procurement", "incident", "general"}

CustomerFacing == {"refund", "complaint", "communication"}
Internal == {"security", "access_request", "incident"}

NoAmount == -1
ProcurementLimit == 1000

\* What _classify_category, _extract_amount and _extract_email find.
Readings == [category : Categories, amount : Nat \cup {NoAmount}, recipient : BOOLEAN]

\* A model's answer: its confidence, and fields that may be absent or unusable.
Unusable == "unusable"
Suggestions ==
    [sure : BOOLEAN, category : Categories \cup {Unusable},
     amount : Nat \cup {NoAmount}, recipient : BOOLEAN]

NoSuggestion ==
    [sure |-> FALSE, category |-> Unusable, amount |-> NoAmount, recipient |-> FALSE]

Consensus == [risk : {"low", "medium", "high"}, approval : BOOLEAN]

-----------------------------------------------------------------------------
\* An access request is of medium risk whatever the amount its text names; an
\* incident always has the high priority that makes its risk high.
Risk(category, amount) ==
    IF category \in {"security", "incident"} THEN "high"
    ELSE IF category = "access_request" THEN "medium"
    ELSE IF amount >= ApprovalThreshold THEN "high"
    ELSE IF category \in {"refund", "procurement", "complaint"} THEN "medium"
    ELSE "low"

NeedsApproval(category, amount, recipient) ==
    \/ Risk(category, amount) = "high"
    \/ category = "access_request"
    \/ category = "procurement" /\ amount >= ProcurementLimit
    \/ category = "refund" /\ (amount = NoAmount \/ amount >= ApprovalThreshold)
    \/ recipient /\ GuardMail /\ category \in {"refund", "security", "procurement"}

\* final_ticket_status of _workflow_policy.
FinalStatus(category, amount, recipient) ==
    CASE category \in {"security", "incident"} -> "investigating"
      [] category \in {"access_request", "remote_work"} -> "approved"
      [] category = "procurement" ->
            IF Risk(category, amount) = "high" THEN "approved" ELSE "open"
      [] category = "refund" -> IF recipient THEN "waiting_customer" ELSE "approved"
      [] OTHER -> "open"

PlanFor(category, amount, recipient) ==
    [category |-> category, recipient |-> recipient, risk |-> Risk(category, amount),
     approval |-> NeedsApproval(category, amount, recipient),
     final |-> FinalStatus(category, amount, recipient)]

Plans ==
    [category : Categories, recipient : BOOLEAN, risk : {"low", "medium", "high"},
     approval : BOOLEAN, final : {"investigating", "approved", "open", "waiting_customer"}]

\* plan_workflow: a confident model names the category, the amount and the
\* recipient; risk, approval and policy are never read from its answer.
PlanWorkflow(text, model) ==
    IF ~model.sure THEN PlanFor(text.category, text.amount, text.recipient)
    ELSE PlanFor(IF model.category = Unusable THEN text.category ELSE model.category,
                 IF model.amount = NoAmount THEN text.amount ELSE model.amount,
                 model.recipient \/ text.recipient)

-----------------------------------------------------------------------------
Rank == [low |-> 0, medium |-> 1, high |-> 2]

\* Faulty variant: the consensus only matters to a run it raises the risk of.
EscalateRiskOnly(plan, consensus) ==
    IF Rank[consensus.risk] > Rank[plan.risk] THEN [plan EXCEPT !.risk = consensus.risk] ELSE plan

\* _coordinated_plan: the consensus of the risk agents may add risk and
\* approval to the supervisor's plan, never take them away.
Escalate(plan, consensus) ==
    [plan EXCEPT
        !.risk = IF Rank[consensus.risk] > Rank[@] THEN consensus.risk ELSE @,
        !.approval = @ \/ consensus.approval]

=============================================================================
