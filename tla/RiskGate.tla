------------------------------ MODULE RiskGate ------------------------------
(***************************************************************************)
(* The deterministic risk gate (risk_gate.evaluate) together with the      *)
(* merge of its inputs in the risk_gate node of the graph.                 *)
(*                                                                         *)
(* What the gate is told comes from two sources, the target's asset row    *)
(* and the ticket's text, merged to the more severe.  The state is one     *)
(* proposed action with what is known about it; a step learns something    *)
(* that can only speak against the action.                                 *)
(***************************************************************************)
EXTENDS Naturals, GateVerdict

CONSTANTS
    Environments,    \* environments an asset row or a ticket may name
    Criticalities    \* criticalities an asset row may hold

NoClaim == "none"          \* the ticket says nothing
Unreadable == "unreadable" \* the asset row could not be read

ASSUME VocabularyAssumption ==
    {NoClaim, Unreadable} \cap (Environments \cup Criticalities) = {}

-----------------------------------------------------------------------------
(* ACTION_CLASSES                                                          *)

Class(tool, informational, side_effect, requires_approval, allowed) ==
    [tool |-> tool, informational |-> informational, side_effect |-> side_effect,
     requires_approval |-> requires_approval, allowed |-> allowed]

NoTool == "none"

ACTION_CLASSES ==
    [diagnostic_read   |-> Class("diagnose_service", FALSE, FALSE, FALSE, TRUE),
     cache_flush       |-> Class("flush_cache", FALSE, TRUE, FALSE, TRUE),
     service_restart   |-> Class("restart_service", FALSE, TRUE, TRUE, TRUE),
     permission_grant  |-> Class("grant_permission", FALSE, TRUE, TRUE, TRUE),
     no_action         |-> Class(NoTool, TRUE, FALSE, FALSE, TRUE),
     data_delete       |-> Class(NoTool, FALSE, TRUE, TRUE, FALSE),
     permission_revoke |-> Class(NoTool, FALSE, TRUE, TRUE, FALSE),
     account_disable   |-> Class(NoTool, FALSE, TRUE, TRUE, FALSE)]

ActionTypes == DOMAIN ACTION_CLASSES \cup {"unknown"}

-----------------------------------------------------------------------------
(* The merge of the sources.                                               *)

ENVIRONMENT_SEVERITY == [dev |-> 0, staging |-> 1, production |-> 2]
CRITICALITY_SEVERITY == [normal |-> 0, important |-> 1, critical |-> 2]

\* Faulty variant: the first source that says anything wins.
FirstOf(claims, severity, worst) ==
    IF claims = {} THEN NoClaim ELSE CHOOSE c \in claims : TRUE

\* _most_severe: off the ladder counts only when nothing is on it.
MostSevere(claims, severity, worst) ==
    LET ranked == claims \cap DOMAIN severity IN
    IF claims = {} THEN NoClaim
    ELSE IF ranked = {} THEN worst
    ELSE CHOOSE c \in ranked : \A d \in ranked : severity[d] <= severity[c]

\* _it_asset_risk_metadata fails closed on a row it cannot read.
AssetClaim(value, worst) == IF value = Unreadable THEN worst ELSE value

MergedEnvironment(p) ==
    MostSevere({AssetClaim(p.asset_environment, "production")}
                   \cup ({p.text_environment} \ {NoClaim}),
               ENVIRONMENT_SEVERITY, "production")

MergedCriticality(p) ==
    MostSevere({AssetClaim(p.asset_criticality, "critical")}
                   \cup (IF p.urgent THEN {"critical"} ELSE {}),
               CRITICALITY_SEVERITY, "critical")

-----------------------------------------------------------------------------
(* The cascade R0 to R7.                                                   *)

Denied(p) ==
    p.action_type \notin DOMAIN ACTION_CLASSES \/ ~ACTION_CLASSES[p.action_type].allowed

\* R2 to R4: a human has to agree.
NeedsHuman(p) ==
    LET cls == ACTION_CLASSES[p.action_type] IN
    \/ cls.requires_approval
    \/ cls.side_effect /\ MergedEnvironment(p) = "production"
    \/ cls.side_effect /\ MergedCriticality(p) = "critical"
    \/ p.triage_needs_approval

\* Faulty variant: only a guess is stopped, the rest is left to the approver.
UngroundedIfGuess(p) == ~p.evidence

\* R5 to R7: nobody's agreement makes it runnable.
Ungrounded(p) ==
    LET cls == ACTION_CLASSES[p.action_type] IN
    \/ ~p.evidence
    \/ p.missing_information /\ cls.side_effect
    \/ cls.informational

Evaluate(p) ==
    IF Denied(p) THEN Gate("deny", FALSE)
    ELSE LET runnable == ACTION_CLASSES[p.action_type].tool # NoTool IN
         IF Ungrounded(p) THEN Gate("require_approval", FALSE)
         ELSE IF NeedsHuman(p) THEN Gate("require_approval", runnable)
         ELSE Gate("auto_execute", runnable)

-----------------------------------------------------------------------------
(* A proposed action and what becomes known about it.                      *)

VARIABLE proposal

Proposals ==
    [action_type           : ActionTypes,
     asset_environment     : Environments \cup {Unreadable},
     asset_criticality     : Criticalities \cup {Unreadable},
     text_environment      : Environments \cup {NoClaim},
     urgent                : BOOLEAN,
     triage_needs_approval : BOOLEAN,
     evidence              : BOOLEAN,
     missing_information   : BOOLEAN]

Init == proposal \in Proposals

\* The ticket names an environment it did not name before.
TextNamesEnvironment ==
    /\ proposal.text_environment = NoClaim
    /\ \E e \in Environments : proposal' = [proposal EXCEPT !.text_environment = e]

\* The asset row turns out to be unreadable.
AssetUnreadable ==
    proposal' = [proposal EXCEPT !.asset_environment = Unreadable,
                                 !.asset_criticality = Unreadable]

\* The asset row records something worse than it did.
AssetWorse ==
    \/ \E e \in Environments :
        /\ {proposal.asset_environment, e} \subseteq DOMAIN ENVIRONMENT_SEVERITY
        /\ ENVIRONMENT_SEVERITY[proposal.asset_environment] < ENVIRONMENT_SEVERITY[e]
        /\ proposal' = [proposal EXCEPT !.asset_environment = e]
    \/ \E c \in Criticalities :
        /\ {proposal.asset_criticality, c} \subseteq DOMAIN CRITICALITY_SEVERITY
        /\ CRITICALITY_SEVERITY[proposal.asset_criticality] < CRITICALITY_SEVERITY[c]
        /\ proposal' = [proposal EXCEPT !.asset_criticality = c]

\* Triage calls the ticket urgent or asks for approval.
TriageWorse ==
    \/ proposal' = [proposal EXCEPT !.urgent = TRUE]
    \/ proposal' = [proposal EXCEPT !.triage_needs_approval = TRUE]

\* The resolution loses its evidence or finds the request under-specified.
ResolutionWorse ==
    \/ proposal' = [proposal EXCEPT !.evidence = FALSE]
    \/ proposal' = [proposal EXCEPT !.missing_information = TRUE]

Next ==
    TextNamesEnvironment \/ AssetUnreadable \/ AssetWorse \/ TriageWorse \/ ResolutionWorse

Spec == Init /\ [][Next]_proposal

-----------------------------------------------------------------------------
(* Properties.                                                             *)

\* The proposal has its type, and the gate's verdict is one of the four that
\* the executor and the workflow branch are written for.
TypeOK == proposal \in Proposals /\ Evaluate(proposal) \in GateDecisions

Strictness(verdict) ==
    CASE verdict.decision = "auto_execute" -> 0
      [] verdict.decision = "require_approval" /\ verdict.executable -> 1
      [] verdict.decision = "require_approval" /\ ~verdict.executable -> 2
      [] verdict.decision = "deny" -> 3

Known(p) ==
    /\ p.asset_environment \in DOMAIN ENVIRONMENT_SEVERITY \cup {Unreadable}
    /\ p.text_environment \in DOMAIN ENVIRONMENT_SEVERITY \cup {NoClaim}
    /\ p.asset_criticality \in DOMAIN CRITICALITY_SEVERITY \cup {Unreadable}

\* No source can argue the decision downwards: learning what can only speak
\* against the action never makes the verdict more permissive, as long as every
\* value is on its ladder.  (A value on no ladder is outranked by any that is.)
NeverTalkedDown ==
    [][ Known(proposal) /\ Known(proposal') =>
            Strictness(Evaluate(proposal')) >= Strictness(Evaluate(proposal)) ]_proposal

\* Nothing changes unattended what either source calls production or critical,
\* or what no source could vouch for.
SideEffectsNeedHuman ==
    LET p == proposal IN
    /\ Evaluate(p).decision = "auto_execute"
    /\ ACTION_CLASSES[p.action_type].side_effect
    => /\ p.asset_environment \notin {"production", Unreadable}
       /\ p.text_environment # "production"
       /\ p.asset_criticality \notin {"critical", Unreadable}
       /\ ~p.urgent /\ ~p.triage_needs_approval

\* Whatever humans approve, a tool runs only for a known, allowed action that
\* has a tool, rests on evidence and is fully specified if it changes anything.
RunnableIsGrounded ==
    LET p == proposal IN
    Evaluate(p).executable =>
        /\ p.action_type \in DOMAIN ACTION_CLASSES
        /\ ACTION_CLASSES[p.action_type].allowed
        /\ ACTION_CLASSES[p.action_type].tool # NoTool
        /\ p.evidence
        /\ ACTION_CLASSES[p.action_type].side_effect => ~p.missing_information

\* Every verdict is one of the four; none lets a tool run unattended where a
\* source objects, nor at all without grounds.
GateIsSafe == TypeOK /\ SideEffectsNeedHuman /\ RunnableIsGrounded

=============================================================================
