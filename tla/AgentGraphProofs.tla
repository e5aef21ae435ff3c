--------------------------- MODULE AgentGraphProofs ---------------------------
(***************************************************************************)
(* Theorems about the risk gate and the graph it is a node of.             *)
(*                                                                         *)
(* Of the gate: for any vocabulary of environments and criticalities,      *)
(* including values that are on no severity ladder.                        *)
(*                                                                         *)
(* Of the graph: for any runs, any answers of the models and any number of *)
(* corrections.  Every node has its place in the order of the supersteps   *)
(* (Stage), so that what is done in the present attempt can be told from   *)
(* where the run is (Done); the values, the tasks and the checkpoints are  *)
(* then tied to what is done.                                              *)
(***************************************************************************)
EXTENDS AgentGraph, FiniteSetTheorems, TLAPS

\* The most severe value on the ladder is what a merge returns as soon as one
\* of its sources names it.
LEMMA WorstClaimWins ==
    /\ \A claims : "production" \in claims =>
          MostSevere(claims, ENVIRONMENT_SEVERITY, "production") = "production"
    /\ \A claims : "critical" \in claims =>
          MostSevere(claims, CRITICALITY_SEVERITY, "critical") = "critical"
<1>1. ASSUME NEW claims, "production" \in claims
      PROVE  MostSevere(claims, ENVIRONMENT_SEVERITY, "production") = "production"
  <2> DEFINE ranked == claims \cap {"dev", "staging", "production"}
             worst(c) == c \in ranked /\ \A d \in ranked :
                            ENVIRONMENT_SEVERITY[d] <= ENVIRONMENT_SEVERITY[c]
  <2>1. worst("production")
    BY <1>1 DEF ENVIRONMENT_SEVERITY
  <2>2. \A c : worst(c) => c = "production"
    BY <1>1 DEF ENVIRONMENT_SEVERITY
  <2>3. (CHOOSE c : worst(c)) = "production"
    BY <2>1, <2>2
  <2> QED
    BY <1>1, <2>3 DEF MostSevere, ENVIRONMENT_SEVERITY
<1>2. ASSUME NEW claims, "critical" \in claims
      PROVE  MostSevere(claims, CRITICALITY_SEVERITY, "critical") = "critical"
  <2> DEFINE ranked == claims \cap {"normal", "important", "critical"}
             worst(c) == c \in ranked /\ \A d \in ranked :
                            CRITICALITY_SEVERITY[d] <= CRITICALITY_SEVERITY[c]
  <2>1. worst("critical")
    BY <1>2 DEF CRITICALITY_SEVERITY
  <2>2. \A c : worst(c) => c = "critical"
    BY <1>2 DEF CRITICALITY_SEVERITY
  <2>3. (CHOOSE c : worst(c)) = "critical"
    BY <2>1, <2>2
  <2> QED
    BY <1>2, <2>3 DEF MostSevere, CRITICALITY_SEVERITY
<1> QED
  BY <1>1, <1>2

Typed == proposal \in Proposals

\* A proposal is a record of its type, whatever is learnt about it.
LEMMA ProposalTyped == Spec => []Typed
<1>1. Init => Typed
  BY DEF Init, Typed
<1>2. ASSUME Typed, [Next]_proposal PROVE Typed'
  <2> USE <1>2 DEF Typed, Proposals
  <2>1. CASE TextNamesEnvironment
    BY <2>1 DEF TextNamesEnvironment
  <2>2. CASE AssetUnreadable
    BY <2>2 DEF AssetUnreadable
  <2>3. CASE AssetWorse
    BY <2>3 DEF AssetWorse
  <2>4. CASE TriageWorse
    BY <2>4 DEF TriageWorse
  <2>5. CASE ResolutionWorse
    BY <2>5 DEF ResolutionWorse
  <2> QED
    BY <2>1, <2>2, <2>3, <2>4, <2>5 DEF Next
<1> QED
  BY <1>1, <1>2, PTL DEF Spec

\* The executor is never handed a verdict it has no branch for.
THEOREM VerdictsTyped == Spec => []TypeOK
<1>1. ASSUME NEW p \in Proposals, ~Denied(p), ~Ungrounded(p)
      PROVE  ACTION_CLASSES[p.action_type].tool # NoTool
  <2>1. p.action_type \in DOMAIN ACTION_CLASSES /\ ACTION_CLASSES[p.action_type].allowed
    BY <1>1 DEF Denied
  <2>2. ~ACTION_CLASSES[p.action_type].informational
    BY <1>1 DEF Ungrounded
  <2> QED
    BY <2>1, <2>2 DEF ACTION_CLASSES, Class, NoTool
<1>2. ASSUME NEW p \in Proposals PROVE Evaluate(p) \in GateDecisions
  BY <1>1, <1>2 DEF Evaluate, GateDecisions, Gate
<1>3. Typed => TypeOK
  BY <1>2 DEF Typed, TypeOK
<1> QED
  BY <1>3, ProposalTyped, PTL

\* Nothing changes unattended what a source calls production or critical, or
\* what no source could vouch for, however the sources word the rest.
THEOREM UnattendedSideEffects == Spec => []SideEffectsNeedHuman
<1>1. ASSUME NEW p \in Proposals,
             Evaluate(p).decision = "auto_execute",
             ACTION_CLASSES[p.action_type].side_effect
      PROVE  /\ p.asset_environment \notin {"production", Unreadable}
             /\ p.text_environment # "production"
             /\ p.asset_criticality \notin {"critical", Unreadable}
             /\ ~p.urgent /\ ~p.triage_needs_approval
  <2>1. ~Denied(p) /\ ~Ungrounded(p) /\ ~NeedsHuman(p)
    BY <1>1 DEF Evaluate, Gate
  <2>2. /\ MergedEnvironment(p) # "production"
        /\ MergedCriticality(p) # "critical"
        /\ ~p.triage_needs_approval
    BY <1>1, <2>1 DEF NeedsHuman
  <2>3. "production" \notin {AssetClaim(p.asset_environment, "production")}
                                \cup ({p.text_environment} \ {NoClaim})
    BY <2>2, WorstClaimWins DEF MergedEnvironment
  <2>4. "critical" \notin {AssetClaim(p.asset_criticality, "critical")}
                              \cup (IF p.urgent THEN {"critical"} ELSE {})
    BY <2>2, WorstClaimWins DEF MergedCriticality
  <2> QED
    BY <2>2, <2>3, <2>4 DEF AssetClaim, NoClaim
<1>2. Typed => SideEffectsNeedHuman
  BY <1>1 DEF Typed, SideEffectsNeedHuman
<1> QED
  BY <1>2, ProposalTyped, PTL

\* Approval alone never makes an un-runnable action runnable.
THEOREM GroundedExecutions == Spec => []RunnableIsGrounded
<1>1. Typed => RunnableIsGrounded
  BY DEF Typed, RunnableIsGrounded, Evaluate, Denied, Ungrounded, Gate, NoTool
<1> QED
  BY <1>1, ProposalTyped, PTL

\* With known values a merge says "production" or "critical" exactly when some
\* source does, or could not be read.
LEMMA WorstNeedsAClaim ==
    ASSUME NEW p, Known(p), p.urgent \in BOOLEAN
    PROVE  /\ MergedEnvironment(p) = "production" <=>
                 \/ p.asset_environment \in {"production", Unreadable}
                 \/ p.text_environment = "production"
           /\ MergedCriticality(p) = "critical" <=>
                 p.asset_criticality \in {"critical", Unreadable} \/ p.urgent
<1> DEFINE E == {AssetClaim(p.asset_environment, "production")}
                    \cup ({p.text_environment} \ {NoClaim})
           C == {AssetClaim(p.asset_criticality, "critical")}
                    \cup (IF p.urgent THEN {"critical"} ELSE {})
<1>1. /\ E # {} /\ E \subseteq {"dev", "staging", "production"}
      /\ "production" \in E <=> \/ p.asset_environment \in {"production", Unreadable}
                               \/ p.text_environment = "production"
  BY DEF Known, AssetClaim, ENVIRONMENT_SEVERITY, NoClaim, Unreadable
<1>2. /\ C # {} /\ C \subseteq {"normal", "important", "critical"}
      /\ "critical" \in C <=> p.asset_criticality \in {"critical", Unreadable} \/ p.urgent
  BY DEF Known, AssetClaim, CRITICALITY_SEVERITY, NoClaim, Unreadable
<1>3. MergedEnvironment(p) = "production" <=> "production" \in E
  <2> DEFINE worst(c) == c \in E /\ \A d \in E : ENVIRONMENT_SEVERITY[d] <= ENVIRONMENT_SEVERITY[c]
  <2>1. MergedEnvironment(p) = CHOOSE c \in E : \A d \in E : ENVIRONMENT_SEVERITY[d] <= ENVIRONMENT_SEVERITY[c]
    <3>1. E \cap DOMAIN ENVIRONMENT_SEVERITY = E
      BY <1>1 DEF ENVIRONMENT_SEVERITY
    <3> QED
      BY <1>1, <3>1 DEF MergedEnvironment, MostSevere
  <2>2. \E c : worst(c)
    BY <1>1 DEF ENVIRONMENT_SEVERITY
  <2>3. worst(CHOOSE c : worst(c))
    BY <2>2
  <2>4. MergedEnvironment(p) \in E
    BY <2>1, <2>3
  <2> QED
    BY <2>4, WorstClaimWins DEF MergedEnvironment
<1>4. MergedCriticality(p) = "critical" <=> "critical" \in C
  <2> DEFINE worst(c) == c \in C /\ \A d \in C : CRITICALITY_SEVERITY[d] <= CRITICALITY_SEVERITY[c]
  <2>1. MergedCriticality(p) = CHOOSE c \in C : \A d \in C : CRITICALITY_SEVERITY[d] <= CRITICALITY_SEVERITY[c]
    <3>1. C \cap DOMAIN CRITICALITY_SEVERITY = C
      BY <1>2 DEF CRITICALITY_SEVERITY
    <3> QED
      BY <1>2, <3>1 DEF MergedCriticality, MostSevere
  <2>2. \E c : worst(c)
    BY <1>2 DEF CRITICALITY_SEVERITY
  <2>3. worst(CHOOSE c : worst(c))
    BY <2>2
  <2>4. MergedCriticality(p) \in C
    BY <2>1, <2>3
  <2> QED
    BY <2>4, WorstClaimWins DEF MergedCriticality
<1> QED
  BY <1>1, <1>2, <1>3, <1>4

\* Learning more about an action changes neither the action nor what speaks
\* against it already.
Worse(p, q) ==
    /\ q.action_type = p.action_type
    /\ MergedEnvironment(p) = "production" => MergedEnvironment(q) = "production"
    /\ MergedCriticality(p) = "critical" => MergedCriticality(q) = "critical"
    /\ p.triage_needs_approval => q.triage_needs_approval
    /\ q.evidence => p.evidence
    /\ p.missing_information => q.missing_information

\* The cascade answers a worse case at least as strictly: its rules are ordered
\* by what they forbid, and each is monotone in what is known.
LEMMA WorseIsStricter ==
    ASSUME NEW p \in Proposals, NEW q \in Proposals, Worse(p, q)
    PROVE  Strictness(Evaluate(q)) >= Strictness(Evaluate(p))
<1>1. Denied(p) <=> Denied(q)
  BY DEF Worse, Denied
<1>2. ~Denied(p) /\ Ungrounded(p) => Ungrounded(q)
  BY DEF Worse, Ungrounded, Proposals
<1>3. ~Denied(p) /\ NeedsHuman(p) => NeedsHuman(q)
  BY DEF Worse, NeedsHuman, Proposals
<1> DEFINE runnable == ACTION_CLASSES[p.action_type].tool # NoTool
<1>4. runnable = (ACTION_CLASSES[q.action_type].tool # NoTool)
  BY DEF Worse
<1>5. ~Denied(p) /\ ~Ungrounded(p) => runnable
  BY DEF Denied, Ungrounded, ACTION_CLASSES, Class, NoTool
<1> HIDE DEF runnable
<1>6. CASE Denied(p)
  BY <1>1, <1>6 DEF Evaluate, Gate, Strictness
<1>7. CASE ~Denied(p) /\ Ungrounded(p)
  BY <1>1, <1>2, <1>7 DEF Evaluate, Gate, Strictness
<1>8. CASE ~Denied(p) /\ ~Ungrounded(p)
  BY <1>1, <1>3, <1>4, <1>5, <1>8 DEF Evaluate, Gate, Strictness, runnable
<1> QED
  BY <1>6, <1>7, <1>8

\* Whatever is learnt about an action, the verdict on it never gets milder.
THEOREM VerdictNeverTalkedDown == Spec => NeverTalkedDown
<1>1. ASSUME Typed, Typed', Known(proposal), Known(proposal'), Next
      PROVE  Worse(proposal, proposal')
  <2> DEFINE p == proposal  q == proposal'
  <2>1. p \in Proposals /\ q \in Proposals
    BY <1>1 DEF Typed
  <2>2. p.urgent \in BOOLEAN /\ q.urgent \in BOOLEAN
    BY <2>1 DEF Proposals
  <2>3. /\ q.action_type = p.action_type
        /\ p.asset_environment \in {"production", Unreadable} =>
             q.asset_environment \in {"production", Unreadable}
        /\ p.text_environment = "production" => q.text_environment = "production"
        /\ p.asset_criticality \in {"critical", Unreadable} =>
             q.asset_criticality \in {"critical", Unreadable}
        /\ p.urgent => q.urgent
        /\ p.triage_needs_approval => q.triage_needs_approval
        /\ q.evidence => p.evidence
        /\ p.missing_information => q.missing_information
    <3> USE <2>1 DEF Proposals
    <3>1. CASE TextNamesEnvironment
      BY <3>1 DEF TextNamesEnvironment, NoClaim
    <3>2. CASE AssetUnreadable
      BY <3>2 DEF AssetUnreadable
    <3>3. CASE AssetWorse
      BY <3>3 DEF AssetWorse, ENVIRONMENT_SEVERITY, CRITICALITY_SEVERITY, Unreadable
    <3>4. CASE TriageWorse
      BY <3>4 DEF TriageWorse
    <3>5. CASE ResolutionWorse
      BY <3>5 DEF ResolutionWorse
    <3> QED
      BY <1>1, <3>1, <3>2, <3>3, <3>4, <3>5 DEF Next
  <2> QED
    BY <1>1, <2>2, <2>3, WorstNeedsAClaim DEF Worse
<1>2. Typed /\ Typed' /\ [Next]_proposal =>
        [Known(proposal) /\ Known(proposal') =>
           Strictness(Evaluate(proposal')) >= Strictness(Evaluate(proposal))]_proposal
  BY <1>1, WorseIsStricter DEF Typed
<1> QED
  BY <1>2, ProposalTyped, PTL DEF Spec, NeverTalkedDown

\* What every verdict guarantees, in one statement.
THEOREM TheGateIsSafe == Spec => []GateIsSafe
  BY VerdictsTyped, UnattendedSideEffects, GroundedExecutions, PTL DEF GateIsSafe

-----------------------------------------------------------------------------
(* Where a run is.                                                         *)

Searches == {"enterprise_rag_research", "local_policy_research"}
Voters == {"compliance_risk", "operational_risk"}
Supersteps == {{n} : n \in Nodes \ (Searches \cup Voters)} \cup {Searches, Voters, {}}

Phases == {"due", "working", "asked", "returned", "numbered", "done", "failed"}
Ended == {"returned", "numbered", "done"}

Researching == run.it \/ values.plan.research
ForResearch == Searches \cup {"research_dispatch", "evidence_synthesis"}

Fields ==
    {"reading", "plan", "enterprise", "local", "research", "history", "resolution", "compliance",
     "operational", "consensus", "verdict", "execution", "passed", "retry"}

\* Where the run is, and that the corrections keep their limit.
Place ==
    /\ run \in Runs
    /\ DOMAIN values = Fields
    /\ DOMAIN at \in Supersteps
    /\ attempt \in 0..run.limit
    /\ \A n \in {"self_correction"} \cap DOMAIN at :
           at[n].phase \in {"due", "working"} => attempt < run.limit
    /\ status \in {"running", "waiting_approval", "completed", "cancelled", "failed"}

\* What is true of every node of a superstep.
NodeInPlace(n) ==
    /\ at[n].phase \in Phases
    /\ at[n].phase = "asked" => n = "human_approval"
    /\ at[n].phase \in {"working", "failed"} => NodeTask[n] # None /\ ~Idle(n)
    /\ n = "memory_retrieve" => attempt = 0
    /\ n \in ForResearch => Researching
    /\ n = "research_bypass" => ~Researching

InPlace == Place /\ \A n \in DOMAIN at : NodeInPlace(n)

\* A run is given what its type says.
LEMMA RunTyped ==
    ASSUME NEW r \in Runs
    PROVE  /\ r.it \in BOOLEAN /\ r.limit \in Nat
           /\ r.text \in Texts /\ r.filed \in Texts
           /\ r.plans \subseteq Plans
BY GraphAssumption DEF RunTypes

\* The end of a node's work other than the supervisor's and the corrector's:
\* neither the plan nor the decision to retry is touched.
Hands(n, handed) ==
    /\ Return(n, handed) \/ Leave(n, handed)
    /\ DOMAIN handed = Fields
    /\ handed.plan = values.plan /\ handed.retry = values.retry

PlainNodes == Nodes \ {"supervisor", "self_correction", "research_dispatch", "risk_dispatch"}

LEMMA HandedFields ==
    ASSUME DOMAIN values = Fields, NEW f \in Fields \ {"plan", "retry"}, NEW v
    PROVE  /\ DOMAIN [values EXCEPT ![f] = v] = Fields
           /\ [values EXCEPT ![f] = v].plan = values.plan
           /\ [values EXCEPT ![f] = v].retry = values.retry
BY DEF Fields

LEMMA NodeSteps ==
    ASSUME DOMAIN values = Fields, NodeReturns
    PROVE  \/ Supervise \/ AskHuman \/ Correct
           \/ \E n \in PlainNodes : \E handed : Hands(n, handed)
<1> USE DEF Fields, Hands, PlainNodes, Nodes, NodeTask
<1>1. CASE RetrieveMemories
  <2>1. Hands("memory_retrieve", values)
    BY <1>1 DEF RetrieveMemories
  <2> QED
    BY <2>1
<1>2. CASE ItTriage
  <2>1. CASE Return("it_triage", values)
    <3>1. Hands("it_triage", values)
      BY <2>1
    <3> QED
      BY <3>1
  <2>2. ASSUME NEW answer \in Answers,
               Return("it_triage", [values EXCEPT !.reading = LlmFallback(Base, answer, run.text)])
        PROVE  \E n \in PlainNodes : \E handed : Hands(n, handed)
    <3>1. Hands("it_triage", [values EXCEPT !.reading = LlmFallback(Base, answer, run.text)])
      BY <2>2, HandedFields
    <3> QED
      BY <3>1
  <2> QED
    BY <1>2, <2>1, <2>2 DEF ItTriage
<1>3. CASE BypassResearch
  <2>1. Hands("research_bypass",
              [values EXCEPT !.research = [since |-> attempt, evidence |-> {}, searched |-> FALSE]])
    BY <1>3, HandedFields DEF BypassResearch
  <2> QED
    BY <2>1
<1>4. CASE SearchEnterprise
  <2>1. PICK found \in run.known :
            Hands("enterprise_rag_research",
                  [values EXCEPT !.enterprise = [since |-> attempt, evidence |-> found]])
    BY <1>4, HandedFields DEF SearchEnterprise
  <2> QED
    BY <2>1
<1>5. CASE SearchLocal
  <2>1. PICK found \in run.known :
            Hands("local_policy_research",
                  [values EXCEPT !.local = [since |-> attempt, evidence |-> found]])
    BY <1>5, HandedFields DEF SearchLocal
  <2> QED
    BY <2>1
<1>6. CASE Synthesise
  <2>1. PICK handed :
            handed = [values EXCEPT !.research =
                         [since |-> Min({values.enterprise.since, values.local.since}),
                          evidence |-> values.enterprise.evidence \cup values.local.evidence,
                          searched |-> TRUE]]
    OBVIOUS
  <2>2. Hands("evidence_synthesis", handed)
    BY <1>6, <2>1, HandedFields DEF Synthesise
  <2> QED
    BY <2>2
<1>7. CASE SearchHistory
  <2>1. PICK found \in run.known :
            Hands("it_history", [values EXCEPT !.history = [since |-> attempt, evidence |-> found]])
    BY <1>7, HandedFields DEF SearchHistory
  <2> QED
    BY <2>1
<1>8. CASE ProposeResolution
  <2>1. PICK made : /\ Return("it_resolution", [values EXCEPT !.resolution = made])
    BY <1>8 DEF ProposeResolution
  <2>2. Hands("it_resolution", [values EXCEPT !.resolution = made])
    BY <2>1, HandedFields
  <2> QED
    BY <2>2
<1>9. CASE VoteOnCompliance
  <2>1. PICK made : Return("compliance_risk", [values EXCEPT !.compliance = made])
    BY <1>9 DEF VoteOnCompliance
  <2>2. Hands("compliance_risk", [values EXCEPT !.compliance = made])
    BY <2>1, HandedFields
  <2> QED
    BY <2>2
<1>10. CASE VoteOnOperations
  <2>1. PICK made : Return("operational_risk", [values EXCEPT !.operational = made])
    BY <1>10 DEF VoteOnOperations
  <2>2. Hands("operational_risk", [values EXCEPT !.operational = made])
    BY <2>1, HandedFields
  <2> QED
    BY <2>2
<1>11. CASE ReachConsensus
  <2>1. PICK made : Return("risk_consensus", [values EXCEPT !.consensus = made])
    BY <1>11 DEF ReachConsensus
  <2>2. Hands("risk_consensus", [values EXCEPT !.consensus = made])
    BY <2>1, HandedFields
  <2> QED
    BY <2>2
<1>12. CASE ApplyGate
  <2>1. PICK made : Leave("risk_gate", [values EXCEPT !.verdict = made])
    BY <1>12 DEF ApplyGate
  <2>2. Hands("risk_gate", [values EXCEPT !.verdict = made])
    BY <2>1, HandedFields
  <2> QED
    BY <2>2
<1>13. CASE ExecuteTools \/ SummariseDecision
  <2>1. PICK n \in {"tool_execution", "human_approval"} : \E outcome :
            Return(n, [values EXCEPT !.execution = outcome])
    BY <1>13 DEF ExecuteTools, SummariseDecision
  <2>2. PICK outcome : Return(n, [values EXCEPT !.execution = outcome])
    BY <2>1
  <2>3. Hands(n, [values EXCEPT !.execution = outcome])
    BY <2>2, HandedFields
  <2> QED
    BY <2>3
<1>14. CASE Criticise
  <2>1. PICK passed : Return("critic", [values EXCEPT !.passed = passed])
    BY <1>14 DEF Criticise
  <2>2. Hands("critic", [values EXCEPT !.passed = passed])
    BY <2>1, HandedFields
  <2> QED
    BY <2>2
<1>15. CASE WriteMemory
  <2>1. Hands("memory_write", values)
    BY <1>15 DEF WriteMemory
  <2> QED
    BY <2>1
<1>16. CASE Summarise
  <2>1. Hands("finalize", values)
    BY <1>16 DEF Summarise
  <2> QED
    BY <2>1
<1> QED
  BY <1>1, <1>2, <1>3, <1>4, <1>5, <1>6, <1>7, <1>8, <1>9, <1>10, <1>11, <1>12, <1>13, <1>14,
     <1>15, <1>16 DEF NodeReturns

\* What a step may do to the nodes of a superstep: one of them comes to another
\* phase, all others stay.
Moves(n, p) ==
    /\ n \in DOMAIN at
    /\ DOMAIN at' = DOMAIN at
    /\ at'[n].phase = p
    /\ \A m \in DOMAIN at \ {n} : at'[m] = at[m]

LEMMA MoveMoves ==
    /\ \A n, p : n \in DOMAIN at /\ Move(n, p) => Moves(n, p)
    /\ \A n : NumberCheckpoint(n) => Moves(n, "numbered") /\ at[n].phase = "returned"
BY DEF Move, Moves, Phase, NumberCheckpoint, In

\* A node that has done its part, or waits for a human, stays in its place.
LEMMA MovesInPlace ==
    ASSUME InPlace, NEW n \in DOMAIN at, NEW p \in Phases \ {"due"}, Moves(n, p),
           UNCHANGED <<run, attempt>>,
           DOMAIN values' = Fields, values'.plan = values.plan,
           status' \in {"running", "waiting_approval", "completed", "cancelled", "failed"},
           p = "asked" => n = "human_approval",
           p \in {"working", "failed"} => NodeTask[n] # None /\ ~Idle(n),
           p = "working" => at[n].phase \in {"due", "asked"}
    PROVE  InPlace'
<1>1. Place'
  BY DEF InPlace, Place, Moves, NodeInPlace
<1>2. \A m \in DOMAIN at' : NodeInPlace(m)'
  BY DEF InPlace, NodeInPlace, Moves, Idle, Researching
<1> QED
  BY <1>1, <1>2 DEF InPlace

\* Whoever enters a superstep begins there.
LEMMA EnteringInPlace ==
    ASSUME InPlace, NEW nodes \in Supersteps, at' = Entering(nodes),
           UNCHANGED <<run, attempt, values>>,
           status' \in {"running", "waiting_approval", "completed", "cancelled", "failed"},
           "self_correction" \in nodes => attempt < run.limit,
           "memory_retrieve" \notin nodes,
           nodes \cap ForResearch # {} => Researching,
           "research_bypass" \in nodes => ~Researching
    PROVE  InPlace'
<1>1. DOMAIN at' = nodes /\ \A n \in nodes : at'[n].phase = "due"
  BY DEF Entering, Phase
<1>2. Place'
  BY <1>1 DEF InPlace, Place
<1>3. \A n \in DOMAIN at' : NodeInPlace(n)'
  BY <1>1 DEF NodeInPlace, Phases, Researching
<1> QED
  BY <1>2, <1>3 DEF InPlace

\* The edges lead from superstep to superstep: both branches of a fork to the
\* same node, and to the corrector only below the limit.
LEMMA EdgesInPlace ==
    ASSUME InPlace, DOMAIN at # {}, "finalize" \notin DOMAIN at
    PROVE  LET next == UNION {Successors(n) : n \in DOMAIN at} IN
           /\ next \in Supersteps
           /\ "self_correction" \in next => attempt < run.limit
           /\ "memory_retrieve" \notin next
           /\ next \cap ForResearch # {} => Researching
           /\ "research_bypass" \in next => ~Researching
<1> DEFINE next == UNION {Successors(n) : n \in DOMAIN at}
<1>1. run.limit \in Nat /\ attempt \in Nat
  BY RunTyped DEF InPlace, Place
<1>2. CASE DOMAIN at = Searches
  <2>1. next = {"evidence_synthesis"}
    BY <1>2 DEF Searches, Successors
  <2>2. Researching
    BY <1>2 DEF InPlace, NodeInPlace, ForResearch, Searches
  <2> QED
    BY <2>1, <2>2 DEF Supersteps, Nodes, NodeTask, Searches, Voters
<1>3. CASE DOMAIN at = Voters
  <2>1. next = {"risk_consensus"}
    BY <1>3 DEF Voters, Successors
  <2> QED
    BY <2>1 DEF Supersteps, Nodes, NodeTask, Searches, Voters, ForResearch
<1>4. ASSUME NEW n \in Nodes \ (Searches \cup Voters), DOMAIN at = {n}
      PROVE  /\ next \in Supersteps
             /\ "self_correction" \in next => attempt < run.limit
             /\ "memory_retrieve" \notin next
             /\ next \cap ForResearch # {} => Researching
             /\ "research_bypass" \in next => ~Researching
  <2>1. next = Successors(n) /\ n # "finalize"
    BY <1>4
  <2>2. NodeInPlace(n)
    BY <1>4 DEF InPlace
  <2> HIDE DEF next
  <2>3. /\ next \in Supersteps
        /\ "memory_retrieve" \notin next
    BY <2>1, <1>4 DEF Successors, Supersteps, Nodes, NodeTask, Searches, Voters, ToHuman, Retry
  <2>4. "self_correction" \in next => attempt < run.limit
    BY <2>1, <1>1, <1>4 DEF Successors, Nodes, NodeTask, ToHuman, Retry
  <2>5. next \cap ForResearch # {} => Researching
    BY <2>1, <2>2, <1>4 DEF Successors, Nodes, NodeTask, ToHuman, Retry, ForResearch, Searches,
                            Researching, NodeInPlace
  <2>6. "research_bypass" \in next => ~Researching
    BY <2>1, <1>4 DEF Successors, Nodes, NodeTask, ToHuman, Retry, Researching
  <2> QED
    BY <2>3, <2>4, <2>5, <2>6
<1> QED
  BY <1>2, <1>3, <1>4 DEF InPlace, Place, Supersteps

\* Every step leads from place to place.
LEMMA PlaceStep == InPlace /\ [GraphNext]_graphVars => InPlace'
<1> SUFFICES ASSUME InPlace, [GraphNext]_graphVars PROVE InPlace'
  OBVIOUS
<1>f. DOMAIN values = Fields /\ DOMAIN at \subseteq Nodes
  BY DEF InPlace, Place, Supersteps, Searches, Voters, Nodes, NodeTask
<1>s. status \in {"running", "waiting_approval", "completed", "cancelled", "failed"}
  BY DEF InPlace, Place
<1>1. CASE UNCHANGED graphVars
  BY <1>1 DEF graphVars, InPlace, Place, NodeInPlace, Idle, Researching
<1>2. ASSUME NEW n \in DOMAIN at, Begin(n) PROVE InPlace'
  <2>1. Moves(n, "working") /\ at[n].phase = "due"
    BY <1>2, MoveMoves DEF Begin, In
  <2> QED
    BY <1>2, <1>f, <1>s, <2>1, MovesInPlace DEF Begin, Phases
<1>3. ASSUME NEW n \in DOMAIN at, Pass(n) PROVE InPlace'
  <2>1. Moves(n, "done")
    BY <1>3, MoveMoves DEF Pass
  <2> QED
    BY <1>3, <1>f, <1>s, <2>1, MovesInPlace DEF Pass, Phases
<1>4. ASSUME NEW n \in DOMAIN at, NumberCheckpoint(n) PROVE InPlace'
  <2>1. Moves(n, "numbered")
    BY <1>4, MoveMoves
  <2> QED
    BY <1>4, <1>f, <1>s, <2>1, MovesInPlace DEF NumberCheckpoint, Phases
<1>5. ASSUME NEW n \in DOMAIN at, InsertCheckpoint(n) PROVE InPlace'
  <2>1. Moves(n, "done")
    BY <1>5, MoveMoves DEF InsertCheckpoint
  <2> QED
    BY <1>5, <1>f, <1>s, <2>1, MovesInPlace DEF InsertCheckpoint, Phases
<1>6. ASSUME NEW n \in DOMAIN at, Raise(n) PROVE InPlace'
  <2>1. Moves(n, "failed") /\ NodeTask[n] # None /\ ~Idle(n)
    BY <1>6, MoveMoves DEF Raise, InPlace, NodeInPlace, In
  <2> QED
    BY <1>6, <1>f, <1>s, <2>1, MovesInPlace DEF Raise, Phases
<1>7. CASE Advance
  <2> DEFINE next == UNION {Successors(n) : n \in DOMAIN at}
  <2>1. DOMAIN at # {} /\ "finalize" \notin DOMAIN at /\ at' = Entering(next)
    BY <1>7 DEF Advance
  <2>2. /\ next \in Supersteps
        /\ "self_correction" \in next => attempt < run.limit
        /\ "memory_retrieve" \notin next
        /\ next \cap ForResearch # {} => Researching
        /\ "research_bypass" \in next => ~Researching
    BY <2>1, EdgesInPlace
  <2>3. UNCHANGED <<run, attempt, tasks, checkpoints, values, status>>
    BY <1>7 DEF Advance
  <2> HIDE DEF next
  <2> QED
    BY <1>s, <2>1, <2>2, <2>3, EnteringInPlace
<1>8. CASE Complete \/ FailRun
  <2>1. {} \in Supersteps
    BY DEF Supersteps
  <2>2. /\ at' = Entering({}) /\ UNCHANGED <<run, attempt, values>>
        /\ status' \in {"running", "waiting_approval", "completed", "cancelled", "failed"}
    BY <1>8 DEF Complete, FailRun
  <2> QED
    BY <2>1, <2>2, EnteringInPlace
<1>9. CASE Resume
  <2>1. Moves("human_approval", "working") /\ at["human_approval"].phase = "asked"
    BY <1>9, MoveMoves DEF Resume, In
  <2>2. NodeTask["human_approval"] # None /\ ~Idle("human_approval")
    BY DEF NodeTask, None, Idle, ItNodes
  <2>3. "human_approval" \in DOMAIN at
    BY <2>1 DEF Moves
  <2> QED
    BY <1>9, <1>f, <1>s, <2>1, <2>2, <2>3, MovesInPlace DEF Resume, Phases
<1>10. CASE AskHuman
  <2>1. Moves("human_approval", "asked")
    BY <1>10, MoveMoves DEF AskHuman, In
  <2> QED
    BY <1>10, <1>f, <2>1, MovesInPlace DEF AskHuman, Phases, Moves
<1>11. CASE Supervise
  <2>1. Moves("supervisor", "returned") /\ UNCHANGED <<run, attempt, status>>
    BY <1>11, MoveMoves DEF Supervise, In
  <2>2. DOMAIN values' = Fields
    BY <1>11, <1>f DEF Supervise
  <2>3. DOMAIN at = {"supervisor"}
    BY <2>1 DEF Moves, InPlace, Place, Supersteps, Searches, Voters
  <2>4. NodeInPlace("supervisor")'
    BY <2>1, <2>3 DEF NodeInPlace, Phases, ForResearch, Searches, Moves
  <2> QED
    BY <2>1, <2>2, <2>3, <2>4 DEF InPlace, Place, Moves
<1>12. CASE Correct
  <2>1. Moves("self_correction", "returned") /\ UNCHANGED <<run, status>>
    BY <1>12, MoveMoves DEF Correct, In
  <2>2. DOMAIN values' = Fields
    BY <1>12, <1>f DEF Correct
  <2>3. DOMAIN at = {"self_correction"}
    BY <2>1 DEF Moves, InPlace, Place, Supersteps, Searches, Voters
  <2>4. NodeInPlace("self_correction")'
    BY <2>1, <2>3 DEF NodeInPlace, Phases, ForResearch, Searches, Moves
  <2>5. attempt < run.limit
    BY <1>12, <2>3 DEF InPlace, Place, Correct, In
  <2>6. attempt' \in 0..run'.limit
    BY <1>12, <2>1, <2>5, RunTyped DEF Correct, NextAttempt, InPlace, Place
  <2> QED
    BY <2>1, <2>2, <2>3, <2>4, <2>6 DEF InPlace, Place, Moves
<1>13. ASSUME NEW n \in PlainNodes, NEW handed, Hands(n, handed) PROVE InPlace'
  <2>1. n \in DOMAIN at /\ UNCHANGED <<run, attempt, status>> /\ values' = handed
    BY <1>13 DEF Hands, Return, Leave, In
  <2>2. PICK p \in {"done", "returned"} : Moves(n, p)
    BY <1>13, <2>1, MoveMoves DEF Hands, Return, Leave
  <2> QED
    BY <1>13, <1>s, <2>1, <2>2, MovesInPlace DEF Hands, Phases
<1> QED
  BY <1>1, <1>2, <1>3, <1>4, <1>5, <1>6, <1>7, <1>8, <1>9, <1>10, <1>11, <1>12, <1>13, <1>f,
     NodeSteps DEF GraphNext, Engine

LEMMA PlaceInit == GraphInit => InPlace
<1> SUFFICES ASSUME GraphInit PROVE InPlace
  OBVIOUS
<1>1. DOMAIN at = {"memory_retrieve"} /\ at["memory_retrieve"].phase = "due"
  BY DEF GraphInit, Entering, Phase
<1>2. DOMAIN values = Fields
  BY DEF GraphInit, NoValues, Fields
<1>3. {"memory_retrieve"} \in Supersteps
  BY DEF Supersteps, Nodes, NodeTask, Searches, Voters
<1> QED
  BY <1>1, <1>2, <1>3, RunTyped DEF GraphInit, InPlace, Place, NodeInPlace, Phases, ForResearch, Searches

LEMMA AlwaysInPlace == GraphSpec => []InPlace
BY PlaceInit, PlaceStep, PTL DEF GraphSpec

-----------------------------------------------------------------------------
(* The checkpoints.                                                        *)

\* The number that was read stays the next one, as nobody else inserts until it
\* is used: the lock spans the reading and the inserting.
Numbering ==
    /\ checkpoints \in Seq(Nat)
    /\ CheckpointsCount
    /\ \A n \in DOMAIN at :
           at[n].phase = "numbered" =>
               /\ at[n].number = Len(checkpoints) + 1
               /\ \A m \in DOMAIN at : at[m].phase = "numbered" => m = n

\* The largest of the numbers used is how many there are.
LEMMA NextNumber ==
    ASSUME checkpoints \in Seq(Nat), CheckpointsCount
    PROVE  Max({0} \cup Range(checkpoints)) = Len(checkpoints)
<1> DEFINE used == {0} \cup Range(checkpoints)
<1>1. used = 0..Len(checkpoints)
  BY DEF CheckpointsCount, Range
<1>2. Len(checkpoints) \in Nat
  OBVIOUS
<1> HIDE DEF used
<1>3. \A x \in used : (\A y \in used : x >= y) <=> x = Len(checkpoints)
  BY <1>1, <1>2
<1> QED
  BY <1>1, <1>2, <1>3 DEF Max, used

\* A node that is no branch of a fork is alone in its superstep.
LEMMA Alone ==
    ASSUME InPlace, NEW n \in DOMAIN at, n \notin Searches \cup Voters
    PROVE  DOMAIN at = {n}
<1>1. CASE DOMAIN at \in {Searches, Voters, {}}
  BY <1>1
<1>2. ASSUME NEW k, DOMAIN at = {k} PROVE DOMAIN at = {n}
  BY <1>2
<1> QED
  BY <1>1, <1>2 DEF InPlace, Place, Supersteps

\* A step that numbers no checkpoint and inserts none.
LEMMA OthersKeepNumbering ==
    ASSUME Numbering, UNCHANGED checkpoints,
           \A m \in DOMAIN at' : at'[m].phase = "numbered" => m \in DOMAIN at /\ at'[m] = at[m]
    PROVE  Numbering'
BY DEF Numbering, CheckpointsCount

LEMMA MovesKeepNumbering ==
    ASSUME Numbering, UNCHANGED checkpoints, NEW n, NEW p, Moves(n, p), p # "numbered"
    PROVE  Numbering'
BY OthersKeepNumbering DEF Moves

LEMMA NumberingStep == InPlace /\ Numbering /\ [GraphNext]_graphVars => Numbering'
<1> SUFFICES ASSUME InPlace, Numbering, [GraphNext]_graphVars PROVE Numbering'
  OBVIOUS
<1>f. DOMAIN values = Fields
  BY DEF InPlace, Place
<1>1. CASE UNCHANGED graphVars
  BY <1>1 DEF graphVars, Numbering, CheckpointsCount
<1>2. ASSUME NEW n \in DOMAIN at, Begin(n) \/ Pass(n) \/ Raise(n) PROVE Numbering'
  <2>1. PICK p \in {"working", "done", "failed"} : Moves(n, p)
    BY <1>2, MoveMoves DEF Begin, Pass, Raise
  <2> QED
    BY <1>2, <2>1, MovesKeepNumbering DEF Begin, Pass, Raise
<1>3. ASSUME NEW n \in DOMAIN at, NumberCheckpoint(n) PROVE Numbering'
  <2>1. Moves(n, "numbered") /\ at'[n].number = Len(checkpoints) + 1
    BY <1>3, MoveMoves, NextNumber DEF NumberCheckpoint, Numbering
  <2>2. \A m \in DOMAIN at : at[m].phase # "numbered"
    BY <1>3 DEF NumberCheckpoint, LockFree
  <2>3. UNCHANGED checkpoints
    BY <1>3 DEF NumberCheckpoint
  <2> QED
    BY <2>1, <2>2, <2>3 DEF Numbering, CheckpointsCount, Moves
<1>4. ASSUME NEW n \in DOMAIN at, InsertCheckpoint(n) PROVE Numbering'
  <2>1. /\ Moves(n, "done") /\ at[n].phase = "numbered"
        /\ checkpoints' = Append(checkpoints, Len(checkpoints) + 1)
    BY <1>4, MoveMoves DEF InsertCheckpoint, In, Numbering
  <2>2. checkpoints' \in Seq(Nat) /\ CheckpointsCount'
    BY <2>1 DEF Numbering, CheckpointsCount
  <2>3. \A m \in DOMAIN at' : at'[m].phase # "numbered"
    BY <2>1 DEF Numbering, Moves
  <2> QED
    BY <2>2, <2>3 DEF Numbering
<1>5. CASE Advance \/ Complete \/ FailRun
  <2>1. PICK nodes : at' = Entering(nodes)
    BY <1>5 DEF Advance, Complete, FailRun
  <2>2. \A m \in DOMAIN at' : at'[m].phase # "numbered"
    BY <2>1 DEF Entering, Phase
  <2> QED
    BY <1>5, <2>2, OthersKeepNumbering DEF Advance, Complete, FailRun
<1>6. CASE Resume \/ AskHuman \/ Supervise \/ Correct
  <2>1. PICK n, p : Moves(n, p) /\ p # "numbered"
    BY <1>6, MoveMoves DEF Resume, AskHuman, Supervise, Correct, In
  <2> QED
    BY <1>6, <2>1, MovesKeepNumbering DEF Resume, AskHuman, Supervise, Correct
<1>7. ASSUME NEW n \in PlainNodes, NEW handed, Hands(n, handed) PROVE Numbering'
  <2>1. PICK p \in {"done", "returned"} : Moves(n, p)
    BY <1>7, MoveMoves DEF Hands, Return, Leave, In
  <2> QED
    BY <1>7, <2>1, MovesKeepNumbering DEF Hands, Return, Leave
<1> QED
  BY <1>1, <1>2, <1>3, <1>4, <1>5, <1>6, <1>7, <1>f, NodeSteps DEF GraphNext, Engine

\* Two branches of the graph never number a checkpoint alike, and no number is
\* skipped, however long a run and however its branches interleave.
THEOREM CheckpointsAreNumbered == GraphSpec => []CheckpointsCount
<1>1. GraphInit => Numbering
  BY DEF GraphInit, Numbering, CheckpointsCount, Entering, Phase
<1>2. Numbering => CheckpointsCount
  BY DEF Numbering
<1> QED
  BY <1>1, <1>2, AlwaysInPlace, NumberingStep, PTL DEF GraphSpec

-----------------------------------------------------------------------------
(* What is done in the present attempt, and what it has left.              *)

\* The order of the supersteps.
Stage ==
    [memory_retrieve |-> 0, it_triage |-> 1, supervisor |-> 2, research_dispatch |-> 3,
     enterprise_rag_research |-> 4, local_policy_research |-> 4, evidence_synthesis |-> 5,
     research_bypass |-> 5, it_history |-> 6, it_resolution |-> 7, risk_dispatch |-> 8,
     compliance_risk |-> 9, operational_risk |-> 9, risk_consensus |-> 10, risk_gate |-> 11,
     tool_execution |-> 12, human_approval |-> 13, critic |-> 14, self_correction |-> 15,
     memory_write |-> 16, finalize |-> 17]

Worked(n) == n \in DOMAIN at /\ at[n].phase \in Ended

\* The corrector has opened a new attempt in which nothing is done yet.
Renewed == Worked("self_correction") /\ values.retry

Done(n) == ~Renewed /\ (Worked(n) \/ \E m \in DOMAIN at : Stage[m] > Stage[n])

Dominates(v, w) == Higher(v.risk, w.risk) = v.risk /\ (w.approval => v.approval)

\* What a node leaves to those that follow it in the attempt.
Made(n) ==
    CASE n = "supervisor" -> values.plan.since = attempt
      [] n = "enterprise_rag_research" -> Researching => values.enterprise.since = attempt
      [] n = "local_policy_research" -> Researching => values.local.since = attempt
      [] n \in {"evidence_synthesis", "research_bypass"} -> values.research.since = attempt
      [] n = "it_history" -> run.it => values.history.since = attempt
      [] n = "it_resolution" ->
            run.it => values.resolution = Dated(Proposal(values.reading, values.research.evidence),
                                                attempt)
      [] n = "compliance_risk" ->
            /\ values.compliance.since = attempt
            /\ Dominates(values.compliance, ComplianceVote(values.plan))
      [] n = "operational_risk" ->
            /\ values.operational.since = attempt
            /\ Dominates(values.operational, OperationalVote(values.plan, values.research))
      [] n = "risk_consensus" ->
            /\ values.consensus.since = attempt
            /\ \A vote \in {values.plan, values.compliance, values.operational} :
                   Dominates(values.consensus, vote)
      [] n = "risk_gate" ->
            run.it => values.verdict =
                [since |-> attempt, gate |-> Evaluate(Handed(values.reading, values.resolution))]
      [] OTHER -> TRUE

\* The fields that Made(n) is about, and the field that n writes.
Uses(n) ==
    CASE n = "supervisor" -> {"plan"}
      [] n = "enterprise_rag_research" -> {"plan", "enterprise"}
      [] n = "local_policy_research" -> {"plan", "local"}
      [] n \in {"evidence_synthesis", "research_bypass"} -> {"research"}
      [] n = "it_history" -> {"history"}
      [] n = "it_resolution" -> {"reading", "research", "resolution"}
      [] n = "compliance_risk" -> {"plan", "compliance"}
      [] n = "operational_risk" -> {"plan", "research", "operational"}
      [] n = "risk_consensus" -> {"plan", "compliance", "operational", "consensus"}
      [] n = "risk_gate" -> {"reading", "resolution", "verdict"}
      [] OTHER -> {}

Writes ==
    [it_triage |-> "reading", supervisor |-> "plan", research_bypass |-> "research",
     enterprise_rag_research |-> "enterprise", local_policy_research |-> "local",
     evidence_synthesis |-> "research", it_history |-> "history",
     it_resolution |-> "resolution", compliance_risk |-> "compliance",
     operational_risk |-> "operational", risk_consensus |-> "consensus",
     risk_gate |-> "verdict", tool_execution |-> "execution", human_approval |-> "execution",
     critic |-> "passed", self_correction |-> "retry"]

AllMade == \A n \in Nodes : Done(n) => Made(n)

LEMMA StageTyped == \A n \in Nodes : n \in DOMAIN Stage /\ Stage[n] \in 0..17
BY DEF Nodes, NodeTask, Stage

\* No node writes what an earlier one, or the other branch of its fork, has left.
LEMMA WritesApart ==
    ASSUME NEW n \in DOMAIN Writes, NEW m \in Nodes, m # n,
           Stage[m] < Stage[n] \/ {m, n} \in {Searches, Voters}
    PROVE  Writes[n] \notin Uses(m)
<1>1. CASE m \in {"supervisor", "enterprise_rag_research", "local_policy_research",
                  "evidence_synthesis", "research_bypass"}
  BY <1>1 DEF Writes, Uses, Stage, Searches, Voters
<1>2. CASE m \in {"it_history", "it_resolution", "compliance_risk", "operational_risk"}
  BY <1>2 DEF Writes, Uses, Stage, Searches, Voters
<1>3. CASE m \in {"risk_consensus", "risk_gate"}
  BY <1>3 DEF Writes, Uses, Stage, Searches, Voters
<1> QED
  BY <1>1, <1>2, <1>3 DEF Uses

LEMMA MadeDepends ==
    ASSUME UNCHANGED <<run, attempt>>, NEW n \in Nodes, Made(n),
           \A f \in Uses(n) : values'[f] = values[f]
    PROVE  Made(n)'
<1> USE DEF Made, Uses
<1>1. CASE n \in {"supervisor", "evidence_synthesis", "research_bypass", "it_history"}
  BY <1>1
<1>2. CASE n \in {"enterprise_rag_research", "local_policy_research"}
  BY <1>2 DEF Researching
<1>3. CASE n = "it_resolution"
  BY <1>3 DEF Proposal, SelectAction
<1>4. CASE n \in {"compliance_risk", "operational_risk"}
  BY <1>4 DEF ComplianceVote, OperationalVote
<1>5. CASE n = "risk_consensus"
  BY <1>5
<1>6. CASE n = "risk_gate"
  BY <1>6 DEF Handed
<1> QED
  BY <1>1, <1>2, <1>3, <1>4, <1>5, <1>6

\* What is done lies before the present superstep or in it.
LEMMA DoneEarlier ==
    ASSUME InPlace, NEW n \in DOMAIN at, NEW m \in Nodes, Done(m), m # n
    PROVE  Stage[m] < Stage[n] \/ {m, n} \in {Searches, Voters}
<1>1. CASE DOMAIN at = Searches
  BY <1>1, StageTyped DEF Done, Worked, Searches, Stage
<1>2. CASE DOMAIN at = Voters
  BY <1>2, StageTyped DEF Done, Worked, Voters, Stage
<1>3. CASE DOMAIN at = {n}
  BY <1>3, StageTyped DEF Done, Worked
<1> QED
  BY <1>1, <1>2, <1>3 DEF InPlace, Place, Supersteps

\* A node that comes to another phase is the only one that can be done anew.
LEMMA MovesDone ==
    ASSUME NEW n, NEW p, Moves(n, p), values'.retry = values.retry,
           n = "self_correction" => (p \in Ended <=> at[n].phase \in Ended),
           p \notin Ended => at[n].phase \notin Ended,
           NEW m, Done(m)'
    PROVE  Done(m) \/ (m = n /\ at[n].phase \notin Ended /\ p \in Ended)
<1>1. Renewed' = Renewed
  BY DEF Renewed, Worked, Moves
<1> QED
  BY <1>1 DEF Done, Worked, Moves

\* A node may leave something new when what the earlier ones left is untouched.
LEMMA NewlyMade ==
    ASSUME InPlace, AllMade, NEW n \in DOMAIN at, n \in PlainNodes, NEW handed, Hands(n, handed),
           \/ handed = values
           \/ n \in DOMAIN Writes /\ \E v : handed = [values EXCEPT ![Writes[n]] = v],
           Made(n)'
    PROVE  AllMade'
<1> SUFFICES ASSUME NEW m \in Nodes, Done(m)' PROVE Made(m)'
  BY DEF AllMade
<1>1. n # "self_correction" /\ UNCHANGED <<run, attempt>> /\ values' = handed
  BY DEF Hands, Return, Leave, PlainNodes
<1>2. PICK p \in {"done", "returned"} : Moves(n, p)
  BY MoveMoves DEF Hands, Return, Leave
<1>3. at[n].phase \notin Ended
  BY DEF Hands, Return, Leave, In, Ended
<1>4. Done(m) \/ m = n
  BY <1>1, <1>2, <1>3, MovesDone DEF Hands, Ended
<1>5. CASE Done(m) /\ m # n
  <2>1. Stage[m] < Stage[n] \/ {m, n} \in {Searches, Voters}
    BY <1>5, DoneEarlier
  <2>2. Uses(m) \subseteq DOMAIN values
    BY DEF Uses, InPlace, Place, Fields
  <2>3. CASE handed = values
    BY <1>1, <1>5, <2>3, MadeDepends DEF AllMade
  <2>4. ASSUME n \in DOMAIN Writes, NEW v, handed = [values EXCEPT ![Writes[n]] = v] PROVE Made(m)'
    <3>1. Writes[n] \notin Uses(m)
      BY <1>5, <2>1, <2>4, WritesApart
    <3>2. \A f \in Uses(m) : values'[f] = values[f]
      BY <1>1, <2>2, <2>4, <3>1
    <3> QED
      BY <1>1, <1>5, <3>2, MadeDepends DEF AllMade
  <2> QED
    BY <2>3, <2>4
<1> QED
  BY <1>4, <1>5

\* Steps that touch no value.
LEMMA MovesKeepMade ==
    ASSUME InPlace, AllMade, NEW n \in DOMAIN at, NEW p, Moves(n, p),
           UNCHANGED <<run, attempt, values>>,
           n = "self_correction" => (p \in Ended <=> at[n].phase \in Ended),
           p \notin Ended => at[n].phase \notin Ended,
           p \in Ended /\ at[n].phase \notin Ended => Made(n)
    PROVE  AllMade'
<1>1. \A m \in Nodes : Done(m)' => Made(m)
  BY MovesDone DEF AllMade
<1> QED
  BY <1>1, MadeDepends DEF AllMade

\* The next superstep finds done what lies before it, or was passed by.
LEMMA AdvanceMade == InPlace /\ AllMade /\ Advance => AllMade'
<1> SUFFICES ASSUME InPlace, AllMade, Advance, NEW m \in Nodes, Done(m)' PROVE Made(m)'
  BY DEF AllMade
<1> DEFINE next == UNION {Successors(k) : k \in DOMAIN at}
<1>1. /\ DOMAIN at # {} /\ \A k \in DOMAIN at : at[k].phase = "done"
      /\ "finalize" \notin DOMAIN at
      /\ at' = Entering(next)
      /\ UNCHANGED <<run, attempt, values>>
  BY DEF Advance, In
<1>2. DOMAIN at' = next /\ \A k \in next : at'[k].phase = "due"
  BY <1>1 DEF Entering, Phase
<1>3. PICK k \in next : Stage[k] > Stage[m]
  BY <1>2 DEF Done, Worked, Ended
<1>4. PICK n \in DOMAIN at : k \in Successors(n)
  BY <1>3
<1>5. n \in Nodes
  BY DEF InPlace, Place, Supersteps, Searches, Voters, Nodes, NodeTask
<1>6. Worked(n)
  BY <1>1 DEF Worked, Ended
<1>7. CASE Renewed
  <2>1. n = "self_correction"
    BY <1>7, Alone DEF Renewed, Worked, Searches, Voters
  <2>2. k = "supervisor"
    BY <1>4, <1>7, <2>1 DEF Successors, Renewed, Retry
  <2>3. m \in {"memory_retrieve", "it_triage"}
    BY <1>3, <2>2 DEF Stage, Nodes, NodeTask
  <2> QED
    BY <2>3 DEF Made
<1>8. CASE ~Renewed
  <2>1. \A j \in Nodes : Worked(j) \/ Stage[n] > Stage[j] => Done(j)
    BY <1>8 DEF Done
  <2>2. CASE Done(m)
    BY <1>1, <2>2, MadeDepends DEF AllMade
  <2>3. CASE ~Done(m)
    <3>1. ~Worked(m) /\ Stage[m] >= Stage[n] /\ m # n
      BY <1>5, <1>6, <2>1, <2>3, StageTyped
    <3>2. m \notin DOMAIN at
      BY <1>1, <3>1 DEF Worked, Ended
    <3>3. CASE n = "supervisor"
      <4>1. k = "research_bypass" \/ k = "research_dispatch"
        BY <1>4, <3>3 DEF Successors
      <4>2. CASE k = "research_dispatch"
        BY <1>3, <3>1, <3>3, <4>2 DEF Stage, Nodes, NodeTask
      <4>3. CASE k = "research_bypass"
        <5>1. ~Researching
          BY <1>4, <3>3, <4>3 DEF Successors, Researching
        <5>2. m \in Searches \cup {"research_dispatch"}
          BY <1>3, <3>1, <3>3, <4>3 DEF Stage, Nodes, NodeTask, Searches
        <5> QED
          BY <1>1, <5>1, <5>2 DEF Made, Searches, Researching
      <4> QED
        BY <4>1, <4>2, <4>3
    <3>4. CASE n \in {"evidence_synthesis", "research_bypass"}
      <4>1. k = "it_history"
        BY <1>4, <3>4 DEF Successors
      <4>2. m \in {"evidence_synthesis", "research_bypass"}
        BY <1>3, <3>1, <3>4, <4>1 DEF Stage, Nodes, NodeTask
      <4>3. Made(n)
        BY <1>5, <1>6, <2>1 DEF AllMade
      <4> QED
        BY <1>1, <3>4, <4>2, <4>3 DEF Made
    <3>5. CASE n \in {"tool_execution", "critic", "human_approval", "self_correction", "memory_write"}
      <4>1. m \in {"tool_execution", "human_approval", "critic", "self_correction", "memory_write"}
        BY <1>3, <1>4, <3>1, <3>5 DEF Stage, Nodes, NodeTask, Successors, ToHuman, Retry
      <4> QED
        BY <4>1 DEF Made
    <3>6. CASE n \in Searches
      <4>1. DOMAIN at = Searches /\ k = "evidence_synthesis"
        BY <1>4, <3>6 DEF InPlace, Place, Supersteps, Searches, Voters, Successors
      <4> QED
        BY <1>3, <3>1, <3>2, <3>6, <4>1 DEF Stage, Nodes, NodeTask, Searches
    <3>7. CASE n \in Voters
      <4>1. DOMAIN at = Voters /\ k = "risk_consensus"
        BY <1>4, <3>7 DEF InPlace, Place, Supersteps, Searches, Voters, Successors
      <4> QED
        BY <1>3, <3>1, <3>2, <3>7, <4>1 DEF Stage, Nodes, NodeTask, Voters
    <3>8. CASE n \in {"memory_retrieve", "it_triage", "research_dispatch", "it_history",
                      "it_resolution", "risk_dispatch", "risk_consensus", "risk_gate"}
      BY <1>3, <1>4, <3>1, <3>8 DEF Stage, Nodes, NodeTask, Successors
    <3> QED
      BY <1>1, <1>5, <3>3, <3>4, <3>5, <3>6, <3>7, <3>8 DEF Nodes, NodeTask, Searches, Voters
  <2> QED
    BY <2>2, <2>3
<1> QED
  BY <1>7, <1>8

-----------------------------------------------------------------------------
(* What the agents make of what they are given.                            *)

\* A value with its date is the same value.
LEMMA DatedVote ==
    ASSUME NEW vote \in Votes, NEW s
    PROVE  Dated(vote, s) = [since |-> s, risk |-> vote.risk, approval |-> vote.approval]
BY DEF Dated, Votes

LEMMA DatedPlan ==
    ASSUME NEW plan \in Plans, NEW s
    PROVE  Dated(plan, s) = [since |-> s, risk |-> plan.risk, approval |-> plan.approval,
                             research |-> plan.research, side_effect |-> plan.side_effect]
BY DEF Dated, Plans

\* The ladder of risks is a total order.
LEMMA HigherIsHigher ==
    /\ \A a, b \in Risks : /\ Higher(a, b) \in {a, b}
                           /\ Higher(Higher(a, b), a) = Higher(a, b)
                           /\ Higher(Higher(a, b), b) = Higher(a, b)
    /\ \A a \in Risks : Higher(a, a) = a
    /\ \A a, b, c \in Risks : Higher(a, b) = a /\ Higher(b, c) = b => Higher(a, c) = a
    /\ \A a, b, c \in Risks : \E r \in {a, b, c} :
           Higher(r, a) = r /\ Higher(r, b) = r /\ Higher(r, c) = r
BY DEF Higher, Risks, RISK_ORDER

\* A model's suggestion only adds to a vote.
LEMMA CastDominates ==
    ASSUME NEW vote \in Votes, NEW cast \in Cast(vote)
    PROVE  cast \in Votes /\ Dominates(cast, vote)
<1>1. CASE cast = vote
  BY <1>1, HigherIsHigher DEF Dominates, Votes
<1>2. ASSUME NEW s \in Suggestions, cast = ApplySuggestion(vote, s)
      PROVE  cast \in Votes /\ Dominates(cast, vote)
  <2>1. s.risk \in Risks \cup {None} /\ s.approval \in BOOLEAN
    BY GraphAssumption
  <2>2. vote.risk \in Risks /\ vote.approval \in BOOLEAN
    BY DEF Votes
  <2>3. CASE s.risk = None
    BY <1>2, <2>1, <2>2, <2>3, HigherIsHigher DEF ApplySuggestion, Votes, Dominates
  <2>4. CASE s.risk # None
    <3>1. cast = [risk |-> Higher(vote.risk, s.risk), approval |-> vote.approval \/ s.approval]
      BY <1>2, <2>4 DEF ApplySuggestion
    <3>2. /\ Higher(vote.risk, s.risk) \in Risks
          /\ Higher(Higher(vote.risk, s.risk), vote.risk) = Higher(vote.risk, s.risk)
      BY <2>1, <2>2, <2>4, HigherIsHigher
    <3> QED
      BY <2>1, <2>2, <3>1, <3>2 DEF Votes, Dominates
  <2> QED
    BY <2>3, <2>4
<1> QED
  BY <1>1, <1>2 DEF Cast

\* The consensus is at least what each of the votes and the plan call for.
LEMMA ConsensusDominates ==
    ASSUME NEW plan, NEW c, NEW o,
           \A v \in {plan, c, o} : v.risk \in Risks /\ v.approval \in BOOLEAN
    PROVE  /\ Consensus(plan, {c, o}) \in Votes
           /\ \A v \in {plan, c, o} : Dominates(Consensus(plan, {c, o}), v)
<1> DEFINE fits(r) == \A v \in {c, o} \cup {plan} : Higher(r, v.risk) = r
           agreed == CHOOSE r \in {plan.risk} \cup {v.risk : v \in {c, o}} : fits(r)
<1>1. \E r \in {plan.risk} \cup {v.risk : v \in {c, o}} : fits(r)
  <2>1. PICK r \in {plan.risk, c.risk, o.risk} :
            Higher(r, plan.risk) = r /\ Higher(r, c.risk) = r /\ Higher(r, o.risk) = r
    BY HigherIsHigher
  <2> QED
    BY <2>1
<1> HIDE DEF fits
<1>2. agreed \in {plan.risk} \cup {v.risk : v \in {c, o}} /\ fits(agreed)
  BY <1>1
<1>3. Consensus(plan, {c, o}) =
          [risk |-> agreed, approval |-> plan.approval \/ \E v \in {c, o} : v.approval]
  BY DEF Consensus, fits
<1>4. agreed \in Risks
  BY <1>2
<1> HIDE DEF agreed
<1> QED
  BY <1>2, <1>3, <1>4 DEF Votes, Dominates, fits

LEMMA VotesTyped ==
    ASSUME NEW plan, plan.risk \in Risks, plan.approval \in BOOLEAN, NEW research
    PROVE  ComplianceVote(plan) \in Votes /\ OperationalVote(plan, research) \in Votes
<1>1. "medium" \in Risks
  BY DEF Risks, RISK_ORDER
<1>2. Higher(plan.risk, "medium") \in Risks
  BY <1>1, HigherIsHigher
<1> QED
  BY <1>2 DEF ComplianceVote, OperationalVote, Votes

\* The gate's verdict is one of the four, whatever it is asked about.
LEMMA EvaluateTyped == \A p : Evaluate(p) \in GateDecisions
<1> SUFFICES ASSUME NEW p PROVE Evaluate(p) \in GateDecisions
  OBVIOUS
<1>1. ~Denied(p) /\ ~Ungrounded(p) => ACTION_CLASSES[p.action_type].tool # NoTool
  BY DEF Denied, Ungrounded, ACTION_CLASSES, Class, NoTool
<1> QED
  BY <1>1 DEF Evaluate, GateDecisions, Gate

\* What the model's answer leaves of the reading by the rules: what it knew, and
\* what it asked a human for.
Faithful(r) ==
    /\ r \in Readings
    /\ Base.needs_approval => r.needs_approval
    /\ Base.urgent => r.urgent
    /\ r.intent = "PERMISSION_REQUEST" => r.needs_approval
    /\ Base.environment # None => r.environment = Base.environment

LEMMA DeriveTyped ==
    ASSUME NEW r \in Readings, NEW paid \in BOOLEAN
    PROVE  /\ Derive(r, paid) \in Readings
           /\ Derive(r, paid).intent = r.intent
           /\ Derive(r, paid).environment = r.environment
           /\ Derive(r, paid).missing = Missing(r)
           /\ r.intent \in {"PERMISSION_REQUEST", "ASSET_REQUEST"} => Derive(r, paid).needs_approval
           /\ r.intent = "IT_INCIDENT" /\ r.environment = "production" =>
                  Derive(r, paid).needs_approval
<1> DEFINE u == Urgent(r)  a == NeedsApproval(r.intent, r.environment, paid)  m == Missing(r)
<1>1. u \in BOOLEAN /\ a \in BOOLEAN /\ m \in SUBSET {"service", "resource", "software", "environment"}
  BY DEF Urgent, NeedsApproval, Missing
<1>2. /\ r.intent \in {"PERMISSION_REQUEST", "ASSET_REQUEST"} => a
      /\ r.intent = "IT_INCIDENT" /\ r.environment = "production" => a
  BY DEF NeedsApproval
<1>3. Derive(r, paid) = [r EXCEPT !.urgent = u, !.needs_approval = a, !.missing = m]
  BY DEF Derive
<1> HIDE DEF u, a, m
<1>4. /\ Derive(r, paid) \in Readings
      /\ Derive(r, paid).intent = r.intent /\ Derive(r, paid).environment = r.environment
      /\ Derive(r, paid).missing = m /\ Derive(r, paid).needs_approval = a
  BY <1>1, <1>3 DEF Readings
<1> QED
  BY <1>2, <1>4 DEF m

LEMMA ClassifyFaithful ==
    ASSUME run \in Runs
    PROVE  /\ Faithful(Base)
           /\ Base.intent \in {"PERMISSION_REQUEST", "ASSET_REQUEST"} => Base.needs_approval
           /\ Base.intent = "IT_INCIDENT" /\ Base.environment = "production" => Base.needs_approval
           /\ Base.intent = "IT_INCIDENT" /\ Base.environment = None => Base.missing # {}
<1> DEFINE t == run.filed
           intent == ResolveIntent(t)
           Only(i, code) == IF intent = i THEN code ELSE None
           r == [intent |-> intent,
                 service |-> Only("IT_INCIDENT", t.service),
                 resource |-> Only("PERMISSION_REQUEST", t.resource),
                 product |-> Only("SOFTWARE_REQUEST", t.product),
                 environment |-> t.environment,
                 access_level |-> intent = "PERMISSION_REQUEST" /\ t.access_level,
                 urgent |-> FALSE, needs_approval |-> FALSE, missing |-> {},
                 matched |-> t.permission \/ SoftwareHit(t) \/ t.asset \/ t.incident]
<1>1. t \in Texts
  BY RunTyped
<1>2. intent \in Intents
  BY DEF ResolveIntent, Intents
<1>3. Base = Derive(r, t.paid)
  BY DEF Base, Classify
<1>4. (t.permission \/ SoftwareHit(t) \/ t.asset \/ t.incident) \in BOOLEAN
  BY DEF SoftwareHit
<1>5. /\ t.service \in Services \cup {None} /\ t.resource \in Resources \cup {None}
      /\ t.product \in Products \cup {None} /\ t.environment \in Places \cup {None}
      /\ t.paid \in BOOLEAN
  BY <1>1 DEF Texts
<1> HIDE DEF intent, t
<1>6. r \in Readings
  BY <1>2, <1>4, <1>5 DEF Readings
<1>7. r.intent = "IT_INCIDENT" /\ r.environment = None => Missing(r) # {}
  <2> SUFFICES ASSUME r.intent = "IT_INCIDENT", r.environment = None PROVE "environment" \in Missing(r)
    OBVIOUS
  <2> QED
    BY DEF Missing
<1> HIDE DEF r
<1> QED
  BY <1>3, <1>5, <1>6, <1>7, DeriveTyped DEF Faithful

\* The merge of the model's answer keeps what the rules have found.
LEMMA FallbackFaithful ==
    ASSUME run \in Runs, NEW answer \in Answers
    PROVE  Faithful(LlmFallback(Base, answer, run.text))
<1> DEFINE filled == [Base EXCEPT !.intent = answer.intent,
                                  !.service = Fill(Base.service, answer.service),
                                  !.resource = Fill(Base.resource, answer.resource),
                                  !.product = Fill(Base.product, answer.product),
                                  !.environment = Fill(Base.environment, answer.environment),
                                  !.matched = TRUE]
           merged == Derive(filled, run.text.paid)
<1>1. Faithful(Base) /\ Base \in Readings
  BY ClassifyFaithful DEF Faithful
<1>2. CASE answer.intent = None
  BY <1>1, <1>2 DEF LlmFallback
<1>3. CASE answer.intent # None
  <2>1. run.text.paid \in BOOLEAN
    BY RunTyped DEF Texts
  <2>2. answer.intent \in Intents
    BY <1>3 DEF Answers
  <2>3. /\ filled \in Readings /\ filled.intent = answer.intent
        /\ filled.environment = Fill(Base.environment, answer.environment)
    <3>1. /\ Fill(Base.service, answer.service) \in Services \cup {None}
          /\ Fill(Base.resource, answer.resource) \in Resources \cup {None}
          /\ Fill(Base.product, answer.product) \in Products \cup {None}
          /\ Fill(Base.environment, answer.environment) \in Places \cup {None}
      BY <1>1 DEF Fill, Readings, Answers
    <3> QED
      BY <1>1, <2>2, <3>1 DEF Readings
  <2>4. LlmFallback(Base, answer, run.text) =
            [merged EXCEPT !.urgent = @ \/ Base.urgent,
                           !.needs_approval = @ \/ Base.needs_approval]
    BY <1>3 DEF LlmFallback, Refined
  <2>5. /\ merged \in Readings /\ merged.intent = answer.intent
        /\ merged.environment = Fill(Base.environment, answer.environment)
        /\ merged.intent = "PERMISSION_REQUEST" => merged.needs_approval
    BY <2>1, <2>3, DeriveTyped
  <2> HIDE DEF merged
  <2> DEFINE read == LlmFallback(Base, answer, run.text)
  <2>6. merged.urgent \in BOOLEAN /\ merged.needs_approval \in BOOLEAN
        /\ Base.urgent \in BOOLEAN /\ Base.needs_approval \in BOOLEAN
    BY <1>1, <2>5 DEF Readings
  <2>7. /\ read \in Readings /\ read.intent = merged.intent
        /\ read.environment = merged.environment
        /\ read.urgent = (merged.urgent \/ Base.urgent)
        /\ read.needs_approval = (merged.needs_approval \/ Base.needs_approval)
    BY <2>4, <2>5, <2>6 DEF Readings
  <2> QED
    BY <2>5, <2>7 DEF Faithful, Fill
<1> QED
  BY <1>2, <1>3

-----------------------------------------------------------------------------
(* The values of an attempt.                                               *)

VoteTyped(v) == v.risk \in Risks /\ v.approval \in BOOLEAN

ValuesTyped ==
    /\ VoteTyped(values.plan) /\ values.plan.research \in BOOLEAN
    /\ VoteTyped(values.compliance) /\ VoteTyped(values.operational) /\ VoteTyped(values.consensus)
    /\ values.verdict.gate \in GateDecisions \cup {NoGate}
    /\ Faithful(values.reading)

GoodValues == ValuesTyped /\ AllMade

\* A node that hands on one new field has done its part once that field is as
\* it should be.
LEMMA FieldWritten ==
    ASSUME InPlace, GoodValues, NEW n \in DOMAIN Writes, n \in PlainNodes, NEW v,
           n \in DOMAIN at,
           Return(n, [values EXCEPT ![Writes[n]] = v]) \/ Leave(n, [values EXCEPT ![Writes[n]] = v])
    PROVE  /\ values'[Writes[n]] = v
           /\ \A f \in Fields \ {Writes[n]} : values'[f] = values[f]
           /\ UNCHANGED <<run, attempt>>
           /\ Made(n)' => AllMade'
<1> DEFINE handed == [values EXCEPT ![Writes[n]] = v]
<1>1. DOMAIN values = Fields /\ Writes[n] \in Fields \ {"plan", "retry"}
  BY DEF InPlace, Place, Writes, Fields, PlainNodes
<1>2. Hands(n, handed)
  BY <1>1, HandedFields DEF Hands
<1>3. values' = handed /\ UNCHANGED <<run, attempt>>
  BY DEF Return, Leave
<1>4. Made(n)' => AllMade'
  BY <1>2, NewlyMade DEF GoodValues
<1> QED
  BY <1>1, <1>3, <1>4

\* Types of fields that are not written stay.
LEMMA TypesKept ==
    ASSUME ValuesTyped, UNCHANGED run, NEW f \in Fields,
           \A g \in Fields \ {f} : values'[g] = values[g],
           f = "plan" => VoteTyped(values'.plan) /\ values'.plan.research \in BOOLEAN,
           f \in {"compliance", "operational", "consensus"} => VoteTyped(values'[f]),
           f = "verdict" => values'.verdict.gate \in GateDecisions,
           f = "reading" => Faithful(values'.reading)
    PROVE  ValuesTyped'
<1>1. \A r : Faithful(r)' <=> Faithful(r')
  BY DEF Faithful, Base
<1>2. \A g \in Fields : g # f => values'[g] = values[g]
  OBVIOUS
<1>3. Faithful(values.reading)'
  BY <1>1, <1>2 DEF ValuesTyped, Fields, Faithful, Base
<1>4. /\ VoteTyped(values.plan)' /\ values'.plan.research \in BOOLEAN
      /\ VoteTyped(values.compliance)' /\ VoteTyped(values.operational)'
      /\ VoteTyped(values.consensus)'
      /\ values'.verdict.gate \in GateDecisions \cup {NoGate}
  BY <1>2 DEF ValuesTyped, Fields, VoteTyped
<1> QED
  BY <1>3, <1>4 DEF ValuesTyped

LEMMA MinOfEqual == \A a \in Int : Min({a, a}) = a /\ Min({a, a, a}) = a /\ Min({a}) = a
BY DEF Min

\* What is done when a node is at work: everything before it that is not passed by.
LEMMA DoneBefore ==
    ASSUME InPlace, AllMade, NEW n \in DOMAIN at, NEW m \in Nodes, Stage[m] < Stage[n],
           n = "self_correction" => at[n].phase \notin Ended
    PROVE  Done(m) /\ Made(m)
<1>1. ~Renewed
  <2>1. CASE n = "self_correction"
    BY <2>1 DEF Renewed, Worked
  <2>2. CASE n # "self_correction"
    BY <2>2, Alone DEF Renewed, Worked, Searches, Voters
  <2> QED
    BY <2>1, <2>2
<1> QED
  BY <1>1 DEF Done, AllMade

\* Every node leaves what it should.
LEMMA NodesMake ==
    InPlace /\ GoodValues /\ NodeReturns /\ ~Supervise /\ ~Correct /\ ~AskHuman => GoodValues'
<1> SUFFICES ASSUME InPlace, GoodValues, NodeReturns, ~Supervise, ~Correct, ~AskHuman
             PROVE  GoodValues'
  OBVIOUS
<1> USE DEF GoodValues
<1>a. attempt \in Int
  BY RunTyped DEF InPlace, Place
<1>t. /\ run.it \in BOOLEAN
      /\ DOMAIN values = Fields
  BY RunTyped DEF InPlace, Place
<1>1. CASE RetrieveMemories \/ WriteMemory \/ Summarise
  <2>1. PICK n \in {"memory_retrieve", "memory_write", "finalize"} :
            Return(n, values) \/ Leave(n, values)
    BY <1>1 DEF RetrieveMemories, WriteMemory, Summarise
  <2>2. Hands(n, values) /\ n \in DOMAIN at /\ n \in PlainNodes
    BY <1>t, <2>1 DEF Hands, Return, Leave, In, PlainNodes, Nodes, NodeTask
  <2>3. Made(n)' /\ UNCHANGED <<run, values>>
    BY <2>1 DEF Made, Return, Leave
  <2> QED
    BY <2>2, <2>3, NewlyMade DEF ValuesTyped, VoteTyped, Faithful, Base
<1>2. CASE ItTriage
  <2>1. CASE Return("it_triage", values)
    <3>1. Hands("it_triage", values) /\ "it_triage" \in DOMAIN at /\ "it_triage" \in PlainNodes
      BY <1>t, <2>1 DEF Hands, Return, Leave, In, PlainNodes, Nodes, NodeTask
    <3>2. Made("it_triage")' /\ UNCHANGED <<run, values>>
      BY <2>1 DEF Made, Return, Leave
    <3> QED
      BY <3>1, <3>2, NewlyMade DEF ValuesTyped, VoteTyped, Faithful, Base
  <2>2. ASSUME NEW answer \in Answers,
               Return("it_triage", [values EXCEPT !.reading = LlmFallback(Base, answer, run.text)])
        PROVE  GoodValues'
    <3> DEFINE read == LlmFallback(Base, answer, run.text)
    <3>1. "it_triage" \in DOMAIN Writes /\ Writes["it_triage"] = "reading"
          /\ "it_triage" \in PlainNodes /\ "it_triage" \in DOMAIN at
      BY <2>2 DEF Writes, PlainNodes, Nodes, NodeTask, Return, In
    <3>2. Faithful(read)
      BY FallbackFaithful DEF InPlace, Place
    <3> HIDE DEF read
    <3>3. /\ values'.reading = read /\ UNCHANGED run
          /\ \A f \in Fields \ {"reading"} : values'[f] = values[f]
          /\ Made("it_triage")' => AllMade'
      BY <2>2, <3>1, FieldWritten DEF read
    <3>4. Made("it_triage")'
      BY DEF Made
    <3>5. "reading" \in Fields
      BY DEF Fields
    <3>6. ValuesTyped'
      BY <3>2, <3>3, <3>5, TypesKept
    <3> QED
      BY <3>3, <3>4, <3>6
  <2> QED
    BY <1>2, <2>1, <2>2 DEF ItTriage
<1>3. ASSUME NEW n \in {"research_bypass", "enterprise_rag_research", "local_policy_research",
                        "evidence_synthesis", "it_history"},
             NEW v, v.since = attempt,
             Return(n, [values EXCEPT ![Writes[n]] = v]) \/ Leave(n, [values EXCEPT ![Writes[n]] = v])
      PROVE  GoodValues'
  <2>1. n \in DOMAIN Writes /\ n \in PlainNodes /\ n \in DOMAIN at
    BY <1>3 DEF Writes, PlainNodes, Nodes, NodeTask, Return, Leave, In
  <2>2. /\ values'[Writes[n]] = v /\ UNCHANGED <<run, attempt>>
        /\ \A f \in Fields \ {Writes[n]} : values'[f] = values[f]
        /\ Made(n)' => AllMade'
    BY <1>3, <2>1, FieldWritten
  <2>3. Made(n)'
    BY <1>3, <2>2 DEF Made, Writes
  <2>4. Writes[n] \in {"research", "enterprise", "local", "history"}
    BY DEF Writes
  <2>5. ValuesTyped'
    BY <2>2, <2>4, TypesKept DEF Fields
  <2> QED
    BY <2>2, <2>3, <2>5
<1>4. CASE BypassResearch \/ SearchEnterprise \/ SearchLocal \/ SearchHistory
  <2>1. CASE BypassResearch
    <3>1. Leave("research_bypass",
               [values EXCEPT !.research = [since |-> attempt, evidence |-> {}, searched |-> FALSE]])
      BY <2>1 DEF BypassResearch
    <3> DEFINE v == [since |-> attempt, evidence |-> {}, searched |-> FALSE]
    <3>2. v.since = attempt
      OBVIOUS
    <3>3. Writes["research_bypass"] = "research"
      BY DEF Writes
    <3> HIDE DEF v
    <3>4. Leave("research_bypass", [values EXCEPT ![Writes["research_bypass"]] = v])
      BY <3>1, <3>3 DEF v
    <3> QED
      BY <1>3, <3>2, <3>4
  <2>2. CASE SearchEnterprise
    <3>1. PICK found :
              Return("enterprise_rag_research", [values EXCEPT !.enterprise = [since |-> attempt, evidence |-> found]])
      BY <2>2 DEF SearchEnterprise
    <3> DEFINE v == [since |-> attempt, evidence |-> found]
    <3>2. v.since = attempt
      OBVIOUS
    <3>3. Writes["enterprise_rag_research"] = "enterprise"
      BY DEF Writes
    <3> HIDE DEF v
    <3>4. Return("enterprise_rag_research", [values EXCEPT ![Writes["enterprise_rag_research"]] = v])
      BY <3>1, <3>3 DEF v
    <3> QED
      BY <1>3, <3>2, <3>4
  <2>3. CASE SearchLocal
    <3>1. PICK found :
              Return("local_policy_research", [values EXCEPT !.local = [since |-> attempt, evidence |-> found]])
      BY <2>3 DEF SearchLocal
    <3> DEFINE v == [since |-> attempt, evidence |-> found]
    <3>2. v.since = attempt
      OBVIOUS
    <3>3. Writes["local_policy_research"] = "local"
      BY DEF Writes
    <3> HIDE DEF v
    <3>4. Return("local_policy_research", [values EXCEPT ![Writes["local_policy_research"]] = v])
      BY <3>1, <3>3 DEF v
    <3> QED
      BY <1>3, <3>2, <3>4
  <2>4. CASE SearchHistory
    <3>1. PICK found :
              Return("it_history", [values EXCEPT !.history = [since |-> attempt, evidence |-> found]])
      BY <2>4 DEF SearchHistory
    <3> DEFINE v == [since |-> attempt, evidence |-> found]
    <3>2. v.since = attempt
      OBVIOUS
    <3>3. Writes["it_history"] = "history"
      BY DEF Writes
    <3> HIDE DEF v
    <3>4. Return("it_history", [values EXCEPT ![Writes["it_history"]] = v])
      BY <3>1, <3>3 DEF v
    <3> QED
      BY <1>3, <3>2, <3>4
  <2> QED
    BY <1>4, <2>1, <2>2, <2>3, <2>4
<1>5. CASE Synthesise
  <2> DEFINE made == [since |-> Min({values.enterprise.since, values.local.since}),
                      evidence |-> values.enterprise.evidence \cup values.local.evidence,
                      searched |-> TRUE]
  <2>1. "evidence_synthesis" \in DOMAIN at
    BY <1>5 DEF Synthesise, Return, In
  <2>2. Researching
    BY <2>1 DEF InPlace, NodeInPlace, ForResearch
  <2>3. values.enterprise.since = attempt /\ values.local.since = attempt
    <3>1. Made("enterprise_rag_research") /\ Made("local_policy_research")
      BY <2>1, DoneBefore DEF Stage, Nodes, NodeTask
    <3> QED
      BY <2>2, <3>1 DEF Made
  <2>4. made.since = attempt
    BY <1>a, <2>3, MinOfEqual
  <2>5. Return("evidence_synthesis", [values EXCEPT !.research = made])
    BY <1>5 DEF Synthesise
  <2> HIDE DEF made
  <2> QED
    BY <1>3, <2>4, <2>5 DEF Writes
<1>6. CASE ProposeResolution
  <2>1. "it_resolution" \in DOMAIN at /\ run.it
    BY <1>6 DEF ProposeResolution, Return, In, InPlace, NodeInPlace, Idle, ItNodes
  <2>2. values.research.since = attempt /\ values.history.since = attempt
    <3>1. Made("evidence_synthesis") /\ Made("it_history")
      BY <2>1, DoneBefore DEF Stage, Nodes, NodeTask
    <3> QED
      BY <2>1, <3>1 DEF Made
  <2>3. Min({values.research.since, values.history.since}) = attempt
    BY <1>a, <2>2, MinOfEqual
  <2> DEFINE made == Dated(Proposal(values.reading, values.research.evidence), attempt)
  <2>4. Return("it_resolution", [values EXCEPT !.resolution = made])
    BY <1>6, <2>3 DEF ProposeResolution, Resolve
  <2>5. /\ "it_resolution" \in DOMAIN Writes /\ Writes["it_resolution"] = "resolution"
        /\ "it_resolution" \in PlainNodes
    BY DEF Writes, PlainNodes, Nodes, NodeTask
  <2> HIDE DEF made
  <2>6. /\ values'.resolution = made /\ UNCHANGED <<run, attempt>>
        /\ \A f \in Fields \ {"resolution"} : values'[f] = values[f]
        /\ Made("it_resolution")' => AllMade'
    BY <2>1, <2>4, <2>5, FieldWritten
  <2>7. values'.reading = values.reading /\ values'.research = values.research
    BY <2>6 DEF Fields
  <2>8. Made("it_resolution")'
    BY <2>6, <2>7 DEF Made, made, Dated, Proposal, SelectAction
  <2>9. ValuesTyped'
    BY <2>6, TypesKept DEF Fields
  <2> QED
    BY <2>6, <2>8, <2>9
<1> DEFINE FromVote(n, vote, field) ==
        \E cast \in Cast(vote) : Return(n, [values EXCEPT ![field] = Dated(cast, VoteSince)])
<1>7. CASE VoteOnCompliance \/ VoteOnOperations
  <2>1. PICK n \in Voters :
            /\ n \in DOMAIN at
            /\ \/ n = "compliance_risk" /\ FromVote(n, ComplianceVote(values.plan), "compliance")
               \/ n = "operational_risk"
                  /\ FromVote(n, OperationalVote(values.plan, values.research), "operational")
    BY <1>7 DEF VoteOnCompliance, VoteOnOperations, Return, In, Voters
  <2>2. VoteSince = attempt
    <3>1. Made("supervisor") /\ Made("evidence_synthesis")
      BY <2>1, DoneBefore DEF Stage, Nodes, NodeTask, Voters
    <3> QED
      BY <1>a, <3>1, MinOfEqual DEF Made, VoteSince
  <2> DEFINE vote == IF n = "compliance_risk" THEN ComplianceVote(values.plan)
                     ELSE OperationalVote(values.plan, values.research)
  <2>3. vote \in Votes
    BY VotesTyped DEF ValuesTyped, VoteTyped
  <2>c. PICK cast \in Cast(vote) : Return(n, [values EXCEPT ![Writes[n]] = Dated(cast, attempt)])
    BY <2>1, <2>2 DEF Writes
  <2>4. cast \in Votes /\ Dominates(cast, vote)
    BY <2>3, CastDominates
  <2>5. n \in DOMAIN Writes /\ n \in PlainNodes
    BY DEF Writes, PlainNodes, Nodes, NodeTask, Voters
  <2> DEFINE made == Dated(cast, attempt)
  <2>6. made = [since |-> attempt, risk |-> cast.risk, approval |-> cast.approval]
    BY <2>4, DatedVote
  <2>7. VoteTyped(made) /\ made.since = attempt /\ Dominates(made, vote)
    BY <2>4, <2>6 DEF VoteTyped, Votes, Dominates
  <2> HIDE DEF made
  <2>8. /\ values'[Writes[n]] = made /\ UNCHANGED <<run, attempt>>
        /\ \A f \in Fields \ {Writes[n]} : values'[f] = values[f]
        /\ Made(n)' => AllMade'
    BY <2>1, <2>c, <2>5, FieldWritten DEF made
  <2>9. values'.plan = values.plan /\ values'.research = values.research
    BY <2>8 DEF Fields, Writes, Voters
  <2>10. Made(n)'
    <3>1. ComplianceVote(values.plan)' = ComplianceVote(values.plan)
      BY <2>8, <2>9 DEF ComplianceVote
    <3>2. OperationalVote(values.plan, values.research)' = OperationalVote(values.plan, values.research)
      BY <2>8, <2>9 DEF OperationalVote
    <3> QED
      BY <2>7, <2>8, <3>1, <3>2 DEF Made, Writes, Voters, Dominates
  <2>11. ValuesTyped'
    BY <2>7, <2>8, TypesKept DEF Fields, Writes, Voters
  <2> QED
    BY <2>8, <2>10, <2>11
<1>8. CASE ReachConsensus
  <2>1. "risk_consensus" \in DOMAIN at
    BY <1>8 DEF ReachConsensus, Return, In
  <2>2. /\ values.plan.since = attempt /\ values.compliance.since = attempt
        /\ values.operational.since = attempt
    <3>1. Made("supervisor") /\ Made("compliance_risk") /\ Made("operational_risk")
      BY <2>1, DoneBefore DEF Stage, Nodes, NodeTask
    <3> QED
      BY <3>1 DEF Made
  <2> DEFINE agreed == Consensus(values.plan, {values.compliance, values.operational})
             made == Dated(agreed, attempt)
  <2>3. Return("risk_consensus", [values EXCEPT !.consensus = made])
    BY <1>8, <1>a, <2>2, MinOfEqual DEF ReachConsensus
  <2>4. /\ agreed \in Votes
        /\ \A v \in {values.plan, values.compliance, values.operational} : Dominates(agreed, v)
    BY ConsensusDominates DEF ValuesTyped, VoteTyped
  <2>5. made = [since |-> attempt, risk |-> agreed.risk, approval |-> agreed.approval]
    BY <2>4, DatedVote
  <2>6. /\ VoteTyped(made) /\ made.since = attempt
        /\ \A v \in {values.plan, values.compliance, values.operational} : Dominates(made, v)
    BY <2>4, <2>5 DEF VoteTyped, Votes, Dominates
  <2> HIDE DEF made, agreed
  <2>7. /\ "risk_consensus" \in DOMAIN Writes /\ Writes["risk_consensus"] = "consensus"
        /\ "risk_consensus" \in PlainNodes
    BY DEF Writes, PlainNodes, Nodes, NodeTask
  <2>8. /\ values'.consensus = made /\ UNCHANGED <<run, attempt>>
        /\ \A f \in Fields \ {"consensus"} : values'[f] = values[f]
        /\ Made("risk_consensus")' => AllMade'
    BY <2>1, <2>3, <2>7, FieldWritten
  <2>9. /\ values'.plan = values.plan /\ values'.compliance = values.compliance
        /\ values'.operational = values.operational
    BY <2>8 DEF Fields
  <2>10. Made("risk_consensus")'
    BY <2>6, <2>8, <2>9 DEF Made, Dominates
  <2>11. ValuesTyped'
    BY <2>6, <2>8, TypesKept DEF Fields
  <2> QED
    BY <2>8, <2>10, <2>11
<1>9. CASE ApplyGate
  <2>1. "risk_gate" \in DOMAIN at /\ run.it
    BY <1>9 DEF ApplyGate, Leave, In, Idle, ItNodes
  <2> DEFINE verdict == Evaluate(Handed(values.reading, values.resolution))
             made == [since |-> values.resolution.since, gate |-> verdict]
  <2>2. Leave("risk_gate", [values EXCEPT !.verdict = made])
    BY <1>9 DEF ApplyGate
  <2>3. Made("it_resolution")
    BY <2>1, DoneBefore DEF Stage, Nodes, NodeTask
  <2>4. values.resolution.since = attempt
    BY <2>1, <2>3 DEF Made, Dated, Proposal
  <2>5. verdict \in GateDecisions
    BY EvaluateTyped
  <2> HIDE DEF verdict
  <2>6. /\ "risk_gate" \in DOMAIN Writes /\ Writes["risk_gate"] = "verdict"
        /\ "risk_gate" \in PlainNodes
    BY DEF Writes, PlainNodes, Nodes, NodeTask
  <2>7. /\ values'.verdict = made /\ UNCHANGED <<run, attempt>>
        /\ \A f \in Fields \ {"verdict"} : values'[f] = values[f]
        /\ Made("risk_gate")' => AllMade'
    BY <2>1, <2>2, <2>6, FieldWritten
  <2>8. values'.reading = values.reading /\ values'.resolution = values.resolution
    BY <2>7 DEF Fields
  <2>9. Made("risk_gate")'
    BY <2>4, <2>7, <2>8 DEF Made, verdict, Handed
  <2>10. ValuesTyped'
    BY <2>5, <2>7, TypesKept DEF Fields
  <2> QED
    BY <2>7, <2>9, <2>10
<1>10. CASE ExecuteTools \/ SummariseDecision \/ Criticise
  <2>1. PICK n \in {"tool_execution", "human_approval", "critic"} : \E v :
            Return(n, [values EXCEPT ![Writes[n]] = v])
    BY <1>10 DEF ExecuteTools, SummariseDecision, Criticise, Writes
  <2>2. PICK v : Return(n, [values EXCEPT ![Writes[n]] = v])
    BY <2>1
  <2>3. n \in DOMAIN Writes /\ n \in PlainNodes /\ n \in DOMAIN at
    BY <2>2 DEF Writes, PlainNodes, Nodes, NodeTask, Return, In
  <2>4. /\ UNCHANGED <<run, attempt>>
        /\ \A f \in Fields \ {Writes[n]} : values'[f] = values[f]
        /\ Made(n)' => AllMade'
    BY <2>2, <2>3, FieldWritten
  <2>5. Made(n)'
    BY DEF Made
  <2>6. Writes[n] \in {"execution", "passed"}
    BY DEF Writes
  <2>7. ValuesTyped'
    BY <2>4, <2>6, TypesKept DEF Fields
  <2> QED
    BY <2>4, <2>5, <2>7
<1> QED
  BY <1>1, <1>2, <1>4, <1>5, <1>6, <1>7, <1>8, <1>9, <1>10 DEF NodeReturns

LEMMA ValuesInit == GraphInit => GoodValues
<1> SUFFICES ASSUME GraphInit PROVE GoodValues
  OBVIOUS
<1>1. DOMAIN at = {"memory_retrieve"} /\ at["memory_retrieve"].phase = "due"
  BY DEF GraphInit, Entering, Phase
<1>2. \A m \in Nodes : ~Done(m)
  BY <1>1 DEF Done, Worked, Ended, Stage, Nodes, NodeTask
<1>3. Faithful(Base)
  BY ClassifyFaithful DEF GraphInit
<1>4. "low" \in Risks
  BY DEF Risks, RISK_ORDER
<1> QED
  BY <1>2, <1>3, <1>4 DEF GraphInit, GoodValues, AllMade, ValuesTyped, VoteTyped, NoValues, NoVote

LEMMA ValuesStep == InPlace /\ GoodValues /\ [GraphNext]_graphVars => GoodValues'
<1> SUFFICES ASSUME InPlace, GoodValues, [GraphNext]_graphVars PROVE GoodValues'
  OBVIOUS
<1>t. UNCHANGED <<run, values>> => ValuesTyped'
  BY DEF GoodValues, ValuesTyped, VoteTyped, Faithful, Base
<1>1. CASE UNCHANGED graphVars
  <2>1. \A m \in Nodes : Done(m)' <=> Done(m)
    BY <1>1 DEF graphVars, Done, Renewed, Worked
  <2> QED
    BY <1>1, <1>t, <2>1, MadeDepends DEF graphVars, GoodValues, AllMade
<1>2. ASSUME NEW n \in DOMAIN at,
             Begin(n) \/ Raise(n) \/ Pass(n) \/ NumberCheckpoint(n) \/ InsertCheckpoint(n)
      PROVE  GoodValues'
  <2>1. UNCHANGED <<run, attempt, values>>
    BY <1>2 DEF Begin, Raise, Pass, NumberCheckpoint, InsertCheckpoint
  <2>2. CASE Begin(n) \/ Raise(n)
    <3>1. PICK p \in {"working", "failed"} : Moves(n, p) /\ at[n].phase \in {"due", "working"}
      BY <2>2, MoveMoves DEF Begin, Raise, In
    <3> QED
      BY <1>t, <2>1, <3>1, MovesKeepMade DEF GoodValues, Ended
  <2>3. CASE Pass(n)
    <3>1. Moves(n, "done") /\ at[n].phase = "due"
      BY <2>3, MoveMoves DEF Pass, In
    <3>2. n # "self_correction" /\ Made(n)
      BY <2>3, RunTyped DEF Pass, Made, Idle, ItNodes, InPlace, Place
    <3> QED
      BY <1>t, <2>1, <3>1, <3>2, MovesKeepMade DEF GoodValues, Ended
  <2>4. CASE NumberCheckpoint(n) \/ InsertCheckpoint(n)
    <3>1. PICK p \in Ended : Moves(n, p) /\ at[n].phase \in Ended
      BY <2>4, MoveMoves DEF NumberCheckpoint, InsertCheckpoint, In, Ended
    <3> QED
      BY <1>t, <2>1, <3>1, MovesKeepMade DEF GoodValues
  <2> QED
    BY <1>2, <2>2, <2>3, <2>4
<1>3. CASE Resume \/ AskHuman
  <2>1. PICK p \in {"working", "asked"} :
            Moves("human_approval", p) /\ at["human_approval"].phase \in {"due", "asked"}
    BY <1>3, MoveMoves DEF Resume, AskHuman, In
  <2>2. "human_approval" \in DOMAIN at /\ UNCHANGED <<run, attempt, values>>
    BY <1>3, <2>1 DEF Resume, AskHuman, Moves
  <2> QED
    BY <1>t, <2>1, <2>2, MovesKeepMade DEF GoodValues, Ended
<1>4. CASE Advance
  BY <1>4, <1>t, AdvanceMade DEF Advance, GoodValues
<1>5. CASE Complete \/ FailRun
  <2>1. DOMAIN at' = {} /\ UNCHANGED <<run, values>>
    BY <1>5 DEF Complete, FailRun, Entering
  <2>2. \A m \in Nodes : ~Done(m)'
    BY <2>1 DEF Done, Worked
  <2> QED
    BY <1>t, <2>1, <2>2 DEF GoodValues, AllMade
<1>6. CASE Supervise
  <2>1. /\ Moves("supervisor", "returned") /\ "supervisor" \in DOMAIN at
        /\ UNCHANGED <<run, attempt>>
    BY <1>6, MoveMoves DEF Supervise, In
  <2>2. PICK plan \in run.plans : values' = [values EXCEPT !.plan = Dated(plan, attempt)]
    BY <1>6 DEF Supervise
  <2>3. plan \in Plans
    BY RunTyped DEF InPlace, Place
  <2>4. /\ DOMAIN values = Fields
        /\ values'.plan = Dated(plan, attempt)
        /\ \A f \in Fields \ {"plan"} : values'[f] = values[f]
    BY <2>2 DEF InPlace, Place, Fields
  <2>5. VoteTyped(values'.plan) /\ values'.plan.research \in BOOLEAN /\ values'.plan.since = attempt
    BY <2>3, <2>4, DatedPlan DEF VoteTyped, Plans
  <2>6. ValuesTyped'
    BY <2>1, <2>4, <2>5, TypesKept DEF GoodValues, Fields
  <2>7. DOMAIN at' = {"supervisor"}
    BY <2>1, Alone DEF Moves, Searches, Voters
  <2>8. ASSUME NEW m \in Nodes, Done(m)' PROVE Made(m)'
    <3>1. m \in {"supervisor", "memory_retrieve", "it_triage"}
      BY <2>7, <2>8 DEF Done, Worked, Stage, Nodes, NodeTask
    <3> QED
      BY <2>1, <2>5, <3>1 DEF Made
  <2> QED
    BY <2>6, <2>8 DEF GoodValues, AllMade
<1>7. CASE Correct
  <2>1. PICK retry \in BOOLEAN :
            values' = [values EXCEPT !.retry = retry] /\ attempt' = NextAttempt(retry)
    BY <1>7 DEF Correct
  <2>2. /\ Moves("self_correction", "returned") /\ at["self_correction"].phase = "working"
        /\ "self_correction" \in DOMAIN at /\ UNCHANGED run
    BY <1>7, MoveMoves DEF Correct, In
  <2>3. /\ DOMAIN values = Fields /\ values'.retry = retry
        /\ \A f \in Fields \ {"retry"} : values'[f] = values[f]
    BY <2>1 DEF InPlace, Place, Fields
  <2>4. ValuesTyped'
    BY <2>2, <2>3, TypesKept DEF GoodValues, Fields
  <2>5. CASE retry
    <3>1. Renewed'
      BY <2>2, <2>3, <2>5 DEF Renewed, Worked, Moves, Ended
    <3> QED
      BY <2>4, <3>1 DEF GoodValues, AllMade, Done
  <2>6. CASE ~retry
    <3>1. UNCHANGED attempt
      BY <2>1, <2>6 DEF NextAttempt
    <3>2. DOMAIN at = {"self_correction"} /\ DOMAIN at' = {"self_correction"}
      BY <2>2, Alone DEF Moves, Searches, Voters
    <3>3. ASSUME NEW m \in Nodes, Done(m)' PROVE Made(m)'
      <4>1. CASE m = "self_correction"
        BY <4>1 DEF Made
      <4>2. CASE m # "self_correction"
        <5>1. Made(m)
          BY <2>2, <3>2, <3>3, <4>2, DoneBefore DEF Done, Worked, Ended, GoodValues
        <5>2. \A f \in Uses(m) : values'[f] = values[f]
          BY <2>3 DEF Uses, Fields
        <5> QED
          BY <2>2, <3>1, <5>1, <5>2, MadeDepends
      <4> QED
        BY <4>1, <4>2
    <3> QED
      BY <2>4, <3>3 DEF GoodValues, AllMade
  <2> QED
    BY <2>5, <2>6
<1>8. CASE NodeReturns /\ ~Supervise /\ ~Correct /\ ~AskHuman
  BY <1>8, NodesMake
<1> QED
  BY <1>1, <1>2, <1>3, <1>4, <1>5, <1>6, <1>7, <1>8 DEF GraphNext, Engine

LEMMA AlwaysGoodValues == GraphSpec => []GoodValues
BY ValuesInit, ValuesStep, AlwaysInPlace, PTL DEF GraphSpec

\* At a node that is no branch of a fork, what comes before it is made.
LEMMA MadeAt ==
    ASSUME InPlace, GoodValues, NEW n \in DOMAIN at, n \notin {"self_correction"},
           NEW m \in Nodes, Stage[m] < Stage[n] \/ (m = n /\ Worked(n))
    PROVE  Made(m)
<1>1. n \notin Searches \cup Voters => DOMAIN at = {n}
  BY Alone
<1>2. ~Renewed
  BY <1>1, Alone DEF Renewed, Worked, Searches, Voters
<1> QED
  BY <1>2 DEF GoodValues, AllMade, Done

\* No verdict lets a tool run without evidence.
LEMMA NoEvidenceNotExecutable == \A p : Evaluate(p).executable => p.evidence
BY DEF Evaluate, Gate, Ungrounded

\* Tools act on the plan, the votes, the verdict and the knowledge of their own
\* attempt, for any number of corrections.
THEOREM OwnEvidence == GraphSpec => []ActsOnOwnEvidence
<1>1. ASSUME InPlace, GoodValues PROVE ActsOnThisAttempt
  <2> SUFFICES ASSUME In("tool_execution", "working")
               PROVE  values.consensus.since = attempt /\ (run.it => values.verdict.since = attempt)
    BY DEF ActsOnThisAttempt
  <2>1. PICK n \in DOMAIN at : n = "tool_execution"
    BY DEF In
  <2>2. \A m \in {"risk_consensus", "risk_gate"} : m \in Nodes /\ Stage[m] < Stage[n]
    BY <2>1 DEF Stage, Nodes, NodeTask
  <2>3. \A m \in {"risk_consensus", "risk_gate"} : Made(m)
    BY <1>1, <2>1, <2>2, MadeAt
  <2> QED
    BY <2>3 DEF Made
<1>2. ASSUME InPlace, GoodValues PROVE PrecedentIsNoBasis
  <2> SUFFICES ASSUME In("risk_gate", "done"), run.it, values.verdict.gate.executable
               PROVE  values.research.evidence # {} /\ values.research.since = attempt
    BY DEF PrecedentIsNoBasis
  <2>1. Made("risk_gate") /\ Made("it_resolution") /\ Made("evidence_synthesis")
    BY <1>2, MadeAt DEF In, Stage, Nodes, NodeTask, Worked, Ended
  <2>2. Handed(values.reading, values.resolution).evidence
    BY <2>1, NoEvidenceNotExecutable DEF Made
  <2>3. values.resolution.evidence # {}
    BY <2>2 DEF Handed
  <2>4. values.resolution.evidence = values.research.evidence
    BY <2>1 DEF Made, Dated, Proposal
  <2> QED
    BY <2>1, <2>3, <2>4 DEF Made
<1> QED
  BY <1>1, <1>2, AlwaysInPlace, AlwaysGoodValues, PTL DEF ActsOnOwnEvidence

\* Whatever the experts' models answer, the consensus is at least what the plan
\* and both deterministic votes call for.
THEOREM ModelsOnlyEscalate == GraphSpec => []ModelOnlyEscalates
<1>1. ASSUME InPlace, GoodValues PROVE ModelOnlyEscalates
  <2> SUFFICES ASSUME In("risk_consensus", "done"),
                      NEW vote \in {values.plan, ComplianceVote(values.plan),
                                    OperationalVote(values.plan, values.research)}
               PROVE  Dominates(values.consensus, vote)
    BY DEF ModelOnlyEscalates, Dominates
  <2>1. Made("risk_consensus") /\ Made("compliance_risk") /\ Made("operational_risk")
    BY <1>1, MadeAt DEF In, Stage, Nodes, NodeTask, Worked, Ended
  <2>2. PICK cast \in {values.plan, values.compliance, values.operational} :
            cast = vote \/ Dominates(cast, vote)
    BY <2>1 DEF Made
  <2>3. Dominates(values.consensus, cast)
    BY <2>1 DEF Made
  <2>4. values.consensus.risk \in Risks /\ cast.risk \in Risks /\ vote.risk \in Risks
    BY <1>1, VotesTyped DEF GoodValues, ValuesTyped, VoteTyped, Votes
  <2> QED
    BY <2>2, <2>3, <2>4, HigherIsHigher DEF Dominates
<1> QED
  BY <1>1, AlwaysInPlace, AlwaysGoodValues, PTL


\* The only action that changes something without a human's agreement.
LEMMA UnattendedAction ==
    ASSUME NEW p, p.action_type \in DOMAIN ACTION_CLASSES,
           Evaluate(p).decision = "auto_execute", ACTION_CLASSES[p.action_type].side_effect
    PROVE  /\ p.action_type = "cache_flush"
           /\ p.evidence /\ ~p.triage_needs_approval
           /\ MergedEnvironment(p) # "production" /\ MergedCriticality(p) # "critical"
<1>1. ~Denied(p) /\ ~Ungrounded(p) /\ ~NeedsHuman(p)
  BY DEF Evaluate, Gate
<1>2. ~ACTION_CLASSES[p.action_type].requires_approval
  BY <1>1 DEF NeedsHuman
<1>3. p.action_type = "cache_flush"
  BY <1>2 DEF ACTION_CLASSES, Class
<1> QED
  BY <1>1, <1>3 DEF NeedsHuman, Ungrounded

\* Two readings of one request differ in the action they lead to only by what
\* the request is for and by where it says the fault is.
LEMMA SameAction ==
    ASSUME NEW r, NEW s, NEW evidence, evidence # {},
           Proposal(r, evidence).action = "cache_flush",
           s.intent = "IT_INCIDENT", s.environment # "production"
    PROVE  Proposal(s, evidence).action = "cache_flush"
BY DEF Proposal, SelectAction

\* What the rules would have shown to a human is not done unattended, whatever
\* the model says about the request.
THEOREM NoHumanRemoved == GraphSpec => []ReadingRemovesNoHuman
<1>1. ASSUME InPlace, GoodValues PROVE ReadingRemovesNoHuman
  <2> DEFINE evidence == values.research.evidence
             p == Handed(values.reading, values.resolution)
             proposed == Resolve(Base, evidence, {})
             q == Handed(Base, proposed)
  <2> SUFFICES ASSUME In("risk_gate", "done"), run.it,
                      values.verdict.gate.decision = "auto_execute",
                      ACTION_CLASSES[values.resolution.action].side_effect,
                      \/ Base.needs_approval \/ Base.urgent
                      \/ Evaluate(q).decision = "require_approval" /\ Evaluate(q).executable
               PROVE  FALSE
    BY DEF ReadingRemovesNoHuman
  <2>1. PICK n \in DOMAIN at : n = "risk_gate" /\ Worked(n)
    BY DEF In, Worked, Ended
  <2>2. \A m \in {"it_resolution", "risk_gate"} :
            m \in Nodes /\ (Stage[m] < Stage[n] \/ (m = n /\ Worked(n)))
    BY <2>1 DEF Stage, Nodes, NodeTask
  <2>3. \A m \in {"it_resolution", "risk_gate"} : Made(m)
    BY <1>1, <2>1, <2>2, MadeAt
  <2>4. values.verdict.gate = Evaluate(p)
    BY <2>3 DEF Made
  <2>5. /\ values.resolution.action = Proposal(values.reading, evidence).action
        /\ values.resolution.evidence = evidence
    BY <2>3 DEF Made, Dated, Proposal
  <2>6. Faithful(values.reading) /\ run \in Runs
    BY <1>1 DEF GoodValues, ValuesTyped, InPlace, Place
  <2>7. values.resolution.action \in DOMAIN ACTION_CLASSES
    BY <2>5 DEF Proposal, SelectAction, ACTION_CLASSES
  <2>8. /\ p.action_type = values.resolution.action /\ p.evidence = (evidence # {})
        /\ p.triage_needs_approval = values.reading.needs_approval
        /\ p.urgent = values.reading.urgent /\ p.text_environment = values.reading.environment
        /\ p.asset_environment = run.asset[1] /\ p.asset_criticality = run.asset[2]
    BY <2>5 DEF Handed
  <2>9. /\ q.action_type = Proposal(Base, evidence).action /\ q.evidence = (evidence # {})
        /\ q.triage_needs_approval = Base.needs_approval
        /\ q.urgent = Base.urgent /\ q.text_environment = Base.environment
        /\ q.asset_environment = run.asset[1] /\ q.asset_criticality = run.asset[2]
        /\ q.missing_information = (Base.missing # {})
    BY DEF Handed, Resolve, Proposal
  <2> HIDE DEF p, q, evidence, proposed
  <2>10. /\ p.action_type = "cache_flush" /\ evidence # {}
         /\ ~values.reading.needs_approval
         /\ MergedEnvironment(p) # "production" /\ MergedCriticality(p) # "critical"
    BY <2>4, <2>7, <2>8, UnattendedAction
  <2>11. ~values.reading.urgent
    BY <2>8, <2>10, WorstClaimWins DEF MergedCriticality
  <2>12. ~Base.needs_approval /\ ~Base.urgent
    BY <2>6, <2>10, <2>11 DEF Faithful
  <2>13. ~Denied(q) /\ ~Ungrounded(q) /\ NeedsHuman(q)
    BY <2>12 DEF Evaluate, Gate
  <2>14. Base.intent = "IT_INCIDENT" /\ Base.environment # "production"
    <3>1. Base.intent \in Intents
      BY <2>6, ClassifyFaithful DEF Faithful, Readings
    <3>2. Base.intent \notin {"PERMISSION_REQUEST", "ASSET_REQUEST"}
      BY <2>6, <2>12, ClassifyFaithful
    <3>3. Base.intent # "SOFTWARE_REQUEST"
      <4>1. Base.intent = "SOFTWARE_REQUEST" => q.action_type = "no_action"
        BY <2>9, <2>10 DEF Proposal, SelectAction
      <4> QED
        BY <2>13, <4>1 DEF Ungrounded, ACTION_CLASSES, Class
    <3> QED
      BY <2>6, <2>12, <3>1, <3>2, <3>3, ClassifyFaithful DEF Intents
  <2>15. q.action_type = "cache_flush"
    <3>1. Proposal(values.reading, evidence).action = "cache_flush"
      BY <2>5, <2>8, <2>10
    <3>2. Proposal(Base, evidence).action = "cache_flush"
      BY <2>10, <2>14, <3>1, SameAction
    <3> QED
      BY <2>9, <3>2
  <2>16. Base.missing = {}
    <3>1. ~q.missing_information
      BY <2>13, <2>15 DEF Ungrounded, ACTION_CLASSES, Class
    <3> QED
      BY <2>9, <3>1
  <2>17. values.reading.environment = Base.environment
    BY <2>6, <2>14, <2>16, ClassifyFaithful DEF Faithful
  <2>18. MergedEnvironment(q) = MergedEnvironment(p) /\ MergedCriticality(q) = MergedCriticality(p)
    BY <2>8, <2>9, <2>11, <2>12, <2>17 DEF MergedEnvironment, MergedCriticality
  <2> QED
    BY <2>9, <2>10, <2>12, <2>13, <2>15, <2>18 DEF NeedsHuman, ACTION_CLASSES, Class
<1> QED
  BY <1>1, AlwaysInPlace, AlwaysGoodValues, PTL


-----------------------------------------------------------------------------
(* The tasks.                                                              *)

Statuses == {"absent", "pending", "running", "completed", "failed"}
TaskNodes == {n \in Nodes : NodeTask[n] # None}
Key(n) == <<NodeTask[n], attempt>>

\* The task nodes that no way through the graph passes by.
OnThePath(n) ==
    \/ n \in Voters \cup {"supervisor", "risk_consensus", "tool_execution", "critic",
                         "memory_write"}
    \/ n \in Searches \cup {"evidence_synthesis"} /\ Researching

\* The supervisor has registered the task of a node that the run is still to
\* come to.
Waiting(n) ==
    /\ OnThePath(n) /\ ~Done(n) /\ Done("supervisor")
    /\ n \in DOMAIN at => at[n].phase = "due"

Unopened(t) == t[2] > attempt \/ (Renewed /\ t[2] = attempt)

\* What the status of a task says about where the run is.
StatusExplained(t) ==
    /\ Unopened(t) => tasks[t] = "absent"
    /\ tasks[t] = "running" => \E n \in DOMAIN at : In(n, "working") /\ t = Key(n)
    /\ tasks[t] = "failed" => (\E n \in DOMAIN at : In(n, "failed")) \/ (Over /\ status = "failed")
    /\ tasks[t] = "pending" => \/ Over /\ status = "failed"
                               \/ t[1] = "memory.write" /\ t[2] < attempt
                               \/ \E n \in TaskNodes : t = Key(n) /\ Waiting(n)

Ahead(n) == ~Over /\ ~Done(n) /\ (n \in DOMAIN at => at[n].phase \in {"due", "asked"})

\* What a node's place says about its task in the present attempt.
TaskKept(n) ==
    /\ Done(n) /\ OnThePath(n) => tasks[Key(n)] = "completed"
    /\ Ahead(n) => tasks[Key(n)] \in {"absent", "pending"}

TasksTyped == tasks \in [TaskKeys \X (0..run.limit) -> Statuses]

TasksExplained ==
    /\ TasksTyped
    /\ \A t \in DOMAIN tasks : StatusExplained(t)
    /\ \A n \in TaskNodes : TaskKept(n)

\* Each task has a node of its own.
LEMMA OneNodeATask ==
    /\ \A m, n \in TaskNodes : NodeTask[m] = NodeTask[n] => m = n
    /\ \A n \in TaskNodes : NodeTask[n] \in TaskKeys
    /\ \A n : OnThePath(n) => n \in TaskNodes
<1>1. \A m, n \in TaskNodes : NodeTask[m] = NodeTask[n] => m = n
  BY DEF TaskNodes, Nodes, NodeTask, None
<1>2. \A n \in TaskNodes : NodeTask[n] \in TaskKeys
  BY DEF TaskNodes, TaskKeys
<1>3. \A n : OnThePath(n) => n \in TaskNodes
  BY DEF OnThePath, TaskNodes, Searches, Voters, Nodes, NodeTask, None
<1> QED
  BY <1>1, <1>2, <1>3

\* Tasks settle when the run is over.
LEMMA ExplainedSettle == TasksExplained => TasksSettle
<1> SUFFICES ASSUME TasksExplained, Over PROVE TasksSettle
  BY DEF TasksSettle
<1>1. ~Done("supervisor")
  BY DEF Done, Worked, Over
<1> QED
  BY <1>1 DEF TasksExplained, TasksSettle, StatusExplained, In, Over, Waiting

LEMMA NodesOnly == InPlace => DOMAIN at \subseteq Nodes
BY DEF InPlace, Place, Supersteps, Searches, Voters, Nodes, NodeTask

\* A dependency of the task graph leads to a node that comes earlier and that
\* the run does not pass by.
LEMMA EdgesLeadBack ==
    ASSUME values.plan.research \in BOOLEAN, NEW edge \in TaskGraph(values.plan)
    PROVE  \E m, n \in TaskNodes :
               /\ edge[1] = NodeTask[m] /\ edge[2] = NodeTask[n]
               /\ Stage[n] < Stage[m] /\ OnThePath(n)
<1> DEFINE Leads(m, n) == /\ m \in TaskNodes /\ n \in TaskNodes
                          /\ edge[1] = NodeTask[m] /\ edge[2] = NodeTask[n]
                          /\ Stage[n] < Stage[m] /\ OnThePath(n)
<1>1. SUFFICES \E m, n : Leads(m, n)
  OBVIOUS
<1>2. CASE values.plan.research
  <2>1. edge \in {<<"risk.compliance_vote", "research.synthesis">>,
                  <<"risk.operational_vote", "research.synthesis">>,
                  <<"risk.consensus", "risk.compliance_vote">>,
                  <<"risk.consensus", "risk.operational_vote">>,
                  <<"action.execute", "risk.consensus">>, <<"quality.critic", "action.execute">>,
                  <<"memory.write", "quality.critic">>,
                  <<"research.enterprise_rag", "plan.supervisor">>,
                  <<"research.local_policy", "plan.supervisor">>,
                  <<"research.synthesis", "research.enterprise_rag">>,
                  <<"research.synthesis", "research.local_policy">>}
    BY <1>2 DEF TaskGraph, RiskDependency
  <2>2. PICK m, n \in TaskNodes : edge[1] = NodeTask[m] /\ edge[2] = NodeTask[n] /\ Stage[n] < Stage[m]
                         /\ n \notin {"memory_retrieve", "it_triage", "it_history", "it_resolution", "human_approval", "self_correction"}
    BY <2>1 DEF TaskNodes, Nodes, NodeTask, None, Stage
  <2> QED
    BY <1>2, <2>2 DEF OnThePath, Researching, Searches, Voters, TaskNodes, Nodes, NodeTask, None
<1>3. CASE ~values.plan.research
  <2>1. edge \in {<<"risk.compliance_vote", "plan.supervisor">>,
                  <<"risk.operational_vote", "plan.supervisor">>,
                  <<"risk.consensus", "risk.compliance_vote">>,
                  <<"risk.consensus", "risk.operational_vote">>,
                  <<"action.execute", "risk.consensus">>, <<"quality.critic", "action.execute">>,
                  <<"memory.write", "quality.critic">>}
    BY <1>3 DEF TaskGraph, RiskDependency
  <2>2. \/ Leads("compliance_risk", "supervisor") \/ Leads("operational_risk", "supervisor")
        \/ Leads("risk_consensus", "compliance_risk") \/ Leads("risk_consensus", "operational_risk")
        \/ Leads("tool_execution", "risk_consensus") \/ Leads("critic", "tool_execution")
        \/ Leads("memory_write", "critic")
    BY <2>1 DEF TaskNodes, Nodes, NodeTask, None, Stage, OnThePath, Voters
  <2> QED
    BY <2>2
<1> QED
  BY <1>2, <1>3

\* What a task depends on is done when it has started.
LEMMA ExplainedDepend ==
    InPlace /\ GoodValues /\ TasksExplained /\ ~Over => DependenciesDone
<1> SUFFICES ASSUME InPlace, GoodValues, TasksExplained, ~Over,
                    NEW edge \in TaskGraph(values.plan),
                    tasks[<<edge[1], attempt>>] \in {"running", "completed", "failed"}
             PROVE  tasks[<<edge[2], attempt>>] = "completed"
  BY DEF DependenciesDone
<1>1. PICK m, n \in TaskNodes : /\ edge[1] = NodeTask[m] /\ edge[2] = NodeTask[n]
                                /\ Stage[n] < Stage[m] /\ OnThePath(n)
  BY EdgesLeadBack DEF GoodValues, ValuesTyped
<1>2. Key(m) \in DOMAIN tasks
  BY OneNodeATask, RunTyped DEF TasksExplained, TasksTyped, Key, InPlace, Place
<1>3. ~Renewed
  BY <1>1, <1>2 DEF TasksExplained, StatusExplained, Unopened, Key
<1>4. ~Ahead(m)
  BY <1>1 DEF TasksExplained, TaskKept, Key
<1>5. m \in DOMAIN at \/ Done(m)
  BY <1>4 DEF Ahead
<1>6. Done(n)
  <2>1. PICK k \in DOMAIN at : Stage[k] >= Stage[m]
    BY <1>5, NodesOnly, StageTyped DEF Done, Worked, TaskNodes
  <2>2. Stage[k] > Stage[n]
    BY <1>1, <2>1, NodesOnly, StageTyped DEF TaskNodes
  <2> QED
    BY <1>3, <2>2 DEF Done
<1> QED
  BY <1>1, <1>6 DEF TasksExplained, TaskKept, Key


\* A node that comes to another phase changes only what is done of itself.
LEMMA MovesDoneIff ==
    ASSUME NEW n, NEW p, Moves(n, p), values'.retry = values.retry,
           n = "self_correction" => (p \in Ended <=> at[n].phase \in Ended),
           p \notin Ended => at[n].phase \notin Ended
    PROVE  /\ Renewed' <=> Renewed
           /\ \A m : Done(m)' <=> Done(m) \/ (m = n /\ p \in Ended /\ ~Renewed)
<1>1. Renewed' <=> Renewed
  BY DEF Renewed, Worked, Moves
<1> QED
  BY <1>1 DEF Done, Worked, Moves

LEMMA KeyKept ==
    ASSUME InPlace, TasksExplained, NEW n \in TaskNodes
    PROVE  Key(n) \in DOMAIN tasks /\ Key(n)[1] = NodeTask[n] /\ Key(n)[2] = attempt
BY OneNodeATask, RunTyped DEF TasksExplained, TasksTyped, Key, InPlace, Place

\* The nodes of a superstep are at one stage.
LEMMA SameStage == InPlace => \A m, n \in DOMAIN at : Stage[m] = Stage[n]
<1> SUFFICES ASSUME InPlace PROVE \A m, n \in DOMAIN at : Stage[m] = Stage[n]
  OBVIOUS
<1>1. CASE DOMAIN at \in {Searches, Voters, {}}
  BY <1>1 DEF Searches, Voters, Stage
<1>2. ASSUME NEW k, DOMAIN at = {k} PROVE \A m, n \in DOMAIN at : Stage[m] = Stage[n]
  BY <1>2
<1> QED
  BY <1>1, <1>2 DEF InPlace, Place, Supersteps

\* A node that is at work, or still to be, is none of a corrected run.
LEMMA NotRenewed ==
    ASSUME InPlace, NEW n \in DOMAIN at, at[n].phase \notin Ended
    PROVE  ~Renewed
<1> SUFFICES ASSUME Worked("self_correction") PROVE FALSE
  BY DEF Renewed
<1>1. DOMAIN at = {"self_correction"}
  BY Alone DEF Worked, Searches, Voters
<1> QED
  BY <1>1 DEF Worked

\* How a node and its task go together.
Together(n, p, s) ==
    \/ p = "working" /\ s = "running" /\ at[n].phase \in {"due", "asked"}
    \/ p = "failed" /\ s = "failed" /\ at[n].phase = "working"
    \/ p \in Ended /\ s = "completed" /\ at[n].phase = "working"

\* A step of a node and its task.
LEMMA TaskMoves ==
    ASSUME InPlace, TasksExplained, NEW n \in DOMAIN at, NEW p, Moves(n, p),
           UNCHANGED <<run, attempt>>,
           values'.plan = values.plan, values'.retry = values.retry,
           n = "self_correction" => p \notin Ended,
           NEW s \in Statuses, Together(n, p, s), n \in TaskNodes,
           tasks' = [tasks EXCEPT ![Key(n)] = s]
    PROVE  TasksExplained'
<1>1. ~Renewed /\ at[n].phase \notin Ended
  BY NotRenewed DEF Together, Ended
<1>2. /\ ~Renewed'
      /\ \A m : Done(m)' <=> Done(m) \/ (m = n /\ p \in Ended)
  BY <1>1, MovesDoneIff
<1>3. /\ \A m : OnThePath(m)' <=> OnThePath(m)
      /\ \A m : Key(m)' = Key(m)
      /\ ~Over /\ ~Over'
  BY DEF OnThePath, Researching, Key, Over, Moves
<1>4. \A m \in TaskNodes \ {n} : Key(m) # Key(n) /\ tasks'[Key(m)] = tasks[Key(m)]
  BY OneNodeATask, KeyKept DEF Key
<1>5. Key(n) \in DOMAIN tasks /\ tasks'[Key(n)] = s /\ DOMAIN tasks' = DOMAIN tasks
  BY KeyKept DEF TasksExplained, TasksTyped
<1>6. TasksTyped'
  BY DEF TasksExplained, TasksTyped
<1>7. ASSUME NEW t \in DOMAIN tasks PROVE StatusExplained(t)'
  <2>1. CASE t = Key(n)
    <3>1. ~Unopened(t)'
      BY <1>2, <2>1, KeyKept DEF Unopened, InPlace, Place
    <3>2. tasks'[t] = "running" => In(n, "working")'
      BY <1>5, <2>1 DEF Together, In, Moves
    <3>3. tasks'[t] = "failed" => In(n, "failed")'
      BY <1>5, <2>1 DEF Together, In, Moves
    <3>4. tasks'[t] # "pending"
      BY <1>5, <2>1 DEF Together
    <3> QED
      BY <1>3, <2>1, <3>1, <3>2, <3>3, <3>4 DEF StatusExplained, Moves
  <2>2. CASE t # Key(n)
    <3>1. tasks'[t] = tasks[t] /\ StatusExplained(t)
      BY <2>2 DEF TasksExplained
    <3>2. Unopened(t)' => Unopened(t)
      BY <1>2 DEF Unopened
    <3>3. ASSUME tasks[t] = "running" PROVE \E m \in DOMAIN at' : In(m, "working")' /\ t = Key(m)'
      <4>1. PICK m \in DOMAIN at : In(m, "working") /\ t = Key(m)
        BY <3>1, <3>3 DEF StatusExplained
      <4>2. m # n
        BY <2>2, <4>1
      <4> QED
        BY <1>3, <4>1, <4>2 DEF In, Moves
    <3>4. ASSUME tasks[t] = "failed" PROVE \E m \in DOMAIN at' : In(m, "failed")'
      <4>1. PICK m \in DOMAIN at : In(m, "failed")
        BY <1>3, <3>1, <3>4 DEF StatusExplained
      <4>2. m # n
        BY <4>1 DEF Together, In
      <4> QED
        BY <4>1, <4>2 DEF In, Moves
    <3>5. ASSUME tasks[t] = "pending"
          PROVE  \/ t[1] = "memory.write" /\ t[2] < attempt'
                 \/ \E m \in TaskNodes : t = Key(m)' /\ Waiting(m)'
      <4>1. ASSUME NEW m \in TaskNodes, t = Key(m), Waiting(m) PROVE Waiting(m)'
        <5>1. m # n
          BY <2>2, <4>1
        <5> QED
          BY <1>2, <1>3, <4>1, <5>1 DEF Waiting, Moves
      <4> QED
        BY <1>3, <3>1, <3>5, <4>1 DEF StatusExplained
    <3> QED
      BY <1>3, <3>1, <3>2, <3>3, <3>4, <3>5 DEF StatusExplained
  <2> QED
    BY <2>1, <2>2
<1>8. ASSUME NEW m \in TaskNodes PROVE TaskKept(m)'
  <2>1. CASE m = n
    <3>1. Done(n)' => p \in Ended
      <4>1. ~Done(n)
        <5>1. \A k \in DOMAIN at : ~(Stage[k] > Stage[n])
          BY SameStage, StageTyped DEF TaskNodes
        <5> QED
          BY <1>1, <5>1 DEF Done, Worked
      <4> QED
        BY <1>2, <4>1
    <3> QED
      BY <1>3, <1>5, <2>1, <3>1 DEF TaskKept, Ahead, Moves, Together, Ended
  <2>2. CASE m # n
    <3>1. TaskKept(m) /\ tasks'[Key(m)'] = tasks[Key(m)]
      BY <1>3, <1>4, <2>2 DEF TasksExplained
    <3>2. Ahead(m)' => Ahead(m)
      BY <1>2, <1>3, <2>2 DEF Ahead, Moves
    <3> QED
      BY <1>2, <1>3, <2>2, <3>1, <3>2 DEF TaskKept
  <2> QED
    BY <2>1, <2>2
<1> QED
  BY <1>5, <1>6, <1>7, <1>8 DEF TasksExplained


\* A step of a node that touches no task.
LEMMA OthersMove ==
    ASSUME InPlace, TasksExplained, NEW n \in DOMAIN at, NEW p, Moves(n, p),
           UNCHANGED <<run, attempt, tasks>>,
           values'.plan = values.plan, values'.retry = values.retry,
           at[n].phase \notin {"working", "failed"},
           p \in Ended \/ (p = "asked" /\ at[n].phase = "due"),
           n = "self_correction" => at[n].phase \in Ended,
           at[n].phase \in Ended \/ ~OnThePath(n)
    PROVE  TasksExplained'
<1>1. /\ Renewed' <=> Renewed
      /\ \A m : Done(m)' <=> Done(m) \/ (m = n /\ p \in Ended /\ ~Renewed)
  <2>1. n = "self_correction" => (p \in Ended <=> at[n].phase \in Ended)
    BY DEF Ended
  <2>2. p \notin Ended => at[n].phase \notin Ended
    BY DEF Ended
  <2> QED
    BY <2>1, <2>2, MovesDoneIff
<1>2. /\ \A m : OnThePath(m)' <=> OnThePath(m)
      /\ \A m : Key(m)' = Key(m)
      /\ ~Over /\ ~Over'
  BY DEF OnThePath, Researching, Key, Over, Moves
<1>3. TasksTyped'
  BY DEF TasksExplained, TasksTyped
<1>4. ASSUME NEW t \in DOMAIN tasks PROVE StatusExplained(t)'
  <2>1. StatusExplained(t)
    BY DEF TasksExplained
  <2>2. Unopened(t)' => Unopened(t)
    BY <1>1 DEF Unopened
  <2>3. \A m \in DOMAIN at, q \in {"working", "failed"} : In(m, q) => m \in DOMAIN at' /\ In(m, q)'
    BY DEF In, Moves
  <2>4. ASSUME NEW m \in TaskNodes, Waiting(m) PROVE Waiting(m)'
    <3>1. m # n
      BY <2>4 DEF Waiting, Ended
    <3> QED
      BY <1>1, <1>2, <2>4, <3>1 DEF Waiting, Moves
  <2> QED
    BY <1>2, <2>1, <2>2, <2>3, <2>4 DEF StatusExplained
<1>5. ASSUME NEW m \in TaskNodes PROVE TaskKept(m)'
  <2>1. TaskKept(m) /\ tasks'[Key(m)'] = tasks[Key(m)]
    BY <1>2 DEF TasksExplained
  <2>2. Ahead(m)' => Ahead(m)
    BY <1>1, <1>2 DEF Ahead, Moves, Ended
  <2>3. Done(m)' /\ OnThePath(m) => Done(m)
    BY <1>1 DEF Done, Worked
  <2> QED
    BY <1>2, <2>1, <2>2, <2>3 DEF TaskKept
<1> QED
  BY <1>3, <1>4, <1>5 DEF TasksExplained

\* The supervisor registers tasks of nodes the run is still to come to.
LEMMA SuperviseExplained == InPlace /\ TasksExplained /\ Supervise => TasksExplained'
<1> SUFFICES ASSUME InPlace, TasksExplained, Supervise PROVE TasksExplained'
  OBVIOUS
<1>1. /\ Moves("supervisor", "returned") /\ at["supervisor"].phase = "working"
      /\ UNCHANGED <<run, attempt, status>>
      /\ values'.retry = values.retry
  BY MoveMoves DEF Supervise, In, InPlace, Place, Fields
<1>2. DOMAIN at = {"supervisor"} /\ DOMAIN at' = {"supervisor"}
  BY <1>1, Alone DEF Moves, Searches, Voters
<1>3. ~Renewed /\ ~Renewed' /\ ~Over /\ ~Over'
  BY <1>2 DEF Renewed, Worked, Over
<1>4. \A m \in Nodes : Done(m)' <=> m = "supervisor" \/ Stage[m] < 2
  BY <1>1, <1>2, <1>3, StageTyped DEF Done, Worked, Moves, Ended, Stage
<1>5. \A m \in Nodes : Done(m) <=> Stage[m] < 2
  BY <1>1, <1>2, <1>3, StageTyped DEF Done, Worked, Ended, Stage
<1>6. PICK registered \in SUBSET {NodeTask[m] : m \in {k \in TaskNodes : OnThePath(k)' /\ Stage[k] > 2}} :
          tasks' = [t \in DOMAIN tasks |->
                       IF t = Key("supervisor") THEN "completed"
                       ELSE IF t[1] \in registered /\ t[2] = attempt /\ tasks[t] = "absent"
                       THEN "pending"
                       ELSE tasks[t]]
  <2>1. PICK plan \in run.plans :
            /\ values' = [values EXCEPT !.plan = Dated(plan, attempt)]
            /\ tasks' = [t \in DOMAIN tasks |->
                            IF t = Key("supervisor") THEN "completed"
                            ELSE IF t[1] \in {edge[1] : edge \in TaskGraph(plan)} /\ t[2] = attempt
                                    /\ tasks[t] = "absent"
                            THEN "pending"
                            ELSE tasks[t]]
    BY DEF Supervise, TaskOf, Key
  <2>2. values'.plan.research = plan.research /\ plan.research \in BOOLEAN
    BY <2>1, RunTyped DEF InPlace, Place, Fields, Dated, Plans
  <2>3. ASSUME NEW edge \in TaskGraph(plan)
        PROVE  \E m \in TaskNodes : edge[1] = NodeTask[m] /\ OnThePath(m)' /\ Stage[m] > 2
    <3>1. edge[1] \in {"risk.compliance_vote", "risk.operational_vote", "risk.consensus",
                       "action.execute", "quality.critic", "memory.write"}
                      \cup (IF plan.research
                            THEN {"research.enterprise_rag", "research.local_policy",
                                  "research.synthesis"} ELSE {})
      BY <2>2 DEF TaskGraph, RiskDependency
    <3>2. PICK m \in TaskNodes : edge[1] = NodeTask[m]
      BY <3>1 DEF TaskNodes, Nodes, NodeTask, None
    <3>3. Stage[m] > 2
      BY <3>1, <3>2 DEF TaskNodes, Nodes, NodeTask, None, Stage
    <3>4. OnThePath(m)'
      BY <2>2, <3>1, <3>2 DEF TaskNodes, Nodes, NodeTask, None, OnThePath, Researching, Searches,
                              Voters
    <3> QED
      BY <3>2, <3>3, <3>4
  <2>4. {edge[1] : edge \in TaskGraph(plan)}
           \in SUBSET {NodeTask[m] : m \in {k \in TaskNodes : OnThePath(k)' /\ Stage[k] > 2}}
    BY <2>3
  <2> QED
    BY <2>1, <2>4
<1>7. "supervisor" \in TaskNodes
  BY DEF TaskNodes, Nodes, NodeTask, None
<1>8. Key("supervisor") \in DOMAIN tasks /\ \A m : Key(m)' = Key(m)
  BY <1>1, <1>7, KeyKept DEF Key
<1>9. TasksTyped'
  BY <1>1, <1>6 DEF TasksExplained, TasksTyped, Statuses
<1>10. ASSUME NEW t \in DOMAIN tasks PROVE StatusExplained(t)'
  <2>1. StatusExplained(t) /\ tasks[t] \in Statuses
    BY DEF TasksExplained, TasksTyped
  <2>2. ~Unopened(Key("supervisor"))
    BY <1>3, <1>7, KeyKept DEF Unopened, InPlace, Place
  <2>3. CASE t = Key("supervisor")
    BY <1>1, <1>3, <1>6, <2>2, <2>3 DEF StatusExplained, Unopened
  <2>4. CASE t # Key("supervisor") /\ t[1] \in registered /\ t[2] = attempt /\ tasks[t] = "absent"
    <3>1. PICK m \in TaskNodes : t[1] = NodeTask[m] /\ OnThePath(m)' /\ Stage[m] > 2
      BY <1>6, <2>4
    <3>2. t = Key(m)
      BY <2>4, <3>1 DEF Key, TasksExplained, TasksTyped
    <3>3. Waiting(m)'
      <4>1. m # "supervisor" /\ ~(Stage[m] < 2)
        BY <3>1, StageTyped DEF TaskNodes, Stage
      <4>2. ~Done(m)' /\ Done("supervisor")'
        BY <1>4, <1>7, <4>1 DEF TaskNodes
      <4> QED
        BY <1>2, <3>1, <4>1, <4>2 DEF Waiting
    <3>4. tasks'[t] = "pending" /\ ~Unopened(t)'
      BY <1>1, <1>3, <1>6, <2>4 DEF Unopened, InPlace, Place
    <3> QED
      BY <1>8, <3>2, <3>3, <3>4 DEF StatusExplained
  <2>5. CASE t # Key("supervisor") /\ ~(t[1] \in registered /\ t[2] = attempt /\ tasks[t] = "absent")
    <3>1. tasks'[t] = tasks[t]
      BY <1>6, <2>5
    <3>2. tasks[t] # "running"
      BY <1>2, <2>1, <2>5 DEF StatusExplained, In
    <3>3. tasks[t] # "failed"
      BY <1>1, <1>2, <1>3, <2>1 DEF StatusExplained, In
    <3>4. \A m : ~Waiting(m)
      BY <1>5, <1>7 DEF Waiting, Stage, TaskNodes
    <3> QED
      BY <1>1, <1>3, <2>1, <3>1, <3>2, <3>3, <3>4 DEF StatusExplained, Unopened
  <2> QED
    BY <2>3, <2>4, <2>5
<1>11. ASSUME NEW m \in TaskNodes PROVE TaskKept(m)'
  <2>1. CASE m = "supervisor"
    BY <1>4, <1>6, <1>8, <2>1 DEF TaskKept, Ahead, TaskNodes
  <2>2. CASE m # "supervisor" /\ Stage[m] < 2
    <3>1. ~OnThePath(m)' /\ Done(m)'
      BY <1>4, <2>2 DEF OnThePath, Stage, TaskNodes, Searches, Voters
    <3> QED
      BY <3>1 DEF TaskKept, Ahead
  <2>3. CASE m # "supervisor" /\ ~(Stage[m] < 2)
    <3>1. ~Done(m)' /\ Ahead(m)
      BY <1>2, <1>3, <1>4, <1>5, <2>3 DEF Ahead, TaskNodes
    <3>2. tasks[Key(m)] \in {"absent", "pending"} /\ Key(m) \in DOMAIN tasks
      BY <3>1, KeyKept DEF TasksExplained, TaskKept
    <3>3. tasks'[Key(m)] \in {"absent", "pending"}
      <4>1. Key(m) # Key("supervisor")
        BY <1>7, <2>3, OneNodeATask DEF Key
      <4> QED
        BY <1>6, <3>2, <4>1
    <3> QED
      BY <1>8, <3>1, <3>3 DEF TaskKept
  <2> QED
    BY <2>1, <2>2, <2>3
<1> QED
  BY <1>6, <1>9, <1>10, <1>11 DEF TasksExplained


\* When an attempt is given up, every task of its graph is done but the last.
LEMMA CorrectExplained == InPlace /\ TasksExplained /\ Correct => TasksExplained'
<1> SUFFICES ASSUME InPlace, TasksExplained, Correct PROVE TasksExplained'
  OBVIOUS
<1> DEFINE n == "self_correction"
<1>1. /\ Moves(n, "returned") /\ at[n].phase = "working"
      /\ UNCHANGED <<run, status>>
      /\ values'.plan = values.plan
      /\ tasks' = [tasks EXCEPT ![Key(n)] = "completed"]
  BY MoveMoves DEF Correct, In, InPlace, Place, Fields, Finish, TaskOf, Key
<1>2. PICK retry \in BOOLEAN : values'.retry = retry /\ attempt' = NextAttempt(retry)
  BY DEF Correct, InPlace, Place, Fields
<1>3. DOMAIN at = {n} /\ DOMAIN at' = {n}
  BY <1>1, Alone DEF Moves, Searches, Voters
<1>4. /\ ~Renewed /\ ~Over /\ ~Over' /\ (Renewed' <=> retry)
      /\ \A m : OnThePath(m)' <=> OnThePath(m)
  BY <1>1, <1>2, <1>3 DEF Renewed, Worked, Over, Moves, Ended, OnThePath, Researching
<1>5. n \in TaskNodes /\ ~OnThePath(n)
  BY DEF TaskNodes, Nodes, NodeTask, None, OnThePath, Searches, Voters
<1>6. attempt \in Nat
  BY RunTyped DEF InPlace, Place
<1>7. /\ Key(n) \in DOMAIN tasks /\ tasks'[Key(n)] = "completed"
      /\ \A t \in DOMAIN tasks \ {Key(n)} : tasks'[t] = tasks[t]
      /\ DOMAIN tasks' = DOMAIN tasks
  BY <1>1, <1>5, KeyKept DEF TasksExplained, TasksTyped
<1>8. TasksTyped'
  BY <1>1 DEF TasksExplained, TasksTyped, Statuses
<1>9. \A m \in Nodes : Done(m) <=> Stage[m] < 15
  BY <1>1, <1>3, <1>4, StageTyped DEF Done, Worked, Ended, Stage
<1>10. \A m \in Nodes : Done(m)' <=> ~retry /\ (m = n \/ Stage[m] < 15)
  BY <1>1, <1>3, <1>4, StageTyped DEF Done, Worked, Moves, Ended, Stage
<1>11. \A m \in TaskNodes : Waiting(m) => m = "memory_write"
  BY <1>9 DEF Waiting, OnThePath, Stage, TaskNodes, Searches, Voters
<1>12. ASSUME NEW t \in DOMAIN tasks PROVE StatusExplained(t)'
  <2>1. StatusExplained(t) /\ t[2] \in Nat
    BY RunTyped DEF TasksExplained, TasksTyped, InPlace, Place
  <2>2. CASE t = Key(n)
    <3>1. ~Unopened(t)'
      BY <1>2, <1>4, <1>6, <2>2 DEF Unopened, NextAttempt, Key
    <3> QED
      BY <1>7, <2>2, <3>1 DEF StatusExplained
  <2>3. CASE t # Key(n)
    <3>1. tasks'[t] = tasks[t]
      BY <1>7, <2>3
    <3>2. Unopened(t)' => Unopened(t)
      BY <1>2, <1>4, <1>6, <2>1 DEF Unopened, NextAttempt
    <3>3. tasks[t] # "running" /\ tasks[t] # "failed"
      BY <1>1, <1>3, <1>4, <2>1, <2>3 DEF StatusExplained, In
    <3>4. ASSUME tasks[t] = "pending" PROVE \/ t[1] = "memory.write" /\ t[2] < attempt'
                                            \/ \E m \in TaskNodes : t = Key(m)' /\ Waiting(m)'
      <4>1. CASE t[1] = "memory.write" /\ t[2] < attempt
        BY <1>2, <1>6, <2>1, <4>1 DEF NextAttempt
      <4>2. CASE \E m \in TaskNodes : t = Key(m) /\ Waiting(m)
        <5>1. t = Key("memory_write") /\ "memory_write" \in TaskNodes
          BY <1>11, <4>2
        <5>2. CASE retry
          BY <1>2, <1>6, <5>1, <5>2 DEF Key, NextAttempt, NodeTask
        <5>3. CASE ~retry
          <6>1. Waiting("memory_write")'
            BY <1>3, <1>4, <1>10, <5>1, <5>3 DEF Waiting, OnThePath, Stage, TaskNodes, Nodes, NodeTask
          <6> QED
            BY <1>2, <5>1, <5>3, <6>1 DEF Key, NextAttempt
        <5> QED
          BY <5>2, <5>3
      <4> QED
        BY <1>4, <2>1, <3>4, <4>1, <4>2 DEF StatusExplained
    <3> QED
      BY <1>4, <2>1, <3>1, <3>2, <3>3, <3>4 DEF StatusExplained
  <2> QED
    BY <2>2, <2>3
<1>13. ASSUME NEW m \in TaskNodes PROVE TaskKept(m)'
  <2>1. TaskKept(m) /\ Key(m) \in DOMAIN tasks
    BY KeyKept DEF TasksExplained
  <2>2. CASE retry
    <3>1. ~Done(m)'
      BY <1>10, <2>2 DEF TaskNodes
    <3>2. Key(m)' \in DOMAIN tasks /\ Key(m)'[2] = attempt + 1
      <4>1. attempt' = attempt + 1 /\ attempt < run.limit
        BY <1>1, <1>2, <1>3, <2>2 DEF InPlace, Place, NextAttempt
      <4>2. attempt' \in 0..run.limit
        BY <1>6, <4>1, RunTyped DEF InPlace, Place
      <4> QED
        BY <4>1, <4>2, OneNodeATask DEF Key, TasksExplained, TasksTyped
    <3>3. tasks[Key(m)'] = "absent" /\ Key(m)' # Key(n)
      BY <1>6, <3>2 DEF TasksExplained, StatusExplained, Unopened, Key
    <3> QED
      BY <1>7, <3>1, <3>2, <3>3 DEF TaskKept
  <2>3. CASE ~retry
    <3>1. Key(m)' = Key(m)
      BY <1>2, <2>3 DEF Key, NextAttempt
    <3>2. CASE m = n
      BY <1>4, <1>5, <1>10, <2>3, <3>2 DEF TaskKept, Ahead, TaskNodes
    <3>3. CASE m # n
      <4>1. tasks'[Key(m)] = tasks[Key(m)]
        <5>1. Key(m) # Key(n)
          BY <1>5, <3>3, OneNodeATask DEF Key
        <5> QED
          BY <1>7, <2>1, <5>1
      <4>2. Done(m)' <=> Done(m)
        BY <1>9, <1>10, <2>3, <3>3 DEF TaskNodes
      <4>3. Ahead(m)' => Ahead(m)
        BY <1>3, <1>4, <3>3, <4>2 DEF Ahead
      <4> QED
        BY <1>4, <2>1, <3>1, <4>1, <4>2, <4>3 DEF TaskKept
    <3> QED
      BY <3>2, <3>3
  <2> QED
    BY <2>2, <2>3
<1> QED
  BY <1>7, <1>8, <1>12, <1>13 DEF TasksExplained


\* The edges lead on to a later stage, except into a new attempt.
LEMMA EdgesLeadOn ==
    ASSUME InPlace, NEW n \in DOMAIN at, NEW k \in Successors(n), ~Renewed,
           \A m \in DOMAIN at : In(m, "done")
    PROVE  Stage[k] > Stage[n]
<1>1. n \in Nodes
  BY NodesOnly
<1>2. n = "self_correction" => ~values.retry
  BY DEF Renewed, Worked, In, Ended
<1> QED
  BY <1>1, <1>2 DEF Successors, Stage, Nodes, NodeTask, ToHuman

\* They pass by no node of the path.
LEMMA NotPassedBy ==
    ASSUME InPlace, NEW n \in DOMAIN at, NEW k \in Successors(n), ~Renewed,
           \A j \in DOMAIN at : In(j, "done"),
           NEW m, OnThePath(m), Stage[k] > Stage[m]
    PROVE  Done(m)
<1>1. n \in Nodes /\ m \in TaskNodes /\ m \in Nodes
  BY NodesOnly, OneNodeATask DEF TaskNodes
<1>2. Worked(n) /\ \A j \in Nodes : Worked(j) \/ Stage[n] > Stage[j] => Done(j)
  BY DEF Done, Worked, In, Ended
<1> SUFFICES ASSUME ~Done(m) PROVE FALSE
  OBVIOUS
<1>3. ~Worked(m) /\ Stage[m] >= Stage[n] /\ m # n
  BY <1>1, <1>2, StageTyped
<1>4. m \notin DOMAIN at
  BY <1>3 DEF Worked, In, Ended
<1>5. m \in Voters \cup {"supervisor", "risk_consensus", "tool_execution", "critic", "memory_write"}
           \cup Searches \cup {"evidence_synthesis"}
  BY DEF OnThePath
<1>6. CASE n = "supervisor"
  <2>1. k = "research_bypass" \/ k = "research_dispatch"
    BY <1>6 DEF Successors
  <2>2. CASE k = "research_dispatch"
    BY <1>3, <1>5, <1>6, <2>2 DEF Stage, Searches, Voters
  <2>3. CASE k = "research_bypass"
    <3>1. ~Researching
      BY <1>6, <2>3 DEF Successors, Researching
    <3>2. m \in Searches
      BY <1>3, <1>5, <1>6, <2>3 DEF Stage, Searches, Voters
    <3> QED
      BY <3>1, <3>2 DEF OnThePath, Searches, Voters
  <2> QED
    BY <2>1, <2>2, <2>3
<1>7. CASE n \in {"evidence_synthesis", "research_bypass"}
  <2>1. k = "it_history"
    BY <1>7 DEF Successors
  <2>2. m = "evidence_synthesis" /\ n = "research_bypass"
    BY <1>3, <1>5, <1>7, <2>1 DEF Stage, Searches, Voters
  <2>3. ~Researching
    BY <2>2 DEF InPlace, NodeInPlace
  <2> QED
    BY <2>2, <2>3 DEF OnThePath, Voters
<1>8. CASE n \in {"tool_execution", "critic", "human_approval", "self_correction", "memory_write"}
  <2>1. n = "self_correction" => ~values.retry
    BY <1>2 DEF Renewed
  <2> QED
    BY <1>3, <1>5, <1>8, <2>1 DEF Stage, Successors, ToHuman, Searches, Voters
<1>9. CASE n \in Searches
  <2>1. DOMAIN at = Searches /\ k = "evidence_synthesis"
    BY <1>9 DEF InPlace, Place, Supersteps, Searches, Voters, Successors
  <2> QED
    BY <1>3, <1>4, <1>5, <1>9, <2>1 DEF Stage, Searches, Voters
<1>10. CASE n \in Voters
  <2>1. DOMAIN at = Voters /\ k = "risk_consensus"
    BY <1>10 DEF InPlace, Place, Supersteps, Searches, Voters, Successors
  <2> QED
    BY <1>3, <1>4, <1>5, <1>10, <2>1 DEF Stage, Searches, Voters
<1>11. CASE n \in {"memory_retrieve", "it_triage", "research_dispatch", "it_history",
                   "it_resolution", "risk_dispatch", "risk_consensus", "risk_gate", "finalize"}
  BY <1>3, <1>5, <1>11 DEF Stage, Successors, Searches, Voters
<1> QED
  BY <1>1, <1>6, <1>7, <1>8, <1>9, <1>10, <1>11 DEF Nodes, NodeTask, Searches, Voters

\* The next superstep starts nothing before it is due.
LEMMA AdvanceExplained == InPlace /\ TasksExplained /\ Advance => TasksExplained'
<1> SUFFICES ASSUME InPlace, TasksExplained, Advance PROVE TasksExplained'
  OBVIOUS
<1> DEFINE next == UNION {Successors(n) : n \in DOMAIN at}
<1>1. /\ DOMAIN at # {} /\ \A n \in DOMAIN at : In(n, "done")
      /\ "finalize" \notin DOMAIN at
      /\ at' = Entering(next)
      /\ UNCHANGED <<run, attempt, tasks, values, status>>
  BY DEF Advance
<1>2. DOMAIN at' = next /\ \A k \in next : at'[k].phase = "due"
  BY <1>1 DEF Entering, Phase
<1>3. \A n \in DOMAIN at : Successors(n) # {}
  <2>1. \A n \in DOMAIN at : n \in Nodes /\ n # "finalize"
    BY <1>1, NodesOnly
  <2> QED
    BY <2>1 DEF Successors, Nodes, NodeTask, ToHuman, Retry
<1>4. ~Over /\ ~Over' /\ next # {}
  BY <1>1, <1>2, <1>3 DEF Over
<1>5. /\ \A m : ~Worked(m)'
      /\ \A m : Done(m)' <=> \E k \in next : Stage[k] > Stage[m]
      /\ ~Renewed'
  BY <1>2 DEF Worked, Ended, Done, Renewed
<1>6. /\ \A m : OnThePath(m)' <=> OnThePath(m)
      /\ \A m : Key(m)' = Key(m)
  BY <1>1 DEF OnThePath, Researching, Key
<1>7. ~Renewed => \A m : Done(m)' /\ OnThePath(m) => Done(m)
  BY <1>1, <1>5, NotPassedBy
<1>8. ~Renewed => \A m \in Nodes : Done(m) => Done(m)'
  <2> SUFFICES ASSUME ~Renewed, NEW m \in Nodes, Done(m) PROVE \E k \in next : Stage[k] > Stage[m]
    BY <1>5
  <2>1. PICK n \in DOMAIN at : Stage[n] >= Stage[m]
    BY StageTyped, NodesOnly DEF Done, Worked
  <2>2. PICK k \in Successors(n) : TRUE
    BY <1>3
  <2>3. Stage[k] > Stage[n]
    BY <1>1, EdgesLeadOn
  <2>4. k \in next /\ k \in Nodes /\ n \in Nodes
    <3>1. next \in Supersteps
      BY <1>1, EdgesInPlace
    <3> QED
      BY <3>1, NodesOnly DEF Supersteps, Searches, Voters, Nodes, NodeTask
  <2> QED
    BY <2>1, <2>3, <2>4, StageTyped
<1>9. Renewed => next = {"supervisor"}
  <2>1. Renewed => DOMAIN at = {"self_correction"} /\ values.retry
    BY Alone DEF Renewed, Worked, Searches, Voters
  <2> QED
    BY <2>1 DEF Successors, Retry
<1>10. TasksTyped'
  BY <1>1 DEF TasksExplained, TasksTyped
<1>11. ASSUME NEW t \in DOMAIN tasks PROVE StatusExplained(t)'
  <2>1. StatusExplained(t) /\ tasks'[t] = tasks[t]
    BY <1>1 DEF TasksExplained
  <2>2. Unopened(t)' => Unopened(t)
    BY <1>1, <1>5 DEF Unopened
  <2>3. tasks[t] # "running" /\ tasks[t] # "failed"
    BY <1>1, <1>4, <2>1 DEF StatusExplained, In
  <2>4. ASSUME NEW m \in TaskNodes, t = Key(m), Waiting(m), tasks[t] = "pending" PROVE Waiting(m)'
    <3>1. ~Renewed
      BY <2>1, <2>4 DEF StatusExplained, Unopened, Key
    <3>2. ~Done(m)' /\ Done("supervisor")'
      BY <1>7, <1>8, <2>4, <3>1 DEF Waiting, Nodes, NodeTask
    <3> QED
      BY <1>2, <1>6, <2>4, <3>2 DEF Waiting
  <2> QED
    BY <1>1, <1>4, <1>6, <2>1, <2>2, <2>3, <2>4 DEF StatusExplained
<1>12. ASSUME NEW m \in TaskNodes PROVE TaskKept(m)'
  <2>1. TaskKept(m) /\ tasks'[Key(m)'] = tasks[Key(m)]
    BY <1>1, <1>6 DEF TasksExplained
  <2>2. CASE Renewed
    <3>1. tasks[Key(m)] = "absent"
      BY <2>2, KeyKept DEF TasksExplained, StatusExplained, Unopened
    <3>2. ~(Done(m)' /\ OnThePath(m))
      <4>1. Done(m)' => Stage[m] < 2
        BY <1>5, <1>9, <2>2 DEF Stage
      <4> QED
        BY <4>1 DEF OnThePath, Stage, Searches, Voters
    <3> QED
      BY <1>6, <2>1, <3>1, <3>2 DEF TaskKept
  <2>3. CASE ~Renewed
    <3>1. Ahead(m)' => Ahead(m)
      <4>1. Ahead(m)' => ~Done(m)
        BY <1>8, <2>3 DEF Ahead, TaskNodes
      <4>2. ~Done(m) => m \notin DOMAIN at
        BY <1>1, <2>3 DEF Done, Worked, In, Ended
      <4> QED
        BY <1>4, <4>1, <4>2 DEF Ahead
    <3> QED
      BY <1>6, <1>7, <2>1, <2>3, <3>1 DEF TaskKept
  <2> QED
    BY <2>2, <2>3
<1> QED
  BY <1>1, <1>10, <1>11, <1>12 DEF TasksExplained

\* At the end nothing is left to wait for, unless the run has failed.
LEMMA EndExplained ==
    InPlace /\ TasksExplained /\ (Complete \/ FailRun) => TasksExplained' /\ DependenciesDone' = DependenciesDone
<1> SUFFICES ASSUME InPlace, TasksExplained, Complete \/ FailRun
             PROVE  TasksExplained' /\ DependenciesDone' = DependenciesDone
  OBVIOUS
<1>1. /\ DOMAIN at # {} /\ DOMAIN at' = {}
      /\ UNCHANGED <<run, attempt, tasks, values>>
      /\ \A n \in DOMAIN at : In(n, "done") \/ In(n, "failed")
      /\ status' # "failed" => In("finalize", "done")
      /\ (\E n \in DOMAIN at : In(n, "failed")) => status' = "failed"
  <2>1. CASE Complete
    <3>1. DOMAIN at = {"finalize"}
      BY <2>1, Alone DEF Complete, In, Searches, Voters
    <3> QED
      BY <2>1, <3>1 DEF Complete, Entering, In
  <2>2. CASE FailRun
    BY <2>2 DEF FailRun, Entering
  <2> QED
    BY <2>1, <2>2
<1>2. ~Over /\ Over' /\ (\A m : ~Done(m)') /\ ~Renewed'
  BY <1>1 DEF Over, Done, Worked, Renewed
<1>3. ASSUME In("finalize", "done"), NEW m PROVE ~Waiting(m)
  <2>1. DOMAIN at = {"finalize"}
    BY <1>3, Alone DEF In, Searches, Voters
  <2>2. ~Renewed
    BY <2>1 DEF Renewed, Worked
  <2>3. OnThePath(m) => Done(m)
    BY <2>1, <2>2 DEF OnThePath, Done, Stage, Searches, Voters
  <2> QED
    BY <2>3 DEF Waiting
<1>4. TasksTyped'
  BY <1>1 DEF TasksExplained, TasksTyped
<1>5. ASSUME NEW t \in DOMAIN tasks PROVE StatusExplained(t)'
  <2>1. StatusExplained(t) /\ tasks'[t] = tasks[t]
    BY <1>1 DEF TasksExplained
  <2>2. Unopened(t)' => Unopened(t)
    BY <1>1, <1>2 DEF Unopened
  <2>3. tasks[t] # "running"
    BY <1>1, <2>1 DEF StatusExplained, In
  <2>4. tasks[t] = "failed" => status' = "failed"
    BY <1>1, <1>2, <2>1 DEF StatusExplained
  <2>5. tasks[t] = "pending" => status' = "failed" \/ (t[1] = "memory.write" /\ t[2] < attempt)
    BY <1>1, <1>2, <1>3, <2>1 DEF StatusExplained
  <2> QED
    BY <1>1, <1>2, <2>1, <2>2, <2>3, <2>4, <2>5 DEF StatusExplained
<1>6. \A m \in TaskNodes : TaskKept(m)'
  BY <1>2 DEF TaskKept, Ahead
<1>7. DependenciesDone' = DependenciesDone
  BY <1>1 DEF DependenciesDone
<1> QED
  BY <1>1, <1>4, <1>5, <1>6, <1>7 DEF TasksExplained


TasksInPlace == TasksExplained /\ DependenciesDone

\* Every step leaves the tasks as the place of the run explains them.
LEMMA TasksStep ==
    InPlace /\ GoodValues /\ TasksInPlace /\ [GraphNext]_graphVars => TasksInPlace'
<1> SUFFICES ASSUME InPlace, GoodValues, TasksInPlace, [GraphNext]_graphVars PROVE TasksInPlace'
  OBVIOUS
<1>f. DOMAIN values = Fields /\ TasksExplained
  BY DEF InPlace, Place, TasksInPlace
<1>d. ASSUME TasksExplained', ~Over' PROVE TasksInPlace'
  BY <1>d, PlaceStep, ValuesStep, ExplainedDepend, PTL DEF TasksInPlace
<1>1. CASE UNCHANGED graphVars
  BY <1>1 DEF graphVars, TasksInPlace, TasksExplained, TasksTyped, StatusExplained, TaskKept,
              Unopened, Renewed, Worked, In, Over, Key, Waiting, Done, OnThePath, Researching,
              Ahead, DependenciesDone
<1>o. ASSUME NEW n, NEW p, Moves(n, p) PROVE ~Over'
  BY <1>o DEF Moves, Over
<1>2. ASSUME NEW n \in DOMAIN at, Begin(n) PROVE TasksInPlace'
  <2>1. Moves(n, "working") /\ at[n].phase = "due" /\ n \in TaskNodes
    BY <1>2, MoveMoves, NodesOnly DEF Begin, In, TaskNodes
  <2>2. TaskOf(n) = Key(n)
    BY DEF TaskOf, Key, InPlace, NodeInPlace
  <2>3. TasksExplained'
    BY <1>2, <1>f, <2>1, <2>2, TaskMoves DEF Begin, Together, Statuses, Ended
  <2> QED
    BY <1>d, <1>o, <2>1, <2>3
<1>3. ASSUME NEW n \in DOMAIN at, Pass(n) PROVE TasksInPlace'
  <2>1. Moves(n, "done") /\ at[n].phase = "due"
    BY <1>3, MoveMoves DEF Pass, In
  <2>2. ~OnThePath(n) /\ n # "self_correction"
    BY <1>3 DEF Pass, Idle, ItNodes, OnThePath, Searches, Voters
  <2>3. TasksExplained'
    BY <1>3, <1>f, <2>1, <2>2, OthersMove DEF Pass, Ended
  <2> QED
    BY <1>d, <1>o, <2>1, <2>3
<1>4. ASSUME NEW n \in DOMAIN at, NumberCheckpoint(n) \/ InsertCheckpoint(n) PROVE TasksInPlace'
  <2>1. PICK p \in {"numbered", "done"} : Moves(n, p) /\ at[n].phase \in {"returned", "numbered"}
    BY <1>4, MoveMoves DEF InsertCheckpoint, In
  <2>2. UNCHANGED <<run, attempt, tasks, values>>
    BY <1>4 DEF NumberCheckpoint, InsertCheckpoint
  <2>3. TasksExplained'
    BY <1>f, <2>1, <2>2, OthersMove DEF Ended
  <2> QED
    BY <1>d, <1>o, <2>1, <2>3
<1>5. ASSUME NEW n \in DOMAIN at, Raise(n) PROVE TasksInPlace'
  <2>1. Moves(n, "failed") /\ at[n].phase = "working" /\ n \in TaskNodes
    BY <1>5, MoveMoves, NodesOnly DEF Raise, In, TaskNodes, InPlace, NodeInPlace
  <2>2. TaskOf(n) = Key(n)
    BY DEF TaskOf, Key, InPlace, NodeInPlace
  <2>3. TasksExplained'
    BY <1>5, <1>f, <2>1, <2>2, TaskMoves DEF Raise, Finish, Together, Statuses, Ended
  <2> QED
    BY <1>d, <1>o, <2>1, <2>3
<1>6. CASE Advance
  <2>1. TasksExplained'
    BY <1>6, <1>f, AdvanceExplained
  <2>2. ~Over'
    <3>1. PICK n \in DOMAIN at : n # "finalize"
      BY <1>6 DEF Advance
    <3>2. Successors(n) # {}
      BY <3>1, NodesOnly DEF Successors, Nodes, NodeTask, ToHuman, Retry
    <3> QED
      BY <1>6, <3>2 DEF Advance, Entering, Over
  <2> QED
    BY <1>d, <2>1, <2>2
<1>7. CASE Complete \/ FailRun
  BY <1>7, EndExplained DEF TasksInPlace
<1>8. CASE Resume
  <2>1. Moves("human_approval", "working") /\ at["human_approval"].phase = "asked"
    BY <1>8, MoveMoves DEF Resume, In
  <2>2. "human_approval" \in TaskNodes /\ "human_approval" \in DOMAIN at
    BY <2>1 DEF TaskNodes, Nodes, NodeTask, None, Moves
  <2>3. TaskOf("human_approval") = Key("human_approval")
    BY DEF TaskOf, Key
  <2>4. TasksExplained'
    BY <1>8, <1>f, <2>1, <2>2, <2>3, TaskMoves DEF Resume, Together, Statuses, Ended
  <2> QED
    BY <1>d, <1>o, <2>1, <2>4
<1>9. CASE AskHuman
  <2>1. Moves("human_approval", "asked") /\ at["human_approval"].phase = "due"
    BY <1>9, MoveMoves DEF AskHuman, In
  <2>2. "human_approval" \in DOMAIN at /\ ~OnThePath("human_approval")
    BY <2>1 DEF Moves, OnThePath, Searches, Voters
  <2>3. TasksExplained'
    BY <1>9, <1>f, <2>1, <2>2, OthersMove DEF AskHuman, Ended
  <2> QED
    BY <1>d, <1>o, <2>1, <2>3
<1>10. CASE Supervise
  <2>1. TasksExplained' /\ Moves("supervisor", "returned")
    BY <1>10, <1>f, SuperviseExplained, MoveMoves DEF Supervise, In
  <2> QED
    BY <1>d, <1>o, <2>1
<1>11. CASE Correct
  <2>1. TasksExplained' /\ Moves("self_correction", "returned")
    BY <1>11, <1>f, CorrectExplained, MoveMoves DEF Correct, In
  <2> QED
    BY <1>d, <1>o, <2>1
<1>12. ASSUME NEW n \in PlainNodes, NEW handed, Hands(n, handed) PROVE TasksInPlace'
  <2>1. /\ n \in DOMAIN at /\ n # "self_correction" /\ UNCHANGED <<run, attempt>>
        /\ values'.plan = values.plan /\ values'.retry = values.retry
    BY <1>12 DEF Hands, Return, Leave, In, PlainNodes
  <2>2. PICK p \in {"done", "returned"} : Moves(n, p)
    BY <1>12, <2>1, MoveMoves DEF Hands, Return, Leave
  <2>3. CASE Return(n, handed)
    <3>1. at[n].phase = "working" /\ n \in TaskNodes
      BY <2>1, <2>3, NodesOnly DEF Return, In, TaskNodes, InPlace, NodeInPlace
    <3>2. TaskOf(n) = Key(n)
      BY <2>1 DEF TaskOf, Key, InPlace, NodeInPlace
    <3>3. TasksExplained'
      BY <1>f, <2>1, <2>2, <2>3, <3>1, <3>2, TaskMoves DEF Return, Finish, Together, Statuses, Ended
    <3> QED
      BY <1>d, <1>o, <2>2, <3>3
  <2>4. CASE Leave(n, handed)
    <3>1. at[n].phase = "due" /\ ~OnThePath(n)
      BY <2>4, OneNodeATask DEF Leave, In, TaskNodes
    <3>2. TasksExplained'
      BY <1>f, <2>1, <2>2, <2>4, <3>1, OthersMove DEF Leave, Ended
    <3> QED
      BY <1>d, <1>o, <2>2, <3>2
  <2> QED
    BY <1>12, <2>3, <2>4 DEF Hands
<1> QED
  BY <1>1, <1>2, <1>3, <1>4, <1>5, <1>6, <1>7, <1>8, <1>9, <1>10, <1>11, <1>12, <1>f,
     NodeSteps DEF GraphNext, Engine

LEMMA TasksInit == GraphInit => TasksInPlace
<1> SUFFICES ASSUME GraphInit PROVE TasksInPlace
  OBVIOUS
<1>1. /\ DOMAIN tasks = TaskKeys \X (0..run.limit)
      /\ \A t \in DOMAIN tasks : tasks[t] = "absent"
      /\ TasksTyped
      /\ run \in Runs /\ attempt = 0
  BY DEF GraphInit, TasksTyped, Statuses
<1>2. \A t \in DOMAIN tasks : StatusExplained(t)
  BY <1>1 DEF StatusExplained
<1>3. ASSUME NEW n \in TaskNodes PROVE TaskKept(n)
  <2>1. ~(Done(n) /\ OnThePath(n))
    <3>1. DOMAIN at = {"memory_retrieve"} /\ at["memory_retrieve"].phase = "due"
      BY DEF GraphInit, Entering, Phase
    <3>2. Stage["memory_retrieve"] = 0 /\ ~(0 > Stage[n])
      BY StageTyped DEF Stage, TaskNodes
    <3> QED
      BY <3>1, <3>2 DEF Done, Worked, Ended
  <2>2. tasks[Key(n)] = "absent"
    <3>1. Key(n) \in DOMAIN tasks
      BY <1>1, OneNodeATask, RunTyped DEF Key
    <3> QED
      BY <1>1, <3>1
  <2> QED
    BY <2>1, <2>2 DEF TaskKept
<1>4. DependenciesDone
  <2>1. values.plan.since # attempt
    BY DEF GraphInit, NoValues, Never
  <2> QED
    BY <2>1 DEF DependenciesDone
<1> QED
  BY <1>1, <1>2, <1>3, <1>4 DEF TasksInPlace, TasksExplained

LEMMA AlwaysTasksInPlace == GraphSpec => []TasksInPlace
BY TasksInit, TasksStep, AlwaysInPlace, AlwaysGoodValues, PTL DEF GraphSpec

\* The tasks of every run, for any number of corrections and whichever nodes
\* fail: none starts before what it depends on, none is left running, and a run
\* that ends well has done all of its last attempt.
THEOREM TheTasksInOrder == GraphSpec => []TasksInOrder
<1>1. ASSUME InPlace, GoodValues, TasksInPlace PROVE TypeOKGraph
  <2>1. Cardinality(DOMAIN at) < 2 \/ DOMAIN at \in {Searches, Voters}
    <3>1. CASE DOMAIN at = {}
      BY <3>1, FS_EmptySet
    <3>2. ASSUME NEW n, DOMAIN at = {n} PROVE Cardinality(DOMAIN at) < 2
      BY <3>2, FS_Singleton
    <3> QED
      BY <1>1, <3>1, <3>2 DEF InPlace, Place, Supersteps
  <2>2. \A t \in DOMAIN tasks : tasks[t] \in Statuses
    BY <1>1 DEF TasksInPlace, TasksExplained, TasksTyped
  <2>3. \A n \in DOMAIN at : at[n].phase \in Phases
    BY <1>1 DEF InPlace, NodeInPlace
  <2>4. values.reading \in Readings /\ values.verdict.gate \in GateDecisions \cup {NoGate}
    BY <1>1 DEF GoodValues, ValuesTyped, Faithful
  <2>5. run \in RunTypes /\ attempt \in 0..run.limit
    BY <1>1, GraphAssumption DEF InPlace, Place
  <2> QED
    BY <1>1, <2>1, <2>2, <2>3, <2>4, <2>5, NodesOnly
       DEF TypeOKGraph, InPlace, Place, Searches, Voters, Phases, Statuses
<1>2. TasksInPlace => DependenciesDone /\ TasksSettle
  BY ExplainedSettle DEF TasksInPlace
<1> QED
  BY <1>1, <1>2, AlwaysInPlace, AlwaysGoodValues, AlwaysTasksInPlace, PTL DEF TasksInOrder

=============================================================================
