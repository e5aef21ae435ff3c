----------------------------- MODULE ActionGate -----------------------------
(***************************************************************************)
(* What the approval protocol promises about the tool of an IT run.        *)
(*                                                                         *)
(* The risk gate judges each run once.  A run it sends to a human is ruled *)
(* on once, by a verdict that stands.  The tool is performed only under a  *)
(* clearance of the gate or a granted approval.  How often it is performed *)
(* is left open here: see RunsOnce of ITResolution.                        *)
(***************************************************************************)
EXTENDS Naturals

CONSTANT Runs

VARIABLES
    authority,   \* what each run's tool may rest on
    performed    \* how often each run's tool was performed

Authorities == {"unjudged", "cleared", "refused", "asked", "granted", "denied"}

Init ==
    /\ authority = [r \in Runs |-> "unjudged"]
    /\ performed = [r \in Runs |-> 0]

\* The gate's decision (risk_gate.evaluate).
Judge(r, verdict) ==
    /\ authority[r] = "unjudged"
    /\ verdict \in {"cleared", "refused", "asked"}
    /\ authority' = [authority EXCEPT ![r] = verdict]
    /\ UNCHANGED performed

\* The human verdict (mark_approval).
Rule(r, verdict) ==
    /\ authority[r] = "asked"
    /\ verdict \in {"granted", "denied"}
    /\ authority' = [authority EXCEPT ![r] = verdict]
    /\ UNCHANGED performed

\* One run of the tool (execute_it_action).
Perform(r) ==
    /\ authority[r] \in {"cleared", "granted"}
    /\ performed' = [performed EXCEPT ![r] = @ + 1]
    /\ UNCHANGED authority

Next ==
    \E r \in Runs :
        \/ \E verdict \in Authorities : Judge(r, verdict) \/ Rule(r, verdict)
        \/ Perform(r)

Spec == Init /\ [][Next]_<<authority, performed>>

=============================================================================
