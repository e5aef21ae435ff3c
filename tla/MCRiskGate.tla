----------------------------- MODULE MCRiskGate -----------------------------
(***************************************************************************)
(* Instances of RiskGate and AgentGraph for TLC.  A behaviour is one of    *)
(* the gate alone, over its whole input space with an environment and a    *)
(* criticality that are on no ladder, or one of the graph, in which the    *)
(* gate's own proposal stands still.                                       *)
(***************************************************************************)
EXTENDS AgentGraph

AnyEnvironments == {"dev", "staging", "production", "sandbox"}
AnyCriticalities == {"normal", "important", "critical", "vital"}

AnyServices == {"REDIS"}
AnyResources == {"DATABASE"}
AnyProducts == {"IDE"}

AnySuggestions == {[risk |-> None, approval |-> FALSE], [risk |-> "low", approval |-> FALSE],
                   [risk |-> "critical", approval |-> TRUE]}

-----------------------------------------------------------------------------
(* What runs are given.                                                    *)

Blank ==
    [permission |-> FALSE, software |-> FALSE, asset |-> FALSE, incident |-> FALSE,
     verb |-> FALSE, paid |-> FALSE, access_level |-> FALSE, service |-> None,
     resource |-> None, product |-> None, environment |-> None, cue |-> None]

Plan(risk, approval, research, side_effect) ==
    [risk |-> risk, approval |-> approval, research |-> research, side_effect |-> side_effect]

\* A request that is no IT ticket, as far as the risk agents are concerned.
General(memory, ready, known, plan) ==
    [it |-> FALSE, text |-> Blank, filed |-> Blank, threshold |-> 55, ready |-> ready,
     expert |-> TRUE, plans |-> {plan}, memory |-> memory, known |-> known, limit |-> 0,
     asset |-> <<Unreadable, Unreadable>>]

\* A ticket that is read by the rules and the model, and is not corrected.
Ticket(text, filed, asset, threshold, known) ==
    [it |-> TRUE, text |-> text, filed |-> filed, threshold |-> threshold, ready |-> TRUE,
     expert |-> FALSE, plans |-> {Plan("medium", FALSE, FALSE, FALSE)}, memory |-> {},
     known |-> known, limit |-> 0, asset |-> asset]

Fault(service, place, cue) ==
    [Blank EXCEPT !.incident = TRUE, !.service = service, !.environment = place, !.cue = cue]
Permission(resource, place) ==
    [Blank EXCEPT !.permission = TRUE, !.verb = TRUE, !.resource = resource,
                  !.environment = place, !.cue = "cache"]

\* What is clear, for every search result; what is not, for every answer.
Clear == {Fault("REDIS", "dev", "cache"), Fault("REDIS", "dev", None), Fault("REDIS", "production", None),
          Permission("DATABASE", "dev"), Fault(None, "dev", None)}
Unclear == {Fault("REDIS", None, "cache"), Fault(None, "dev", "cache"),
            Permission("DATABASE", None), Permission(None, "dev"),
            [Blank EXCEPT !.cue = "cache"], [Blank EXCEPT !.asset = TRUE],
            [Blank EXCEPT !.software = TRUE, !.paid = TRUE]}

\* The row of the asset the ticket is about, as far as there is one to read.
Rows(filed) ==
    IF Classify(filed).service = None /\ Classify(filed).resource = None
    THEN {<<Unreadable, Unreadable>>}
    ELSE {<<"dev", "normal">>, <<"production", "critical">>}

\* A correction may make the planner see a need for research or none.
Corrected ==
    [General({}, FALSE, {{}, {"plain"}}, Plan("low", FALSE, FALSE, TRUE)) EXCEPT
        !.expert = FALSE, !.limit = 2,
        !.plans = {Plan("medium", TRUE, TRUE, TRUE), Plan("low", FALSE, FALSE, TRUE)}]

CorrectedTicket ==
    [Ticket(Fault("REDIS", "dev", None), Fault("REDIS", "dev", None), <<"dev", "normal">>, 55,
            {{}, {"cache"}}) EXCEPT !.limit = 1]

ManyRuns ==
    {General(memory, ready, {{}, {"plain"}}, Plan("low", FALSE, TRUE, side_effect)) :
        memory \in {{}, {"failed_steps"}, {"approval_state_wrong"}},
        side_effect \in BOOLEAN, ready \in BOOLEAN}
    \cup {Corrected, CorrectedTicket}
    \cup UNION {{Ticket(filed, filed, row, 55, {{}, {"plain"}, {"cache"}}) :
                    row \in Rows(filed)} : filed \in Clear}
    \cup UNION {{Ticket(filed, filed, row, 70, {{"plain"}}) :
                    row \in Rows(filed)} : filed \in Unclear}
    \cup {Ticket(text, Fault("REDIS", None, None), <<"dev", "normal">>, 70, {{"cache"}}) :
            text \in {[Blank EXCEPT !.paid = TRUE], Fault("REDIS", "dev", "restart")}}

-----------------------------------------------------------------------------

\* A proposal that is none of the graph's.
Elsewhere ==
    [action_type |-> "unknown", asset_environment |-> Unreadable,
     asset_criticality |-> Unreadable, text_environment |-> NoClaim, urgent |-> FALSE,
     triage_needs_approval |-> FALSE, evidence |-> FALSE, missing_information |-> FALSE]

NoRun == Ticket(Blank, Blank, <<Unreadable, Unreadable>>, 55, {})

GateInit ==
    /\ Init
    /\ run = NoRun /\ at = Entering({}) /\ attempt = 0 /\ checkpoints = <<>>
    /\ tasks = [t \in TaskKeys \X {0} |-> "absent"]
    /\ values = NoValues /\ status = "failed"

MCInit == GateInit \/ (GraphInit /\ proposal = Elsewhere)

MCNext ==
    \/ run = NoRun /\ Next /\ UNCHANGED graphVars
    \/ GraphNext /\ UNCHANGED proposal

MCSpec == MCInit /\ [][MCNext]_<<proposal, graphVars>> /\ WF_graphVars(Engine /\ UNCHANGED proposal)

=============================================================================
