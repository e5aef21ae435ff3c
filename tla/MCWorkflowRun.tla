---------------------------- MODULE MCWorkflowRun ---------------------------
(***************************************************************************)
(* Instances of WorkflowRun for TLC.                                       *)
(***************************************************************************)
EXTENDS WorkflowRun

CONSTANTS r1, r2, v1, v2

OneRun == {r1, v1, v2}

Text(category, amount, recipient) ==
    [category |-> category, amount |-> amount, recipient |-> recipient]

Sure(category, amount) ==
    [sure |-> TRUE, category |-> category, amount |-> amount, recipient |-> FALSE]

Plain(text) ==
    [safe |-> TRUE, command |-> "none", sees |-> "ours", text |-> text, model |-> NoSuggestion,
     handed |-> FALSE, consensus |-> [risk |-> "low", approval |-> FALSE], known |-> FALSE]

SmallRefund == Text("refund", 100, FALSE)

\* Every kind of request the policy tells apart, and the ways in which a
\* model, the risk agents and the CRM change it.
Texts ==
    {Text("general", NoAmount, FALSE), Text("security", NoAmount, FALSE),
     Text("access_request", 2000, TRUE), Text("incident", NoAmount, FALSE),
     Text("procurement", 1200, FALSE), Text("procurement", 100, TRUE),
     Text("refund", NoAmount, FALSE), Text("refund", 100, TRUE), Text("complaint", 100, TRUE),
     Text("complaint", 2000, TRUE), Text("remote_work", NoAmount, FALSE)}

Asked ==
    {Plain(text) : text \in Texts \cup {SmallRefund}}
        \cup {[Plain(SmallRefund) EXCEPT !.known = TRUE],
              [Plain(SmallRefund) EXCEPT !.model = Sure("general", 100)],
              [Plain(SmallRefund) EXCEPT !.model = Sure(Unusable, 2000)],
              [Plain(SmallRefund) EXCEPT !.handed = TRUE, !.known = TRUE,
                   !.consensus = [risk |-> "high", approval |-> TRUE]],
              [Plain(SmallRefund) EXCEPT !.handed = TRUE, !.known = TRUE,
                   !.consensus = [risk |-> "medium", approval |-> TRUE]],
              [Plain(SmallRefund) EXCEPT !.safe = FALSE]}

Commands ==
    {[Plain(Text("general", NoAmount, FALSE)) EXCEPT !.command = command, !.sees = sees] :
        command \in {"query", "update"}, sees \in {"all", "ours", "nothing"}}

Setting(workers, input, beforePark, handmade, failing, dying) ==
    [workers |-> workers, input |-> input, beforePark |-> beforePark, handmade |-> handmade,
     faults |-> failing, crashes |-> dying]

\* Both kinds of reviewed request, a mail that needs no review, two reviewers.
Contested ==
    {Plain(Text("security", NoAmount, FALSE)), Plain(Text("refund", 100, TRUE)),
     [Plain(SmallRefund) EXCEPT !.known = TRUE]}

AllSettings ==
    {Setting({r1, v1}, input, FALSE, TRUE, 1, 0) : input \in Asked}
        \cup {Setting(OneRun, input, beforePark, FALSE, failing, 0) :
                 input \in Contested, beforePark \in BOOLEAN, failing \in {0, 2}}
        \cup {Setting({r1, v1}, input, TRUE, FALSE, 0, 1) : input \in Contested}
        \cup {Setting({r1}, input, FALSE, handmade, 1, 1) :
                 input \in Commands, handmade \in BOOLEAN}
        \cup {Setting({r1, r2}, Plain(Text("general", NoAmount, FALSE)), FALSE, FALSE, 1, 0),
              Setting({r1, r2}, [Plain(SmallRefund) EXCEPT !.safe = FALSE], FALSE, FALSE, 0, 0)}
=============================================================================
