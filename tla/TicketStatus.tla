---------------------------- MODULE TicketStatus ----------------------------
(***************************************************************************)
(* The statuses of a ticket and the transitions update_ticket accepts.     *)
(***************************************************************************)

TicketStatuses ==
    {"open", "investigating", "waiting_approval", "approved", "rejected",
     "waiting_customer", "resolved", "closed"}

\* ALLOWED_STATUS_TRANSITIONS
Allowed ==
    [open             |-> TicketStatuses \ {"open"},
     investigating    |-> TicketStatuses \ {"investigating"},
     waiting_approval |-> {"open", "investigating", "approved", "rejected", "closed"},
     approved         |-> {"open", "investigating", "waiting_customer", "resolved", "closed"},
     rejected         |-> {"open", "closed"},
     waiting_customer |-> {"open", "investigating", "resolved", "closed"},
     resolved         |-> {"open", "investigating", "closed"},
     closed           |-> {"open"}]

\* validate_ticket_transition: writing the current status again is accepted.
LegalTransition(from, to) == to = from \/ to \in Allowed[from]

=============================================================================
