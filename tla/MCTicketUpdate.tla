--------------------------- MODULE MCTicketUpdate ---------------------------
(***************************************************************************)
(* Small instances of TicketUpdate for TLC: three updates that move the    *)
(* ticket back and forth and overlap, so that one status is wanted twice;  *)
(* an administrator's retry that overlaps two of them, one of which dies;  *)
(* and two updates of Jira's ticket, one at a time, with a dispatcher.     *)
(***************************************************************************)
EXTENDS TicketUpdate

CONSTANTS u1, u2, u3, d1, a1

BackAndForth ==
    [procs : {{u1, u2, u3}}, wanted : {{"investigating", "resolved"}}, overlap : {TRUE},
     lost : {TRUE}, jira : {FALSE}, sameSecond : {FALSE}, crashes : {0}]

RetriedMeanwhile ==
    [procs : {{u1, u2, a1}}, wanted : {{"investigating", "resolved"}}, overlap : {TRUE},
     lost : {TRUE}, jira : {FALSE}, sameSecond : {FALSE}, crashes : {1}]

OneByOne ==
    [procs : {{u1, u2, d1, a1}},
     wanted : {{"investigating", "waiting_approval", "resolved", "closed"}}, overlap : {FALSE},
     lost : {FALSE}, jira : {TRUE}, sameSecond : {TRUE}, crashes : {0}]

OverlappingAndNot == BackAndForth \cup RetriedMeanwhile \cup OneByOne

=============================================================================
