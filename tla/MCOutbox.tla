------------------------------ MODULE MCOutbox ------------------------------
(***************************************************************************)
(* A small instance of Outbox for TLC: two workflow steps, a dispatcher    *)
(* and one retry.  They overlap and one of them dies, with and without a   *)
(* provider that takes keys; or they come one after the other.             *)
(***************************************************************************)
EXTENDS Outbox

Rough == [overlap : {TRUE}, lost : {TRUE}, keyed : BOOLEAN, crashes : {1}]
Quiet == [overlap : {FALSE}, lost : BOOLEAN, keyed : {FALSE}, crashes : {0, 1}]

RoughAndQuiet == Rough \cup Quiet

=============================================================================
