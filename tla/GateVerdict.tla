---------------------------- MODULE GateVerdict -----------------------------
(***************************************************************************)
(* The risk gate's verdict, as far as the executor distinguishes it: what  *)
(* was decided, and whether a tool may run once everyone has agreed.       *)
(***************************************************************************)

Gate(decision, executable) == [decision |-> decision, executable |-> executable]

NoGate == Gate("none", FALSE)

GateDecisions ==
    {Gate("auto_execute", TRUE), Gate("require_approval", TRUE),
     Gate("require_approval", FALSE), Gate("deny", FALSE)}

=============================================================================
