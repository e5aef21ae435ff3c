-------------------------- MODULE MCITResolution --------------------------
(***************************************************************************)
(* Small instances of ITResolution for TLC: one resolve request with       *)
(* deciders who overlap, an operator and a crash, or two resolve requests  *)
(* with two patient deciders.                                              *)
(***************************************************************************)
EXTENDS ITResolution

CONSTANTS r1, r2, d1, d2, o1

Hasty(procs, losses) ==
    [procs |-> procs, beforePause |-> TRUE, overlap |-> TRUE, crashes |-> losses]

PatientSetting ==
    [procs |-> {r1, r2, d1, d2}, beforePause |-> FALSE, overlap |-> FALSE, crashes |-> 0]

HastyAndPatient ==
    {PatientSetting, Hasty({r1, d1, d2}, 1), Hasty({r1, d1, o1}, 1), Hasty({r1, d1, d2, o1}, 0)}

TwoDeciders == {Hasty({r1, d1, d2}, 0)}
OneDecider == {Hasty({r1, d1}, 0)}

=============================================================================
