----------------------------- MODULE MCJobQueue -----------------------------
(***************************************************************************)
(* Small instances of JobQueue for TLC.                                    *)
(***************************************************************************)
EXTENDS JobQueue

\* The older job may be tried twice, every other job once.
TwiceThenOnce == [j \in Jobs |-> IF j = 1 THEN 2 ELSE 1]

============================================================================
