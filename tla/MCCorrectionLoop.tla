-------------------------- MODULE MCCorrectionLoop --------------------------
(***************************************************************************)
(* Small instances of CorrectionLoop for TLC.                              *)
(***************************************************************************)
EXTENDS CorrectionLoop

\* Nothing, one high finding of the review, a missing notification, and more
\* findings than any run survives.
SomePenalties == {0, 12, 15, 40}

=============================================================================
