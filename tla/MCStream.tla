------------------------------ MODULE MCStream ------------------------------
(***************************************************************************)
(* Instances of Stream: every candidate list of up to two names, one of    *)
(* them unknown to the ProviderSet, and up to MaxChunks chunks a stream.   *)
(***************************************************************************)
EXTENDS Stream, SequencesExt

CONSTANTS p1, p2, gone

MCRoutes == BoundedSeq(Names, 2)
=============================================================================
