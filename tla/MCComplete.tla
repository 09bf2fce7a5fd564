----------------------------- MODULE MCComplete -----------------------------
(***************************************************************************)
(* Instances of Complete over every candidate list of up to three names,   *)
(* repeats and a name the ProviderSet does not hold included.              *)
(***************************************************************************)
EXTENDS Complete, SequencesExt

CONSTANTS p1, p2, gone

MCRoutes == BoundedSeq(Names, 3)
=============================================================================
