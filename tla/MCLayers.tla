------------------------------ MODULE MCLayers ------------------------------
(***************************************************************************)
(* Every graph over the nodes in which a node lists up to two nodes,       *)
(* itself or the same one twice included; the order of a list is left out. *)
(***************************************************************************)
EXTENDS Layers, SequencesExt

MCGraphs == [Nodes -> {s \in BoundedSeq(Nodes, 2) : Len(s) = 2 => s[1] <= s[2]}]
=============================================================================
