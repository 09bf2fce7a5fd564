-------------------------------- MODULE Dag --------------------------------
(***************************************************************************)
(* What the two halves of core/workflow mean by the same words: Layers     *)
(* (dag.go) computes a layering, Run (engine.go) executes it.              *)
(***************************************************************************)
EXTENDS Integers, Sequences, FiniteSets

CONSTANT Nodes      \* the IDs of a definition's nodes

ASSUME NodesAssumption == IsFiniteSet(Nodes)

(* Every node is in one layer, its dependencies are in earlier ones.       *)
Layering(deps, layers) ==
  /\ UNION {layers[j] : j \in DOMAIN layers} = Nodes
  /\ \A i, j \in DOMAIN layers : i # j => layers[i] \cap layers[j] = {}
  /\ \A j \in DOMAIN layers : \A n \in layers[j] :
       deps[n] \subseteq UNION {layers[i] : i \in 1..(j - 1)}
=============================================================================
