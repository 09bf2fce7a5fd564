----------------------------- MODULE MCWorkflow -----------------------------
(***************************************************************************)
(* Workflows of three nodes, a before b before c: all eight graphs.  Over  *)
(* each of them, prompts that mention the declared input and one node that *)
(* may or may not be in depends_on; one node with a retry; and one with a  *)
(* negative retry count, which Validate lets pass.                         *)
(***************************************************************************)
EXTENDS Workflow

CONSTANTS a, b, c, x

Graphs == {[n \in Nodes |-> CASE n = a -> {} [] n = b -> bs [] n = c -> cs] :
             bs \in SUBSET {a}, cs \in SUBSET {a, b}}

Define(deps, reads, node, t) ==
  [inputs |-> {x}, deps |-> deps, reads |-> reads,
   retries |-> [n \in Nodes |-> IF n = node THEN t ELSE 0]]

MCWorkflows == UNION {
  {Define(g, [g EXCEPT ![n] = {m, x}], a, 0) : n \in Nodes, m \in Nodes}
    \cup {Define(g, g, n, t) : n \in {a, b}, t \in {-1, 1}} : g \in Graphs}

(* A node's layer is the one after its last dependency's.                  *)
MCLayersOf ==
  [w \in MCWorkflows |->
    LET upTo[j \in 0..3] == IF j = 0 THEN {} ELSE {n \in Nodes : w.deps[n] \subseteq upTo[j - 1]}
        layer(j) == upTo[j] \ upTo[j - 1]
        last     == CHOOSE j \in 1..3 : upTo[j] = Nodes /\ upTo[j - 1] # Nodes
    IN [j \in 1..last |-> layer(j)]]
=============================================================================
