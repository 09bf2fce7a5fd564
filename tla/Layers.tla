------------------------------- MODULE Layers -------------------------------
(***************************************************************************)
(* Layers (core/workflow/dag.go): Kahn's algorithm, which groups the nodes *)
(* of a workflow into the layers Run executes one after the other.         *)
(*                                                                         *)
(* The graph is an input: any definition with node IDs in Nodes, so that   *)
(* Layers is modelled as Validate calls it, before a cycle is ruled out.   *)
(* A dependency may be listed twice, and a node may list itself.  Nodes    *)
(* are numbered in definition order; layerOf[n] stands for the layer list  *)
(* n was appended to, 0 while it is in none.                               *)
(***************************************************************************)
EXTENDS Dag

CONSTANT Graphs       \* the DependsOn lists to run on: [Nodes -> Seq(Nodes)]

ASSUME GraphsAssumption == Graphs \subseteq [Nodes -> Seq(Nodes)]

VARIABLES
  dependsOn,  \* the definition
  stage,      \* "collect" a layer, "place" its nodes, "done", or "cycle"
  indegree,   \* negative once a node is placed
  layer,      \* nodes of the current layer that are still to be placed
  current,    \* the number of the current layer
  layerOf,    \* the result
  remaining

kahnVars == <<dependsOn, stage, indegree, layer, current, layerOf, remaining>>

(* How often node n lists d: how often n occurs in dependents[d].          *)
Count(n, d) == Cardinality({k \in 1..Len(dependsOn[n]) : dependsOn[n][k] = d})

KahnTypeOK ==
  /\ dependsOn \in Graphs
  /\ stage \in {"collect", "place", "done", "cycle"}
  /\ indegree \in [Nodes -> Int]
  /\ layer \subseteq Nodes
  /\ current \in Nat
  /\ layerOf \in [Nodes -> Nat]
  /\ remaining \in 0..Cardinality(Nodes)

KahnInit ==
  /\ dependsOn \in Graphs
  /\ stage = "collect"
  /\ indegree = [n \in Nodes |-> Len(dependsOn[n])]
  /\ layer = {}
  /\ current = 0
  /\ layerOf = [n \in Nodes |-> 0]
  /\ remaining = Cardinality(Nodes)

ReadyUnmarked == {n \in Nodes : indegree[n] <= 0}
ReadyTooEarly == {n \in Nodes : indegree[n] \in {0, 1}}
ReadyOneByOne == {n \in Nodes : indegree[n] = 0 /\ \A m \in Nodes : indegree[m] = 0 => n <= m}

Ready == {n \in Nodes : indegree[n] = 0}

(* The head of the outer loop: every node without an unplaced dependency   *)
(* joins the next layer; if there is none, the rest waits on itself.  The  *)
(* body's last lines are here too: nothing reads `remaining` before.       *)
Collect ==
  /\ stage = "collect" /\ remaining > 0
  /\ IF Ready = {}
       THEN stage' = "cycle" /\ UNCHANGED <<layer, current, layerOf, remaining>>
       ELSE /\ stage' = "place"
            /\ layer' = Ready
            /\ current' = current + 1
            /\ layerOf' = [n \in Nodes |-> IF n \in Ready THEN current + 1 ELSE layerOf[n]]
            /\ remaining' = remaining - Cardinality(Ready)
  /\ UNCHANGED <<dependsOn, indegree>>

(* The inner loop's body for one node of the layer, in any order: mark it  *)
(* placed, then take it off its dependents, once per time they list it.    *)
ReleasedOnce(n, id) == IF Count(n, id) > 0 THEN 1 ELSE 0
Released(n, id)     == Count(n, id)

Place(id) ==
  /\ stage = "place" /\ id \in layer
  /\ indegree' = [n \in Nodes |-> (IF n = id THEN -1 ELSE indegree[n]) - Released(n, id)]
  /\ layer' = layer \ {id}
  /\ stage' = IF layer' = {} THEN "collect" ELSE "place"
  /\ UNCHANGED <<dependsOn, current, layerOf, remaining>>

Finish ==
  /\ stage = "collect" /\ remaining = 0
  /\ stage' = "done"
  /\ UNCHANGED <<dependsOn, indegree, layer, current, layerOf, remaining>>

KahnNext == Collect \/ Finish \/ \E id \in Nodes : Place(id)

KahnSpec == KahnInit /\ [][KahnNext]_kahnVars /\ WF_kahnVars(KahnNext)
-----------------------------------------------------------------------------
Deps(n) == {dependsOn[n][k] : k \in 1..Len(dependsOn[n])}

(* Layers' promise to Run, in the words Workflow takes it in: when it      *)
(* succeeds, every node is in one of the layers it returns, and every      *)
(* dependency of a node is in an earlier one, so the nodes of one layer    *)
(* may run side by side.                                                   *)
LayersRespectDependencies ==
  stage = "done" => Layering([n \in Nodes |-> Deps(n)],
                             [j \in 1..current |-> {n \in Nodes : layerOf[n] = j}])

(* An error is never a false alarm: some nodes wait on each other for ever *)
(* - each of them depends on one of them.                                  *)
CycleIsReal ==
  stage = "cycle" => \E S \in SUBSET Nodes :
    S # {} /\ \A n \in S : Deps(n) \cap S # {}

(* No node is held back: a node of a later layer than the first depends on *)
(* one of the layer just before its own.  With the property above a node's *)
(* layer is the length of the longest dependency chain that ends in it.    *)
LayersAreEarliest ==
  \A n \in Nodes : layerOf[n] > 1 => \E d \in Deps(n) : layerOf[d] = layerOf[n] - 1

(* The algorithm stops on every input, cyclic or not.                      *)
LayersTerminates == <>(stage \in {"done", "cycle"})
=============================================================================
