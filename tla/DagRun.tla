------------------------------- MODULE DagRun -------------------------------
(***************************************************************************)
(* What a run of a workflow promises, whatever order its nodes are taken   *)
(* in (core/ports/workflow.go): a node runs once, after all it depends on  *)
(* has succeeded; what became of a node is final; once one has failed none *)
(* is started any more; and the verdict, given when nobody runs, is        *)
(* success exactly when every node of the definition has succeeded.  Run   *)
(* (core/workflow) implements it with layers, goroutines, retries and a    *)
(* context that may end, of which nothing shows here.                      *)
(***************************************************************************)
EXTENDS Naturals

CONSTANTS Nodes, Graphs     \* Graphs: the definitions' dependencies

VARIABLES
  deps,     \* of the definition that is run
  node,     \* what became of each node
  verdict   \* "none", "rejected", "success" or "failed"

vars == <<deps, node, verdict>>

Init ==
  /\ deps \in Graphs
  /\ node = [n \in Nodes |-> "waiting"]
  /\ verdict = "none"

Are(status) == {n \in Nodes : node[n] = status}
Open        == verdict = "none"

(* An input is missing: nothing runs.                                      *)
Reject ==
  /\ Open /\ Are("waiting") = Nodes
  /\ verdict' = "rejected"
  /\ UNCHANGED <<deps, node>>

(* Nodes without unmet dependencies start, side by side.                   *)
Start ==
  /\ Open /\ Are("failed") = {}
  /\ \E S \in SUBSET Are("waiting") :
       /\ \A n \in S : deps[n] \subseteq Are("success")
       /\ node' = [n \in Nodes |-> IF n \in S THEN "running" ELSE node[n]]
  /\ UNCHANGED <<deps, verdict>>

End(n) ==
  /\ Open /\ node[n] = "running"
  /\ \E status \in {"success", "failed"} : node' = [node EXCEPT ![n] = status]
  /\ UNCHANGED <<deps, verdict>>

Judge ==
  /\ Open /\ Are("running") = {}
  /\ \/ Are("success") = Nodes /\ verdict' = "success"
     \/ Are("failed") # {} /\ verdict' = "failed"
  /\ UNCHANGED <<deps, node>>

Next == Reject \/ Start \/ Judge \/ \E n \in Nodes : End(n)

Spec == Init /\ [][Next]_vars
=============================================================================
