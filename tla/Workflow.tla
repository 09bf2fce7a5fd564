------------------------------ MODULE Workflow ------------------------------
(***************************************************************************)
(* One run of a workflow: Service.RunTriggered, Engine.Run and the         *)
(* goroutines of runNode (core/workflow/service.go, engine.go, template.go)*)
(*                                                                         *)
(* The definition is one that NewService accepted, so Layers succeeds; the *)
(* layering it computes is the constant LayersOf, of which as much is      *)
(* assumed as module WorkflowProofs shows.  A prompt is the set of things  *)
(* its templates mention: inputs and nodes, which Validate does not        *)
(* compare with depends_on.  Calls to the pipeline are abstract: Complete  *)
(* returns an answer or an error, and returns once its context is over     *)
(* (module Complete, RequestReturns).  `ctx` is the run's context: an HTTP *)
(* request's or the scheduler's, neither of which has a deadline, so a     *)
(* node's classify always says "error".                                    *)
(***************************************************************************)
EXTENDS Dag

CONSTANTS Inputs,        \* names a workflow may declare and a prompt mention
          Workflows,     \* the registered definitions, see Definition
          LayersOf,      \* of each definition: what Layers returns
          StoreWorks     \* the run store takes every run it is able to

ASSUME InputsAssumption == Nodes \cap Inputs = {}
ASSUME StoreAssumption == StoreWorks \in BOOLEAN

Definition == [inputs:  SUBSET Inputs,
               deps:    [Nodes -> SUBSET Nodes],
               reads:   [Nodes -> SUBSET (Nodes \cup Inputs)],
               retries: [Nodes -> Int]]

ASSUME WorkflowsAssumption ==
  /\ Workflows \subseteq Definition
  /\ LayersOf \in [Workflows -> Seq(SUBSET Nodes)]
  /\ \A w \in Workflows : Layering(w.deps, LayersOf[w])

VARIABLES
  wf,        \* the definition
  supplied,  \* the inputs the caller passed
  pc,        \* RunTriggered and Run
  k,         \* the current layer
  npc,       \* each node's goroutine
  outputs,   \* the nodes with an entry in the outputs map
  calls,     \* history: how often a node called the pipeline
  res,       \* what runNode wrote to results[i]
  run,       \* the run record
  cancelled, \* the run's context is over
  late,      \* history: calls of a node on a context already over
  stored     \* the run store holds the run

vars == <<wf, supplied, pc, k, npc, outputs, calls, res, run, cancelled, late, stored>>

NoResult == [status |-> "none", attempts |-> 0]
Results  == [status: {"none", "success", "error"}, attempts: Nat]

(* The run record, with the nodes whose results it holds.                  *)
Runs == [status: {"success", "failed"}, nodes: SUBSET Nodes]

TypeOK ==
  /\ wf \in Workflows
  /\ supplied \subseteq Inputs
  /\ pc \in {"trigger", "layers", "wait", "save", "done", "rejected"}
  /\ k \in Nat
  /\ npc \in [Nodes -> {"idle", "render", "loop", "calling", "check", "exit"}]
  /\ outputs \subseteq Nodes
  /\ calls \in [Nodes -> Nat]
  /\ res \in [Nodes -> Results]
  /\ run \in Runs
  /\ cancelled \in BOOLEAN
  /\ late \in [Nodes -> Nat]
  /\ stored \in BOOLEAN

Init ==
  /\ wf \in Workflows
  /\ supplied \in SUBSET Inputs
  /\ pc = "trigger" /\ k = 1
  /\ npc = [n \in Nodes |-> "idle"]
  /\ outputs = {}
  /\ calls = [n \in Nodes |-> 0]
  /\ res = [n \in Nodes |-> NoResult]
  /\ run = [status |-> "success", nodes |-> {}]
  /\ cancelled = FALSE
  /\ late = [n \in Nodes |-> 0]
  /\ stored = FALSE

Layer(j)   == LayersOf[wf][j]
LayerCount == Len(LayersOf[wf])
ThisLayer  == Layer(k)
Earlier    == UNION {Layer(j) : j \in 1..(k - 1)}
-----------------------------------------------------------------------------
(* RunTriggered: every declared input must be there, or nothing runs.      *)
Trigger ==
  /\ pc = "trigger"
  /\ pc' = IF wf.inputs \subseteq supplied THEN "layers" ELSE "rejected"
  /\ UNCHANGED <<wf, supplied, k, npc, outputs, calls, res, run, cancelled, late, stored>>

(* One goroutine per node of the layer.                                    *)
Spawn ==
  /\ pc = "layers" /\ k <= LayerCount
  /\ npc' = [n \in Nodes |-> IF n \in ThisLayer THEN "render" ELSE npc[n]]
  /\ pc' = "wait"
  /\ UNCHANGED <<wf, supplied, k, outputs, calls, res, run, cancelled, late, stored>>

Finished == {n \in Nodes : npc[n] = "exit"}
Succeeded(nodes) == {n \in nodes : res[n].status = "success"}

(* wg.Wait returns; the layer's results are merged, and a failed layer is  *)
(* the last one.                                                           *)
MergeAndGoOn ==
  /\ pc = "wait" /\ ThisLayer \subseteq Finished
  /\ outputs' = outputs \cup Succeeded(ThisLayer)
  /\ run' = [nodes |-> run.nodes \cup ThisLayer,
             status |-> IF ThisLayer = Succeeded(ThisLayer) THEN run.status ELSE "failed"]
  /\ k' = k + 1 /\ pc' = "layers"
  /\ UNCHANGED <<wf, supplied, npc, calls, res, cancelled, late, stored>>

MergeLastVerdict ==
  /\ pc = "wait" /\ ThisLayer \subseteq Finished
  /\ outputs' = outputs \cup Succeeded(ThisLayer)
  /\ run' = [nodes |-> run.nodes \cup ThisLayer,
             status |-> IF Succeeded(ThisLayer) # {} THEN "success" ELSE "failed"]
  /\ IF run'.status = "failed" THEN pc' = "save" /\ UNCHANGED k
                               ELSE pc' = "layers" /\ k' = k + 1
  /\ UNCHANGED <<wf, supplied, npc, calls, res, cancelled, late, stored>>

Merge ==
  /\ pc = "wait" /\ ThisLayer \subseteq Finished
  /\ outputs' = outputs \cup Succeeded(ThisLayer)
  /\ LET failed == ThisLayer # Succeeded(ThisLayer) IN
       /\ run' = [nodes |-> run.nodes \cup ThisLayer,
                  status |-> IF failed THEN "failed" ELSE run.status]
       /\ IF failed THEN pc' = "save" /\ UNCHANGED k
                    ELSE pc' = "layers" /\ k' = k + 1
  /\ UNCHANGED <<wf, supplied, npc, calls, res, cancelled, late, stored>>

AllLayersDone ==
  /\ pc = "layers" /\ k > LayerCount
  /\ pc' = "save"
  /\ UNCHANGED <<wf, supplied, k, npc, outputs, calls, res, run, cancelled, late, stored>>

(* SaveRun on the run's own context: a context that is over stores         *)
(* nothing, and an error of the store is logged only.                      *)
SaveRun ==
  /\ pc = "save"
  /\ \/ stored' = ~cancelled
     \/ ~StoreWorks /\ UNCHANGED stored
  /\ pc' = "done"
  /\ UNCHANGED <<wf, supplied, k, npc, outputs, calls, res, run, cancelled, late>>

Run == Trigger \/ Spawn \/ Merge \/ AllLayersDone \/ SaveRun
-----------------------------------------------------------------------------
(* runNode, in a goroutine per node of the layer.                          *)

Max1(x) == IF x = 0 THEN 1 ELSE x

FailNodeWithoutDone(n) ==
  /\ res' = [res EXCEPT ![n] = [status |-> "error", attempts |-> Max1(calls[n])]]
  /\ UNCHANGED npc

(* failNode: a node that never called the pipeline reports one attempt.    *)
FailNode(n) ==
  /\ res' = [res EXCEPT ![n] = [status |-> "error", attempts |-> Max1(calls[n])]]
  /\ npc' = [npc EXCEPT ![n] = "exit"]

(* render: a mention without a value is an error that is not retried.      *)
Renders(n) == wf.reads[n] \subseteq outputs \cup supplied

Render(n) ==
  /\ npc[n] = "render"
  /\ IF Renders(n) THEN npc' = [npc EXCEPT ![n] = "loop"] /\ UNCHANGED res
                   ELSE FailNode(n)
  /\ UNCHANGED <<wf, supplied, pc, k, outputs, calls, run, cancelled, late, stored>>

OneAttemptTooMany(n) == calls[n] <= wf.retries[n] + 1
AttemptsLeft(n)        == calls[n] <= wf.retries[n]

(* Complete is called with a context under the run's, the node's timeout   *)
(* on top.                                                                 *)
Call(n) ==
  /\ npc[n] = "loop" /\ AttemptsLeft(n)
  /\ calls' = [calls EXCEPT ![n] = @ + 1]
  /\ late' = [late EXCEPT ![n] = IF cancelled THEN @ + 1 ELSE @]
  /\ npc' = [npc EXCEPT ![n] = "calling"]
  /\ UNCHANGED <<wf, supplied, pc, k, outputs, res, run, cancelled, stored>>

AnswerIntoOutputs(n) ==
  /\ npc[n] = "calling"
  /\ res' = [res EXCEPT ![n] = [status |-> "success", attempts |-> calls[n]]]
  /\ npc' = [npc EXCEPT ![n] = "exit"]
  /\ outputs' = outputs \cup {n}
  /\ UNCHANGED <<wf, supplied, pc, k, calls, run, cancelled, late, stored>>

Answer(n) ==
  /\ npc[n] = "calling"
  /\ res' = [res EXCEPT ![n] = [status |-> "success", attempts |-> calls[n]]]
  /\ npc' = [npc EXCEPT ![n] = "exit"]
  /\ UNCHANGED <<wf, supplied, pc, k, outputs, calls, run, cancelled, late, stored>>

CallFails(n) ==
  /\ npc[n] = "calling"
  /\ npc' = [npc EXCEPT ![n] = "check"]
  /\ UNCHANGED <<wf, supplied, pc, k, outputs, calls, res, run, cancelled, late, stored>>

(* The error is in; ctx.Err() decides between breaking and going round.    *)
Retry(n) ==
  /\ npc[n] = "check" /\ ~cancelled
  /\ npc' = [npc EXCEPT ![n] = "loop"]
  /\ UNCHANGED <<wf, supplied, pc, k, outputs, calls, res, run, cancelled, late, stored>>

StopNode(n) ==
  /\ \/ npc[n] = "check" /\ cancelled
     \/ npc[n] = "loop" /\ ~AttemptsLeft(n)
  /\ FailNode(n)
  /\ UNCHANGED <<wf, supplied, pc, k, outputs, calls, run, cancelled, late, stored>>

Node(n) == Render(n) \/ Call(n) \/ Retry(n) \/ StopNode(n)
Completer(n) == Answer(n) \/ CallFails(n)

(* The client disconnects, or the server shuts down.                       *)
Cancel ==
  /\ pc \notin {"done", "rejected"} /\ ~cancelled
  /\ cancelled' = TRUE
  /\ UNCHANGED <<wf, supplied, pc, k, npc, outputs, calls, res, run, late, stored>>

Next == Run \/ Cancel \/ \E n \in Nodes : Node(n) \/ Completer(n)

Fairness == WF_vars(Run) /\ \A n \in Nodes : WF_vars(Node(n)) /\ WF_vars(Completer(n))

Spec == Init /\ [][Next]_vars /\ Fairness
-----------------------------------------------------------------------------
Started == {n \in Nodes : npc[n] # "idle"}

(* A node calls the pipeline only when all it depends on has succeeded and *)
(* its output is in the map the node's templates read.                     *)
DependenciesFirst == \A n \in Nodes :
  calls[n] > 0 => wf.deps[n] \subseteq outputs /\ \A d \in wf.deps[n] : res[d].status = "success"

(* The outputs map is shared by the layer's goroutines without a lock: it  *)
(* stays what the earlier layers left as long as one of them is running,   *)
(* so whether a template resolves cannot depend on how they interleave.    *)
OutputsStableWhileRunning ==
  (\E n \in Nodes : npc[n] \notin {"idle", "exit"}) =>
    outputs = Earlier

(* "The returned run still contains every node attempted so far", and      *)
(* nothing past a failed layer was attempted; the verdict is success       *)
(* exactly when every node of the definition succeeded.                    *)
RunTellsWhatHappened ==
  pc \in {"save", "done"} =>
    /\ run.nodes = Started /\ Started = Finished
    /\ run.status = "success" <=> Succeeded(Nodes) = Nodes
    /\ \A n \in Started : \A d \in wf.deps[n] : d \in Succeeded(Nodes)

(* A node is called at most once plus its retries; the attempts it reports *)
(* are its calls, except that never called is reported as one attempt; and *)
(* after its run is over it calls at most once more.                       *)
AttemptsAccounted == \A n \in Nodes :
  /\ calls[n] <= (IF wf.retries[n] < 0 THEN 0 ELSE 1 + wf.retries[n])
  /\ res[n].status # "none" => res[n].attempts = Max1(calls[n])
  /\ res[n].status = "success" => calls[n] > 0
  /\ late[n] <= 1

(* The promise of module DagRun, kept layer by layer: a started layer is a *)
(* set of nodes that may start side by side, and the retries of a node and *)
(* the merging of a layer change nothing there.                            *)
Promise == INSTANCE DagRun WITH
  Graphs  <- {w.deps : w \in Workflows},
  deps    <- wf.deps,
  node    <- [n \in Nodes |->
                CASE npc[n] = "idle" -> "waiting"
                  [] npc[n] = "exit" -> IF res[n].status = "success" THEN "success" ELSE "failed"
                  [] OTHER           -> "running"],
  verdict <- CASE pc = "rejected"          -> "rejected"
               [] pc \in {"save", "done"} -> run.status
               [] OTHER                    -> "none"

ImplementsDagRun == Promise!Spec

(* Every triggered run ends: no node's goroutine is waited for in vain.    *)
RunEnds == <>(pc \in {"done", "rejected"})
-----------------------------------------------------------------------------
(* service.go:19: "runs, when set, persists every completed run".          *)
PersistsEveryCompletedRun == pc = "done" => stored
=============================================================================
