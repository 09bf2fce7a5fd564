--------------------------- MODULE WorkflowProofs ---------------------------
(***************************************************************************)
(* core/workflow, both halves.  Kahn's algorithm as dag.go writes it is    *)
(* correct for every finite set of nodes and every dependency list,        *)
(* repeats and self-loops included, and what it returns is what a run      *)
(* assumes of its layers.  A run (engine.go) then keeps its promises for   *)
(* every definition the service accepts, any number of nodes and retries,  *)
(* and a context that ends at any moment.                                  *)
(***************************************************************************)
EXTENDS Workflow, Layers, FiniteSetTheorems, WellFoundedInduction, TLAPS

(* The nodes appended to a layer, and those whose dependents know.         *)
Collected == {n \in Nodes : layerOf[n] # 0}
Marked    == Collected \ layer

(* The places in a node's list that still hold it back.                    *)
Open(n) == {p \in 1..Len(dependsOn[n]) : dependsOn[n][p] \notin Marked}

Typed ==
  /\ dependsOn \in Graphs
  /\ stage \in {"collect", "place", "done", "cycle"}
  /\ indegree \in [Nodes -> Int]
  /\ layer \subseteq Nodes
  /\ current \in Nat
  /\ layerOf \in [Nodes -> Nat]

(* indegree counts the open places of a node until it is marked, and is    *)
(* negative from then on, so that it is never collected twice.             *)
IndegreeCounts ==
  \A n \in Nodes : IF n \in Marked THEN indegree[n] < 0
                                   ELSE indegree[n] = Cardinality(Open(n))

LayerIsOpen ==
  /\ stage = "place" <=> layer # {}
  /\ \A n \in layer : layerOf[n] # 0 /\ Open(n) = {}

CollectedInOrder ==
  \A n \in Collected :
    /\ layerOf[n] <= current
    /\ \A d \in Deps(n) : layerOf[d] # 0 /\ layerOf[d] < layerOf[n]

(* A node that is left was held back, at the last collection, by a node    *)
(* that has joined that layer since or is left too.                        *)
LeftBehind ==
  \A n \in Nodes \ Collected : current # 0 => \E d \in Deps(n) : layerOf[d] \in {0, current}

KahnInv ==
  /\ Typed
  /\ IndegreeCounts
  /\ LayerIsOpen
  /\ CollectedInOrder
  /\ LeftBehind
  /\ LayersAreEarliest
  /\ remaining = Cardinality(Nodes \ Collected)
  /\ stage = "done" => Collected = Nodes
  /\ CycleIsReal

LEMMA PlacesAreFinite ==
  ASSUME Typed, NEW n \in Nodes, NEW S, S \subseteq 1..Len(dependsOn[n])
  PROVE  /\ IsFiniteSet(S) /\ Cardinality(S) \in Nat
         /\ Cardinality(S) = 0 <=> S = {}
<1>1. Len(dependsOn[n]) \in Nat
  BY GraphsAssumption DEF Typed
<1>2. IsFiniteSet(1..Len(dependsOn[n]))
  BY <1>1, FS_Interval
<1>3. IsFiniteSet(S)
  BY <1>2, FS_Subset
<1> QED  BY <1>3, FS_EmptySet, FS_CardinalityType

LEMMA DepsFacts ==
  ASSUME Typed, NEW n \in Nodes
  PROVE  /\ Deps(n) \subseteq Nodes
         /\ Open(n) = {} => \A d \in Deps(n) : d \in Marked
         /\ Open(n) # {} => \E d \in Deps(n) : d \notin Marked
<1>1. dependsOn[n] \in Seq(Nodes)
  BY GraphsAssumption DEF Typed
<1> QED  BY <1>1 DEF Deps, Open

(* Taking one node off a list takes off every place that holds it.         *)
LEMMA ReleasedPlaces ==
  ASSUME Typed, NEW n \in Nodes, NEW id, id \notin Marked
  PROVE  Cardinality({p \in Open(n) : dependsOn[n][p] # id}) = Cardinality(Open(n)) - Count(n, id)
<1> DEFINE held == {p \in 1..Len(dependsOn[n]) : dependsOn[n][p] = id}
<1>1. IsFiniteSet(Open(n))
  BY PlacesAreFinite DEF Open
<1>2. Open(n) \cap held = held /\ {p \in Open(n) : dependsOn[n][p] # id} = Open(n) \ held
  BY DEF Open
<1> HIDE DEF held
<1>3. Cardinality(Open(n) \ held) = Cardinality(Open(n)) - Cardinality(Open(n) \cap held)
  BY <1>1, FS_Difference
<1> QED  BY <1>2, <1>3 DEF Count, held

LEMMA InitKahn == KahnInit => KahnInv
<1> SUFFICES ASSUME KahnInit PROVE KahnInv
  OBVIOUS
<1> USE NodesAssumption, GraphsAssumption
<1>1. Typed
  BY DEF KahnInit, Typed
<1>2. Collected = {} /\ Marked = {}
  BY DEF KahnInit, Collected, Marked
<1>3. \A n \in Nodes : Open(n) = 1..Len(dependsOn[n])
  BY <1>2 DEF Open
<1>4. IndegreeCounts
  <2> SUFFICES ASSUME NEW n \in Nodes PROVE indegree[n] = Cardinality(Open(n))
    BY <1>2 DEF IndegreeCounts
  <2>1. Len(dependsOn[n]) \in Nat
    BY <1>1 DEF Typed
  <2>2. Cardinality(1..Len(dependsOn[n])) = Len(dependsOn[n])
    BY <2>1, FS_Interval
  <2> QED  BY <1>3, <2>2 DEF KahnInit
<1>5. LayerIsOpen /\ CollectedInOrder /\ LeftBehind /\ LayersAreEarliest /\ CycleIsReal
  BY <1>2 DEF KahnInit, LayerIsOpen, CollectedInOrder, LeftBehind, LayersAreEarliest, CycleIsReal
<1> QED  BY <1>1, <1>2, <1>4, <1>5 DEF KahnInv, KahnInit
-----------------------------------------------------------------------------
(* A collection with nobody ready: what is left waits on itself.           *)
LEMMA CycleFound ==
  ASSUME KahnInv, Collect, Ready = {}
  PROVE  KahnInv'
<1> USE DEF KahnInv
<1>1. /\ stage = "collect" /\ remaining > 0 /\ stage' = "cycle"
      /\ UNCHANGED <<dependsOn, indegree, layer, current, layerOf, remaining>>
  BY DEF Collect
<1>2. Marked = Collected
  BY <1>1 DEF LayerIsOpen, Marked
<1> DEFINE left == Nodes \ Collected
<1>3. left # {} /\ left \in SUBSET Nodes
  BY <1>1, FS_EmptySet
<1>4. ASSUME NEW n \in left PROVE Deps(n) \cap left # {}
  <2>1. indegree[n] = Cardinality(Open(n)) /\ indegree[n] # 0
    BY <1>2 DEF IndegreeCounts, Ready
  <2>2. Open(n) # {}
    BY <2>1, PlacesAreFinite DEF Open
  <2>3. PICK d \in Deps(n) : d \notin Collected
    BY <1>2, <2>2, DepsFacts
  <2>4. d \in Nodes
    BY DepsFacts
  <2> QED  BY <2>3, <2>4
<1>5. CycleIsReal'
  <2>1. \A n \in left : Deps(n)' = Deps(n)
    BY <1>1 DEF Deps
  <2> HIDE DEF left
  <2> QED  BY <1>3, <1>4, <2>1 DEF CycleIsReal
<1>6. /\ Collected' = Collected /\ Marked' = Marked
      /\ \A n : Open(n)' = Open(n) /\ Deps(n)' = Deps(n)
  BY <1>1 DEF Collected, Marked, Open, Deps
<1>7. Typed' /\ IndegreeCounts'
  BY <1>1, <1>6 DEF Typed, IndegreeCounts
<1>8. LayerIsOpen'
  BY <1>1, <1>6 DEF LayerIsOpen
<1>9. CollectedInOrder' /\ LeftBehind' /\ LayersAreEarliest'
  BY <1>1, <1>6 DEF CollectedInOrder, LeftBehind, LayersAreEarliest
<1> QED  BY <1>1, <1>5, <1>6, <1>7, <1>8, <1>9

(* A collection: the ready nodes are those whose lists are all marked.     *)
LEMMA LayerCollected ==
  ASSUME KahnInv, Collect, Ready # {}
  PROVE  KahnInv'
<1> USE NodesAssumption DEF KahnInv
<1>1. /\ stage = "collect" /\ stage' = "place" /\ layer = {} /\ layer' = Ready /\ current' = current + 1
      /\ layerOf' = [n \in Nodes |-> IF n \in Ready THEN current + 1 ELSE layerOf[n]]
      /\ remaining' = remaining - Cardinality(Ready)
      /\ UNCHANGED <<dependsOn, indegree>>
  BY DEF Collect, LayerIsOpen
<1>2. Marked = Collected
  BY <1>1 DEF Marked
<1>3. Ready \subseteq Nodes \ Collected
  BY <1>2 DEF Ready, IndegreeCounts
<1>4. Collected' = Collected \cup Ready
  BY <1>1 DEF Collected, Typed, Ready
<1>5. Marked' = Marked
  BY <1>1, <1>2, <1>3, <1>4 DEF Marked
<1>6. \A n \in Nodes : Open(n)' = Open(n) /\ Deps(n)' = Deps(n)
  BY <1>1, <1>5 DEF Open, Deps
<1>7. \A n \in Ready : Open(n) = {}
  BY <1>2, <1>3, PlacesAreFinite DEF Ready, IndegreeCounts, Open
<1>8. \A n \in Nodes : n \notin Ready => layerOf'[n] = layerOf[n]
  BY <1>1
<1>9. \A n \in Ready : n \in Nodes /\ layerOf'[n] = current + 1 /\ layerOf[n] = 0
  BY <1>1, <1>3 DEF Collected
<1>10. Typed'
  BY <1>1 DEF Typed, Ready
<1>11. IndegreeCounts'
  BY <1>1, <1>5, <1>6 DEF IndegreeCounts
<1>12. LayerIsOpen'
  <2>1. \A n \in Ready : layerOf'[n] # 0 /\ Open(n)' = {}
    BY <1>6, <1>7, <1>9 DEF Typed
  <2> QED  BY <1>1, <2>1 DEF LayerIsOpen
<1>13. \A n \in Collected : Deps(n) \subseteq Collected
  BY DepsFacts DEF CollectedInOrder, Collected
<1>14. CollectedInOrder'
  <2> SUFFICES ASSUME NEW n \in Collected'
               PROVE  /\ layerOf'[n] <= current'
                      /\ \A d \in Deps(n)' : layerOf'[d] # 0 /\ layerOf'[d] < layerOf'[n]
    BY DEF CollectedInOrder
  <2>1. CASE n \in Ready
    <3>1. ASSUME NEW d \in Deps(n) PROVE layerOf'[d] # 0 /\ layerOf'[d] < current + 1
      <4>1. d \in Collected /\ d \in Nodes
        BY <1>2, <1>7, <1>9, <2>1, DepsFacts
      <4>2. layerOf'[d] = layerOf[d] /\ layerOf[d] # 0 /\ layerOf[d] <= current
        BY <1>3, <1>8, <4>1 DEF CollectedInOrder, Collected
      <4>3. layerOf[d] \in Nat /\ current \in Nat
        BY <4>1 DEF Typed
      <4> QED  BY <4>2, <4>3
    <3> QED  BY <1>1, <1>6, <1>9, <2>1, <3>1 DEF Typed
  <2>2. CASE n \in Collected
    <3>1. n \in Nodes /\ n \notin Ready /\ \A d \in Deps(n) : d \in Nodes /\ d \notin Ready
      BY <1>3, <1>13, <2>2 DEF Collected
    <3>2. layerOf[n] <= current /\ \A d \in Deps(n) : layerOf[d] # 0 /\ layerOf[d] < layerOf[n]
      BY <2>2 DEF CollectedInOrder
    <3>3. layerOf[n] \in Nat /\ current \in Nat
      BY <3>1 DEF Typed
    <3> QED  BY <1>1, <1>6, <1>8, <3>1, <3>2, <3>3
  <2> QED  BY <1>4, <2>1, <2>2
<1>15. LeftBehind'
  <2> SUFFICES ASSUME NEW n \in Nodes \ Collected'
               PROVE  \E d \in Deps(n) : layerOf'[d] \in {0, current + 1}
    BY <1>1, <1>6 DEF LeftBehind
  <2>1. n \notin Ready /\ n \notin Collected
    BY <1>4
  <2>2. Open(n) # {}
    BY <1>2, <2>1, PlacesAreFinite DEF Ready, IndegreeCounts, Open
  <2>3. PICK d \in Deps(n) : d \notin Collected /\ d \in Nodes
    BY <1>2, <2>2, DepsFacts
  <2>4. layerOf[d] = 0
    BY <2>3 DEF Collected
  <2> QED  BY <1>8, <1>9, <2>3, <2>4
<1>16. LayersAreEarliest'
  <2> SUFFICES ASSUME NEW n \in Nodes, layerOf'[n] > 1
               PROVE  \E d \in Deps(n) : layerOf'[d] = layerOf'[n] - 1
    BY <1>6 DEF LayersAreEarliest
  <2>1. CASE n \in Ready
    <3>1. current # 0
      BY <1>9, <2>1 DEF Typed
    <3>2. PICK d \in Deps(n) : layerOf[d] \in {0, current}
      BY <1>3, <2>1, <3>1 DEF LeftBehind
    <3>3. d \in Collected /\ d \in Nodes
      BY <1>2, <1>7, <2>1, DepsFacts
    <3>4. layerOf'[d] = current
      BY <1>3, <1>8, <3>2, <3>3 DEF Collected
    <3> QED  BY <1>9, <2>1, <3>4 DEF Typed
  <2>2. CASE n \notin Ready
    <3>1. layerOf[n] > 1 /\ layerOf'[n] = layerOf[n]
      BY <1>8, <2>2
    <3>2. PICK d \in Deps(n) : layerOf[d] = layerOf[n] - 1
      BY <3>1 DEF LayersAreEarliest
    <3>3. d \in Nodes
      BY DepsFacts
    <3>4. layerOf[n] \in Nat
      BY DEF Typed
    <3>5. layerOf[d] # 0
      BY <3>1, <3>2, <3>4
    <3>6. layerOf'[d] = layerOf[d]
      BY <1>8, <1>9, <3>3, <3>5
    <3> QED  BY <3>1, <3>2, <3>6
  <2> QED  BY <2>1, <2>2
<1>17. remaining' = Cardinality(Nodes \ Collected')
  <2>1. IsFiniteSet(Nodes \ Collected)
    BY FS_Subset
  <2>2. (Nodes \ Collected) \cap Ready = Ready /\ (Nodes \ Collected) \ Ready = Nodes \ Collected'
    BY <1>3, <1>4
  <2> DEFINE rest == Nodes \ Collected
  <2>3. Cardinality(rest \ Ready) = Cardinality(rest) - Cardinality(rest \cap Ready)
    <3> HIDE DEF rest
    <3> QED  BY <2>1, FS_Difference DEF rest
  <2> QED  BY <1>1, <2>2, <2>3
<1> QED
  BY <1>1, <1>10, <1>11, <1>12, <1>14, <1>15, <1>16, <1>17 DEF CycleIsReal

(* Marking one node of the layer releases exactly the places that hold it. *)
LEMMA NodePlaced ==
  ASSUME KahnInv, NEW id \in Nodes, Place(id)
  PROVE  KahnInv'
<1> USE DEF KahnInv
<1>1. /\ stage = "place" /\ id \in layer /\ layer' = layer \ {id}
      /\ indegree' = [n \in Nodes |-> (IF n = id THEN -1 ELSE indegree[n]) - Count(n, id)]
      /\ stage' = IF layer' = {} THEN "collect" ELSE "place"
      /\ UNCHANGED <<dependsOn, current, layerOf, remaining>>
  BY DEF Place, Released
<1>2. Collected' = Collected /\ id \in Collected
  BY <1>1 DEF Collected, LayerIsOpen
<1>3. Marked' = Marked \cup {id} /\ id \notin Marked
  BY <1>1, <1>2 DEF Marked
<1>4. \A n \in Nodes : Open(n)' = {p \in Open(n) : dependsOn[n][p] # id}
  BY <1>1, <1>3 DEF Open
<1>5. \A n : Deps(n)' = Deps(n)
  BY <1>1 DEF Deps
<1>6. \A n \in Nodes : Count(n, id) \in Nat
  BY PlacesAreFinite DEF Count
<1>7. Typed'
  BY <1>1, <1>6 DEF Typed
<1>8. IndegreeCounts'
  <2> SUFFICES ASSUME NEW n \in Nodes
               PROVE  IF n \in Marked' THEN indegree'[n] < 0
                                       ELSE indegree'[n] = Cardinality(Open(n)')
    BY DEF IndegreeCounts
  <2>1. indegree[n] \in Int /\ Count(n, id) \in Nat
    BY <1>6 DEF Typed
  <2>2. CASE n = id
    BY <1>1, <1>3, <2>1, <2>2
  <2>3. CASE n # id /\ n \in Marked
    <3>1. indegree[n] < 0
      BY <2>3 DEF IndegreeCounts
    <3> QED  BY <1>1, <1>3, <2>1, <2>3, <3>1
  <2>4. CASE n # id /\ n \notin Marked
    <3>1. indegree[n] = Cardinality(Open(n))
      BY <2>4 DEF IndegreeCounts
    <3>2. Cardinality(Open(n)') = Cardinality(Open(n)) - Count(n, id)
      BY <1>3, <1>4, ReleasedPlaces
    <3> QED  BY <1>1, <1>3, <2>4, <3>1, <3>2
  <2> QED  BY <2>2, <2>3, <2>4
<1>9. LayerIsOpen'
  <2>1. \A n \in layer' : layerOf'[n] # 0 /\ Open(n)' = {}
    BY <1>1, <1>4 DEF LayerIsOpen, Typed
  <2> QED  BY <1>1, <2>1 DEF LayerIsOpen
<1>10. CollectedInOrder' /\ LeftBehind' /\ LayersAreEarliest'
  BY <1>1, <1>2, <1>5 DEF CollectedInOrder, LeftBehind, LayersAreEarliest
<1> QED  BY <1>1, <1>2, <1>7, <1>8, <1>9, <1>10 DEF CycleIsReal

LEMMA KahnInvariant == KahnSpec => []KahnInv
<1>1. KahnInv /\ [KahnNext]_kahnVars => KahnInv'
  <2> SUFFICES ASSUME KahnInv, [KahnNext]_kahnVars PROVE KahnInv'
    OBVIOUS
  <2>1. CASE Collect
    BY <2>1, CycleFound, LayerCollected
  <2>2. CASE Finish
    <3> USE DEF KahnInv
    <3>1. /\ remaining = 0 /\ stage = "collect" /\ stage' = "done"
          /\ UNCHANGED <<dependsOn, indegree, layer, current, layerOf, remaining>>
      BY <2>2 DEF Finish
    <3>2. Collected = Nodes
      <4>1. IsFiniteSet(Nodes \ Collected)
        BY NodesAssumption, FS_Subset
      <4>2. Nodes \ Collected = {}
        BY <3>1, <4>1, FS_EmptySet
      <4> QED  BY <4>2 DEF Collected
    <3>3. /\ Collected' = Collected /\ Marked' = Marked
          /\ \A n : Open(n)' = Open(n) /\ Deps(n)' = Deps(n)
      BY <3>1 DEF Collected, Marked, Open, Deps
    <3>4. Typed' /\ IndegreeCounts'
      BY <3>1, <3>3 DEF Typed, IndegreeCounts
    <3>5. LayerIsOpen'
      BY <3>1, <3>3 DEF LayerIsOpen
    <3>6. CollectedInOrder' /\ LeftBehind' /\ LayersAreEarliest'
      BY <3>1, <3>3 DEF CollectedInOrder, LeftBehind, LayersAreEarliest
    <3> QED  BY <3>1, <3>2, <3>3, <3>4, <3>5, <3>6 DEF CycleIsReal
  <2>3. ASSUME NEW id \in Nodes, Place(id) PROVE KahnInv'
    BY <2>3, NodePlaced
  <2>4. CASE UNCHANGED kahnVars
    <3> USE <2>4 DEF KahnInv, kahnVars
    <3>1. /\ Collected' = Collected /\ Marked' = Marked
          /\ \A n : Open(n)' = Open(n) /\ Deps(n)' = Deps(n)
      BY DEF Collected, Marked, Open, Deps
    <3>2. Typed' /\ IndegreeCounts' /\ LayerIsOpen'
      BY <3>1 DEF Typed, IndegreeCounts, LayerIsOpen
    <3>3. CollectedInOrder' /\ LeftBehind' /\ LayersAreEarliest' /\ CycleIsReal'
      BY <3>1 DEF CollectedInOrder, LeftBehind, LayersAreEarliest, CycleIsReal
    <3> QED  BY <3>1, <3>2, <3>3
  <2> QED  BY <2>1, <2>2, <2>3, <2>4 DEF KahnNext
<1> QED  BY <1>1, InitKahn, PTL DEF KahnSpec
-----------------------------------------------------------------------------
(* Every variable keeps its type; remaining never leaves its range because *)
(* it is the number of nodes not collected yet.                            *)
THEOREM KahnTypeCorrect == KahnSpec => []KahnTypeOK
<1>1. KahnInv => KahnTypeOK
  <2> SUFFICES ASSUME KahnInv PROVE KahnTypeOK
    OBVIOUS
  <2>1. Cardinality(Nodes \ Collected) \in Nat
        /\ Cardinality(Nodes) \in Nat /\ Cardinality(Nodes \ Collected) <= Cardinality(Nodes)
    BY NodesAssumption, FS_Subset, FS_CardinalityType
  <2>2. remaining \in 0..Cardinality(Nodes)
    BY <2>1 DEF KahnInv
  <2> QED  BY <2>2 DEF KahnInv, Typed, KahnTypeOK
<1> QED  BY <1>1, KahnInvariant, PTL

(* The graph and the result, as Run gets them.                             *)
DependsOf == [n \in Nodes |-> Deps(n)]
Result    == [j \in 1..current |-> {n \in Nodes : layerOf[n] = j}]

(* When Layers succeeds, what it returns is a layering of its graph: what  *)
(* WorkflowsAssumption asks of the layers a run executes.                  *)
THEOREM LayersAlwaysRespectDependencies == KahnSpec => []LayersRespectDependencies
<1>1. ASSUME KahnInv, stage = "done"
      PROVE  Layering(DependsOf, Result)
  <2> USE DEF KahnInv
  <2>1. current \in Nat /\ DOMAIN Result = 1..current
        /\ \A j \in 1..current : Result[j] = {n \in Nodes : layerOf[n] = j}
    BY <1>1 DEF Typed, Result
  <2>2. \A n \in Nodes : layerOf[n] \in 1..current /\ n \in Result[layerOf[n]]
    BY <1>1, <2>1 DEF Typed, Collected, CollectedInOrder
  <2>3. UNION {Result[j] : j \in DOMAIN Result} = Nodes
    BY <2>1, <2>2
  <2>4. \A i, j \in DOMAIN Result : i # j => Result[i] \cap Result[j] = {}
    BY <2>1
  <2>5. ASSUME NEW j \in DOMAIN Result, NEW n \in Result[j], NEW d \in DependsOf[n]
        PROVE  d \in UNION {Result[i] : i \in 1..(j - 1)}
    <3>1. n \in Nodes /\ layerOf[n] = j /\ j \in 1..current /\ d \in Deps(n) /\ d \in Nodes
      BY <1>1, <2>1, <2>5, DepsFacts DEF DependsOf
    <3>2. layerOf[d] < j /\ layerOf[d] \in 1..current /\ d \in Result[layerOf[d]]
      BY <1>1, <2>2, <3>1 DEF Collected, CollectedInOrder
    <3>3. layerOf[d] \in 1..(j - 1)
      BY <2>1, <3>1, <3>2
    <3> QED  BY <3>2, <3>3
  <2> QED  BY <2>3, <2>4, <2>5 DEF Layering
<1>2. KahnInv => LayersRespectDependencies
  BY <1>1 DEF LayersRespectDependencies, DependsOf, Result
<1> QED  BY <1>2, KahnInvariant, PTL

(* When Layers reports a cycle, there is a set of nodes each of which      *)
(* depends on one of them.                                                 *)
THEOREM CyclesAreAlwaysReal == KahnSpec => []CycleIsReal
BY KahnInvariant, PTL DEF KahnInv

(* No node is put in a later layer than its dependencies require.          *)
THEOREM LayersAreAlwaysEarliest == KahnSpec => []LayersAreEarliest
BY KahnInvariant, PTL DEF KahnInv

(* Of all the layerings a graph has, Layers returns the one in which no    *)
(* node waits longer than in any other: whoever else layers it puts no     *)
(* node in an earlier layer.                                               *)
NoneIsEarlier ==
  stage = "done" => \A layers \in Seq(SUBSET Nodes) : Layering(DependsOf, layers) =>
    \A j \in DOMAIN layers : \A n \in layers[j] : layerOf[n] <= j

(* By induction over the layers of the other one: the node that forces n   *)
(* into its layer is in an earlier one there.                              *)
THEOREM NoLayeringIsEarlier == KahnSpec => []NoneIsEarlier
<1>1. ASSUME KahnInv, NEW layers \in Seq(SUBSET Nodes), Layering(DependsOf, layers),
             NEW j \in DOMAIN layers, NEW n \in layers[j], layerOf[n] > j
      PROVE  FALSE
  <2> DEFINE early == {l \in Nat : l \in DOMAIN layers /\ \E m \in layers[l] : layerOf[m] > l}
  <2>1. DOMAIN layers = 1..Len(layers) /\ Len(layers) \in Nat
        /\ \A l \in DOMAIN layers : layers[l] \subseteq Nodes
    OBVIOUS
  <2>2. j \in early
    BY <1>1, <2>1
  <2>3. PICK l \in early : \A x \in early : ~(<<x, l>> \in OpToRel(<, Nat))
    BY <2>2, NatLessThanWellFounded, WFMin
  <2>4. \A x \in early : ~(x < l)
    BY <2>3 DEF OpToRel
  <2>5. PICK m \in layers[l] : layerOf[m] > l
    BY <2>3
  <2>6. l \in 1..Len(layers) /\ m \in Nodes /\ layerOf[m] \in Nat
    BY <1>1, <2>1, <2>3, <2>5 DEF KahnInv, Typed
  <2>7. PICK d \in Deps(m) : layerOf[d] = layerOf[m] - 1
    BY <1>1, <2>5, <2>6 DEF KahnInv, LayersAreEarliest
  <2>8. PICK b \in 1..(l - 1) : d \in layers[b]
    <3>1. DependsOf[m] \subseteq UNION {layers[b] : b \in 1..(l - 1)}
      BY <1>1, <2>3, <2>5 DEF Layering
    <3>2. d \in DependsOf[m]
      BY <2>6, <2>7 DEF DependsOf
    <3> QED  BY <3>1, <3>2
  <2>9. b \in early
    BY <2>1, <2>5, <2>6, <2>7, <2>8
  <2> QED  BY <2>4, <2>6, <2>8, <2>9
<1>2. KahnInv => NoneIsEarlier
  <2> SUFFICES ASSUME KahnInv, NEW layers \in Seq(SUBSET Nodes), Layering(DependsOf, layers),
                      NEW j \in DOMAIN layers, NEW n \in layers[j]
               PROVE  layerOf[n] <= j
    BY DEF NoneIsEarlier
  <2>1. n \in Nodes /\ layerOf[n] \in Nat /\ j \in Nat
    BY DEF KahnInv, Typed
  <2> QED  BY <1>1, <2>1
<1> QED  BY <1>2, KahnInvariant, PTL

(* What is left to do: a collection and a mark for each node, and the end. *)
StepsLeft ==
  2 * remaining + Cardinality(layer) + (IF stage \in {"collect", "place"} THEN 1 ELSE 0)

(* Layers never goes round in vain: every step leaves less to do, so it    *)
(* takes at most two steps per node and one more, cyclic or not.           *)
THEOREM EveryStepIsProgress ==
  /\ KahnInit => StepsLeft = 2 * Cardinality(Nodes) + 1
  /\ KahnSpec => [][StepsLeft' \in Nat /\ StepsLeft' < StepsLeft]_kahnVars
<1>1. KahnInit => StepsLeft = 2 * Cardinality(Nodes) + 1
  BY NodesAssumption, FS_EmptySet, FS_CardinalityType DEF KahnInit, StepsLeft
<1>2. ASSUME KahnInv
      PROVE  /\ IsFiniteSet(layer) /\ Cardinality(layer) \in Nat
             /\ IsFiniteSet(Ready) /\ Cardinality(Ready) \in Nat
             /\ Ready # {} => Cardinality(Ready) > 0
             /\ remaining \in Nat
  <2>1. Ready \subseteq Nodes /\ layer \subseteq Nodes /\ Nodes \ Collected \subseteq Nodes
    BY <1>2 DEF Ready, KahnInv, Typed
  <2>2. IsFiniteSet(Ready) /\ IsFiniteSet(layer) /\ IsFiniteSet(Nodes \ Collected)
    BY <2>1, NodesAssumption, FS_Subset
  <2>3. Cardinality(Ready) \in Nat /\ Cardinality(layer) \in Nat
        /\ Cardinality(Nodes \ Collected) \in Nat
    BY <2>2, FS_CardinalityType
  <2>4. Ready # {} => Cardinality(Ready) # 0
    BY <2>2, FS_EmptySet
  <2> QED  BY <1>2, <2>2, <2>3, <2>4 DEF KahnInv
<1>3. ASSUME KahnInv, KahnInv', KahnNext
      PROVE  StepsLeft' \in Nat /\ StepsLeft' < StepsLeft
  <2>1. remaining' \in Nat
    <3>1. KahnInv' => remaining' = Cardinality(Nodes \ Collected')
      BY DEF KahnInv
    <3>2. Nodes \ Collected' \subseteq Nodes
      OBVIOUS
    <3> QED  BY <1>3, <3>1, <3>2, NodesAssumption, FS_Subset, FS_CardinalityType
  <2>2. CASE Collect /\ Ready = {}
    <3>1. stage = "collect" /\ stage' = "cycle" /\ layer' = layer /\ remaining' = remaining
      BY <2>2 DEF Collect
    <3> QED  BY <1>2, <1>3, <2>1, <3>1 DEF StepsLeft
  <2>3. CASE Collect /\ Ready # {}
    <3>1. stage = "collect" /\ stage' = "place" /\ layer = {} /\ layer' = Ready
          /\ remaining' = remaining - Cardinality(Ready)
      BY <1>3, <2>3 DEF Collect, KahnInv, LayerIsOpen
    <3>2. Cardinality(layer) = 0
      BY <3>1, FS_EmptySet
    <3> QED  BY <1>2, <1>3, <2>1, <2>3, <3>1, <3>2 DEF StepsLeft
  <2>4. CASE Finish
    <3>1. stage = "collect" /\ stage' = "done" /\ layer' = layer /\ remaining' = remaining
      BY <2>4 DEF Finish
    <3> QED  BY <1>2, <1>3, <2>1, <3>1 DEF StepsLeft
  <2>5. ASSUME NEW id \in Nodes, Place(id) PROVE StepsLeft' \in Nat /\ StepsLeft' < StepsLeft
    <3>1. stage = "place" /\ stage' \in {"collect", "place"} /\ id \in layer
          /\ layer' = layer \ {id} /\ remaining' = remaining
      BY <2>5 DEF Place
    <3>2. Cardinality(layer') = Cardinality(layer) - 1
      BY <1>2, <1>3, <3>1, FS_RemoveElement
    <3>3. Cardinality(layer) > 0
      BY <1>2, <1>3, <3>1, FS_EmptySet
    <3> QED  BY <1>2, <1>3, <2>1, <3>1, <3>2, <3>3 DEF StepsLeft
  <2> QED  BY <1>3, <2>2, <2>3, <2>4, <2>5 DEF KahnNext
<1> QED  BY <1>1, <1>3, KahnInvariant, PTL DEF KahnSpec
-----------------------------------------------------------------------------
(* A run.                                                                  *)

NodePlaces == {"idle", "render", "loop", "calling", "check", "exit"}

(* What the history of one node's goroutine says, given its place.         *)
NodeInv(n) ==
  /\ npc[n] # "exit" => res[n] = NoResult
  /\ npc[n] = "exit" => /\ res[n].status # "none" /\ res[n].attempts = Max1(calls[n])
                        /\ res[n].status = "success" => calls[n] > 0
  /\ npc[n] \in {"idle", "render"} => calls[n] = 0
  /\ npc[n] \in {"calling", "check"} => calls[n] > 0
  /\ calls[n] <= (IF wf.retries[n] < 0 THEN 0 ELSE 1 + wf.retries[n])
  /\ late[n] # 0 => late[n] = 1 /\ cancelled /\ npc[n] \in {"calling", "check", "exit"}

(* The earlier layers have succeeded, and their nodes are in the outputs.  *)
EarlierDone == \A n \in Earlier : npc[n] = "exit" /\ res[n].status = "success"

(* Between two layers.                                                     *)
Between ==
  /\ run = [status |-> "success", nodes |-> Earlier]
  /\ outputs = Earlier /\ Started = Earlier

(* While a layer runs.                                                     *)
Within ==
  /\ k \in 1..LayerCount
  /\ run = [status |-> "success", nodes |-> Earlier]
  /\ outputs = Earlier /\ Started = Earlier \cup ThisLayer

(* After the layer that failed.                                            *)
Broken ==
  /\ k \in 1..LayerCount
  /\ run = [status |-> "failed", nodes |-> Earlier \cup ThisLayer]
  /\ outputs = Earlier \cup Succeeded(ThisLayer)
  /\ Started = Earlier \cup ThisLayer /\ Started = Finished
  /\ ThisLayer # Succeeded(ThisLayer)

IInv ==
  /\ TypeOK
  /\ k \in 1..(LayerCount + 1)
  /\ \A n \in Nodes : NodeInv(n)
  /\ EarlierDone
  /\ pc \in {"trigger", "rejected"} => k = 1
  /\ pc \in {"trigger", "rejected", "layers"} => Between
  /\ pc = "wait" => Within
  /\ pc \in {"save", "done"} => (Between /\ k = LayerCount + 1) \/ Broken
-----------------------------------------------------------------------------
(* The layering.                                                           *)

LEMMA LayersFacts ==
  ASSUME wf \in Workflows
  PROVE  /\ LayerCount \in Nat
         /\ \A j \in 1..LayerCount : Layer(j) \subseteq Nodes
         /\ UNION {Layer(j) : j \in 1..LayerCount} = Nodes
         /\ \A i, j \in 1..LayerCount : i # j => Layer(i) \cap Layer(j) = {}
         /\ \A j \in 1..LayerCount : \A n \in Layer(j) :
              wf.deps[n] \subseteq UNION {Layer(i) : i \in 1..(j - 1)}
<1>1. LayersOf[wf] \in Seq(SUBSET Nodes) /\ Layering(wf.deps, LayersOf[wf])
  BY WorkflowsAssumption
<1>2. LayerCount \in Nat /\ DOMAIN LayersOf[wf] = 1..LayerCount
  BY <1>1 DEF LayerCount
<1>3. \A j \in 1..LayerCount : Layer(j) \in SUBSET Nodes
  BY <1>1, <1>2 DEF Layer, LayerCount
<1> QED  BY <1>1, <1>2, <1>3 DEF Layering, Layer

(* The first k - 1 layers: all nodes when there are no more, and disjoint  *)
(* from the k-th, whose dependencies they contain.                         *)
LEMMA EarlierFacts ==
  ASSUME wf \in Workflows, k \in 1..(LayerCount + 1)
  PROVE  /\ Earlier \subseteq Nodes
         /\ k = 1 => Earlier = {}
         /\ k = LayerCount + 1 => Earlier = Nodes
         /\ k <= LayerCount => /\ ThisLayer \subseteq Nodes
                               /\ Earlier \cap ThisLayer = {}
                               /\ \A n \in ThisLayer : wf.deps[n] \subseteq Earlier
         /\ \A n \in Earlier : wf.deps[n] \subseteq Earlier
<1>1. LayerCount \in Nat /\ k \in Nat /\ k >= 1
  BY LayersFacts
<1>2. Earlier \subseteq Nodes
  BY <1>1, LayersFacts DEF Earlier
<1>3. k = 1 => Earlier = {}
  BY DEF Earlier
<1>4. k = LayerCount + 1 => Earlier = Nodes
  BY <1>1, LayersFacts DEF Earlier
<1>5. ASSUME k <= LayerCount
      PROVE  /\ ThisLayer \subseteq Nodes
             /\ Earlier \cap ThisLayer = {}
             /\ \A n \in ThisLayer : wf.deps[n] \subseteq Earlier
  <2>1. k \in 1..LayerCount
    BY <1>1, <1>5
  <2>2. \A j \in 1..(k - 1) : j \in 1..LayerCount /\ j # k
    BY <1>1, <2>1
  <2> QED  BY <2>1, <2>2, LayersFacts DEF ThisLayer, Earlier
<1>6. ASSUME NEW n \in Earlier PROVE wf.deps[n] \subseteq Earlier
  <2>1. PICK j \in 1..(k - 1) : n \in Layer(j)
    BY DEF Earlier
  <2>2. j \in 1..LayerCount /\ \A i \in 1..(j - 1) : i \in 1..(k - 1)
    BY <1>1, <2>1
  <2> QED  BY <2>1, <2>2, LayersFacts DEF Earlier
<1> QED  BY <1>2, <1>3, <1>4, <1>5, <1>6

(* One layer more.                                                         *)
LEMMA NextEarlier ==
  ASSUME k \in Nat \ {0}, k' = k + 1, UNCHANGED wf
  PROVE  Earlier' = Earlier \cup ThisLayer
<1>1. 1..(k' - 1) = (1..(k - 1)) \cup {k}
  OBVIOUS
<1>2. \A j : Layer(j)' = Layer(j)
  BY DEF Layer
<1>3. Earlier' = UNION {Layer(j) : j \in 1..(k' - 1)}
  BY <1>2 DEF Earlier
<1> QED  BY <1>1, <1>3 DEF Earlier, ThisLayer
-----------------------------------------------------------------------------
LEMMA InitInv == Init => IInv
<1> SUFFICES ASSUME Init PROVE IInv
  OBVIOUS
<1> USE DEF Init
<1>1. wf \in Workflows /\ wf.retries \in [Nodes -> Int]
  BY WorkflowsAssumption DEF Definition
<1>2. TypeOK
  BY <1>1 DEF TypeOK, Results, Runs, NoResult
<1>3. k \in 1..(LayerCount + 1) /\ Earlier = {}
  BY <1>1, LayersFacts DEF Earlier
<1>4. \A n \in Nodes : NodeInv(n)
  BY <1>1 DEF NodeInv
<1>5. Between /\ EarlierDone
  BY <1>3 DEF Between, EarlierDone, Started
<1> QED  BY <1>2, <1>3, <1>4, <1>5 DEF IInv

(* Only a layer's goroutines are ever running.                             *)
LEMMA RunningInLayer ==
  ASSUME IInv, NEW n \in Nodes, npc[n] \notin {"idle", "exit"}
  PROVE  pc = "wait" /\ n \in ThisLayer /\ n \notin Earlier
<1>1. n \in Started /\ n \notin Finished
  BY DEF Started, Finished
<1>2. n \notin Earlier
  BY DEF IInv, EarlierDone
<1>3. ~Between /\ ~Broken
  BY <1>1, <1>2 DEF Between, Broken
<1>4. pc = "wait" /\ Within
  BY <1>3 DEF IInv, TypeOK
<1> QED  BY <1>1, <1>2, <1>4 DEF Within

(* One goroutine moves.                                                    *)
LEMMA NodeMoves ==
  ASSUME IInv, NEW n \in Nodes, npc[n] \notin {"idle", "exit"},
         NEW place \in NodePlaces \ {"idle"}, npc' = [npc EXCEPT ![n] = place],
         UNCHANGED <<wf, supplied, pc, k, outputs, run, cancelled, stored>>,
         calls' \in [Nodes -> Nat], late' \in [Nodes -> Nat], res' \in [Nodes -> Results],
         \A m \in Nodes : m # n => calls'[m] = calls[m] /\ late'[m] = late[m] /\ res'[m] = res[m],
         NodeInv(n)'
  PROVE  IInv'
<1>1. TypeOK /\ pc = "wait" /\ Within /\ n \notin Earlier
  BY RunningInLayer DEF IInv
<1>2. npc'[n] = place /\ \A m \in Nodes : m # n => npc'[m] = npc[m]
  BY <1>1 DEF TypeOK
<1>3. \A j : Layer(j)' = Layer(j)
  BY DEF Layer
<1>4. Earlier' = Earlier /\ ThisLayer' = ThisLayer /\ LayerCount' = LayerCount
  BY <1>3 DEF Earlier, ThisLayer, LayerCount
<1>5. TypeOK'
  BY <1>1 DEF TypeOK, NodePlaces
<1>6. \A m \in Nodes : NodeInv(m)'
  BY <1>2 DEF IInv, NodeInv
<1>7. Earlier \subseteq Nodes
  BY <1>1, EarlierFacts DEF IInv, TypeOK
<1>8. EarlierDone'
  BY <1>1, <1>2, <1>4, <1>7 DEF IInv, EarlierDone
<1>9. Started' = Started
  BY <1>2 DEF Started, NodePlaces
<1>10. Within'
  BY <1>1, <1>4, <1>9 DEF Within
<1> QED  BY <1>1, <1>4, <1>5, <1>6, <1>8, <1>10 DEF IInv

LEMMA NodeStep ==
  ASSUME IInv, NEW n \in Nodes, Node(n) \/ Completer(n)
  PROVE  IInv'
<1>1. TypeOK /\ NodeInv(n) /\ wf.retries[n] \in Int
  BY WorkflowsAssumption DEF IInv, TypeOK, Definition
<1>2. ASSUME FailNode(n), npc[n] \in {"render", "loop", "check"},
             UNCHANGED <<wf, supplied, pc, k, outputs, calls, run, cancelled, late, stored>>,
             npc[n] = "loop" => late[n] = 0
      PROVE  IInv'
  <2>1. npc' = [npc EXCEPT ![n] = "exit"] /\ npc'[n] = "exit"
    BY <1>1, <1>2 DEF FailNode, TypeOK
  <2>2. Max1(calls[n]) \in Nat
    BY <1>1 DEF TypeOK, Max1
  <2>3. res' \in [Nodes -> Results] /\ res'[n] = [status |-> "error", attempts |-> Max1(calls[n])]
        /\ \A m \in Nodes : m # n => res'[m] = res[m]
    BY <1>1, <1>2, <2>2 DEF FailNode, TypeOK, Results
  <2>4. NodeInv(n)'
    BY <1>1, <1>2, <2>1, <2>3 DEF NodeInv, Max1
  <2>5. calls' \in [Nodes -> Nat] /\ late' \in [Nodes -> Nat]
    BY <1>1, <1>2 DEF TypeOK
  <2> QED  BY <1>2, <2>1, <2>3, <2>4, <2>5, NodeMoves DEF NodePlaces
<1>3. CASE Render(n)
  <2>1. CASE Renders(n)
    <3>1. npc' = [npc EXCEPT ![n] = "loop"] /\ npc'[n] = "loop" /\ npc[n] = "render"
          /\ UNCHANGED <<wf, supplied, pc, k, outputs, calls, res, run, cancelled, late, stored>>
      BY <1>1, <1>3, <2>1 DEF Render, TypeOK
    <3>2. NodeInv(n)'
      BY <1>1, <3>1 DEF NodeInv
    <3> QED  BY <1>1, <3>1, <3>2, NodeMoves DEF NodePlaces, TypeOK
  <2>2. CASE ~Renders(n)
    BY <1>2, <1>3, <2>2 DEF Render
  <2> QED  BY <2>1, <2>2
<1>4. CASE Call(n)
  <2>1. npc' = [npc EXCEPT ![n] = "calling"] /\ npc'[n] = "calling" /\ npc[n] = "loop"
        /\ UNCHANGED <<wf, supplied, pc, k, outputs, res, run, cancelled, stored>>
    BY <1>1, <1>4 DEF Call, TypeOK
  <2>2. calls' \in [Nodes -> Nat] /\ calls'[n] = calls[n] + 1 /\ calls[n] \in Nat
        /\ \A m \in Nodes : m # n => calls'[m] = calls[m]
    BY <1>1, <1>4 DEF Call, TypeOK
  <2>3. late[n] = 0
    BY <1>1, <2>1 DEF NodeInv
  <2>4. late' \in [Nodes -> Nat] /\ late'[n] = (IF cancelled THEN 1 ELSE 0)
        /\ \A m \in Nodes : m # n => late'[m] = late[m]
    BY <1>1, <1>4, <2>3 DEF Call, TypeOK
  <2>5. calls[n] <= wf.retries[n]
    BY <1>4 DEF Call, AttemptsLeft
  <2>6. NodeInv(n)'
    BY <1>1, <2>1, <2>2, <2>4, <2>5 DEF NodeInv
  <2> QED  BY <1>1, <2>1, <2>2, <2>4, <2>6, NodeMoves DEF NodePlaces, TypeOK
<1>5. CASE Answer(n)
  <2>1. npc' = [npc EXCEPT ![n] = "exit"] /\ npc'[n] = "exit" /\ npc[n] = "calling"
        /\ UNCHANGED <<wf, supplied, pc, k, outputs, calls, run, cancelled, late, stored>>
    BY <1>1, <1>5 DEF Answer, TypeOK
  <2>2. res' \in [Nodes -> Results] /\ res'[n] = [status |-> "success", attempts |-> calls[n]]
        /\ \A m \in Nodes : m # n => res'[m] = res[m]
    BY <1>1, <1>5 DEF Answer, TypeOK, Results
  <2>3. NodeInv(n)'
    BY <1>1, <2>1, <2>2 DEF NodeInv, Max1
  <2> QED  BY <1>1, <2>1, <2>2, <2>3, NodeMoves DEF NodePlaces, TypeOK
<1>6. CASE CallFails(n)
  <2>1. npc' = [npc EXCEPT ![n] = "check"] /\ npc'[n] = "check" /\ npc[n] = "calling"
        /\ UNCHANGED <<wf, supplied, pc, k, outputs, calls, res, run, cancelled, late, stored>>
    BY <1>1, <1>6 DEF CallFails, TypeOK
  <2>2. NodeInv(n)'
    BY <1>1, <2>1 DEF NodeInv
  <2> QED  BY <1>1, <2>1, <2>2, NodeMoves DEF NodePlaces, TypeOK
<1>7. CASE Retry(n)
  <2>1. npc' = [npc EXCEPT ![n] = "loop"] /\ npc'[n] = "loop" /\ npc[n] = "check" /\ ~cancelled
        /\ UNCHANGED <<wf, supplied, pc, k, outputs, calls, res, run, cancelled, late, stored>>
    BY <1>1, <1>7 DEF Retry, TypeOK
  <2>2. NodeInv(n)'
    BY <1>1, <2>1 DEF NodeInv
  <2> QED  BY <1>1, <2>1, <2>2, NodeMoves DEF NodePlaces, TypeOK
<1>8. CASE StopNode(n)
  BY <1>1, <1>2, <1>8 DEF StopNode, NodeInv
<1> QED  BY <1>3, <1>4, <1>5, <1>6, <1>7, <1>8 DEF Node, Completer
-----------------------------------------------------------------------------
(* The engine's own steps.                                                 *)

LEMMA TriggerStep == IInv /\ Trigger => IInv'
<1> SUFFICES ASSUME IInv, Trigger PROVE IInv'
  OBVIOUS
<1>1. pc = "trigger" /\ pc' \in {"layers", "rejected"}
      /\ UNCHANGED <<wf, supplied, k, npc, outputs, calls, res, run, cancelled, late, stored>>
  BY DEF Trigger
<1>2. Earlier' = Earlier /\ LayerCount' = LayerCount
  BY <1>1 DEF Earlier, Layer, LayerCount
<1>3. TypeOK'
  BY <1>1 DEF IInv, TypeOK
<1>4. \A n \in Nodes : NodeInv(n)'
  BY <1>1 DEF IInv, NodeInv
<1>5. EarlierDone' /\ Between'
  BY <1>1, <1>2 DEF IInv, EarlierDone, Between, Started
<1> QED  BY <1>1, <1>2, <1>3, <1>4, <1>5 DEF IInv

LEMMA SpawnStep == IInv /\ Spawn => IInv'
<1> SUFFICES ASSUME IInv, Spawn PROVE IInv'
  OBVIOUS
<1>1. pc = "layers" /\ pc' = "wait" /\ k <= LayerCount
      /\ npc' = [n \in Nodes |-> IF n \in ThisLayer THEN "render" ELSE npc[n]]
      /\ UNCHANGED <<wf, supplied, k, outputs, calls, res, run, cancelled, late, stored>>
  BY DEF Spawn
<1>2. \A j : Layer(j)' = Layer(j)
  BY <1>1 DEF Layer
<1>3. Earlier' = Earlier /\ ThisLayer' = ThisLayer /\ LayerCount' = LayerCount
  BY <1>1, <1>2 DEF Earlier, ThisLayer, LayerCount
<1>4. TypeOK /\ Between /\ EarlierDone /\ k \in 1..(LayerCount + 1) /\ LayerCount \in Nat
  BY <1>1, LayersFacts DEF IInv, TypeOK
<1>5. Earlier \subseteq Nodes /\ ThisLayer \subseteq Nodes /\ Earlier \cap ThisLayer = {}
  BY <1>1, <1>4, EarlierFacts DEF TypeOK
<1>6. TypeOK'
  BY <1>1, <1>4 DEF TypeOK
<1>7. ASSUME NEW n \in Nodes PROVE NodeInv(n)'
  <2>1. NodeInv(n)
    BY DEF IInv
  <2>2. CASE n \in ThisLayer
    <3>1. npc[n] = "idle"
      BY <1>4, <1>5, <2>2 DEF Between, Started
    <3> QED  BY <1>1, <2>1, <2>2, <3>1 DEF NodeInv
  <2>3. CASE n \notin ThisLayer
    BY <1>1, <2>1, <2>3 DEF NodeInv
  <2> QED  BY <2>2, <2>3
<1>8. EarlierDone'
  BY <1>1, <1>3, <1>4, <1>5 DEF EarlierDone
<1>9. Started' = Earlier \cup ThisLayer
  <2>1. \A n \in Nodes : npc'[n] # "idle" <=> n \in ThisLayer \/ npc[n] # "idle"
    BY <1>1
  <2> QED  BY <1>4, <1>5, <2>1 DEF Between, Started
<1>10. k \in 1..LayerCount
  BY <1>1, <1>4
<1>11. Within'
  BY <1>1, <1>3, <1>4, <1>9, <1>10 DEF Within, Between
<1> QED  BY <1>1, <1>3, <1>4, <1>6, <1>7, <1>8, <1>11 DEF IInv

LEMMA MergeStep == IInv /\ Merge => IInv'
<1> SUFFICES ASSUME IInv, Merge PROVE IInv'
  OBVIOUS
<1> DEFINE failed == ThisLayer # Succeeded(ThisLayer)
<1>1. pc = "wait" /\ ThisLayer \subseteq Finished
      /\ outputs' = outputs \cup Succeeded(ThisLayer)
      /\ UNCHANGED <<wf, supplied, npc, calls, res, cancelled, late, stored>>
  BY DEF Merge
<1>2. run' = [nodes |-> run.nodes \cup ThisLayer,
              status |-> IF failed THEN "failed" ELSE run.status]
  BY DEF Merge
<1>3. TypeOK /\ Within /\ EarlierDone /\ LayerCount \in Nat
  BY <1>1, LayersFacts DEF IInv, TypeOK
<1>4. k \in 1..LayerCount /\ k \in 1..(LayerCount + 1)
  BY <1>3 DEF Within
<1>5. Earlier \subseteq Nodes /\ ThisLayer \subseteq Nodes
  BY <1>3, <1>4, EarlierFacts DEF TypeOK
<1>6. \A n \in Nodes : NodeInv(n)'
  BY <1>1 DEF IInv, NodeInv
<1>7. Started' = Started /\ Finished' = Finished /\ LayerCount' = LayerCount
      /\ (\A j : Layer(j)' = Layer(j)) /\ \A nodes : Succeeded(nodes)' = Succeeded(nodes)
  BY <1>1 DEF Started, Finished, LayerCount, Layer, Succeeded
<1>8. Succeeded(ThisLayer) \subseteq ThisLayer
  BY DEF Succeeded
<1>9. run.status = "success" /\ run.nodes = Earlier /\ outputs = Earlier /\ Started = Earlier \cup ThisLayer
  BY <1>3 DEF Within
<1>10. CASE failed
  <2>1. pc' = "save" /\ k' = k
    BY <1>10 DEF Merge
  <2>2. Earlier' = Earlier /\ ThisLayer' = ThisLayer
    BY <1>7, <2>1 DEF Earlier, ThisLayer
  <2>3. TypeOK'
    BY <1>1, <1>2, <1>3, <1>5, <1>8, <1>9, <1>10, <2>1 DEF TypeOK, Runs
  <2>4. EarlierDone'
    BY <1>1, <1>3, <2>2 DEF EarlierDone
  <2>5. Started = Finished
    BY <1>1, <1>3, <1>5, <1>9 DEF EarlierDone, Started, Finished
  <2>6. Broken'
    BY <1>1, <1>2, <1>4, <1>7, <1>9, <1>10, <2>1, <2>2, <2>5 DEF Broken
  <2> QED  BY <1>4, <1>6, <1>7, <2>1, <2>3, <2>4, <2>6 DEF IInv
<1>11. CASE ~failed
  <2>1. pc' = "layers" /\ k' = k + 1
    BY <1>11 DEF Merge
  <2>2. Earlier' = Earlier \cup ThisLayer
    BY <1>1, <1>4, <2>1, NextEarlier
  <2>3. TypeOK'
    BY <1>1, <1>2, <1>3, <1>4, <1>5, <1>8, <1>9, <1>11, <2>1 DEF TypeOK, Runs
  <2>4. EarlierDone'
    BY <1>1, <1>3, <1>11, <2>2 DEF EarlierDone, Succeeded, Finished
  <2>5. run' = [status |-> "success", nodes |-> Earlier']
    BY <1>2, <1>9, <1>11, <2>2
  <2>6. Between'
    BY <1>1, <1>7, <1>9, <1>11, <2>2, <2>5 DEF Between
  <2>7. k' \in 1..(LayerCount' + 1)
    BY <1>3, <1>4, <1>7, <2>1
  <2> QED  BY <1>6, <2>1, <2>3, <2>4, <2>6, <2>7 DEF IInv
<1> QED  BY <1>10, <1>11

(* AllLayersDone, SaveRun and Cancel touch no node and no layer.           *)
LEMMA AroundStep == IInv /\ (AllLayersDone \/ SaveRun \/ Cancel \/ UNCHANGED vars) => IInv'
<1> SUFFICES ASSUME IInv, AllLayersDone \/ SaveRun \/ Cancel \/ UNCHANGED vars PROVE IInv'
  OBVIOUS
<1>1. UNCHANGED <<wf, supplied, k, npc, outputs, calls, res, run, late>>
  BY DEF AllLayersDone, SaveRun, Cancel, vars
<1>2. cancelled => cancelled'
  BY DEF AllLayersDone, SaveRun, Cancel, vars
<1>3. TypeOK'
  BY DEF IInv, TypeOK, AllLayersDone, SaveRun, Cancel, vars
<1>4. \A n \in Nodes : NodeInv(n)'
  BY <1>1, <1>2 DEF IInv, NodeInv
<1>5. \A j : Layer(j)' = Layer(j)
  BY <1>1 DEF Layer
<1>6. Earlier' = Earlier /\ ThisLayer' = ThisLayer /\ LayerCount' = LayerCount /\ LayerCount \in Nat
  BY <1>1, <1>5, LayersFacts DEF Earlier, ThisLayer, LayerCount, IInv, TypeOK
<1>7. (Between <=> Between') /\ (Within <=> Within') /\ (Broken <=> Broken') /\ EarlierDone'
  BY <1>1, <1>6 DEF IInv, Between, Within, Broken, EarlierDone, Started, Finished, Succeeded
<1>8. \/ pc' = pc
      \/ pc = "layers" /\ pc' = "save" /\ k > LayerCount
      \/ pc = "save" /\ pc' = "done"
  BY DEF AllLayersDone, SaveRun, Cancel, vars
<1>9. pc = "layers" /\ k > LayerCount => k = LayerCount + 1
  BY <1>6 DEF IInv
<1> QED  BY <1>1, <1>3, <1>4, <1>6, <1>7, <1>8, <1>9 DEF IInv

LEMMA IInvHolds == Spec => []IInv
<1>1. IInv /\ [Next]_vars => IInv'
  BY TriggerStep, SpawnStep, MergeStep, AroundStep, NodeStep DEF Next, Run
<1> QED  BY <1>1, InitInv, PTL DEF Spec

(* TypeOK of Workflow: the run, its nodes' places and results.             *)
THEOREM TypeCorrect == Spec => []TypeOK
BY IInvHolds, PTL DEF IInv

(* DependenciesFirst, for every graph: a started node is in a layer whose  *)
(* dependencies are all in earlier ones, and those have succeeded.         *)
THEOREM AlwaysDependenciesFirst == Spec => []DependenciesFirst
<1>1. IInv => DependenciesFirst
  <2> SUFFICES ASSUME IInv, NEW n \in Nodes, calls[n] > 0
               PROVE  wf.deps[n] \subseteq outputs /\ \A d \in wf.deps[n] : res[d].status = "success"
    BY DEF DependenciesFirst
  <2>1. n \in Started
    BY DEF IInv, TypeOK, NodeInv, Started
  <2>2. TypeOK /\ EarlierDone /\ LayerCount \in Nat /\ (Between \/ Within \/ Broken)
    BY LayersFacts DEF IInv, TypeOK
  <2>3. \/ n \in Earlier
        \/ k \in 1..LayerCount /\ n \in ThisLayer
    BY <2>1, <2>2 DEF Between, Within, Broken
  <2>4. wf.deps[n] \subseteq Earlier
    BY <2>2, <2>3, EarlierFacts DEF IInv, TypeOK
  <2>5. Earlier \subseteq outputs
    BY <2>2 DEF Between, Within, Broken
  <2> QED  BY <2>2, <2>4, <2>5 DEF EarlierDone
<1> QED  BY <1>1, IInvHolds, PTL

(* OutputsStableWhileRunning, for every graph and interleaving.            *)
THEOREM OutputsAlwaysStable == Spec => []OutputsStableWhileRunning
<1>1. IInv => OutputsStableWhileRunning
  BY RunningInLayer DEF IInv, Within, OutputsStableWhileRunning
<1> QED  BY <1>1, IInvHolds, PTL

(* RunTellsWhatHappened, for every graph, interleaving and cancellation.   *)
THEOREM RunAlwaysTells == Spec => []RunTellsWhatHappened
<1>1. IInv => RunTellsWhatHappened
  <2> SUFFICES ASSUME IInv, pc \in {"save", "done"}
               PROVE  /\ run.nodes = Started /\ Started = Finished
                      /\ run.status = "success" <=> Succeeded(Nodes) = Nodes
                      /\ \A n \in Started : \A d \in wf.deps[n] : d \in Succeeded(Nodes)
    BY DEF RunTellsWhatHappened
  <2>1. wf \in Workflows /\ EarlierDone /\ LayerCount \in Nat /\ Earlier \subseteq Nodes
        /\ \A n \in Earlier : wf.deps[n] \subseteq Earlier
    BY LayersFacts, EarlierFacts DEF IInv, TypeOK
  <2>2. Earlier \subseteq Succeeded(Nodes)
    BY <2>1 DEF EarlierDone, Succeeded
  <2>3. CASE Between /\ k = LayerCount + 1
    <3>1. Earlier = Nodes
      BY <2>1, <2>3, EarlierFacts DEF IInv
    <3>2. Finished = Nodes /\ Succeeded(Nodes) = Nodes
      BY <2>1, <2>2, <3>1 DEF Finished, EarlierDone, Succeeded
    <3> QED  BY <2>1, <2>3, <3>1, <3>2 DEF Between
  <2>4. CASE Broken
    <3>1. k \in 1..LayerCount /\ k <= LayerCount
      BY <2>1, <2>4 DEF Broken
    <3>2. ThisLayer \subseteq Nodes /\ \A n \in ThisLayer : wf.deps[n] \subseteq Earlier
      BY <2>1, <3>1, EarlierFacts DEF IInv
    <3>3. Succeeded(Nodes) # Nodes
      BY <2>4, <3>2 DEF Broken, Succeeded
    <3>4. run.status = "failed" /\ run.nodes = Earlier \cup ThisLayer
          /\ Started = Earlier \cup ThisLayer /\ Started = Finished
      BY <2>4 DEF Broken
    <3>5. \A n \in Started : wf.deps[n] \subseteq Succeeded(Nodes)
      BY <2>1, <2>2, <3>2, <3>4
    <3> QED  BY <3>3, <3>4, <3>5
  <2> QED  BY <2>3, <2>4 DEF IInv
<1> QED  BY <1>1, IInvHolds, PTL

(* AttemptsAccounted, for any retry count and any moment of cancellation.  *)
THEOREM AttemptsAlwaysAccounted == Spec => []AttemptsAccounted
<1>1. IInv => AttemptsAccounted
  <2> SUFFICES ASSUME IInv, NEW n \in Nodes
               PROVE  /\ calls[n] <= (IF wf.retries[n] < 0 THEN 0 ELSE 1 + wf.retries[n])
                      /\ res[n].status # "none" => res[n].attempts = Max1(calls[n])
                      /\ res[n].status = "success" => calls[n] > 0
                      /\ late[n] <= 1
    BY DEF AttemptsAccounted
  <2>1. NodeInv(n) /\ late[n] \in Nat
    BY DEF IInv, TypeOK
  <2> QED  BY <2>1 DEF NodeInv, NoResult
<1> QED  BY <1>1, IInvHolds, PTL
-----------------------------------------------------------------------------
(* The refinement of DagRun.                                               *)

(* What became of a node, and the verdict, as DagRun sees them.            *)
Fate ==
  [n \in Nodes |->
     CASE npc[n] = "idle" -> "waiting"
       [] npc[n] = "exit" -> IF res[n].status = "success" THEN "success" ELSE "failed"
       [] OTHER           -> "running"]

Verdict ==
  CASE pc = "rejected"          -> "rejected"
    [] pc \in {"save", "done"} -> run.status
    [] OTHER                    -> "none"

LEMMA Mapped ==
  /\ \A status : Promise!Are(status) = {n \in Nodes : Fate[n] = status}
  /\ Promise!Open <=> Verdict = "none"
BY DEF Promise!Are, Promise!Open, Fate, Verdict

(* The fates in the situations a run is in.                                *)
LEMMA Fates ==
  ASSUME IInv
  PROVE  /\ \A n \in Earlier : n \in Nodes /\ Fate[n] = "success"
         /\ Between => \A n \in Nodes \ Earlier : Fate[n] = "waiting"
         /\ pc = "wait" => \A n \in Nodes : Fate[n] # "failed" \/ n \in ThisLayer
<1>1. Earlier \subseteq Nodes
  BY EarlierFacts DEF IInv, TypeOK
<1>2. \A n \in Earlier : Fate[n] = "success"
  BY <1>1 DEF IInv, EarlierDone, Fate
<1>3. Between => \A n \in Nodes \ Earlier : Fate[n] = "waiting"
  BY DEF Between, Started, Fate
<1>4. ASSUME pc = "wait", NEW n \in Nodes, Fate[n] = "failed"
      PROVE  n \in ThisLayer
  <2>1. npc[n] # "idle" /\ n \notin Earlier
    BY <1>2, <1>4 DEF Fate
  <2> QED  BY <1>4, <2>1 DEF IInv, Within, Started
<1> QED  BY <1>1, <1>2, <1>3, <1>4

(* Steps that change no place, no result and no verdict go unnoticed.      *)
LEMMA Unnoticed == UNCHANGED <<wf, Fate, Verdict>> => UNCHANGED Promise!vars
BY DEF Promise!vars, Fate, Verdict

LEMMA SpawnIsStart ==
  ASSUME IInv, Spawn
  PROVE  Promise!Start
<1>1. pc = "layers" /\ pc' = "wait" /\ k <= LayerCount /\ Between
      /\ npc' = [n \in Nodes |-> IF n \in ThisLayer THEN "render" ELSE npc[n]]
      /\ UNCHANGED <<wf, res>>
  BY DEF Spawn, IInv
<1>2. ThisLayer \subseteq Nodes /\ Earlier \cap ThisLayer = {}
      /\ \A n \in ThisLayer : wf.deps[n] \subseteq Earlier
  BY <1>1, EarlierFacts DEF IInv, TypeOK
<1>3. \A n \in Nodes : Fate[n] # "failed"
  BY <1>1, Fates
<1>4. Verdict = "none" /\ Verdict' = "none"
  BY <1>1 DEF Verdict
<1>5. ThisLayer \in SUBSET {n \in Nodes : Fate[n] = "waiting"}
  BY <1>1, <1>2, Fates
<1>6. \A n \in ThisLayer : wf.deps[n] \subseteq {d \in Nodes : Fate[d] = "success"}
  BY <1>2, Fates
<1>7. Fate' = [n \in Nodes |-> IF n \in ThisLayer THEN "running" ELSE Fate[n]]
  BY <1>1, <1>2 DEF Fate
<1> QED  BY <1>1, <1>3, <1>4, <1>5, <1>6, <1>7, Mapped DEF Promise!Start, Fate, Verdict

(* A goroutine runs on, or ends with a fate.                               *)
LEMMA NodeRunsOrEnds ==
  ASSUME IInv, NEW n \in Nodes, Node(n) \/ Completer(n)
  PROVE  Promise!End(n) \/ UNCHANGED Promise!vars
<1>1. TypeOK /\ npc[n] \notin {"idle", "exit"} /\ UNCHANGED <<wf, pc, run>>
  BY DEF IInv, Node, Completer, Render, Call, Answer, CallFails, Retry, StopNode
<1>2. pc = "wait"
  BY <1>1, RunningInLayer
<1>3. Verdict = "none" /\ Verdict' = Verdict /\ Fate[n] = "running"
  BY <1>1, <1>2 DEF Verdict, Fate
<1>4. CASE \E place \in {"loop", "calling", "check"} :
             npc' = [npc EXCEPT ![n] = place] /\ UNCHANGED res
  <2>1. \A m \in Nodes : npc'[m] = npc[m] \/ (m = n /\ npc'[m] \in {"loop", "calling", "check"})
    BY <1>1, <1>4 DEF TypeOK
  <2>2. Fate' = Fate
    BY <1>1, <1>4, <2>1 DEF Fate
  <2> QED  BY <1>1, <1>3, <2>2, Unnoticed
<1>5. CASE \E r \in Results : npc' = [npc EXCEPT ![n] = "exit"] /\ res' = [res EXCEPT ![n] = r]
  <2>1. npc'[n] = "exit" /\ \A m \in Nodes : m # n => npc'[m] = npc[m] /\ res'[m] = res[m]
    BY <1>1, <1>5 DEF TypeOK
  <2> DEFINE fate == IF res'[n].status = "success" THEN "success" ELSE "failed"
  <2>2. Fate' = [Fate EXCEPT ![n] = fate]
    BY <2>1 DEF Fate
  <2> QED  BY <1>1, <1>3, <2>2, Mapped DEF Promise!End, Fate, Verdict
<1>6. \/ \E place \in {"loop", "calling", "check"} :
           npc' = [npc EXCEPT ![n] = place] /\ UNCHANGED res
      \/ \E r \in Results : npc' = [npc EXCEPT ![n] = "exit"] /\ res' = [res EXCEPT ![n] = r]
  <2>1. Max1(calls[n]) \in Nat /\ calls[n] \in Nat
    BY <1>1 DEF TypeOK, Max1
  <2>2. [status |-> "error", attempts |-> Max1(calls[n])] \in Results
        /\ [status |-> "success", attempts |-> calls[n]] \in Results
    BY <2>1 DEF Results
  <2>3. FailNode(n) => \E r \in Results : npc' = [npc EXCEPT ![n] = "exit"] /\ res' = [res EXCEPT ![n] = r]
    BY <2>2 DEF FailNode
  <2>4. Answer(n) => \E r \in Results : npc' = [npc EXCEPT ![n] = "exit"] /\ res' = [res EXCEPT ![n] = r]
    BY <2>2 DEF Answer
  <2> QED  BY <2>3, <2>4 DEF Node, Completer, Render, Call, CallFails, Retry, StopNode
<1> QED  BY <1>4, <1>5, <1>6

(* A failed layer is the verdict; a layer that has succeeded is not.       *)
LEMMA MergeJudgesFailure ==
  ASSUME IInv, IInv', Merge
  PROVE  Promise!Judge \/ UNCHANGED Promise!vars
<1>1. pc = "wait" /\ pc' \in {"save", "layers"} /\ UNCHANGED <<wf, npc, res>>
      /\ ThisLayer \subseteq Finished
  BY DEF Merge
<1>2. Fate' = Fate /\ Verdict = "none"
  BY <1>1 DEF Fate, Verdict
<1>3. CASE ThisLayer = Succeeded(ThisLayer)
  <2>1. pc' = "layers"
    BY <1>3 DEF Merge
  <2>2. Verdict' = Verdict
    BY <1>1, <2>1 DEF Verdict
  <2> QED  BY <1>1, <1>2, <2>2, Unnoticed
<1>4. CASE ThisLayer # Succeeded(ThisLayer)
  <2>1. pc' = "save" /\ run'.status = "failed"
    BY <1>4 DEF Merge
  <2>2. Verdict' = "failed"
    BY <2>1 DEF Verdict
  <2>3. PICK n \in ThisLayer : res[n].status # "success"
    BY <1>4 DEF Succeeded
  <2>4. n \in Nodes /\ Fate[n] = "failed"
    BY <1>1, <2>3 DEF Finished, Fate
  <2>5. \A m \in Nodes : Fate[m] # "running"
    <3>1. \A m \in Nodes : m \in Started => npc[m] = "exit"
      BY <1>1 DEF IInv, Within, EarlierDone, Finished
    <3> QED  BY <3>1 DEF Started, Fate
  <2> QED  BY <1>1, <1>2, <2>2, <2>4, <2>5, Mapped DEF Promise!Judge, Fate, Verdict
<1> QED  BY <1>3, <1>4

LEMMA LastLayerJudgesSuccess ==
  ASSUME IInv, AllLayersDone
  PROVE  Promise!Judge
<1>1. pc = "layers" /\ k > LayerCount /\ pc' = "save" /\ Between /\ UNCHANGED <<wf, npc, res, run>>
  BY DEF AllLayersDone, IInv
<1>2. k = LayerCount + 1 /\ wf \in Workflows
  BY <1>1, LayersFacts DEF IInv, TypeOK
<1>3. Earlier = Nodes
  BY <1>2, EarlierFacts DEF IInv
<1>4. \A n \in Nodes : Fate[n] = "success"
  BY <1>3, Fates
<1>5. Fate' = Fate /\ Verdict = "none" /\ Verdict' = "success"
  BY <1>1 DEF Fate, Verdict, Between
<1> QED  BY <1>1, <1>4, <1>5, Mapped DEF Promise!Judge, Fate, Verdict

(* A run of a workflow is a DagRun: every layer is a set of nodes that may *)
(* start side by side, each ends once, and the verdict is the right one.   *)
THEOREM RunIsADagRun == Spec => ImplementsDagRun
<1>1. Init => Promise!Init
  BY DEF Init, Promise!Init
<1>2. ASSUME IInv, IInv', [Next]_vars PROVE Promise!Next \/ UNCHANGED Promise!vars
  <2>1. CASE Trigger
    <3>1. UNCHANGED <<wf, npc, res, run>> /\ pc = "trigger" /\ k = 1 /\ Between
      BY <1>2, <2>1 DEF Trigger, IInv
    <3>2. Fate' = Fate /\ Verdict = "none"
      BY <3>1 DEF Fate, Verdict
    <3>3. CASE pc' = "layers"
      <4>1. Verdict' = "none"
        BY <3>3 DEF Verdict
      <4> QED  BY <3>1, <3>2, <4>1, Unnoticed
    <3>4. CASE pc' = "rejected"
      <4>1. Verdict' = "rejected"
        BY <3>4 DEF Verdict
      <4>2. Earlier = {}
        BY <1>2, <3>1, EarlierFacts DEF IInv, TypeOK
      <4>3. {n \in Nodes : Fate[n] = "waiting"} = Nodes
        BY <1>2, <3>1, <4>2, Fates
      <4> QED  BY <3>1, <3>2, <4>1, <4>3, Mapped DEF Promise!Next, Promise!Reject, Fate, Verdict
    <3> QED  BY <2>1, <3>3, <3>4 DEF Trigger
  <2>2. CASE Spawn
    BY <1>2, <2>2, SpawnIsStart DEF Promise!Next
  <2>3. CASE Merge
    BY <1>2, <2>3, MergeJudgesFailure DEF Promise!Next
  <2>4. CASE AllLayersDone
    BY <1>2, <2>4, LastLayerJudgesSuccess DEF Promise!Next
  <2>5. CASE SaveRun \/ Cancel \/ UNCHANGED vars
    <3>1. UNCHANGED <<wf, npc, res, run>> /\ (pc' = pc \/ (pc = "save" /\ pc' = "done"))
      BY <2>5 DEF SaveRun, Cancel, vars
    <3>2. Fate' = Fate /\ Verdict' = Verdict
      BY <3>1 DEF Fate, Verdict
    <3> QED  BY <3>1, <3>2, Unnoticed
  <2>6. ASSUME NEW n \in Nodes, Node(n) \/ Completer(n)
        PROVE  Promise!Next \/ UNCHANGED Promise!vars
    BY <1>2, <2>6, NodeRunsOrEnds DEF Promise!Next
  <2> QED  BY <1>2, <2>1, <2>2, <2>3, <2>4, <2>5, <2>6 DEF Next, Run
<1> QED
  BY <1>1, <1>2, IInvHolds, PTL DEF Spec, ImplementsDagRun, Promise!Spec
-----------------------------------------------------------------------------
(* What RunEnds rests on: nobody goes round for ever.                      *)

(* The calls a node may still make, and its steps until it exits.          *)
CallsLeft(n) == IF calls[n] <= wf.retries[n] THEN wf.retries[n] - calls[n] + 1 ELSE 0

PlaceLeft(place) ==
  CASE place = "idle"    -> 5
    [] place = "render"  -> 4
    [] place = "calling" -> 3
    [] place = "check"   -> 2
    [] place = "loop"    -> 1
    [] OTHER             -> 0

NodeLeft(n) == 3 * CallsLeft(n) + PlaceLeft(npc[n])

(* The steps RunTriggered and Run have still to make.                      *)
RunLeft ==
  CASE pc = "trigger" -> 2 * LayerCount + 3
    [] pc = "layers"  -> 2 * (LayerCount + 1 - k) + 2
    [] pc = "wait"    -> 2 * (LayerCount + 1 - k) + 1
    [] pc = "save"    -> 1
    [] OTHER          -> 0

(* A step of a node brings it nearer to its exit, a step of Run brings Run *)
(* nearer to its end, and nobody sets anybody back.                        *)
Nearer ==
  /\ RunLeft' <= RunLeft
  /\ Run => RunLeft' < RunLeft
  /\ \A n \in Nodes : /\ NodeLeft(n)' <= NodeLeft(n)
                      /\ Node(n) \/ Completer(n) => NodeLeft(n)' < NodeLeft(n)

LEMMA LeftType ==
  ASSUME IInv
  PROVE  /\ RunLeft \in Nat
         /\ \A n \in Nodes : NodeLeft(n) \in Nat /\ CallsLeft(n) \in Nat
         /\ \A n \in Nodes : calls[n] \in Nat /\ wf.retries[n] \in Int
         /\ \A place : PlaceLeft(place) \in Nat
<1>1. LayerCount \in Nat
  BY LayersFacts DEF IInv, TypeOK
<1>2. RunLeft \in Nat
  BY <1>1 DEF IInv, TypeOK, RunLeft
<1>3. \A n \in Nodes : calls[n] \in Nat /\ wf.retries[n] \in Int
  BY WorkflowsAssumption DEF IInv, TypeOK, Definition
<1>4. \A n \in Nodes : CallsLeft(n) \in Nat
  BY <1>3 DEF CallsLeft
<1>5. \A place : PlaceLeft(place) \in Nat
  BY DEF PlaceLeft
<1>6. \A n \in Nodes : NodeLeft(n) \in Nat
  BY <1>4, <1>5 DEF NodeLeft
<1> QED  BY <1>2, <1>3, <1>4, <1>5, <1>6

(* RunEnds without the fairness: the steps of a run are numbered, at most  *)
(* twice the layers and three for Run, and for each node three per call it *)
(* may make and five.                                                      *)
THEOREM RunsNeverGoRound ==
  /\ Spec => [](RunLeft \in Nat /\ \A n \in Nodes : NodeLeft(n) \in Nat)
  /\ Spec => [][Nearer]_vars
<1>1. ASSUME IInv, IInv', NEW n \in Nodes, Node(n) \/ Completer(n)
      PROVE  /\ RunLeft' = RunLeft
             /\ NodeLeft(n)' < NodeLeft(n) /\ NodeLeft(n)' <= NodeLeft(n)
             /\ \A m \in Nodes : m # n => NodeLeft(m)' = NodeLeft(m)
  <2>1. TypeOK /\ UNCHANGED <<wf, pc, k>>
    BY <1>1 DEF IInv, Node, Completer, Render, Call, Answer, CallFails, Retry, StopNode
  <2>2. RunLeft' = RunLeft
    BY <2>1 DEF RunLeft, LayerCount
  <2>3. \A m \in Nodes : m # n => npc'[m] = npc[m] /\ calls'[m] = calls[m]
    BY <1>1, <2>1 DEF TypeOK, Node, Completer, Render, FailNode, Call, Answer, CallFails, Retry, StopNode
  <2>4. \A m \in Nodes : m # n => NodeLeft(m)' = NodeLeft(m)
    BY <2>1, <2>3 DEF NodeLeft, CallsLeft
  <2>5. CASE Call(n)
    <3>1. npc[n] = "loop" /\ npc'[n] = "calling" /\ calls'[n] = calls[n] + 1
          /\ calls[n] <= wf.retries[n]
      BY <2>1, <2>5 DEF Call, AttemptsLeft, TypeOK
    <3>2. CallsLeft(n)' = CallsLeft(n) - 1
      BY <1>1, <2>1, <3>1, LeftType DEF CallsLeft
    <3>3. PlaceLeft(npc[n]) = 1 /\ PlaceLeft(npc'[n]) = 3
      BY <3>1 DEF PlaceLeft
    <3>4. NodeLeft(n)' = 3 * (CallsLeft(n) - 1) + 3 /\ NodeLeft(n) = 3 * CallsLeft(n) + 1
      BY <3>2, <3>3 DEF NodeLeft
    <3>5. NodeLeft(n)' < NodeLeft(n) /\ NodeLeft(n)' <= NodeLeft(n)
      BY <1>1, <3>4, LeftType
    <3> QED  BY <2>2, <2>4, <3>5
  <2>6. CASE ~Call(n)
    <3>1. /\ calls' = calls
          /\ \/ npc[n] = "render" /\ npc'[n] \in {"loop", "exit"}
             \/ npc[n] = "calling" /\ npc'[n] \in {"check", "exit"}
             \/ npc[n] = "check" /\ npc'[n] \in {"loop", "exit"}
             \/ npc[n] = "loop" /\ npc'[n] = "exit"
      BY <1>1, <2>1, <2>6
         DEF TypeOK, Node, Completer, Render, FailNode, Answer, CallFails, Retry, StopNode
    <3>2. CallsLeft(n)' = CallsLeft(n)
      BY <2>1, <3>1 DEF CallsLeft
    <3>3. PlaceLeft(npc'[n]) < PlaceLeft(npc[n])
      BY <3>1 DEF PlaceLeft
    <3>4. NodeLeft(n)' = 3 * CallsLeft(n) + PlaceLeft(npc'[n])
          /\ NodeLeft(n) = 3 * CallsLeft(n) + PlaceLeft(npc[n])
      BY <3>2 DEF NodeLeft
    <3>5. NodeLeft(n)' < NodeLeft(n) /\ NodeLeft(n)' <= NodeLeft(n)
      BY <1>1, <3>3, <3>4, LeftType
    <3> QED  BY <2>2, <2>4, <3>5
  <2> QED  BY <2>2, <2>4, <2>5, <2>6
<1>2. ASSUME IInv, IInv', Run
      PROVE  /\ RunLeft' < RunLeft /\ RunLeft' <= RunLeft
             /\ \A n \in Nodes : NodeLeft(n)' <= NodeLeft(n)
  <2>1. LayerCount \in Nat /\ LayerCount' = LayerCount /\ k \in 1..(LayerCount + 1)
    BY <1>2, LayersFacts DEF IInv, TypeOK, Run, Trigger, Spawn, Merge, AllLayersDone, SaveRun, LayerCount
  <2>2. RunLeft' < RunLeft /\ RunLeft' <= RunLeft
    <3>1. \/ pc = "trigger" /\ pc' \in {"layers", "rejected"} /\ k' = k /\ k = 1
          \/ pc = "layers" /\ pc' = "wait" /\ k' = k
          \/ pc = "wait" /\ pc' = "layers" /\ k' = k + 1 /\ k <= LayerCount
          \/ pc = "wait" /\ pc' = "save" /\ k <= LayerCount
          \/ pc = "layers" /\ pc' = "save"
          \/ pc = "save" /\ pc' = "done"
      BY <1>2, <2>1 DEF IInv, Within, Run, Trigger, Spawn, Merge, AllLayersDone, SaveRun
    <3> QED  BY <2>1, <3>1 DEF RunLeft
  <2>3. ASSUME NEW n \in Nodes PROVE NodeLeft(n)' <= NodeLeft(n)
    <3>1. UNCHANGED <<wf, calls>>
      BY <1>2 DEF Run, Trigger, Spawn, Merge, AllLayersDone, SaveRun
    <3>2. CallsLeft(n)' = CallsLeft(n)
      BY <3>1 DEF CallsLeft
    <3>3. CASE npc'[n] = npc[n]
      <4>1. NodeLeft(n)' = NodeLeft(n)
        BY <3>2, <3>3 DEF NodeLeft
      <4> QED  BY <1>2, <4>1, LeftType
    <3>4. CASE npc'[n] # npc[n]
      <4>1. Spawn /\ n \in ThisLayer /\ npc'[n] = "render"
        BY <1>2, <3>4 DEF IInv, TypeOK, Run, Trigger, Spawn, Merge, AllLayersDone, SaveRun
      <4>2. npc[n] = "idle"
        <5>1. Between /\ n \notin Earlier
          BY <1>2, <4>1, <2>1, EarlierFacts DEF IInv, TypeOK, Spawn
        <5> QED  BY <5>1 DEF Between, Started
      <4>3. PlaceLeft(npc[n]) = 5 /\ PlaceLeft(npc'[n]) = 4
        BY <4>1, <4>2 DEF PlaceLeft
      <4>4. NodeLeft(n)' = 3 * CallsLeft(n) + 4 /\ NodeLeft(n) = 3 * CallsLeft(n) + 5
        BY <3>2, <4>3 DEF NodeLeft
      <4> QED  BY <1>2, <4>4, LeftType
    <3> QED  BY <3>3, <3>4
  <2> QED  BY <2>2, <2>3
<1>3. ASSUME IInv, IInv', Next PROVE Nearer
  <2>1. RunLeft \in Nat /\ \A n \in Nodes : NodeLeft(n) \in Nat
    BY <1>3, LeftType
  <2>2. CASE Run
    BY <1>1, <1>2, <1>3, <2>1, <2>2 DEF Nearer
  <2>3. ASSUME NEW n \in Nodes, Node(n) \/ Completer(n) PROVE Nearer
    <3>1. RunLeft' <= RunLeft
      BY <1>1, <1>3, <2>1, <2>3
    <3>2. \A m \in Nodes : NodeLeft(m)' <= NodeLeft(m)
      <4>1. ASSUME NEW m \in Nodes, m # n PROVE NodeLeft(m)' <= NodeLeft(m)
        BY <1>1, <1>3, <2>1, <2>3, <4>1
      <4> QED  BY <1>1, <1>3, <2>3, <4>1
    <3> QED  BY <1>1, <1>2, <1>3, <3>1, <3>2 DEF Nearer
  <2>4. CASE Cancel
    <3>1. UNCHANGED <<wf, pc, k, npc, calls>>
      BY <2>4 DEF Cancel
    <3>2. RunLeft' = RunLeft /\ \A n \in Nodes : NodeLeft(n)' = NodeLeft(n)
      BY <3>1 DEF RunLeft, LayerCount, NodeLeft, CallsLeft
    <3> QED  BY <1>1, <1>2, <1>3, <2>1, <3>2 DEF Nearer
  <2> QED  BY <1>3, <2>2, <2>3, <2>4 DEF Next
<1>4. IInv => RunLeft \in Nat /\ \A n \in Nodes : NodeLeft(n) \in Nat
  BY LeftType
<1> QED  BY <1>3, <1>4, IInvHolds, PTL DEF Spec
=============================================================================
