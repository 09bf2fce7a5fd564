------------------------------ MODULE Fallback ------------------------------
(***************************************************************************)
(* What the pipeline promises its callers, however it gets there: a        *)
(* request is offered to the candidates in their order, each at most once, *)
(* until one takes it; it fails only when all have refused or the caller   *)
(* is gone; and the verdict is final.  Engine.Complete and the start loop  *)
(* of Engine.Stream (core/pipeline) both implement it, with loops, skipped *)
(* names, timeouts and goroutines of which nothing shows here.             *)
(***************************************************************************)
EXTENDS Naturals, Sequences

CONSTANTS Providers,  \* the instances that exist
          Routes,     \* the candidate lists the router may return
          Nobody      \* stands for no provider

VARIABLES
  route,    \* the candidates, <<>> before there are any
  refused,  \* the places in route whose provider has refused
  verdict,  \* "open", "served" or "failed"
  by,       \* who serves
  gone      \* the caller cancelled, or its deadline has passed

vars == <<route, refused, verdict, by, gone>>

Init ==
  /\ route = <<>> /\ refused = {}
  /\ verdict = "open" /\ by = Nobody
  /\ gone \in BOOLEAN

(* The places of candidates that exist, and the one whose turn it is.      *)
Places  == {k \in 1..Len(route) : route[k] \in Providers}
Turn(k) == k \in Places \ refused /\ \A j \in Places \ refused : k <= j

Open == verdict = "open"

Choose ==
  /\ Open /\ route = <<>>
  /\ route' \in Routes \ {<<>>}
  /\ UNCHANGED <<refused, verdict, by, gone>>

Refuse ==
  /\ Open
  /\ \E k \in Places : Turn(k) /\ refused' = refused \cup {k}
  /\ UNCHANGED <<route, verdict, by, gone>>

Serve ==
  /\ Open
  /\ \E k \in Places : Turn(k) /\ by' = route[k]
  /\ verdict' = "served"
  /\ UNCHANGED <<route, refused, gone>>

Fail ==
  /\ Open
  /\ gone \/ Places \subseteq refused
  /\ verdict' = "failed"
  /\ UNCHANGED <<route, refused, by, gone>>

Leave ==
  /\ ~gone /\ gone' = TRUE
  /\ UNCHANGED <<route, refused, verdict, by>>

Next == Choose \/ Refuse \/ Serve \/ Fail \/ Leave

Spec == Init /\ [][Next]_vars
=============================================================================
