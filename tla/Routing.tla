------------------------------ MODULE Routing ------------------------------
(***************************************************************************)
(* How a request gets its candidates: the process reads its configuration, *)
(* the kernel fills the ProviderSet from it (core/pipeline/providerset.go) *)
(* and builds the router, and per request router.static orders and filters *)
(* a snapshot of the set (modules/router/static/static.go).                *)
(*                                                                         *)
(* A view is its instance name; whether its capabilities include the       *)
(* requested model is membership in `supports`.                            *)
(***************************************************************************)
EXTENDS Config, SequencesExt

CONSTANTS Names,      \* provider instance names
          Texts,      \* what the other strings of a file or the environment say
          Files,      \* the configurations a process may be started with ...
          Envs,       \* ... and its environments
          Orders      \* the router's configured `order` lists

ASSUME FilesAssumption ==
  Files \subseteq [address: Texts, timeout: Int, router: Texts,
                  providers: Seq([name: Names \cup {Empty, Var}, use: Texts])]
ASSUME EnvsAssumption   == Envs \subseteq [VAR: Names \cup {Empty}, CONDUCTOR_ADDRESS: Texts]
ASSUME OrdersAssumption == Orders \subseteq Seq(Names) /\ <<>> \in Orders

VARIABLES phase,      \* of the start
          file, env,  \* what the process was started with
          cfg,        \* what config.Load made of it
          built,      \* how many of its providers are built
          byName,     \* the ProviderSet: its map, to the entry it was built for ...
          order,      \* ... and its list of names
          cfgOrder,   \* the router's settings
          supports,   \* the instances serving the last request's model
          refs        \* what Route returned for it

input == <<file, env>>
set   == <<built, byName, order>>
vars  == <<phase, input, cfg, set, cfgOrder, supports, refs>>

TypeOK ==
  /\ phase \in {"start", "building", "ready", "rejected"}
  /\ cfg.timeout \in Int /\ built \in 0..Len(cfg.providers)
  /\ DOMAIN byName \subseteq Names /\ \A n \in DOMAIN byName : byName[n] \in DOMAIN cfg.providers
  /\ order \in Seq(DOMAIN byName)
  /\ cfgOrder \in Orders
  /\ supports \subseteq Names
  /\ refs \in Seq(DOMAIN byName)

Init ==
  /\ phase = "start"
  /\ file \in Files /\ env \in Envs /\ cfg = file
  /\ built = 0 /\ byName = <<>> /\ order = <<>>
  /\ cfgOrder = <<>> /\ supports = {} /\ refs = <<>>

Reject == phase' = "rejected" /\ UNCHANGED <<input, cfg, set, cfgOrder, supports, refs>>

(* config.Load, or Default with its embedded file.                         *)
Load ==
  /\ phase = "start" /\ validate(parse(file, env))
  /\ cfg' = parse(file, env)
  /\ phase' = "building"
  /\ UNCHANGED <<input, set, cfgOrder, supports, refs>>

LoadFails == phase = "start" /\ ~validate(parse(file, env)) /\ Reject

(* Add overwrites an instance but keeps its place.                         *)
AddToOrder(name) == IF name \in DOMAIN byName THEN order ELSE Append(order, name)

Add(name, k) ==
  /\ built' = k
  /\ order' = AddToOrder(name)
  /\ byName' = [n \in DOMAIN byName \cup {name} |-> IF n = name THEN k ELSE byName[n]]

(* The kernel builds the entries in the order of the file, then the router;*)
(* any of them may fail.                                                   *)
BuildProvider ==
  /\ phase = "building" /\ built < Len(cfg.providers)
  /\ Add(cfg.providers[built + 1].name, built + 1)
  /\ UNCHANGED <<phase, input, cfg, cfgOrder, supports, refs>>

BuildRouter ==
  /\ phase = "building" /\ built = Len(cfg.providers)
  /\ cfgOrder' \in Orders
  /\ phase' = "ready"
  /\ UNCHANGED <<input, cfg, set, supports, refs>>

BuildFails == phase = "building" /\ Reject

Views == order

-----------------------------------------------------------------------------
(* The members of a list that are in keep, in the order of the list: a     *)
(* loop over it that appends what passes the test.                         *)
selected(list, keep) ==
  LET upTo[k \in 0..Len(list)] ==
        IF k = 0 THEN <<>>
        ELSE IF list[k] \in keep THEN Append(upTo[k - 1], list[k]) ELSE upTo[k - 1]
  IN upTo[Len(list)]

Unlisted(list, available) == selected(available, ToSet(available) \ ToSet(list))

UnlistedFirst(list, available) ==
  Unlisted(list, available) \o selected(list, ToSet(available))

(* The configured names that exist, then whoever the list does not name.   *)
orderViews(list, available) ==
  IF list = <<>> THEN available
  ELSE selected(list, ToSet(available)) \o Unlisted(list, available)

(* Capabilities.Supports: the model is in the view's list.                 *)
supporting(list, able) == selected(list, able)

SupportingOrNobody(list, available, able) == supporting(orderViews(list, available), able)

RouteStatic(list, available, able) ==
  LET all == orderViews(list, available)
  IN IF supporting(all, able) # <<>> THEN supporting(all, able) ELSE all

Route ==
  /\ phase = "ready"
  /\ \E able \in SUBSET Names :
       supports' = able /\ refs' = RouteStatic(cfgOrder, Views, able)
  /\ UNCHANGED <<phase, input, cfg, set, cfgOrder>>

Next == Load \/ LoadFails \/ BuildProvider \/ BuildRouter \/ BuildFails \/ Route
Spec == Init /\ [][Next]_vars
-----------------------------------------------------------------------------
Times(n, s) == Cardinality({k \in 1..Len(s) : s[k] = n})

FirstPlace(n, s) == SelectInSeq(s, LAMBDA m : m = n)

(* Where a name stands by the router's documented rule: at its first place *)
(* in the configured list, or else after every listed name, in the set's   *)
(* own order.                                                              *)
Rank(n) == IF n \in ToSet(cfgOrder) THEN FirstPlace(n, cfgOrder)
                                     ELSE Len(cfgOrder) + FirstPlace(n, order)

(* A process that serves runs what its configuration says: every entry is  *)
(* an instance of its own, under the name the file or the environment gave *)
(* it, and the candidates' default order is the file's; with at least one. *)
(* The values the kernel relies on are there, whatever was left out.       *)
StartsAsConfigured == phase = "ready" =>
  /\ Views # <<>> /\ Len(Views) = Len(file.providers)
  /\ \A k \in DOMAIN file.providers :
       Views[k] = expand(file.providers[k].name, env) /\ byName[Views[k]] = k
  /\ cfg.timeout > 0 /\ cfg.router # Empty /\ cfg.address # Empty

(* Nobody who could serve the request is left out: the candidates are the  *)
(* providers that support the model, or all of them if none does.          *)
NobodyLeftOut == [][Route =>
  ToSet(refs') = IF ToSet(order) \cap supports' # {} THEN ToSet(order) \cap supports'
                                                    ELSE ToSet(order)]_vars

(* The candidates come by rank; a listed one as often as the configuration *)
(* lists it (a repeated name is not merged), an unlisted one exactly once. *)
PriorityRespected == [][Route =>
  /\ IsInjective(cfgOrder) =>
       \A k \in 1..Len(refs') - 1 : Rank(refs'[k]) < Rank(refs'[k + 1])
  /\ \A n \in ToSet(refs') :
       Times(n, refs') = IF n \in ToSet(cfgOrder) THEN Times(n, cfgOrder) ELSE 1]_vars
=============================================================================
