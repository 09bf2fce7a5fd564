--------------------------- MODULE RoutingProofs ---------------------------
(***************************************************************************)
(* A process serves what it was configured with, and a request's           *)
(* candidates are the right ones in the right order: for every file,       *)
(* environment, configured order and set of providers, of any size.        *)
(***************************************************************************)
EXTENDS Routing, FiniteSetTheorems, SequenceTheorems, WellFoundedInduction, TLAPS

-----------------------------------------------------------------------------
(* Selections.                                                             *)

(* A loop that is wrong somewhere is wrong for the first time somewhere.   *)
LEMMA Least ==
  ASSUME NEW T, T \subseteq Nat, T # {}
  PROVE  \E x \in T : \A y \in T : x <= y
<1>1. PICK x \in T : \A y \in T : ~(<<y, x>> \in OpToRel(<, Nat))
  BY WFMin, NatLessThanWellFounded
<1>2. \A y \in T : ~(y < x)
  BY <1>1 DEF OpToRel
<1> QED BY <1>2, SMT

(* What `selected` has after the first n members of the list.              *)
Loop(list, keep, n, g) ==
  g = [k \in 0..n |->
        IF k = 0 THEN <<>>
        ELSE IF list[k] \in keep THEN Append(g[k - 1], list[k]) ELSE g[k - 1]]

LEMMA LoopRuns ==
  ASSUME NEW S, NEW list \in Seq(S), NEW keep
  PROVE  \E g : Loop(list, keep, Len(list), g)
<1> DEFINE T == {n \in 0..Len(list) : ~\E g : Loop(list, keep, n, g)}
<1>1. Len(list) \in Nat
  OBVIOUS
<1>2. SUFFICES ASSUME T # {} PROVE FALSE
  BY <1>1
<1>3. PICK n \in T : \A m \in T : n <= m
  <2>1. T \subseteq Nat
    BY <1>1
  <2> HIDE DEF T
  <2> QED BY <2>1, <1>2, Least
<1>4. CASE n = 0
  <2>1. Loop(list, keep, 0, [k \in 0..0 |-> <<>>])
    BY DEF Loop
  <2> QED BY <2>1, <1>3, <1>4
<1>5. CASE n # 0
  <2>1. n \in Nat /\ n - 1 \in 0..Len(list) /\ n - 1 \notin T
    BY <1>1, <1>3, <1>5
  <2>2. PICK g : Loop(list, keep, n - 1, g)
    BY <2>1
  <2> DEFINE next == IF list[n] \in keep THEN Append(g[n - 1], list[n]) ELSE g[n - 1]
             h == [k \in 0..n |-> IF k = n THEN next ELSE g[k]]
  <2>3. ASSUME NEW k \in 0..n
        PROVE  h[k] = IF k = 0 THEN <<>>
                      ELSE IF list[k] \in keep THEN Append(h[k - 1], list[k]) ELSE h[k - 1]
    <3>1. CASE k = n
      <4>1. h[k - 1] = g[k - 1] /\ k # 0
        BY <2>1, <3>1
      <4> QED BY <4>1, <3>1
    <3>2. CASE k # n
      <4>1. k \in 0..(n - 1) /\ h[k] = g[k] /\ (k # 0 => h[k - 1] = g[k - 1])
        BY <2>1, <3>2
      <4>2. g[k] = IF k = 0 THEN <<>>
                   ELSE IF list[k] \in keep THEN Append(g[k - 1], list[k]) ELSE g[k - 1]
        BY <2>2, <4>1 DEF Loop
      <4> QED BY <4>1, <4>2
    <3> QED BY <3>1, <3>2
  <2>4. Loop(list, keep, n, h)
    BY <2>3 DEF Loop
  <2> QED BY <2>4, <1>3
<1> QED BY <1>4, <1>5

(* r takes the members at the places `at` of list, one after the other.    *)
Picks(list, keep, n, r, at) ==
  /\ at \in [1..Len(r) -> 1..n]
  /\ \A k, l \in 1..Len(r) : k < l => at[k] < at[l]
  /\ \A k \in 1..Len(r) : r[k] = list[at[k]] /\ r[k] \in keep
  /\ \A p \in 1..n : list[p] \in keep => \E k \in 1..Len(r) : at[k] = p

(* What selected returns: the members of the list that are in keep, each   *)
(* place once, in the list's order.                                        *)
LEMMA Selection ==
  ASSUME NEW S, NEW list \in Seq(S), NEW keep
  PROVE  /\ selected(list, keep) \in Seq(S)
         /\ \E at : Picks(list, keep, Len(list), selected(list, keep), at)
<1> DEFINE upTo == CHOOSE g : Loop(list, keep, Len(list), g)
<1>1. Loop(list, keep, Len(list), upTo) /\ selected(list, keep) = upTo[Len(list)]
  <2>1. Loop(list, keep, Len(list), upTo)
    BY LoopRuns
  <2>2. selected(list, keep) = upTo[Len(list)]
    BY DEF selected, Loop
  <2> QED BY <2>1, <2>2
<1> HIDE DEF upTo
<1> DEFINE Right(n) == upTo[n] \in Seq(S) /\ \E at : Picks(list, keep, n, upTo[n], at)
           T == {n \in 0..Len(list) : ~Right(n)}
<1>2. Len(list) \in Nat /\ DOMAIN list = 1..Len(list)
  OBVIOUS
<1>3. SUFFICES ASSUME T # {} PROVE FALSE
  <2>1. T = {} => Right(Len(list))
    <3> HIDE DEF Right
    <3> QED BY <1>2
  <2> HIDE DEF T
  <2> QED BY <2>1, <1>1
<1>4. PICK n \in T : \A m \in T : n <= m
  <2>1. T \subseteq Nat
    BY <1>2
  <2> HIDE DEF T
  <2> QED BY <2>1, <1>3, Least
<1>5. \A k \in 0..Len(list) : upTo[k] =
        IF k = 0 THEN <<>>
        ELSE IF list[k] \in keep THEN Append(upTo[k - 1], list[k]) ELSE upTo[k - 1]
  BY <1>1 DEF Loop
<1>6. CASE n = 0
  <2>1. upTo[0] = <<>>
    BY <1>2, <1>5
  <2>2. Picks(list, keep, 0, <<>>, <<>>)
    BY DEF Picks
  <2>3. Right(0)
    <3>1. <<>> \in Seq(S)
      OBVIOUS
    <3> QED BY <2>1, <2>2, <3>1
  <2> HIDE DEF Right
  <2> QED BY <2>3, <1>4, <1>6
<1>7. CASE n # 0
  <2>1. n \in Nat /\ n - 1 \in 0..Len(list) /\ n \in 1..Len(list) /\ n - 1 \notin T
    BY <1>2, <1>4, <1>7
  <2> DEFINE r == upTo[n - 1]
  <2>2. r \in Seq(S) /\ Len(r) \in Nat
    BY <2>1
  <2>3. PICK at : Picks(list, keep, n - 1, r, at)
    BY <2>1
  <2>4. CASE list[n] \in keep
    <3> DEFINE q == Append(r, list[n])
               to == [k \in 1..Len(q) |-> IF k = Len(q) THEN n ELSE at[k]]
    <3>1. upTo[n] = q
      BY <1>5, <1>7, <2>1, <2>4
    <3>2. list[n] \in S
      BY <1>2, <2>1
    <3>3. /\ q \in Seq(S) /\ Len(q) = Len(r) + 1
          /\ \A k \in 1..Len(r) : q[k] = r[k]
          /\ q[Len(q)] = list[n]
      BY <2>2, <3>2
    <3> HIDE DEF q, r
    <3>4. /\ DOMAIN to = 1..Len(q)
          /\ \A k \in 1..Len(r) : to[k] = at[k] /\ to[k] \in 1..(n - 1)
          /\ to[Len(q)] = n
      <4>1. \A k \in 1..Len(r) : at[k] \in 1..(n - 1) /\ k \in 1..Len(q) /\ k # Len(q)
        BY <2>2, <3>3, <2>3 DEF Picks
      <4>2. Len(q) \in 1..Len(q)
        BY <2>2, <3>3
      <4> QED BY <4>1, <4>2
    <3>5. \A k \in 1..Len(q) : k \in 1..Len(r) \/ k = Len(q)
      BY <2>2, <3>3
    <3> HIDE DEF to
    <3>6. to \in [1..Len(q) -> 1..n]
      <4>1. to = [k \in 1..Len(q) |-> to[k]]
        BY <3>4 DEF to
      <4>2. \A k \in 1..Len(q) : to[k] \in 1..n
        BY <2>1, <3>4, <3>5
      <4> QED BY <4>1, <4>2
    <3>7. \A k, l \in 1..Len(q) : k < l => to[k] < to[l]
      <4>1. \A k, l \in 1..Len(r) : k < l => to[k] < to[l]
        BY <2>3, <3>4 DEF Picks
      <4>2. \A k \in 1..Len(r) : to[k] < n
        BY <2>1, <3>4
      <4>3. \A k \in 1..Len(q) : ~(Len(q) < k)
        BY <2>2, <3>3
      <4> QED BY <4>1, <4>2, <4>3, <3>4, <3>5
    <3>8. \A k \in 1..Len(q) : q[k] = list[to[k]] /\ q[k] \in keep
      <4>1. \A k \in 1..Len(r) : q[k] = list[to[k]] /\ q[k] \in keep
        BY <2>3, <3>3, <3>4 DEF Picks
      <4> QED BY <4>1, <2>4, <3>3, <3>4, <3>5
    <3>9. ASSUME NEW p \in 1..n, list[p] \in keep
          PROVE  \E k \in 1..Len(q) : to[k] = p
      <4>1. CASE p = n
        <5>1. Len(q) \in 1..Len(q)
          BY <2>2, <3>3
        <5> QED BY <4>1, <5>1, <3>4
      <4>2. CASE p # n
        <5>1. PICK k \in 1..Len(r) : at[k] = p
          BY <4>2, <3>9, <2>1, <2>3 DEF Picks
        <5>2. k \in 1..Len(q)
          BY <2>2, <3>3
        <5> QED BY <5>1, <5>2, <3>4
      <4> QED BY <4>1, <4>2
    <3>10. Picks(list, keep, n, q, to)
      BY <3>6, <3>7, <3>8, <3>9 DEF Picks
    <3> QED BY <3>1, <3>3, <3>10, <1>4
  <2>5. CASE list[n] \notin keep
    <3>1. upTo[n] = r
      BY <1>5, <1>7, <2>1, <2>5
    <3> HIDE DEF r
    <3>2. Picks(list, keep, n, r, at)
      <4>1. at \in [1..Len(r) -> 1..n]
        BY <2>1, <2>2, <2>3 DEF Picks
      <4>2. \A p \in 1..n : list[p] \in keep => p \in 1..(n - 1)
        BY <2>1, <2>5
      <4> QED BY <4>1, <4>2, <2>3 DEF Picks
    <3> QED BY <3>1, <3>2, <2>2, <1>4
  <2> QED BY <2>4, <2>5
<1> QED BY <1>6, <1>7

LEMMA SelectionMembers ==
  ASSUME NEW S, NEW list \in Seq(S), NEW keep
  PROVE  ToSet(selected(list, keep)) = ToSet(list) \cap keep
<1> DEFINE r == selected(list, keep)
<1>1. r \in Seq(S)
  BY Selection
<1>2. PICK at : Picks(list, keep, Len(list), r, at)
  BY Selection
<1> HIDE DEF r
<1>3. DOMAIN r = 1..Len(r) /\ DOMAIN list = 1..Len(list)
  BY <1>1
<1>4. ASSUME NEW k \in 1..Len(r)
      PROVE  r[k] \in ToSet(list) \cap keep
  BY <1>2, <1>3 DEF Picks, ToSet
<1>5. ASSUME NEW p \in 1..Len(list), list[p] \in keep
      PROVE  \E k \in 1..Len(r) : r[k] = list[p]
  BY <1>2, <1>5 DEF Picks
<1>6. ToSet(r) = ToSet(list) \cap keep
  BY <1>3, <1>4, <1>5 DEF ToSet
<1> QED BY <1>6 DEF r

-----------------------------------------------------------------------------
(* How often a name occurs.                                                *)

Places(n, s) == {k \in 1..Len(s) : s[k] = n}

LEMMA PlacesAreFinite ==
  ASSUME NEW S, NEW s \in Seq(S), NEW n
  PROVE  /\ IsFiniteSet(Places(n, s))
         /\ Times(n, s) = Cardinality(Places(n, s)) /\ Times(n, s) \in Nat
<1>1. IsFiniteSet(1..Len(s))
  BY FS_Interval
<1>2. IsFiniteSet(Places(n, s))
  BY <1>1, FS_Subset DEF Places
<1> QED BY <1>2, FS_CardinalityType DEF Places, Times

LEMMA SameSize ==
  ASSUME NEW S, NEW T, IsFiniteSet(T), NEW f \in [S -> T],
         \A a, b \in S : f[a] = f[b] => a = b,
         \A t \in T : \E a \in S : f[a] = t
  PROVE  Cardinality(S) = Cardinality(T)
<1>1. f \in Injection(S, T)
  BY DEF Injection, IsInjective
<1>2. f \in Surjection(S, T)
  BY DEF Surjection
<1> QED BY <1>1, <1>2, FS_Injection

LEMMA TimesSelected ==
  ASSUME NEW S, NEW list \in Seq(S), NEW keep, NEW n \in keep
  PROVE  Times(n, selected(list, keep)) = Times(n, list)
<1> DEFINE r == selected(list, keep)
<1>1. r \in Seq(S)
  BY Selection
<1>2. PICK at : Picks(list, keep, Len(list), r, at)
  BY Selection
<1> HIDE DEF r
<1> DEFINE to == [k \in Places(n, r) |-> at[k]]
<1>3. /\ \A k \in 1..Len(r) : at[k] \in 1..Len(list) /\ r[k] = list[at[k]]
      /\ \A k, l \in 1..Len(r) : k < l => at[k] < at[l]
      /\ \A p \in 1..Len(list) : list[p] = n => \E k \in 1..Len(r) : at[k] = p
  BY <1>2 DEF Picks
<1>4. to \in [Places(n, r) -> Places(n, list)]
  BY <1>3 DEF Places
<1>5. \A k, l \in Places(n, r) : to[k] = to[l] => k = l
  <2>1. \A k, l \in 1..Len(r) : at[k] = at[l] => k = l
    BY <1>1, <1>3
  <2> QED BY <2>1 DEF Places
<1>6. \A p \in Places(n, list) : \E k \in Places(n, r) : to[k] = p
  BY <1>3 DEF Places
<1>7. Cardinality(Places(n, r)) = Cardinality(Places(n, list))
  <2> HIDE DEF to
  <2> QED BY <1>4, <1>5, <1>6, PlacesAreFinite, SameSize
<1> QED BY <1>1, <1>7, PlacesAreFinite DEF r

LEMMA TimesConcat ==
  ASSUME NEW S, NEW s \in Seq(S), NEW t \in Seq(S), NEW n
  PROVE  Times(n, s \o t) = Times(n, s) + Times(n, t)
<1> DEFINE u == s \o t
           B == {k \in (Len(s) + 1)..(Len(s) + Len(t)) : t[k - Len(s)] = n}
           f == [k \in Places(n, t) |-> k + Len(s)]
<1>1. /\ u \in Seq(S) /\ Len(u) = Len(s) + Len(t) /\ Len(s) \in Nat /\ Len(t) \in Nat
      /\ \A k \in 1..Len(u) : u[k] = IF k <= Len(s) THEN s[k] ELSE t[k - Len(s)]
  OBVIOUS
<1> HIDE DEF u
<1>2. Places(n, u) = Places(n, s) \cup B /\ Places(n, s) \cap B = {}
  BY <1>1 DEF Places
<1>3. IsFiniteSet(B)
  <2>1. B \subseteq Places(n, u)
    BY <1>2
  <2> QED BY <2>1, <1>1, PlacesAreFinite, FS_Subset
<1>4. Cardinality(B) = Cardinality(Places(n, t))
  <2>1. f \in [Places(n, t) -> B]
    BY <1>1 DEF Places
  <2>2. \A k, l \in Places(n, t) : f[k] = f[l] => k = l
    BY <1>1 DEF Places
  <2>3. \A p \in B : \E k \in Places(n, t) : f[k] = p
    <3> SUFFICES ASSUME NEW p \in B PROVE \E k \in Places(n, t) : f[k] = p
      OBVIOUS
    <3>1. p - Len(s) \in Places(n, t) /\ f[p - Len(s)] = p
      BY <1>1 DEF Places
    <3> QED BY <3>1
  <2> HIDE DEF f, B
  <2> QED BY <2>1, <2>2, <2>3, <1>3, SameSize
<1>5. Cardinality(Places(n, u)) = Cardinality(Places(n, s)) + Cardinality(B)
  <2> HIDE DEF B
  <2>1. IsFiniteSet(Places(n, s)) /\ Cardinality(Places(n, s)) \in Nat
    BY PlacesAreFinite
  <2>2. Cardinality(B) \in Nat /\ Cardinality({}) = 0
    BY <1>3, FS_CardinalityType, FS_EmptySet
  <2>3. Cardinality(Places(n, s) \cup B) =
          Cardinality(Places(n, s)) + Cardinality(B) - Cardinality(Places(n, s) \cap B)
    BY <1>3, <2>1, FS_Union
  <2>4. Cardinality(Places(n, u)) = Cardinality(Places(n, s)) + Cardinality(B) - 0
    BY <1>2, <2>2, <2>3, Zenon
  <2> QED BY <2>1, <2>2, <2>4
<1> QED BY <1>1, <1>4, <1>5, PlacesAreFinite DEF u

LEMMA TimesNone ==
  ASSUME NEW S, NEW s \in Seq(S), NEW n, n \notin ToSet(s)
  PROVE  Times(n, s) = 0
<1>1. Places(n, s) = {}
  BY DEF Places, ToSet
<1> QED BY <1>1, PlacesAreFinite, FS_EmptySet

LEMMA TimesOnce ==
  ASSUME NEW S, NEW s \in Seq(S), IsInjective(s), NEW n \in ToSet(s)
  PROVE  Times(n, s) = 1
<1>1. PICK k \in 1..Len(s) : s[k] = n
  BY DEF ToSet
<1>2. Places(n, s) = {k}
  BY <1>1 DEF Places, IsInjective
<1> QED BY <1>2, PlacesAreFinite, FS_Singleton

(* The place of a name in a list that has it once.                         *)
LEMMA FoundAt ==
  ASSUME NEW S, NEW s \in Seq(S), IsInjective(s), NEW p \in 1..Len(s)
  PROVE  FirstPlace(s[p], s) = p
<1>1. {k \in 1..Len(s) : s[k] = s[p]} = {p}
  BY DEF IsInjective
<1>2. Min({p}) = p
  BY DEF Min
<1> QED BY <1>1, <1>2 DEF FirstPlace, SelectInSeq

-----------------------------------------------------------------------------
(* The router, on any list and any set of instances.                       *)

LEMMA ToSetConcat ==
  ASSUME NEW S, NEW s \in Seq(S), NEW t \in Seq(S)
  PROVE  ToSet(s \o t) = ToSet(s) \cup ToSet(t)
<1> DEFINE u == s \o t
<1>1. /\ u \in Seq(S) /\ Len(u) = Len(s) + Len(t) /\ Len(s) \in Nat /\ Len(t) \in Nat
      /\ \A k \in 1..Len(u) : u[k] = IF k <= Len(s) THEN s[k] ELSE t[k - Len(s)]
  OBVIOUS
<1> HIDE DEF u
<1>2. DOMAIN u = 1..Len(u) /\ DOMAIN s = 1..Len(s) /\ DOMAIN t = 1..Len(t)
  BY <1>1
<1>3. \A k \in 1..Len(u) : u[k] \in ToSet(s) \cup ToSet(t)
  <2>1. \A k \in 1..Len(u) : \/ k \in 1..Len(s) /\ u[k] = s[k]
                             \/ k - Len(s) \in 1..Len(t) /\ u[k] = t[k - Len(s)]
    BY <1>1
  <2> QED BY <2>1, <1>2 DEF ToSet
<1>4. \A k \in 1..Len(s) : k \in 1..Len(u) /\ u[k] = s[k]
  BY <1>1
<1>5. \A k \in 1..Len(t) : k + Len(s) \in 1..Len(u) /\ u[k + Len(s)] = t[k]
  BY <1>1
<1>6. ToSet(u) = ToSet(s) \cup ToSet(t)
  <2>1. ToSet(u) \subseteq ToSet(s) \cup ToSet(t)
    BY <1>2, <1>3 DEF ToSet
  <2>2. ToSet(s) \subseteq ToSet(u) /\ ToSet(t) \subseteq ToSet(u)
    BY <1>2, <1>4, <1>5 DEF ToSet
  <2> QED BY <2>1, <2>2
<1> QED BY <1>6 DEF u

(* orderViews loses and invents nobody.                                    *)
LEMMA OrderViewsMembers ==
  ASSUME NEW S, NEW list \in Seq(S), NEW available \in Seq(S)
  PROVE  /\ orderViews(list, available) \in Seq(S)
         /\ ToSet(orderViews(list, available)) = ToSet(available)
<1> DEFINE A == selected(list, ToSet(available))
           B == Unlisted(list, available)
<1>1. A \in Seq(S) /\ ToSet(A) = ToSet(list) \cap ToSet(available)
  BY Selection, SelectionMembers
<1>2. B \in Seq(S) /\ ToSet(B) = ToSet(available) \ ToSet(list)
  BY Selection, SelectionMembers DEF Unlisted
<1>3. orderViews(list, available) = IF list = <<>> THEN available ELSE A \o B
  BY DEF orderViews
<1> HIDE DEF A, B
<1>4. A \o B \in Seq(S) /\ ToSet(A \o B) = ToSet(available)
  <2>1. ToSet(A \o B) = ToSet(A) \cup ToSet(B)
    BY <1>1, <1>2, ToSetConcat
  <2>2. A \o B \in Seq(S)
    BY <1>1, <1>2
  <2> QED BY <2>1, <2>2, <1>1, <1>2
<1> QED BY <1>3, <1>4

(* Each name as often as the list has it, or once.                         *)
LEMMA OrderViewsTimes ==
  ASSUME NEW S, NEW list \in Seq(S), NEW available \in Seq(S), IsInjective(available),
         NEW n \in ToSet(available)
  PROVE  Times(n, orderViews(list, available)) = IF n \in ToSet(list) THEN Times(n, list) ELSE 1
<1> DEFINE A == selected(list, ToSet(available))
           B == Unlisted(list, available)
<1>1. A \in Seq(S) /\ ToSet(A) = ToSet(list) \cap ToSet(available) /\ Times(n, A) = Times(n, list)
  BY Selection, SelectionMembers, TimesSelected
<1>2. /\ B \in Seq(S) /\ ToSet(B) = ToSet(available) \ ToSet(list)
      /\ n \notin ToSet(list) => Times(n, B) = Times(n, available)
  <2> DEFINE keep == ToSet(available) \ ToSet(list)
  <2>1. B = selected(available, keep)
    BY DEF Unlisted
  <2>2. B \in Seq(S) /\ ToSet(B) = ToSet(available) \cap keep
    BY <2>1, Selection, SelectionMembers
  <2>3. n \in keep => Times(n, B) = Times(n, available)
    BY <2>1, TimesSelected
  <2> QED BY <2>2, <2>3
<1>3. orderViews(list, available) = IF list = <<>> THEN available ELSE A \o B
  BY DEF orderViews
<1> HIDE DEF A, B
<1>4. Times(n, A \o B) = Times(n, A) + Times(n, B)
  BY <1>1, <1>2, TimesConcat
<1>5. Times(n, available) = 1
  BY TimesOnce
<1>6. CASE n \in ToSet(list)
  <2>1. Times(n, B) = 0 /\ Times(n, A) \in Nat /\ list # <<>>
    BY <1>1, <1>2, <1>6, TimesNone, PlacesAreFinite DEF ToSet
  <2> QED BY <2>1, <1>1, <1>3, <1>4, <1>6
<1>7. CASE n \notin ToSet(list)
  <2>1. Times(n, A) = 0
    BY <1>1, <1>7, TimesNone
  <2> QED BY <2>1, <1>2, <1>3, <1>4, <1>5, <1>7
<1> QED BY <1>6, <1>7

RankIn(n, list, available) ==
  IF n \in ToSet(list) THEN FirstPlace(n, list) ELSE Len(list) + FirstPlace(n, available)

ByRank(s, list, available) ==
  \A p, q \in 1..Len(s) : p < q => RankIn(s[p], list, available) < RankIn(s[q], list, available)

LEMMA RankFacts ==
  ASSUME NEW S, NEW list \in Seq(S), NEW available \in Seq(S),
         IsInjective(list), IsInjective(available)
  PROVE  /\ \A p \in 1..Len(list) : RankIn(list[p], list, available) = p
         /\ \A p \in 1..Len(available) : available[p] \notin ToSet(list) =>
              RankIn(available[p], list, available) = Len(list) + p
<1>1. \A p \in 1..Len(list) : list[p] \in ToSet(list)
  BY DEF ToSet
<1> QED BY <1>1, FoundAt DEF RankIn

(* The listed ones in the list's order, the others behind in the set's.    *)
LEMMA OrderViewsByRank ==
  ASSUME NEW S, NEW list \in Seq(S), NEW available \in Seq(S),
         IsInjective(list), IsInjective(available)
  PROVE  ByRank(orderViews(list, available), list, available)
<1> DEFINE A == selected(list, ToSet(available))
           B == Unlisted(list, available)
           all == A \o B
           keep == ToSet(available) \ ToSet(list)
<1>1. /\ \A p \in 1..Len(list) : RankIn(list[p], list, available) = p
      /\ \A p \in 1..Len(available) : available[p] \notin ToSet(list) =>
           RankIn(available[p], list, available) = Len(list) + p
      /\ Len(list) \in Nat /\ Len(available) \in Nat
  BY RankFacts
<1>2. CASE list = <<>>
  <2>1. \A p \in 1..Len(available) : RankIn(available[p], list, available) = p
    BY <1>1, <1>2 DEF ToSet
  <2> QED BY <1>2, <2>1 DEF orderViews, ByRank
<1>3. CASE list # <<>>
  <2>1. A \in Seq(S) /\ B \in Seq(S)
    BY Selection DEF Unlisted
  <2>2. PICK at : Picks(list, ToSet(available), Len(list), A, at)
    BY Selection
  <2>3. PICK bt : Picks(available, keep, Len(available), B, bt)
    BY Selection DEF Unlisted
  <2> HIDE DEF A, B
  <2>4. /\ Len(all) = Len(A) + Len(B) /\ Len(A) \in Nat /\ Len(B) \in Nat
        /\ \A k \in 1..Len(all) : all[k] = IF k <= Len(A) THEN A[k] ELSE B[k - Len(A)]
    BY <2>1
  <2> DEFINE rank(k) == RankIn(all[k], list, available)
  <2>5. ASSUME NEW k \in 1..Len(A)
        PROVE  k \in 1..Len(all) /\ rank(k) = at[k] /\ at[k] \in 1..Len(list)
    <3>1. at[k] \in 1..Len(list) /\ A[k] = list[at[k]]
      BY <2>2 DEF Picks
    <3>2. k \in 1..Len(all) /\ all[k] = A[k]
      BY <2>4
    <3> QED BY <1>1, <3>1, <3>2
  <2>6. ASSUME NEW k \in 1..Len(B)
        PROVE  /\ k + Len(A) \in 1..Len(all) /\ bt[k] \in 1..Len(available)
               /\ rank(k + Len(A)) = Len(list) + bt[k]
    <3>1. bt[k] \in 1..Len(available) /\ B[k] = available[bt[k]] /\ B[k] \notin ToSet(list)
      BY <2>3 DEF Picks
    <3>2. k + Len(A) \in 1..Len(all) /\ all[k + Len(A)] = B[k]
      BY <2>4
    <3> QED BY <1>1, <3>1, <3>2
  <2>7. ASSUME NEW p \in 1..Len(all), NEW q \in 1..Len(all), p < q
        PROVE  rank(p) < rank(q)
    <3> HIDE DEF all, rank
    <3>1. \A k, l \in 1..Len(A) : k < l => at[k] < at[l]
      BY <2>2 DEF Picks
    <3>2. \A k, l \in 1..Len(B) : k < l => bt[k] < bt[l]
      BY <2>3 DEF Picks
    <3>3. CASE q <= Len(A)
      <4>1. p \in 1..Len(A) /\ q \in 1..Len(A)
        BY <2>4, <2>7, <3>3
      <4> QED BY <4>1, <2>5, <2>7, <3>1
    <3>4. CASE p <= Len(A) /\ q > Len(A)
      <4>1. p \in 1..Len(A) /\ q - Len(A) \in 1..Len(B) /\ q = (q - Len(A)) + Len(A)
        BY <2>4, <3>4
      <4>2. rank(q) = Len(list) + bt[q - Len(A)] /\ bt[q - Len(A)] \in 1..Len(available)
        BY <4>1, <2>6
      <4>3. rank(p) = at[p] /\ at[p] \in 1..Len(list)
        BY <4>1, <2>5
      <4>4. at[p] < Len(list) + bt[q - Len(A)]
        BY <4>2, <4>3, <1>1
      <4> QED BY <4>2, <4>3, <4>4
    <3>5. CASE p > Len(A)
      <4>1. /\ p - Len(A) \in 1..Len(B) /\ p = (p - Len(A)) + Len(A)
            /\ q - Len(A) \in 1..Len(B) /\ q = (q - Len(A)) + Len(A)
            /\ p - Len(A) < q - Len(A)
        BY <2>4, <2>7, <3>5
      <4>2. /\ rank(p) = Len(list) + bt[p - Len(A)] /\ bt[p - Len(A)] \in 1..Len(available)
            /\ rank(q) = Len(list) + bt[q - Len(A)] /\ bt[q - Len(A)] \in 1..Len(available)
        BY <4>1, <2>6
      <4>3. bt[p - Len(A)] < bt[q - Len(A)]
        BY <4>1, <3>2
      <4> QED BY <4>2, <4>3, <1>1
    <3> QED BY <2>4, <3>3, <3>4, <3>5
  <2>8. orderViews(list, available) = all
    BY <1>3 DEF orderViews, A, B
  <2> QED BY <2>7, <2>8 DEF ByRank
<1> QED BY <1>2, <1>3

(* Route: the supporting ones if there are any, all of them otherwise, by  *)
(* rank and as often as the list has them either way.                      *)
LEMMA RouteFacts ==
  ASSUME NEW S, NEW list \in Seq(S), NEW available \in Seq(S), IsInjective(available), NEW able
  PROVE  LET r == RouteStatic(list, available, able) IN
         /\ r \in Seq(S)
         /\ ToSet(r) = IF ToSet(available) \cap able # {} THEN ToSet(available) \cap able
                                                         ELSE ToSet(available)
         /\ \A n \in ToSet(r) : Times(n, r) = IF n \in ToSet(list) THEN Times(n, list) ELSE 1
         /\ IsInjective(list) => ByRank(r, list, available)
<1> DEFINE all == orderViews(list, available)
           sup == selected(all, able)
           r   == RouteStatic(list, available, able)
<1>1. /\ all \in Seq(S) /\ ToSet(all) = ToSet(available)
      /\ \A n \in ToSet(available) :
           Times(n, all) = IF n \in ToSet(list) THEN Times(n, list) ELSE 1
      /\ IsInjective(list) => ByRank(all, list, available)
  BY OrderViewsMembers, OrderViewsTimes, OrderViewsByRank
<1> HIDE DEF all
<1>2. /\ sup \in Seq(S) /\ ToSet(sup) = ToSet(all) \cap able
      /\ \A n \in able : Times(n, sup) = Times(n, all)
  BY <1>1, Selection, SelectionMembers, TimesSelected
<1>3. PICK at : Picks(all, able, Len(all), sup, at)
  BY <1>1, Selection
<1> HIDE DEF sup
<1>4. r = IF sup # <<>> THEN sup ELSE all
  BY DEF RouteStatic, supporting, all, sup
<1>5. sup = <<>> <=> ToSet(available) \cap able = {}
  <2>1. sup = <<>> <=> ToSet(sup) = {}
    BY <1>2 DEF ToSet
  <2> QED BY <2>1, <1>1, <1>2
<1>6. ByRank(all, list, available) => ByRank(sup, list, available)
  <2> SUFFICES ASSUME ByRank(all, list, available),
                      NEW p \in 1..Len(sup), NEW q \in 1..Len(sup), p < q
               PROVE  RankIn(sup[p], list, available) < RankIn(sup[q], list, available)
    BY DEF ByRank
  <2>1. /\ at[p] \in 1..Len(all) /\ at[q] \in 1..Len(all) /\ at[p] < at[q]
        /\ sup[p] = all[at[p]] /\ sup[q] = all[at[q]]
    BY <1>3 DEF Picks
  <2>2. RankIn(all[at[p]], list, available) < RankIn(all[at[q]], list, available)
    BY <2>1 DEF ByRank
  <2> QED BY <2>1, <2>2
<1>7. r \in Seq(S) /\ ToSet(r) = IF ToSet(available) \cap able # {} THEN ToSet(available) \cap able
                                                                   ELSE ToSet(available)
  BY <1>1, <1>2, <1>4, <1>5
<1>8. \A n \in ToSet(r) : Times(n, r) = IF n \in ToSet(list) THEN Times(n, list) ELSE 1
  <2>1. CASE sup = <<>>
    BY <2>1, <1>1, <1>4
  <2>2. CASE sup # <<>>
    <3>1. r = sup
      BY <2>2, <1>4
    <3>2. \A n \in ToSet(sup) : n \in ToSet(available) /\ n \in able
      BY <1>1, <1>2
    <3> QED BY <3>1, <3>2, <1>1, <1>2
  <2> QED BY <2>1, <2>2
<1>9. IsInjective(list) => ByRank(r, list, available)
  BY <1>1, <1>4, <1>6
<1> HIDE DEF r
<1> QED BY <1>7, <1>8, <1>9 DEF r

-----------------------------------------------------------------------------
(* The start.                                                              *)

Settings == [name: Names \cup {Empty, Var}, use: Texts]

LEMMA FileFacts ==
  ASSUME NEW f \in Files, NEW e \in Envs
  PROVE  /\ f \in [address: Texts, timeout: Int, router: Texts, providers: Seq(Settings)]
         /\ Len(f.providers) \in Nat /\ DOMAIN f.providers = 1..Len(f.providers)
         /\ \A k \in 1..Len(f.providers) : expand(f.providers[k].name, e) \in Names \cup {Empty}
<1>1. f \in [address: Texts, timeout: Int, router: Texts, providers: Seq(Settings)]
  BY FilesAssumption DEF Settings
<1>2. f.providers \in Seq(Settings)
  BY <1>1
<1>3. \A k \in 1..Len(f.providers) : f.providers[k].name \in Names \cup {Empty, Var}
  <2>1. \A k \in 1..Len(f.providers) : f.providers[k] \in Settings
    BY <1>2
  <2> QED BY <2>1 DEF Settings
<1>4. e.VAR \in Names \cup {Empty}
  BY EnvsAssumption
<1> QED BY <1>1, <1>2, <1>3, <1>4 DEF expand

(* What parse makes of a file, whatever the file left out.                 *)
LEMMA ParseFacts ==
  ASSUME NEW f \in Files, NEW e \in Envs
  PROVE  LET c == parse(f, e) IN
         /\ c.timeout \in Int /\ c.timeout > 0 /\ c.router # Empty /\ c.address # Empty
         /\ Len(c.providers) = Len(f.providers)
         /\ DOMAIN c.providers = 1..Len(f.providers)
         /\ \A k \in 1..Len(f.providers) :
              /\ c.providers[k].name = expand(f.providers[k].name, e)
              /\ c.providers[k].name \in Names \cup {Empty}
<1> DEFINE x == expanded(f, e)
           y == applyEnvOverrides(x, e)
           z == applyDefaults(y)
<1>1. /\ f \in [address: Texts, timeout: Int, router: Texts, providers: Seq(Settings)]
      /\ Len(f.providers) \in Nat /\ DOMAIN f.providers = 1..Len(f.providers)
      /\ \A k \in 1..Len(f.providers) : expand(f.providers[k].name, e) \in Names \cup {Empty}
  BY FileFacts
<1> DEFINE ps == [k \in 1..Len(f.providers) |->
                   [name |-> expand(f.providers[k].name, e), use |-> expand(f.providers[k].use, e)]]
<1>2. /\ x = [f EXCEPT !.providers = ps]
      /\ x.providers = ps /\ x.timeout = f.timeout
      /\ DOMAIN x = {"address", "timeout", "router", "providers"}
  BY <1>1 DEF expanded
<1>3. /\ y.providers = ps /\ y.timeout = f.timeout
      /\ DOMAIN y = {"address", "timeout", "router", "providers"}
  BY <1>2 DEF applyEnvOverrides
<1>4. /\ z.providers = ps
      /\ z.timeout = IF y.timeout <= 0 THEN DefaultTimeout ELSE y.timeout
      /\ z.router = IF y.router = Empty THEN StaticRouter ELSE y.router
      /\ z.address = IF y.address = Empty THEN DefaultAddress ELSE y.address
  BY <1>3 DEF applyDefaults
<1>5. Len(ps) = Len(f.providers) /\ DOMAIN ps = 1..Len(f.providers)
  BY <1>1
<1>6. \A k \in 1..Len(f.providers) : ps[k].name = expand(f.providers[k].name, e)
  OBVIOUS
<1>7. z.timeout \in Int /\ z.timeout > 0
  <2>1. f.timeout \in Int
    BY <1>1
  <2> HIDE DEF z, y
  <2> QED BY <2>1, <1>3, <1>4 DEF DefaultTimeout
<1>8. z.router # Empty /\ z.address # Empty
  <2> HIDE DEF z, y
  <2> QED BY <1>4 DEF StaticRouter, DefaultAddress, Empty
<1>9. parse(f, e) = z
  BY DEF parse
<1> HIDE DEF z, ps
<1> QED BY <1>1, <1>4, <1>5, <1>6, <1>7, <1>8, <1>9

(* The set is what has been built of the configuration, in its order.      *)
Built ==
  /\ built \in 0..Len(cfg.providers) /\ Len(cfg.providers) \in Nat
  /\ order \in Seq(Names) /\ Len(order) = built
  /\ DOMAIN byName = ToSet(order)
  /\ \A k \in 1..built : order[k] = cfg.providers[k].name /\ byName[order[k]] = k
  /\ DOMAIN cfg.providers = 1..Len(cfg.providers)

StartInv ==
  /\ file \in Files /\ env \in Envs
  /\ phase \in {"start", "building", "ready", "rejected"}
  /\ cfg.timeout \in Int
  /\ phase = "start" => built = 0
  /\ phase \in {"building", "ready"} => cfg = parse(file, env) /\ validate(cfg)
  /\ phase = "ready" => built = Len(cfg.providers)
  /\ cfgOrder \in Orders
  /\ Built
  /\ supports \subseteq Names
  /\ refs \in Seq(DOMAIN byName)

LEMMA InitStart == Init => StartInv
<1> SUFFICES ASSUME Init PROVE StartInv
  OBVIOUS
<1>1. /\ cfg.timeout \in Int /\ Len(cfg.providers) \in Nat
      /\ DOMAIN cfg.providers = 1..Len(cfg.providers)
  BY FileFacts DEF Init
<1>2. <<>> \in Seq(Names) /\ Len(<<>>) = 0 /\ ToSet(<<>>) = {} /\ DOMAIN <<>> = {}
  BY DEF ToSet
<1>3. Built
  BY <1>1, <1>2 DEF Built, Init
<1> QED BY <1>1, <1>3, OrdersAssumption DEF StartInv, Init

(* A name is built once, because validate rejects the others.              *)
LEMMA DistinctNames ==
  ASSUME StartInv, phase \in {"building", "ready"}
  PROVE  IsInjective(order)
<1>1. DOMAIN order = 1..built
  BY DEF StartInv, Built
<1>2. \A k, l \in 1..built : k \in 1..Len(cfg.providers) /\ l \in 1..Len(cfg.providers)
  BY DEF StartInv, Built
<1>3. \A k, l \in 1..Len(cfg.providers) :
        cfg.providers[k].name = cfg.providers[l].name => k = l
  BY DEF StartInv, Built, validate
<1> QED BY <1>1, <1>2, <1>3 DEF StartInv, Built, IsInjective

LEMMA ProviderBuilt == StartInv /\ BuildProvider => StartInv'
<1> SUFFICES ASSUME StartInv, BuildProvider PROVE StartInv'
  OBVIOUS
<1> DEFINE name == cfg.providers[built + 1].name
<1>1. /\ phase = "building" /\ built < Len(cfg.providers)
      /\ built' = built + 1 /\ order' = AddToOrder(name)
      /\ byName' = [n \in DOMAIN byName \cup {name} |->
                     IF n = name THEN built + 1 ELSE byName[n]]
      /\ UNCHANGED <<phase, input, cfg, cfgOrder, supports, refs>>
  BY DEF BuildProvider, Add
<1>2. cfg = parse(file, env) /\ validate(cfg) /\ file \in Files /\ env \in Envs
  BY <1>1 DEF StartInv
<1>3. /\ built \in Nat /\ built + 1 \in 1..Len(cfg.providers) /\ Len(cfg.providers) \in Nat
      /\ DOMAIN cfg.providers = 1..Len(cfg.providers)
  BY <1>1 DEF StartInv, Built
<1>4. name \in Names
  <2>1. cfg.providers[built + 1].name \in Names \cup {Empty}
    BY <1>2, <1>3, ParseFacts
  <2>2. cfg.providers[built + 1].name # Empty
    BY <1>2, <1>3 DEF validate, Named
  <2> QED BY <2>1, <2>2
<1>5. \A k \in 1..built : order[k] # name
  <2>1. \A k \in 1..built : k \in 1..Len(cfg.providers) /\ k # built + 1
    BY <1>3
  <2>2. \A k \in 1..built : cfg.providers[k].name # name
    BY <1>2, <1>3, <2>1 DEF validate
  <2> QED BY <2>2 DEF StartInv, Built
<1> HIDE DEF name
<1>6. name \notin DOMAIN byName
  <2>1. DOMAIN order = 1..built /\ DOMAIN byName = ToSet(order)
    BY DEF StartInv, Built
  <2> QED BY <2>1, <1>5 DEF ToSet
<1>7. order' = Append(order, name)
  BY <1>1, <1>6 DEF AddToOrder
<1>8. /\ order' \in Seq(Names) /\ Len(order') = built + 1
      /\ \A k \in 1..built : order'[k] = order[k]
      /\ order'[built + 1] = name
  BY <1>3, <1>4, <1>7 DEF StartInv, Built
<1>9. ToSet(order') = ToSet(order) \cup {name}
  <2>1. DOMAIN order = 1..built /\ DOMAIN order' = 1..(built + 1)
    BY <1>8 DEF StartInv, Built
  <2>2. \A k \in 1..(built + 1) : k \in 1..built \/ k = built + 1
    BY <1>3
  <2>3. \A k \in 1..built : k \in 1..(built + 1)
    BY <1>3
  <2>4. built + 1 \in 1..(built + 1)
    BY <1>3
  <2> QED BY <2>1, <2>2, <2>3, <2>4, <1>8 DEF ToSet
<1>10. DOMAIN byName' = ToSet(order')
  BY <1>1, <1>9 DEF StartInv, Built
<1>11. \A k \in 1..built' : order'[k] = cfg.providers[k].name /\ byName'[order'[k]] = k
  <2> SUFFICES ASSUME NEW k \in 1..built'
               PROVE  order'[k] = cfg.providers[k].name /\ byName'[order'[k]] = k
    OBVIOUS
  <2>1. CASE k = built + 1
    BY <2>1, <1>1, <1>8 DEF name
  <2>2. CASE k # built + 1
    <3>1. k \in 1..built /\ order'[k] = order[k] /\ order[k] # name
      BY <2>2, <1>1, <1>3, <1>5, <1>8
    <3>2. order[k] \in DOMAIN byName /\ order[k] = cfg.providers[k].name /\ byName[order[k]] = k
      BY <3>1 DEF StartInv, Built, ToSet
    <3> QED BY <3>1, <3>2, <1>1
  <2> QED BY <2>1, <2>2
<1>12. Built'
  <2>1. cfg' = cfg /\ built' = built + 1
    BY <1>1
  <2>2. built' \in 0..Len(cfg'.providers)
    BY <2>1, <1>3
  <2> HIDE DEF name
  <2> QED BY <2>1, <2>2, <1>3, <1>8, <1>10, <1>11, Zenon DEF Built
<1>13. refs' \in Seq(DOMAIN byName')
  <2>1. DOMAIN byName \subseteq DOMAIN byName'
    BY <1>1
  <2>2. refs \in Seq(DOMAIN byName)
    BY DEF StartInv
  <2> QED BY <2>1, <2>2, <1>1, SeqMonotonic
<1> QED BY <1>1, <1>12, <1>13 DEF StartInv, input

(* What Route returns, in the states in which it is called.                *)
LEMMA Routed ==
  ASSUME StartInv, Route
  PROVE  /\ supports' \subseteq Names
         /\ refs' \in Seq(ToSet(order))
         /\ ToSet(refs') = IF ToSet(order) \cap supports' # {} THEN ToSet(order) \cap supports'
                                                               ELSE ToSet(order)
         /\ \A n \in ToSet(refs') :
              Times(n, refs') = IF n \in ToSet(cfgOrder) THEN Times(n, cfgOrder) ELSE 1
         /\ IsInjective(cfgOrder) => ByRank(refs', cfgOrder, order)
<1>1. /\ supports' \subseteq Names
      /\ refs' = RouteStatic(cfgOrder, order, supports')
  BY DEF Route, Views
<1>2. order \in Seq(Names) /\ cfgOrder \in Seq(Names) /\ IsInjective(order)
  BY DistinctNames, OrdersAssumption DEF StartInv, Built, Route
<1>3. /\ refs' \in Seq(Names)
      /\ ToSet(refs') = IF ToSet(order) \cap supports' # {} THEN ToSet(order) \cap supports'
                                                            ELSE ToSet(order)
      /\ \A n \in ToSet(refs') :
           Times(n, refs') = IF n \in ToSet(cfgOrder) THEN Times(n, cfgOrder) ELSE 1
      /\ IsInjective(cfgOrder) => ByRank(refs', cfgOrder, order)
  BY <1>1, <1>2, RouteFacts
<1>4. refs' \in Seq(ToSet(order))
  <2>1. \A k \in 1..Len(refs') : refs'[k] \in ToSet(refs')
    BY <1>3 DEF ToSet
  <2>2. \A k \in 1..Len(refs') : refs'[k] \in ToSet(order)
    BY <2>1, <1>3
  <2> QED BY <2>2, <1>3
<1> QED BY <1>1, <1>3, <1>4

LEMMA StartInvariant == Spec => []StartInv
<1>1. StartInv /\ [Next]_vars => StartInv'
  <2> SUFFICES ASSUME StartInv, [Next]_vars PROVE StartInv'
    OBVIOUS
  <2>1. CASE Load
    <3>1. /\ file \in Files /\ env \in Envs /\ built = 0 /\ order = <<>> /\ DOMAIN byName = ToSet(order)
      BY <2>1 DEF Load, StartInv, Built
    <3>2. /\ cfg'.timeout \in Int /\ Len(cfg'.providers) \in Nat
          /\ DOMAIN cfg'.providers = 1..Len(cfg'.providers)
      BY <2>1, <3>1, ParseFacts, FileFacts DEF Load
    <3>3. built' = built /\ order' = order /\ byName' = byName
      BY <2>1 DEF Load, set
    <3>4. Built'
      BY <3>1, <3>2, <3>3 DEF Built
    <3> QED BY <2>1, <3>2, <3>4 DEF Load, StartInv, input, set
  <2>2. CASE LoadFails
    BY <2>2 DEF LoadFails, Reject, StartInv, Built, input, set
  <2>3. CASE BuildProvider
    BY <2>3, ProviderBuilt
  <2>4. CASE BuildRouter
    BY <2>4 DEF BuildRouter, StartInv, Built, input, set
  <2>5. CASE BuildFails
    BY <2>5 DEF BuildFails, Reject, StartInv, Built, input, set
  <2>6. CASE Route
    <3>1. supports' \subseteq Names /\ refs' \in Seq(DOMAIN byName)
      BY <2>6, Routed DEF StartInv, Built
    <3> QED BY <2>6, <3>1 DEF Route, StartInv, Built, input, set
  <2>7. CASE UNCHANGED vars
    BY <2>7 DEF vars, StartInv, Built, input, set
  <2> QED BY <2>1, <2>2, <2>3, <2>4, <2>5, <2>6, <2>7 DEF Next
<1> QED BY <1>1, InitStart, PTL DEF Spec
-----------------------------------------------------------------------------
(* Every variable holds values of its type; above all, the candidates are  *)
(* providers the set has, so that Complete never skips one of this router. *)
THEOREM TypeCorrect == Spec => []TypeOK
<1>1. StartInv => TypeOK
  <2> SUFFICES ASSUME StartInv PROVE TypeOK
    OBVIOUS
  <2>1. DOMAIN order = 1..built /\ \A k \in 1..built : order[k] \in Names
    BY DEF StartInv, Built
  <2>2. DOMAIN byName \subseteq Names /\ order \in Seq(DOMAIN byName)
    <3>1. \A k \in 1..built : order[k] \in DOMAIN byName
      BY <2>1 DEF StartInv, Built, ToSet
    <3>2. order \in Seq(DOMAIN byName)
      BY <3>1 DEF StartInv, Built
    <3> QED BY <2>1, <3>2 DEF StartInv, Built, ToSet
  <2>3. \A n \in DOMAIN byName : byName[n] \in DOMAIN cfg.providers
    <3>1. \A k \in 1..built : k \in 1..Len(cfg.providers)
      BY DEF StartInv, Built
    <3> QED BY <2>1, <3>1 DEF StartInv, Built, ToSet
  <2> QED BY <2>2, <2>3 DEF StartInv, Built, TypeOK
<1> QED BY <1>1, StartInvariant, PTL

(* A process that serves has an instance for every entry of its file,      *)
(* under its expanded name and in the file's order, and every value the    *)
(* kernel relies on (config.go: parse, applyDefaults, validate;            *)
(* providerset.go: Add).                                                   *)
THEOREM AlwaysStartsAsConfigured == Spec => []StartsAsConfigured
<1>1. StartInv => StartsAsConfigured
  <2> SUFFICES ASSUME StartInv, phase = "ready" PROVE StartsAsConfigured
    BY DEF StartsAsConfigured
  <2>1. /\ cfg = parse(file, env) /\ validate(cfg) /\ file \in Files /\ env \in Envs
        /\ built = Len(cfg.providers)
    BY DEF StartInv
  <2>2. /\ cfg.timeout > 0 /\ cfg.router # Empty /\ cfg.address # Empty
        /\ Len(cfg.providers) = Len(file.providers)
        /\ \A k \in 1..Len(file.providers) :
             cfg.providers[k].name = expand(file.providers[k].name, env)
    BY <2>1, ParseFacts
  <2>3. DOMAIN file.providers = 1..Len(file.providers)
    BY <2>1, FileFacts
  <2>4. order # <<>>
    <3>1. Len(cfg.providers) # 0
      BY <2>1, <2>2, <2>3, ParseFacts DEF validate, StartInv, Built
    <3> QED BY <3>1, <2>1 DEF StartInv, Built
  <2> QED BY <2>1, <2>2, <2>3, <2>4 DEF StartInv, Built, StartsAsConfigured, Views
<1> QED BY <1>1, StartInvariant, PTL

(* Every request is offered to whoever supports its model, and to all if   *)
(* nobody does (static.go: Route).                                         *)
THEOREM NobodyEverLeftOut == Spec => NobodyLeftOut
<1>1. StartInv /\ [Next]_vars =>
        [Route => ToSet(refs') = IF ToSet(order) \cap supports' # {}
                                   THEN ToSet(order) \cap supports' ELSE ToSet(order)]_vars
  BY Routed
<1> QED BY <1>1, StartInvariant, PTL DEF Spec, NobodyLeftOut

(* The candidates come by rank, a listed one as often as it is listed      *)
(* (static.go: orderViews, Route).                                         *)
THEOREM PriorityAlwaysRespected == Spec => PriorityRespected
<1>1. ASSUME StartInv, Route
      PROVE  /\ IsInjective(cfgOrder) =>
                  \A k \in 1..Len(refs') - 1 : Rank(refs'[k]) < Rank(refs'[k + 1])
             /\ \A n \in ToSet(refs') :
                  Times(n, refs') = IF n \in ToSet(cfgOrder) THEN Times(n, cfgOrder) ELSE 1
  <2>1. refs' \in Seq(ToSet(order))
    BY <1>1, Routed
  <2>2. \A k \in 1..Len(refs') - 1 : k \in 1..Len(refs') /\ k + 1 \in 1..Len(refs') /\ k < k + 1
    BY <2>1
  <2>3. \A n : Rank(n) = RankIn(n, cfgOrder, order)
    BY DEF Rank, RankIn
  <2> QED BY <1>1, <2>2, <2>3, Routed DEF ByRank
<1>2. StartInv /\ [Next]_vars =>
        [Route => (/\ IsInjective(cfgOrder) =>
                        \A k \in 1..Len(refs') - 1 : Rank(refs'[k]) < Rank(refs'[k + 1])
                   /\ \A n \in ToSet(refs') :
                        Times(n, refs') = IF n \in ToSet(cfgOrder) THEN Times(n, cfgOrder) ELSE 1)]_vars
  BY <1>1
<1> QED BY <1>2, StartInvariant, PTL DEF Spec, PriorityRespected
=============================================================================
