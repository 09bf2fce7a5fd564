--------------------------- MODULE CompleteProofs ---------------------------
(***************************************************************************)
(* What holds of Engine.Complete for any set of providers, any candidate   *)
(* lists, any timeout and any deadline.                                    *)
(***************************************************************************)
EXTENDS Complete, Integers, TLAPS

(* What the helpers of Trace return.                                       *)
LEMMA AttemptType ==
  ASSUME NEW idx \in Nat, NEW name \in Names, NEW status \in AttemptStatus, NEW usage \in Usages
  PROVE  LET att == buildAttempt(idx, name, status, usage)
         IN  /\ att \in Attempts
             /\ att.index = idx /\ att.provider = name /\ att.status = status
             /\ status # "success" => att.usage = 0
BY UsagesAssumption DEF buildAttempt, Attempts

LEMMA AttemptedFacts ==
  ASSUME NEW t \in Traces, NEW att \in Attempts
  PROVE  /\ attempted(t, att) \in Traces
         /\ attempted(t, att).attempts = Append(t.attempts, att)
         /\ attempted(t, att).status = t.status
         /\ attempted(t, att).provider = t.provider
         /\ attempted(t, att).usage = t.usage
<1>1. t.attempts \in Seq(Attempts)
  BY DEF Traces
<1>2. Append(t.attempts, att) \in Seq(Attempts)
  BY <1>1
<1>3. attempted(t, att) = [t EXCEPT !.attempts = Append(t.attempts, att)]
  BY DEF attempted
<1> QED  BY <1>2, <1>3 DEF Traces

LEMMA FailFacts ==
  ASSUME NEW t \in Traces
  PROVE  /\ fail(t) \in Traces /\ fail(t).status = "error"
         /\ fail(t).attempts = t.attempts
         /\ fail(t).provider = t.provider /\ fail(t).usage = t.usage
BY DEF fail, Traces, AttemptStatus

LEMMA SucceedFacts ==
  ASSUME NEW t \in Traces, NEW att \in Attempts
  PROVE  /\ succeed(t, att) \in Traces /\ succeed(t, att).status = "success"
         /\ succeed(t, att).attempts = t.attempts
         /\ succeed(t, att).provider = att.provider /\ succeed(t, att).usage = att.usage
BY DEF succeed, Traces, Attempts, AttemptStatus

LEMMA NewTraceType == newTrace \in Traces
BY DEF newTrace, Traces

(* The candidate an attempt is made with.                                  *)
AtKnownCandidate == i <= Len(refs) /\ refs[i] \in Providers

(* What a step of Answer does, in the words of the attempt it records.     *)
LEMMA AnswerFacts ==
  ASSUME Answer
  PROVE  \E status \in AttemptStatus, usage \in Usages :
           LET att == buildAttempt(i, refs[i], status, usage)
           IN IF status = "success"
                THEN tr' = succeed(attempted(tr, att), att) /\ pc' = "save"
                ELSE tr' = attempted(tr, att) /\ pc' = "check"
<1>1. PICK end \in GenerateEnds :
        LET att == buildAttempt(i, refs[i], end.status, end.usage)
        IN IF end.status = "success"
             THEN tr' = succeed(attempted(tr, att), att) /\ pc' = "save"
             ELSE tr' = attempted(tr, att) /\ pc' = "check"
  BY DEF Answer
<1>2. end.status \in AttemptStatus /\ end.usage \in Usages
  BY DEF GenerateEnds
<1> QED  BY <1>1, <1>2

(* Every variable keeps its type; an attempt is only ever made with a      *)
(* candidate of the list that the ProviderSet holds.                       *)
Typed == TypeOK /\ (pc \in {"calling", "check"} => AtKnownCandidate)

LEMMA TypedInvariant == Spec => []Typed
<1> USE ProvidersAssumption, RoutesAssumption, TimeoutAssumption
<1>1. Init => Typed
  <2> SUFFICES ASSUME Init PROVE Typed
    OBVIOUS
  <2>1. deadline \in Nat /\ tr \in Traces
    BY NewTraceType DEF Init
  <2>2. refs \in Seq(Names) /\ store \in Seq(Traces)
    BY DEF Init
  <2>3. /\ pc = "route" /\ i = 1 /\ begun = 0 /\ elapsed = 0 /\ overrun = 0 /\ saving = 0
        /\ cancelled = FALSE /\ lateStarts = 0
    BY DEF Init
  <2>4. TypeOK
    <3>1. pc \in {"route", "loop", "calling", "check", "save", "done"}
      BY <2>3
    <3>2. i \in Nat \ {0} /\ begun \in Nat /\ elapsed \in Nat /\ lateStarts \in Nat
          /\ overrun \in 0..Grace /\ saving \in 0..SaveTimeout
      BY <2>3
    <3>3. cancelled \in BOOLEAN
      BY <2>3
    <3> QED  BY <2>1, <2>2, <3>1, <3>2, <3>3 DEF TypeOK
  <2> QED  BY <2>3, <2>4 DEF Typed
<1>2. Typed /\ [Next]_vars => Typed'
  <2> SUFFICES ASSUME Typed, [Next]_vars PROVE Typed'
    OBVIOUS
  <2> USE DEF Typed, TypeOK, AtKnownCandidate, waits
  <2>1. CASE Route
    BY <2>1, FailFacts DEF Route
  <2>2. CASE Skip
    BY <2>2 DEF Skip, AtCandidate
  <2>3. CASE Begin
    BY <2>3 DEF Begin, AtCandidate
  <2>4. CASE Work \/ SaveWaits
    <3>1. UNCHANGED <<pc, refs, i, begun, deadline, cancelled, tr, store, lateStarts>>
      BY <2>4 DEF Work, SaveWaits
    <3>2. elapsed' \in Nat /\ overrun' \in 0..Grace /\ saving' \in 0..SaveTimeout
      <4>1. CASE Work
        BY <4>1 DEF Work
      <4>2. CASE SaveWaits
        BY <4>2 DEF SaveWaits
      <4> QED  BY <2>4, <4>1, <4>2
    <3> QED  BY <3>1, <3>2
  <2>5. CASE Answer
    <3>1. PICK status \in AttemptStatus, usage \in Usages :
            LET att == buildAttempt(i, refs[i], status, usage)
            IN \/ tr' = succeed(attempted(tr, att), att) /\ pc' = "save"
               \/ tr' = attempted(tr, att) /\ pc' = "check"
      BY <2>5, AnswerFacts
    <3>2. refs[i] \in Names
      BY <2>5 DEF Answer
    <3>3. buildAttempt(i, refs[i], status, usage) \in Attempts
      BY <3>2, AttemptType
    <3>4. tr' \in Traces
      BY <3>1, <3>3, AttemptedFacts, SucceedFacts
    <3> QED  BY <2>5, <3>1, <3>4 DEF Answer
  <2>6. CASE StopEarly
    BY <2>6, FailFacts DEF StopEarly, GiveUp
  <2>7. CASE FallBack
    BY <2>7 DEF FallBack, GoOn, AfterFailure
  <2>8. CASE Exhausted
    BY <2>8, FailFacts DEF Exhausted, GiveUp
  <2>9. CASE Save
    BY <2>9 DEF Save
  <2>10. CASE Cancel
    BY <2>10 DEF Cancel
  <2>11. CASE UNCHANGED vars
    BY <2>11 DEF vars
  <2> QED
    BY <2>1, <2>2, <2>3, <2>4, <2>5, <2>6, <2>7, <2>8, <2>9, <2>10, <2>11 DEF Next, Engine, Clock
<1> QED  BY <1>1, <1>2, PTL DEF Spec

(* Every variable keeps its type.                                          *)
THEOREM TypeCorrect == Spec => []TypeOK
BY TypedInvariant, PTL DEF Typed
-----------------------------------------------------------------------------
(* The attempts are the candidates the loop has passed, in order.  It is   *)
(* inductive with the one fact it does not say: how far the loop can be.   *)
RouteInv ==
  /\ i <= Len(refs) + 1
  /\ pc = "route" => refs = <<>> /\ i = 1
  /\ AttemptsFollowRoute

LEMMA RouteInvariant == Spec => []RouteInv
<1> USE DEF RouteInv, AttemptsFollowRoute
<1>1. Init => RouteInv
  BY DEF Init, newTrace, Tried, Passed
<1>2. Typed /\ RouteInv /\ [Next]_vars => RouteInv'
  <2> SUFFICES ASSUME Typed, RouteInv, [Next]_vars PROVE RouteInv'
    OBVIOUS
  <2> USE RoutesAssumption DEF Typed, TypeOK, AtKnownCandidate
  <2>1. ASSUME UNCHANGED <<tr, refs, i>>, Tried' = Tried, pc' # "route" \/ pc' = pc
        PROVE  RouteInv'
    BY <2>1
  <2>2. CASE Route
    <3>1. tr'.attempts = <<>> /\ i' = 1 /\ refs' \in Seq(Names) /\ pc' \in {"save", "loop"}
      <4>1. Tried = {}
        BY <2>2 DEF Route, Tried, Passed
      <4>2. tr.attempts \in Seq(Attempts)
        BY DEF Traces
      <4>3. tr.attempts = <<>>
        <5> SUFFICES ASSUME tr.attempts # <<>> PROVE FALSE
          OBVIOUS
        <5>1. 1 \in 1..Len(tr.attempts)
          BY <4>2
        <5> QED  BY <4>1, <5>1
      <4> QED  BY <2>2, <4>3, FailFacts DEF Route
    <3>2. Tried' = {}
      BY <2>2, <3>1 DEF Route, Tried, Passed
    <3> QED  BY <3>1, <3>2
  <2>3. CASE Skip
    <3>1. Tried' = Tried
      BY <2>3 DEF Skip, AtCandidate, Tried, Passed
    <3> QED  BY <2>3, <3>1 DEF Skip, AtCandidate
  <2>4. CASE Begin
    BY <2>1, <2>4 DEF Begin, AtCandidate, Tried, Passed
  <2>5. CASE Answer
    <3>1. PICK status \in AttemptStatus, usage \in Usages :
            LET att == buildAttempt(i, refs[i], status, usage)
            IN \/ tr' = succeed(attempted(tr, att), att) /\ pc' = "save"
               \/ tr' = attempted(tr, att) /\ pc' = "check"
      BY <2>5, AnswerFacts
    <3>2. PICK att \in Attempts :
            /\ att.index = i /\ att.provider = refs[i]
            /\ tr'.attempts = Append(tr.attempts, att)
      <4>1. refs[i] \in Names /\ pc = "calling"
        BY <2>5 DEF Answer
      <4> DEFINE att == buildAttempt(i, refs[i], status, usage)
      <4>2. att \in Attempts /\ att.index = i /\ att.provider = refs[i]
        BY <4>1, AttemptType
      <4> HIDE DEF att
      <4>3. tr' = succeed(attempted(tr, att), att) \/ tr' = attempted(tr, att)
        BY <3>1 DEF att
      <4>4. tr'.attempts = Append(tr.attempts, att)
        <5> DEFINE rec == attempted(tr, att)
        <5>1. rec \in Traces /\ rec.attempts = Append(tr.attempts, att)
          BY <4>2, AttemptedFacts
        <5>2. tr' = succeed(rec, att) \/ tr' = rec
          BY <4>3
        <5> HIDE DEF rec
        <5>3. succeed(rec, att).attempts = rec.attempts
          BY <4>2, <5>1, SucceedFacts
        <5> QED  BY <5>1, <5>2, <5>3
      <4> QED  BY <4>2, <4>4
    <3>3. /\ UNCHANGED <<refs, i>> /\ pc = "calling" /\ pc' \in {"save", "check"}
          /\ AtKnownCandidate
      BY <2>5 DEF Answer
    <3>4. Tried' = Tried \cup {i}
      BY <3>3 DEF Tried, Passed
    <3>5. \A k \in Tried : k < i
      BY <3>3 DEF Tried, Passed
    <3> DEFINE a == tr.attempts
               b == tr'.attempts
    <3>6. a \in Seq(Attempts)
      BY DEF Traces
    <3>7. /\ Len(b) = Len(a) + 1 /\ b[Len(b)] = att
          /\ \A k \in 1..Len(a) : b[k] = a[k]
      BY <3>2, <3>6
    <3>8. {b[k].index : k \in 1..Len(b)} = {a[k].index : k \in 1..Len(a)} \cup {i}
      <4> HIDE DEF a, b
      <4>1. 1..Len(b) = (1..Len(a)) \cup {Len(b)}
        BY <3>6, <3>7
      <4>2. \A x : (\E k \in 1..Len(b) : x = b[k].index) <=>
                    (\E k \in 1..Len(a) : x = a[k].index) \/ x = i
        BY <3>2, <3>7, <4>1
      <4>3. ASSUME NEW x
            PROVE  x \in {b[k].index : k \in 1..Len(b)} <=>
                     x \in {a[k].index : k \in 1..Len(a)} \cup {i}
        <5>1. x \in {b[k].index : k \in 1..Len(b)} <=> \E k \in 1..Len(b) : x = b[k].index
          OBVIOUS
        <5>2. x \in {a[k].index : k \in 1..Len(a)} <=> \E k \in 1..Len(a) : x = a[k].index
          OBVIOUS
        <5>3. x \in {a[k].index : k \in 1..Len(a)} \cup {i} <=>
                x \in {a[k].index : k \in 1..Len(a)} \/ x = i
          OBVIOUS
        <5> QED  BY <4>2, <5>1, <5>2, <5>3, Zenon
      <4> QED  BY <4>3
    <3>9. \A k \in 1..Len(b) : b[k].provider = refs[b[k].index]
      BY <3>2, <3>7
    <3>10. \A k, l \in 1..Len(b) : k < l => b[k].index < b[l].index
      <4> SUFFICES ASSUME NEW k \in 1..Len(b), NEW l \in 1..Len(b), k < l
                   PROVE  b[k].index < b[l].index
        OBVIOUS
      <4>1. k \in 1..Len(a) /\ b[k] = a[k] /\ a[k].index \in Tried
        BY <3>6, <3>7
      <4>2. CASE l \in 1..Len(a)
        BY <3>7, <4>1, <4>2
      <4>3. CASE l = Len(b)
        BY <3>2, <3>5, <3>7, <4>1, <4>3
      <4> QED  BY <3>6, <3>7, <4>2, <4>3
    <3> QED  BY <3>3, <3>4, <3>8, <3>9, <3>10
  <2>6. CASE StopEarly
    <3>1. tr'.attempts = tr.attempts
      BY <2>6, FailFacts DEF StopEarly, GiveUp
    <3>2. Tried' = Tried
      BY <2>6 DEF StopEarly, GiveUp, Tried, Passed
    <3> QED  BY <2>6, <3>1, <3>2 DEF StopEarly, GiveUp
  <2>7. CASE FallBack
    <3>1. Tried' = Tried
      BY <2>7 DEF FallBack, GoOn, AfterFailure, Tried, Passed
    <3> QED  BY <2>7, <3>1 DEF FallBack, GoOn, AfterFailure
  <2>8. CASE Exhausted
    <3>1. tr'.attempts = tr.attempts
      BY <2>8, FailFacts DEF Exhausted, GiveUp
    <3>2. Tried' = Tried
      BY <2>8 DEF Exhausted, GiveUp, Tried, Passed
    <3> QED  BY <2>8, <3>1, <3>2 DEF Exhausted, GiveUp
  <2>9. CASE Save
    BY <2>1, <2>9 DEF Save, Tried, Passed
  <2>10. CASE Work \/ SaveWaits \/ Cancel \/ UNCHANGED vars
    BY <2>1, <2>10 DEF Work, SaveWaits, Cancel, vars, Tried, Passed
  <2> QED
    BY <2>2, <2>3, <2>4, <2>5, <2>6, <2>7, <2>8, <2>9, <2>10 DEF Next, Engine, Clock
<1> QED  BY <1>1, <1>2, TypedInvariant, PTL DEF Spec

(* The attempts of a trace are the known candidates of the route up to     *)
(* where the loop is, each tried once and in order.                        *)
THEOREM AttemptsAlwaysFollowRoute == Spec => []AttemptsFollowRoute
BY RouteInvariant, PTL DEF RouteInv
-----------------------------------------------------------------------------
(* A request fails only when nothing was routed, its context is over, or   *)
(* the loop ran past the last candidate.                                   *)
CauseInv ==
  pc \in {"save", "done"} /\ tr.status # "success" =>
    refs = <<>> \/ CtxOver \/ i > Len(refs)

LEMMA CauseInvariant == Spec => []CauseInv
<1> USE DEF CauseInv, CtxOver
<1>1. Init => CauseInv
  BY DEF Init
<1>2. Typed /\ RouteInv /\ CauseInv /\ [Next]_vars => CauseInv'
  <2> SUFFICES ASSUME Typed, RouteInv, CauseInv, [Next]_vars PROVE CauseInv'
    OBVIOUS
  <2> USE DEF Typed, TypeOK
  <2>1. CASE Route
    BY <2>1 DEF Route, RouteInv
  <2>2. CASE Skip \/ Begin \/ Work \/ SaveWaits \/ FallBack
    BY <2>2 DEF Skip, Begin, Work, SaveWaits, FallBack, GoOn, AtCandidate
  <2>3. CASE Answer
    <3>1. PICK status \in AttemptStatus, usage \in Usages :
            LET att == buildAttempt(i, refs[i], status, usage)
            IN \/ tr' = succeed(attempted(tr, att), att) /\ pc' = "save"
               \/ tr' = attempted(tr, att) /\ pc' = "check"
      BY <2>3, AnswerFacts
    <3> DEFINE att == buildAttempt(i, refs[i], status, usage)
    <3>2. att \in Attempts
      BY <2>3, AttemptType DEF Answer, AtKnownCandidate
    <3>3. succeed(attempted(tr, att), att).status = "success"
      <4> HIDE DEF att
      <4>1. attempted(tr, att) \in Traces
        BY <3>2, AttemptedFacts
      <4> QED  BY <3>2, <4>1, SucceedFacts
    <3> QED  BY <3>1, <3>3
  <2>4. CASE StopEarly \/ Exhausted
    BY <2>4 DEF StopEarly, Exhausted, GiveUp
  <2>5. CASE Save
    BY <2>5 DEF Save
  <2>6. CASE Cancel \/ UNCHANGED vars
    BY <2>6 DEF Cancel, vars
  <2> QED  BY <2>1, <2>2, <2>3, <2>4, <2>5, <2>6 DEF Next, Engine, Clock
<1> QED  BY <1>1, <1>2, TypedInvariant, RouteInvariant, PTL DEF Spec

(* A request never fails without a cause: nothing routed, the context      *)
(* over, or every known candidate tried.                                   *)
THEOREM NeverFailsWithoutCause == Spec => []FailsOnlyWithCause
<1>1. Typed /\ RouteInv /\ CauseInv => FailsOnlyWithCause
  <2> SUFFICES ASSUME Typed, RouteInv, CauseInv, pc \in {"save", "done"}, tr.status # "success",
                      refs # <<>>, ~CtxOver, NEW k \in 1..Len(refs), refs[k] \in Providers
               PROVE  \E a \in 1..Len(tr.attempts) : tr.attempts[a].index = k
    BY DEF FailsOnlyWithCause
  <2>1. k \in Tried
    BY DEF CauseInv, Tried, Passed, Typed, TypeOK
  <2> QED  BY <2>1 DEF RouteInv, AttemptsFollowRoute
<1> QED  BY <1>1, TypedInvariant, RouteInvariant, CauseInvariant, PTL
-----------------------------------------------------------------------------
(* Once an attempt began on a context already over, the loop is never      *)
(* entered again: its result, whatever it is, ends the request.            *)
LateInv ==
  /\ lateStarts <= 1
  /\ lateStarts = 1 => CtxOver /\ pc \in {"calling", "check", "save", "done"}

(* The window between the check of ctx.Err() and the next attempt costs at *)
(* most one attempt.                                                       *)
THEOREM OneLateStartAtMost == Spec => []AtMostOneLateStart
<1> USE DEF LateInv, CtxOver
<1>1. Init => LateInv
  BY DEF Init
<1>2. Typed /\ LateInv /\ [Next]_vars => LateInv'
  <2> SUFFICES ASSUME Typed, LateInv, [Next]_vars PROVE LateInv'
    OBVIOUS
  <2> USE DEF Typed, TypeOK
  <2>1. CASE Route \/ Skip
    BY <2>1 DEF Route, Skip, AtCandidate
  <2>2. CASE Begin
    BY <2>2 DEF Begin, AtCandidate
  <2>3. CASE Work \/ SaveWaits
    BY <2>3 DEF Work, SaveWaits
  <2>4. CASE Answer
    <3>1. pc' \in {"check", "save"} /\ UNCHANGED <<elapsed, deadline, cancelled, lateStarts>>
      BY <2>4 DEF Answer
    <3> QED  BY <3>1
  <2>5. CASE StopEarly \/ Exhausted
    BY <2>5 DEF StopEarly, Exhausted, GiveUp
  <2>6. CASE FallBack
    BY <2>6 DEF FallBack, GoOn
  <2>7. CASE Save \/ Cancel \/ UNCHANGED vars
    BY <2>7 DEF Save, Cancel, vars
  <2> QED  BY <2>1, <2>2, <2>3, <2>4, <2>5, <2>6, <2>7 DEF Next, Engine, Clock
<1>3. LateInv => AtMostOneLateStart
  BY DEF AtMostOneLateStart
<1> QED  BY <1>1, <1>2, <1>3, TypedInvariant, PTL DEF Spec
-----------------------------------------------------------------------------
(* What one step does to the number of attempts.                           *)
LEMMA AnswerAddsOne ==
  ASSUME Typed, Answer
  PROVE  /\ tr'.attempts \in Seq(Attempts) /\ tr.attempts \in Seq(Attempts)
         /\ Len(tr'.attempts) = Len(tr.attempts) + 1
<1> USE DEF Typed, TypeOK
<1>1. PICK status \in AttemptStatus, usage \in Usages :
        LET att == buildAttempt(i, refs[i], status, usage)
        IN \/ tr' = succeed(attempted(tr, att), att)
           \/ tr' = attempted(tr, att)
  BY AnswerFacts
<1> DEFINE att == buildAttempt(i, refs[i], status, usage)
           rec == attempted(tr, att)
<1>2. att \in Attempts
  BY AttemptType DEF Answer, AtKnownCandidate
<1>3. tr' = succeed(rec, att) \/ tr' = rec
  BY <1>1
<1>4. rec \in Traces /\ rec.attempts = Append(tr.attempts, att)
  <2> HIDE DEF att
  <2> QED  BY <1>2, AttemptedFacts
<1>5. tr'.attempts = Append(tr.attempts, att)
  <2> HIDE DEF att, rec
  <2>1. succeed(rec, att).attempts = rec.attempts
    BY <1>2, <1>4, SucceedFacts
  <2> QED  BY <1>3, <1>4, <2>1
<1>6. tr.attempts \in Seq(Attempts)
  BY DEF Traces
<1> QED
  <2> HIDE DEF att, rec
  <2> QED  BY <1>2, <1>5, <1>6

(* Where the clock is: an attempt begins no later than the ones before it  *)
(* may have taken, and lasts at most AttemptTimeout and its overrun.  The  *)
(* loop goes on only before the deadline, so only the attempt that meets   *)
(* it overruns it.                                                         *)
Cap(n) == (AttemptTimeout + Grace) * n

SpentInv ==
  LET n == Len(tr.attempts) IN
  IF pc = "calling"
    THEN begun <= Cap(n) /\ elapsed <= begun + AttemptTimeout + overrun
    ELSE elapsed <= Cap(n) + saving

DeadlineInv ==
  deadline # 0 =>
    CASE pc = "calling"           -> elapsed <= deadline + overrun
      [] pc \in {"route", "loop"} -> elapsed <= deadline
      [] OTHER                    -> elapsed <= deadline + Grace + saving

TimeInv ==
  /\ pc \notin {"save", "done"} => saving = 0
  /\ SpentInv /\ DeadlineInv

LEMMA CapFacts ==
  ASSUME NEW n \in Nat
  PROVE  Cap(n) \in Nat /\ Cap(n + 1) = Cap(n) + AttemptTimeout + Grace
<1> DEFINE c == AttemptTimeout + Grace
<1>1. c \in Nat
  BY TimeoutAssumption
<1>2. c * n \in Nat /\ c * (n + 1) = c * n + c
  BY <1>1
<1> QED  BY <1>2, TimeoutAssumption DEF Cap

LEMMA TimeInvariant == Spec => []TimeInv
<1> USE TimeoutAssumption DEF TimeInv
<1>1. Init => TimeInv
  <2> SUFFICES ASSUME Init PROVE TimeInv
    OBVIOUS
  <2>1. elapsed = 0 /\ saving = 0 /\ pc = "route" /\ tr.attempts = <<>> /\ deadline \in Nat
    BY DEF Init, newTrace
  <2>2. Cap(Len(tr.attempts)) \in Nat
    BY <2>1, CapFacts
  <2> QED  BY <2>1, <2>2 DEF SpentInv, DeadlineInv
<1>2. Typed /\ TimeInv /\ [Next]_vars => TimeInv'
  <2> SUFFICES ASSUME Typed, TimeInv, [Next]_vars PROVE TimeInv'
    OBVIOUS
  <2> USE DEF Typed, TypeOK, waits
  <2> DEFINE n == Len(tr.attempts)
  <2>1. n \in Nat /\ Cap(n) \in Nat /\ Cap(n + 1) = Cap(n) + AttemptTimeout + Grace
    <3>1. n \in Nat
      BY DEF Traces
    <3> HIDE DEF n
    <3> QED  BY <3>1, CapFacts
  <2>spent. ASSUME NEW m \in Nat, NEW k, k = Len(tr'.attempts), m = Cap(k),
                   IF pc' = "calling"
                     THEN begun' <= m /\ elapsed' <= begun' + AttemptTimeout + overrun'
                     ELSE elapsed' <= m + saving'
            PROVE  SpentInv'
    BY <2>spent DEF SpentInv, Cap
  <2>kept. ASSUME tr'.attempts = tr.attempts,
                  IF pc' = "calling"
                    THEN begun' <= Cap(n) /\ elapsed' <= begun' + AttemptTimeout + overrun'
                    ELSE elapsed' <= Cap(n) + saving'
           PROVE  SpentInv'
    <3>1. n = Len(tr'.attempts)
      BY <2>kept
    <3> HIDE DEF n
    <3> QED  BY <2>1, <2>kept, <2>spent, <3>1
  <2>2. ASSUME Route \/ Skip \/ StopEarly \/ FallBack \/ Exhausted \/ Save
        PROVE  TimeInv'
    <3>1. /\ UNCHANGED <<elapsed, overrun, saving, deadline>> /\ tr'.attempts = tr.attempts
          /\ pc # "calling" /\ pc' # "calling"
      BY <2>2, FailFacts
         DEF Route, Skip, StopEarly, Exhausted, GiveUp, FallBack, GoOn, Save, AtCandidate
    <3>2. SpentInv'
      BY <2>1, <2>kept, <3>1 DEF SpentInv
    <3>3. DeadlineInv' /\ (pc' \notin {"save", "done"} => saving' = 0)
      <4>1. CASE Route
        BY <3>1, <4>1 DEF Route, DeadlineInv
      <4>2. CASE Skip
        BY <3>1, <4>2 DEF Skip, AtCandidate, DeadlineInv
      <4>3. CASE StopEarly
        BY <3>1, <4>3 DEF StopEarly, GiveUp, DeadlineInv
      <4>4. CASE FallBack
        BY <3>1, <4>4 DEF FallBack, GoOn, CtxOver, DeadlineInv
      <4>5. CASE Exhausted
        BY <3>1, <4>5 DEF Exhausted, GiveUp, DeadlineInv
      <4>6. CASE Save
        BY <3>1, <4>6 DEF Save, DeadlineInv
      <4> QED  BY <2>2, <4>1, <4>2, <4>3, <4>4, <4>5, <4>6
    <3> QED  BY <3>2, <3>3
  <2>3. CASE Begin
    <3>1. /\ pc = "loop" /\ pc' = "calling" /\ begun' = elapsed /\ overrun' = 0 /\ saving = 0
          /\ UNCHANGED <<elapsed, saving, deadline, tr>>
      BY <2>3 DEF Begin, AtCandidate
    <3>2. SpentInv'
      BY <2>1, <2>kept, <3>1 DEF SpentInv
    <3>3. DeadlineInv'
      BY <3>1 DEF DeadlineInv
    <3> QED  BY <3>1, <3>2, <3>3
  <2>4. CASE Work
    <3>1. /\ pc = "calling" /\ pc' = "calling" /\ elapsed' = elapsed + 1
          /\ UNCHANGED <<begun, saving, deadline, tr>>
      BY <2>4 DEF Work
    <3>2. overrun' = IF AttemptCtxOver THEN overrun + 1 ELSE overrun
      BY <2>4 DEF Work
    <3>3. elapsed + 1 <= begun + AttemptTimeout + overrun'
      <4>1. CASE AttemptCtxOver
        BY <3>1, <3>2, <4>1 DEF SpentInv
      <4>2. CASE ~AttemptCtxOver
        BY <3>2, <4>2 DEF AttemptCtxOver
      <4> QED  BY <4>1, <4>2
    <3>4. deadline # 0 => elapsed + 1 <= deadline + overrun'
      <4>1. CASE AttemptCtxOver
        BY <3>1, <3>2, <4>1 DEF DeadlineInv
      <4>2. CASE ~AttemptCtxOver
        BY <3>2, <4>2 DEF AttemptCtxOver, CtxOver
      <4> QED  BY <4>1, <4>2
    <3>5. begun <= Cap(n)
      BY <3>1 DEF SpentInv
    <3>6. SpentInv'
      BY <2>kept, <3>1, <3>3, <3>5
    <3>7. DeadlineInv'
      BY <3>1, <3>4 DEF DeadlineInv
    <3> QED  BY <3>1, <3>6, <3>7
  <2>5. CASE Answer
    <3>1. n \in Nat /\ Len(tr'.attempts) = n + 1
      BY <2>5, AnswerAddsOne
    <3>2. /\ pc = "calling" /\ pc' \in {"check", "save"} /\ saving = 0 /\ overrun <= Grace
          /\ UNCHANGED <<elapsed, overrun, saving, deadline>>
      BY <2>5 DEF Answer
    <3>3. begun <= Cap(n) /\ elapsed <= begun + AttemptTimeout + overrun
      BY <3>2 DEF SpentInv
    <3>4. elapsed <= Cap(n + 1)
      <4> HIDE DEF n
      <4> QED  BY <2>1, <3>2, <3>3
    <3>5. SpentInv'
      <4> HIDE DEF n
      <4>1. Cap(n + 1) \in Nat
        BY <2>1, TimeoutAssumption
      <4> QED  BY <2>spent, <3>1, <3>2, <3>4, <4>1
    <3>6. DeadlineInv'
      BY <3>2 DEF DeadlineInv
    <3> QED  BY <3>2, <3>5, <3>6
  <2>6. CASE SaveWaits
    <3>1. /\ pc = "save" /\ pc' = "save" /\ elapsed' = elapsed + 1 /\ saving' = saving + 1
          /\ UNCHANGED <<deadline, tr>>
      BY <2>6 DEF SaveWaits
    <3>2. SpentInv'
      BY <2>1, <2>kept, <3>1 DEF SpentInv
    <3>3. DeadlineInv'
      BY <3>1 DEF DeadlineInv
    <3> QED  BY <3>1, <3>2, <3>3
  <2>7. CASE Cancel \/ UNCHANGED vars
    BY <2>7 DEF Cancel, vars, SpentInv, DeadlineInv, Cap
  <2> QED  BY <2>2, <2>3, <2>4, <2>5, <2>6, <2>7 DEF Next, Engine, Clock
<1> QED  BY <1>1, <1>2, TypedInvariant, PTL DEF Spec

(* A caller waits at most for the attempt timeout and a grace once per     *)
(* attempt made, and for the save; and of a deadline at most for the grace *)
(* of the attempt it ends, and for the save, however long the list.        *)
THEOREM RequestsAreBounded == Spec => []TimeBounded
<1>1. Typed /\ TimeInv => TimeBounded
  <2> SUFFICES ASSUME Typed, TimeInv PROVE TimeBounded
    OBVIOUS
  <2> USE TimeoutAssumption DEF Typed, TypeOK
  <2> DEFINE n == Len(tr.attempts)
  <2>1. n \in Nat
    BY DEF Traces
  <2>2. /\ Cap(n) \in Nat /\ Cap(n + 1) = Cap(n) + AttemptTimeout + Grace
        /\ Cap(n) = (AttemptTimeout + Grace) * n
        /\ Cap(n + 1) = (AttemptTimeout + Grace) * (n + 1)
    <3> HIDE DEF n
    <3> QED  BY <2>1, CapFacts DEF Cap
  <2>3. deadline # 0 => elapsed <= deadline + Grace + saving
    BY DEF TimeInv, DeadlineInv
  <2>4. CASE pc = "calling"
    <3>1. begun <= Cap(n) /\ elapsed <= begun + AttemptTimeout + overrun
      BY <2>4 DEF TimeInv, SpentInv
    <3>2. elapsed <= (AttemptTimeout + Grace) * (n + 1) + saving
      <4> HIDE DEF n
      <4>1. elapsed <= Cap(n + 1) + saving
        BY <2>1, <2>2, <3>1
      <4> QED  BY <2>2, <4>1
    <3> QED  BY <2>3, <2>4, <3>2 DEF TimeBounded
  <2>5. CASE pc # "calling"
    <3>1. n + 0 = n
      BY <2>1
    <3>2. elapsed <= Cap(n + 0) + saving
      BY <2>5, <3>1 DEF TimeInv, SpentInv
    <3> QED  BY <2>3, <2>5, <3>2 DEF TimeBounded, Cap
  <2> QED  BY <2>4, <2>5
<1> QED  BY <1>1, TypedInvariant, TimeInvariant, PTL

(* What is left of a routed request: three steps, an attempt's time and a  *)
(* grace for each candidate, and the save.                                 *)
PerCandidate == AttemptTimeout + Grace + 3

StepsLeft ==
  CASE pc = "loop"    -> PerCandidate * (Len(refs) - i + 1) + SaveTimeout + 2
    [] pc = "calling" -> PerCandidate * (Len(refs) - i)
                           + (begun + AttemptTimeout + Grace - elapsed) + SaveTimeout + 4
    [] pc = "check"   -> PerCandidate * (Len(refs) - i) + SaveTimeout + 3
    [] pc = "save"    -> SaveTimeout - saving + 1
    [] OTHER          -> 0

(* A step of the engine, its provider, the store or the clock brings a     *)
(* routed request nearer to its end; the caller's cancellation does not    *)
(* set it back.                                                            *)
Nearer ==
  pc # "route" => /\ pc' # "route"
                  /\ StepsLeft' <= StepsLeft
                  /\ Engine \/ Clock \/ Answer \/ Save => StepsLeft' < StepsLeft

(* RequestReturns without the fairness: whatever the providers do, the     *)
(* steps of a request are numbered by its list and the timeouts, whether   *)
(* or not it has a deadline.                                               *)
THEOREM RequestsNeverGoRound ==
  /\ Spec => [](StepsLeft \in Nat)
  /\ Spec => [][Nearer]_vars
<1> DEFINE left == Len(refs) - i
           cost == PerCandidate * left
<1>1. ASSUME Typed, RouteInv, TimeInv
      PROVE  /\ left \in Int /\ left + 1 \in Nat
             /\ PerCandidate * (left + 1) = cost + PerCandidate
             /\ PerCandidate * (left + 1) \in Nat /\ PerCandidate \in Nat /\ cost \in Int
             /\ i <= Len(refs) => left \in Nat /\ cost \in Nat
             /\ pc \in {"calling", "check"} => left \in Nat /\ cost \in Nat
             /\ pc = "calling" => begun + AttemptTimeout + Grace - elapsed \in Nat
  <2> USE TimeoutAssumption DEF Typed, TypeOK
  <2>1. left \in Int /\ left + 1 \in Nat /\ PerCandidate \in Nat
    BY <1>1 DEF RouteInv, PerCandidate
  <2>2. i <= Len(refs) => left \in Nat
    BY <1>1
  <2>3. pc \in {"calling", "check"} => i <= Len(refs)
    BY <1>1 DEF AtKnownCandidate
  <2>4. pc = "calling" => begun + AttemptTimeout + Grace - elapsed \in Nat
    <3> SUFFICES ASSUME pc = "calling" PROVE begun + AttemptTimeout + Grace - elapsed \in Nat
      OBVIOUS
    <3>1. elapsed <= begun + AttemptTimeout + overrun /\ overrun <= Grace
      BY <1>1 DEF TimeInv, SpentInv
    <3> QED  BY <1>1, <3>1
  <2> HIDE DEF left
  <2>5. PerCandidate * (left + 1) = PerCandidate * left + PerCandidate
    BY <2>1
  <2>6. PerCandidate * (left + 1) \in Nat /\ PerCandidate * left \in Int
    BY <2>1
  <2>7. left \in Nat => PerCandidate * left \in Nat
    BY <2>1
  <2> QED  BY <2>1, <2>2, <2>3, <2>4, <2>5, <2>6, <2>7
<1>2. Typed /\ RouteInv /\ TimeInv => StepsLeft \in Nat
  <2> SUFFICES ASSUME Typed, RouteInv, TimeInv PROVE StepsLeft \in Nat
    OBVIOUS
  <2> USE TimeoutAssumption DEF Typed, TypeOK
  <2>1. CASE pc = "loop"
    <3>1. StepsLeft = PerCandidate * (left + 1) + SaveTimeout + 2
      BY <2>1 DEF StepsLeft
    <3>2. PerCandidate * (left + 1) \in Nat
      BY <1>1
    <3> HIDE DEF left, cost
    <3> QED  BY <3>1, <3>2
  <2>2. CASE pc = "calling"
    <3>1. StepsLeft = cost + (begun + AttemptTimeout + Grace - elapsed) + SaveTimeout + 4
      BY <2>2 DEF StepsLeft
    <3> HIDE DEF cost
    <3> QED  BY <1>1, <2>2, <3>1
  <2>3. CASE pc = "check"
    <3>1. StepsLeft = cost + SaveTimeout + 3
      BY <2>3 DEF StepsLeft
    <3> HIDE DEF cost
    <3> QED  BY <1>1, <2>3, <3>1
  <2> QED  BY <2>1, <2>2, <2>3 DEF StepsLeft
<1>3. ASSUME Typed, RouteInv, TimeInv, [Next]_vars, pc # "route"
      PROVE  Nearer
  <2> USE TimeoutAssumption DEF Typed, TypeOK
  <2> DEFINE time == begun + AttemptTimeout + Grace - elapsed
  <2>1. StepsLeft \in Nat
    BY <1>2, <1>3
  <2>2. ASSUME pc' # "route", StepsLeft' < StepsLeft /\ StepsLeft' <= StepsLeft
        PROVE  Nearer
    BY <2>2 DEF Nearer
  <2>3. CASE Skip
    <3>1. pc = "loop" /\ pc' = "loop" /\ refs' = refs /\ i' = i + 1 /\ i <= Len(refs)
      BY <2>3 DEF Skip, AtCandidate
    <3>2. StepsLeft = cost + PerCandidate + SaveTimeout + 2
      <4>1. StepsLeft = PerCandidate * (left + 1) + SaveTimeout + 2
        BY <3>1 DEF StepsLeft
      <4> QED  BY <1>1, <1>3, <4>1
    <3>3. StepsLeft' = cost + SaveTimeout + 2
      <4>1. StepsLeft' = PerCandidate * (Len(refs) - (i + 1) + 1) + SaveTimeout + 2
        BY <3>1 DEF StepsLeft, PerCandidate
      <4>2. Len(refs) - (i + 1) + 1 = left
        BY <1>3
      <4> QED  BY <4>1, <4>2
    <3>4. PerCandidate > 0 /\ PerCandidate \in Nat /\ cost \in Nat
      BY <1>1, <1>3, <3>1 DEF PerCandidate
    <3> HIDE DEF left, cost
    <3>5. StepsLeft' < StepsLeft /\ StepsLeft' <= StepsLeft
      BY <3>2, <3>3, <3>4
    <3> QED  BY <2>2, <3>1, <3>5
  <2>4. CASE Begin
    <3>1. pc = "loop" /\ pc' = "calling" /\ refs' = refs /\ i' = i /\ begun' = elapsed
          /\ elapsed' = elapsed /\ i <= Len(refs)
      BY <2>4 DEF Begin, AtCandidate
    <3>2. StepsLeft = cost + (AttemptTimeout + Grace + 3) + SaveTimeout + 2
      <4>1. StepsLeft = PerCandidate * (left + 1) + SaveTimeout + 2
        BY <3>1 DEF StepsLeft
      <4>2. StepsLeft = cost + PerCandidate + SaveTimeout + 2
        BY <1>1, <1>3, <4>1
      <4> QED  BY <4>2 DEF PerCandidate
    <3>3. StepsLeft' = cost + (AttemptTimeout + Grace) + SaveTimeout + 4
      <4>1. StepsLeft' = PerCandidate * left + (elapsed + AttemptTimeout + Grace - elapsed) + SaveTimeout + 4
        BY <3>1 DEF StepsLeft, PerCandidate
      <4>2. elapsed + AttemptTimeout + Grace - elapsed = AttemptTimeout + Grace
        BY <1>3
      <4> QED  BY <4>1, <4>2
    <3>4. cost \in Nat
      BY <1>1, <1>3, <3>1
    <3> HIDE DEF left, cost
    <3>5. StepsLeft' < StepsLeft /\ StepsLeft' <= StepsLeft
      BY <3>2, <3>3, <3>4
    <3> QED  BY <2>2, <3>1, <3>5
  <2>5. CASE Work
    <3>1. pc = "calling" /\ pc' = "calling" /\ refs' = refs /\ i' = i /\ begun' = begun
          /\ elapsed' = elapsed + 1
      BY <2>5 DEF Work
    <3>2. StepsLeft = cost + time + SaveTimeout + 4
      BY <3>1 DEF StepsLeft
    <3>3. StepsLeft' = cost + (time - 1) + SaveTimeout + 4
      <4>1. StepsLeft' = PerCandidate * left + (begun + AttemptTimeout + Grace - (elapsed + 1)) + SaveTimeout + 4
        BY <3>1 DEF StepsLeft, PerCandidate
      <4>2. begun + AttemptTimeout + Grace - (elapsed + 1) = time - 1
        BY <1>3
      <4> QED  BY <4>1, <4>2
    <3>4. time \in Nat /\ cost \in Nat
      BY <1>1, <1>3, <3>1
    <3> HIDE DEF left, cost, time
    <3>5. StepsLeft' < StepsLeft /\ StepsLeft' <= StepsLeft
      BY <3>2, <3>3, <3>4
    <3> QED  BY <2>2, <3>1, <3>5
  <2>6. CASE Answer
    <3>1. pc = "calling" /\ pc' \in {"check", "save"} /\ refs' = refs /\ i' = i
      BY <2>6 DEF Answer
    <3>saved. saving' = saving /\ saving \in 0..SaveTimeout /\ SaveTimeout \in Nat
      BY <1>3, <2>6 DEF Answer, waits
    <3>2. StepsLeft = cost + time + SaveTimeout + 4
      BY <3>1 DEF StepsLeft
    <3>3. StepsLeft' \in {cost + SaveTimeout + 3, SaveTimeout - saving + 1}
      BY <3>1, <3>saved DEF StepsLeft, PerCandidate
    <3>4. time \in Nat /\ cost \in Nat
      BY <1>1, <1>3, <3>1
    <3> HIDE DEF left, cost, time
    <3>5. StepsLeft' < StepsLeft /\ StepsLeft' <= StepsLeft
      BY <3>2, <3>3, <3>4, <3>saved
    <3> QED  BY <2>2, <3>1, <3>5
  <2>7. CASE FallBack
    <3>1. pc = "check" /\ pc' = "loop" /\ refs' = refs /\ i' = i + 1
      BY <2>7 DEF FallBack, GoOn, AfterFailure
    <3>2. StepsLeft = cost + SaveTimeout + 3 /\ cost \in Nat
      BY <1>1, <1>3, <3>1 DEF StepsLeft
    <3>3. StepsLeft' = cost + SaveTimeout + 2
      <4>1. StepsLeft' = PerCandidate * (Len(refs) - (i + 1) + 1) + SaveTimeout + 2
        BY <3>1 DEF StepsLeft, PerCandidate
      <4>2. Len(refs) - (i + 1) + 1 = left
        BY <1>3
      <4> QED  BY <4>1, <4>2
    <3> HIDE DEF left, cost
    <3>4. StepsLeft' < StepsLeft /\ StepsLeft' <= StepsLeft
      BY <3>2, <3>3
    <3> QED  BY <2>2, <3>1, <3>4
  <2>8. CASE StopEarly \/ Exhausted
    <3>1. pc \in {"check", "loop"} /\ pc' = "save"
      BY <2>8 DEF StopEarly, Exhausted, GiveUp
    <3>2. StepsLeft' = SaveTimeout - saving + 1 /\ saving \in 0..SaveTimeout
      BY <1>3, <2>8, <3>1 DEF StepsLeft, StopEarly, Exhausted, GiveUp, waits
    <3>3. StepsLeft > SaveTimeout + 1
      <4>1. PerCandidate * (left + 1) \in Nat /\ (pc = "check" => cost \in Nat)
        BY <1>1, <1>3
      <4>2. pc = "check" => StepsLeft = cost + SaveTimeout + 3
        BY DEF StepsLeft
      <4>3. pc = "loop" => StepsLeft = PerCandidate * (left + 1) + SaveTimeout + 2
        BY DEF StepsLeft
      <4> HIDE DEF cost, left
      <4> QED  BY <3>1, <4>1, <4>2, <4>3
    <3> QED  BY <2>1, <2>2, <3>1, <3>2, <3>3
  <2>9. CASE Save
    <3>1. pc = "save" /\ pc' = "done"
      BY <2>9 DEF Save
    <3>2. StepsLeft = SaveTimeout - saving + 1 /\ StepsLeft' = 0
      BY <3>1 DEF StepsLeft
    <3>3. StepsLeft > 0
      BY <1>3, <3>2
    <3> QED  BY <2>2, <3>1, <3>2, <3>3
  <2>10. CASE SaveWaits
    <3>1. pc = "save" /\ pc' = "save" /\ saving' = saving + 1
      BY <2>10 DEF SaveWaits
    <3>2. StepsLeft = SaveTimeout - saving + 1 /\ StepsLeft' = SaveTimeout - (saving + 1) + 1
      BY <3>1 DEF StepsLeft
    <3>3. saving \in Int /\ SaveTimeout \in Int
      BY <1>3
    <3> QED  BY <2>2, <3>1, <3>2, <3>3
  <2>11. CASE Cancel \/ UNCHANGED vars
    <3>1. UNCHANGED <<pc, refs, i, begun, elapsed, saving>>
      BY <2>11 DEF Cancel, vars, waits
    <3>2. StepsLeft' = StepsLeft
      BY <3>1 DEF StepsLeft, PerCandidate
    <3>3. ~(Engine \/ Clock \/ Answer \/ Save)
      <4>1. ~(Skip \/ FallBack)
        BY <1>3, <3>1 DEF Skip, FallBack, GoOn, AfterFailure
      <4>2. ~(Route \/ Begin \/ StopEarly \/ Exhausted \/ Save)
        BY <1>3, <3>1 DEF Route, Begin, StopEarly, Exhausted, Save, GiveUp, AtCandidate
      <4>3. ~Answer
        BY <3>1 DEF Answer
      <4>4. ~Clock
        BY <1>3, <3>1 DEF Clock, Work, SaveWaits
      <4> QED  BY <4>1, <4>2, <4>3, <4>4 DEF Engine
    <3> QED  BY <1>3, <2>1, <3>1, <3>2, <3>3 DEF Nearer
  <2> QED
    BY <1>3, <2>3, <2>4, <2>5, <2>6, <2>7, <2>8, <2>9, <2>10, <2>11 DEF Next, Engine, Clock, Route
<1>4. Typed /\ RouteInv /\ TimeInv /\ [Next]_vars => [Nearer]_vars
  BY <1>3 DEF Nearer
<1> QED
  BY <1>2, <1>4, TypedInvariant, RouteInvariant, TimeInvariant, PTL DEF Spec
-----------------------------------------------------------------------------
(* The trace while the loop runs: undecided, nothing stored yet, and only  *)
(* failed attempts, which carry no usage.                                  *)
AllFailed(t) ==
  /\ \A k \in 1..Len(t.attempts) : t.attempts[k].status # "success" /\ t.attempts[k].usage = 0
  /\ t.provider = NoProvider /\ t.usage = 0

StoryInv ==
  /\ pc \in {"route", "loop", "calling", "check"} => tr.status = "pending" /\ AllFailed(tr)
  /\ pc # "done" => store = <<>>
  /\ TraceCoherent

LEMMA FailedIsCoherent ==
  ASSUME NEW t \in Traces, AllFailed(t)
  PROVE  Coherent(fail(t))
<1> DEFINE u == fail(t)
<1>1. u \in Traces /\ u.status = "error" /\ u.attempts = t.attempts /\ u.provider = t.provider
      /\ u.usage = t.usage
  BY FailFacts
<1> HIDE DEF u
<1>2. u.attempts \in Seq(Attempts)
  BY <1>1 DEF Traces
<1>3. u.attempts # <<>> => Len(u.attempts) \in 1..Len(u.attempts)
  BY <1>2
<1>4. ~Served(u) /\ u.usage = (IF u.attempts = <<>> THEN 0 ELSE LastAttempt(u).usage)
  BY <1>1, <1>3 DEF Served, LastAttempt, AllFailed
<1>5. \A k \in 1..Len(u.attempts) - 1 : u.attempts[k].status # "success" /\ u.attempts[k].usage = 0
  BY <1>1, <1>2 DEF AllFailed
<1>6. Coherent(u)
  BY <1>1, <1>4, <1>5 DEF Coherent, AllFailed
<1> QED  BY <1>6 DEF u

LEMMA ServedIsCoherent ==
  ASSUME NEW t \in Traces, AllFailed(t), NEW att \in Attempts, att.status = "success"
  PROVE  Coherent(succeed(attempted(t, att), att))
<1> DEFINE rec == attempted(t, att)
           u   == succeed(rec, att)
<1>1. rec \in Traces /\ rec.attempts = Append(t.attempts, att)
  BY AttemptedFacts
<1>2. u.status = "success" /\ u.provider = att.provider /\ u.usage = att.usage
      /\ u.attempts = Append(t.attempts, att)
  <2> HIDE DEF rec
  <2> QED  BY <1>1, SucceedFacts
<1> HIDE DEF u
<1>3. t.attempts \in Seq(Attempts)
  BY DEF Traces
<1>4. /\ u.attempts # <<>> /\ LastAttempt(u) = att
      /\ \A k \in 1..Len(u.attempts) - 1 : k \in 1..Len(t.attempts) /\ u.attempts[k] = t.attempts[k]
  BY <1>2, <1>3 DEF LastAttempt
<1>5. Coherent(u)
  BY <1>2, <1>4 DEF Coherent, Served, AllFailed
<1> QED  BY <1>5 DEF u

LEMMA StoryInvariant == Spec => []StoryInv
<1> USE DEF StoryInv, TraceCoherent
<1>1. Init => StoryInv
  BY DEF Init, newTrace, AllFailed
<1>2. Typed /\ StoryInv /\ [Next]_vars => StoryInv'
  <2> SUFFICES ASSUME Typed, StoryInv, [Next]_vars PROVE StoryInv'
    OBVIOUS
  <2> USE DEF Typed, TypeOK
  <2>1. CASE Route
    <3>1. CASE tr' = fail(tr) /\ pc' = "save"
      BY <2>1, <3>1, FailedIsCoherent DEF Route
    <3>2. CASE tr' = tr /\ pc' = "loop"
      BY <2>1, <3>2 DEF Route
    <3> QED  BY <2>1, <3>1, <3>2 DEF Route
  <2>2. CASE Skip \/ Begin \/ FallBack \/ Work \/ SaveWaits
    BY <2>2 DEF Skip, Begin, FallBack, GoOn, Work, SaveWaits, AtCandidate
  <2>3. CASE StopEarly \/ Exhausted
    <3>1. Coherent(fail(tr))
      BY <2>3, FailedIsCoherent DEF StopEarly, Exhausted
    <3> QED  BY <2>3, <3>1 DEF StopEarly, Exhausted, GiveUp
  <2>4. CASE Answer
    <3>1. PICK status \in AttemptStatus, usage \in Usages :
            LET att == buildAttempt(i, refs[i], status, usage)
            IN IF status = "success"
                 THEN tr' = succeed(attempted(tr, att), att) /\ pc' = "save"
                 ELSE tr' = attempted(tr, att) /\ pc' = "check"
      BY <2>4, AnswerFacts
    <3> DEFINE att == buildAttempt(i, refs[i], status, usage)
    <3>2. /\ att \in Attempts /\ att.status = status
          /\ status # "success" => att.usage = 0
      BY <2>4, AttemptType DEF Answer, AtKnownCandidate
    <3>3. pc = "calling" /\ AllFailed(tr) /\ store' = store
      BY <2>4 DEF Answer
    <3>4. CASE status = "success"
      <4>1. Coherent(tr')
        BY <3>1, <3>2, <3>3, <3>4, ServedIsCoherent
      <4> QED  BY <3>1, <3>3, <3>4, <4>1
    <3>5. CASE status # "success"
      <4> HIDE DEF att
      <4>1. /\ tr' = attempted(tr, att) /\ pc' = "check"
            /\ tr'.attempts = Append(tr.attempts, att) /\ tr'.status = tr.status
            /\ tr'.provider = tr.provider /\ tr'.usage = tr.usage
        BY <3>1, <3>2, <3>5, AttemptedFacts DEF att
      <4>2. tr.attempts \in Seq(Attempts)
        BY DEF Traces
      <4>3. AllFailed(tr')
        BY <3>2, <3>3, <3>5, <4>1, <4>2 DEF AllFailed
      <4>4. AllFailed(tr)'
        BY <4>3 DEF AllFailed
      <4> QED  BY <3>3, <4>1, <4>4
    <3> QED  BY <3>4, <3>5
  <2>5. CASE Save
    <3>1. store = <<>> /\ tr' = tr /\ pc' = "done" /\ Coherent(tr)
      BY <2>5 DEF Save
    <3>2. store' = Append(store, tr) \/ store' = store
      BY <2>5 DEF Save
    <3>3. \A k \in 1..Len(store') : store'[k] = tr'
      BY <3>1, <3>2
    <3> QED  BY <3>1, <3>3
  <2>6. CASE Cancel \/ UNCHANGED vars
    BY <2>6 DEF Cancel, vars
  <2> QED  BY <2>1, <2>2, <2>3, <2>4, <2>5, <2>6 DEF Next, Engine, Clock
<1> QED  BY <1>1, <1>2, TypedInvariant, PTL DEF Spec

(* What Complete returns and what it stored tell one coherent story.       *)
THEOREM TraceAlwaysCoherent == Spec => []TraceCoherent
BY StoryInvariant, PTL DEF StoryInv
-----------------------------------------------------------------------------
(* The refinement: a step of Complete is a step of the abstract request of *)
(* module Fallback, or one it does not notice.                             *)

RefusedIn(t) ==
  {a.index : a \in {t.attempts[k] : k \in {l \in 1..Len(t.attempts) :
                                            t.attempts[l].status # "success"}}}

VerdictOf(t) == CASE t.status = "pending" -> "open"
                  [] t.status = "success" -> "served"
                  [] OTHER -> "failed"

LEMMA RefusedMembers ==
  ASSUME NEW t, NEW x
  PROVE  x \in RefusedIn(t) <=>
           \E k \in 1..Len(t.attempts) : t.attempts[k].status # "success" /\ x = t.attempts[k].index
BY DEF RefusedIn

LEMMA RefusedAppend ==
  ASSUME NEW t \in Traces, NEW u, NEW att \in Attempts, u.attempts = Append(t.attempts, att)
  PROVE  /\ att.status = "success" => RefusedIn(u) = RefusedIn(t)
         /\ att.status # "success" => RefusedIn(u) = RefusedIn(t) \cup {att.index}
<1>1. t.attempts \in Seq(Attempts)
  BY DEF Traces
<1>2. /\ Len(u.attempts) = Len(t.attempts) + 1 /\ u.attempts[Len(u.attempts)] = att
      /\ Len(t.attempts) \in Nat
      /\ \A k \in 1..Len(t.attempts) : u.attempts[k] = t.attempts[k]
  BY <1>1
<1>3. 1..Len(u.attempts) = (1..Len(t.attempts)) \cup {Len(u.attempts)}
  BY <1>2
<1>4. ASSUME NEW x
      PROVE  x \in RefusedIn(u) <=>
               x \in RefusedIn(t) \/ (att.status # "success" /\ x = att.index)
  <2> DEFINE n == Len(t.attempts)
  <2>1. x \in RefusedIn(t) <=>
          \E k \in 1..n : t.attempts[k].status # "success" /\ x = t.attempts[k].index
    BY RefusedMembers
  <2>2. x \in RefusedIn(u) <=>
          \E k \in 1..n \cup {n + 1} : u.attempts[k].status # "success" /\ x = u.attempts[k].index
    <3>1. x \in RefusedIn(u) <=>
            \E k \in 1..Len(u.attempts) : u.attempts[k].status # "success" /\ x = u.attempts[k].index
      BY RefusedMembers, Zenon
    <3> QED  BY <1>2, <1>3, <3>1
  <2>3. u.attempts[n + 1] = att
    BY <1>2
  <2> QED  BY <1>2, <2>1, <2>2, <2>3
<1>5. att.status = "success" => RefusedIn(u) = RefusedIn(t)
  BY <1>4
<1>6. ASSUME att.status # "success" PROVE RefusedIn(u) = RefusedIn(t) \cup {att.index}
  <2>1. ASSUME NEW x PROVE x \in RefusedIn(u) <=> x \in RefusedIn(t) \cup {att.index}
    BY <1>4, <1>6
  <2> QED  BY <2>1, Zenon
<1> QED  BY <1>5, <1>6

(* As long as the loop runs, the candidates that have refused are the ones *)
(* it is past.                                                             *)
LEMMA RefusedWhileOpen ==
  ASSUME Typed, RouteInv, StoryInv, pc \in {"route", "loop", "calling", "check"}
  PROVE  RefusedIn(tr) = Tried
<1>1. \A k \in 1..Len(tr.attempts) : tr.attempts[k].status # "success"
  BY DEF StoryInv, AllFailed
<1>2. ASSUME NEW x PROVE x \in RefusedIn(tr) <=> x \in {tr.attempts[k].index : k \in 1..Len(tr.attempts)}
  BY <1>1, RefusedMembers
<1> QED  BY <1>2 DEF RouteInv, AttemptsFollowRoute

(* The steps of Fallback in the words of Complete.                         *)
Abstract == <<refs, RefusedIn(tr), VerdictOf(tr), tr.provider, CtxOver>>
Known    == {k \in 1..Len(refs) : refs[k] \in Providers}
FirstNot(refusals, k) == k \in Known \ refusals /\ \A j \in Known \ refusals : k <= j

LEMMA Unnoticed == UNCHANGED Abstract => UNCHANGED Promise!vars
BY DEF Abstract, Promise!vars, RefusedIn, VerdictOf, CtxOver

LEMMA ChooseStep ==
  /\ VerdictOf(tr) = "open" /\ refs = <<>> /\ refs' \in Routes \ {<<>>}
  /\ UNCHANGED <<tr, CtxOver>>
  => Promise!Choose
BY DEF Promise!Choose, Promise!Open, VerdictOf

LEMMA RefuseStep ==
  /\ VerdictOf(tr) = "open" /\ FirstNot(RefusedIn(tr), i)
  /\ RefusedIn(tr') = RefusedIn(tr) \cup {i}
  /\ VerdictOf(tr') = "open" /\ tr'.provider = tr.provider /\ UNCHANGED <<refs, CtxOver>>
  => Promise!Refuse
BY DEF Promise!Refuse, Promise!Turn, Promise!Places, Promise!Open, FirstNot, Known, RefusedIn, VerdictOf

LEMMA ServeStep ==
  /\ VerdictOf(tr) = "open" /\ FirstNot(RefusedIn(tr), i)
  /\ RefusedIn(tr') = RefusedIn(tr)
  /\ VerdictOf(tr') = "served" /\ tr'.provider = refs[i] /\ UNCHANGED <<refs, CtxOver>>
  => Promise!Serve
BY DEF Promise!Serve, Promise!Turn, Promise!Places, Promise!Open, FirstNot, Known, RefusedIn, VerdictOf

LEMMA FailStep ==
  /\ VerdictOf(tr) = "open" /\ (CtxOver \/ Known \subseteq RefusedIn(tr))
  /\ tr' = fail(tr) /\ tr \in Traces /\ UNCHANGED <<refs, CtxOver>>
  => Promise!Fail
<1> SUFFICES ASSUME VerdictOf(tr) = "open", CtxOver \/ Known \subseteq RefusedIn(tr),
                    tr' = fail(tr), tr \in Traces, UNCHANGED <<refs, CtxOver>>
             PROVE  Promise!Fail
  OBVIOUS
<1>1. tr'.attempts = tr.attempts /\ tr'.provider = tr.provider /\ tr'.status = "error"
  BY FailFacts
<1> QED  BY <1>1 DEF Promise!Fail, Promise!Places, Promise!Open, Known, RefusedIn, VerdictOf

LEMMA LeaveStep ==
  ~CtxOver /\ CtxOver' /\ UNCHANGED <<refs, tr>> => Promise!Leave
BY DEF Promise!Leave, CtxOver

(* What an answer adds to the trace, whatever it is.                       *)
LEMMA AnsweringAttempt ==
  ASSUME Typed, Answer
  PROVE  \E att \in Attempts :
           /\ att.index = i /\ att.provider = refs[i]
           /\ tr' = IF att.status = "success" THEN succeed(attempted(tr, att), att)
                                             ELSE attempted(tr, att)
<1>1. PICK status \in AttemptStatus, usage \in Usages :
        LET att == buildAttempt(i, refs[i], status, usage)
        IN IF status = "success"
             THEN tr' = succeed(attempted(tr, att), att) /\ pc' = "save"
             ELSE tr' = attempted(tr, att) /\ pc' = "check"
  BY AnswerFacts
<1>2. refs[i] \in Names /\ i \in Nat
  BY ProvidersAssumption DEF Answer, AtKnownCandidate, Typed, TypeOK
<1> DEFINE att == buildAttempt(i, refs[i], status, usage)
<1>3. att \in Attempts /\ att.index = i /\ att.provider = refs[i] /\ att.status = status
  BY <1>2, AttemptType
<1>4. tr' = IF status = "success" THEN succeed(attempted(tr, att), att) ELSE attempted(tr, att)
  BY <1>1
<1> HIDE DEF att
<1> QED  BY <1>3, <1>4

(* Complete keeps the promise of Fallback: it starts like a request there, *)
(* and every one of its steps is a step there or changes nothing there.    *)
THEOREM CompleteIsAFallback == Spec => ImplementsFallback
<1>1. Init => Promise!Init
  <2> SUFFICES ASSUME Init PROVE Promise!Init
    OBVIOUS
  <2>1. tr = newTrace /\ refs = <<>>
    BY DEF Init
  <2>2. CtxOver \in BOOLEAN
    BY DEF Init, CtxOver
  <2> QED  BY <2>1, <2>2 DEF Promise!Init, newTrace, CtxOver
<1>2. Typed /\ RouteInv /\ StoryInv /\ [Next]_vars => [Promise!Next]_(Promise!vars)
  <2> SUFFICES ASSUME Typed, RouteInv, StoryInv, [Next]_vars
               PROVE  Promise!Next \/ UNCHANGED Promise!vars
    OBVIOUS
  <2> USE DEF Typed, TypeOK
  <2> DEFINE Running == {"route", "loop", "calling", "check"}
  <2>1. pc \in Running => VerdictOf(tr) = "open" /\ RefusedIn(tr) = Tried
    BY RefusedWhileOpen DEF StoryInv, VerdictOf
  <2>2. CASE Route
    <3>1. pc = "route" /\ refs = <<>> /\ UNCHANGED CtxOver
      BY <2>2 DEF Route, RouteInv, CtxOver
    <3>2. CASE tr' = fail(tr) /\ UNCHANGED refs
      <4>1. Known = {}
        BY <3>1 DEF Known
      <4> QED  BY <2>1, <3>1, <3>2, <4>1, FailStep DEF Promise!Next
    <3>3. CASE refs' \in Routes \ {<<>>} /\ UNCHANGED tr
      BY <2>1, <3>1, <3>3, ChooseStep DEF Promise!Next
    <3> QED  BY <2>2, <3>2, <3>3 DEF Route
  <2>3. CASE Skip \/ Begin \/ FallBack \/ Save \/ UNCHANGED vars
    <3>1. UNCHANGED <<refs, tr, CtxOver>>
      BY <2>3 DEF Skip, Begin, FallBack, GoOn, Save, vars, AtCandidate, CtxOver
    <3> QED  BY <3>1, Unnoticed DEF Abstract
  <2>4. CASE Work \/ SaveWaits \/ Cancel
    <3>1. UNCHANGED <<refs, tr>> /\ (CtxOver => CtxOver')
      BY <2>4 DEF Work, SaveWaits, Cancel, CtxOver
    <3>2. CASE ~CtxOver /\ CtxOver'
      BY <3>1, <3>2, LeaveStep DEF Promise!Next
    <3>3. CASE CtxOver <=> CtxOver'
      <4>1. CtxOver' = CtxOver
        BY <3>3 DEF CtxOver
      <4> QED  BY <3>1, <4>1, Unnoticed DEF Abstract
    <3> QED  BY <3>1, <3>2, <3>3
  <2>5. CASE StopEarly
    <3>1. pc \in Running /\ CtxOver /\ tr' = fail(tr) /\ UNCHANGED <<refs, CtxOver>>
      BY <2>5 DEF StopEarly, GiveUp, CtxOver
    <3> QED  BY <2>1, <3>1, FailStep DEF Promise!Next
  <2>6. CASE Exhausted
    <3>1. pc = "loop" /\ i > Len(refs) /\ tr' = fail(tr) /\ UNCHANGED <<refs, CtxOver>>
      BY <2>6 DEF Exhausted, GiveUp, CtxOver
    <3>2. Known \subseteq Tried
      BY <3>1 DEF Known, Tried, Passed
    <3> QED  BY <2>1, <3>1, <3>2, FailStep DEF Promise!Next
  <2>7. CASE Answer
    <3>1. PICK att \in Attempts :
            /\ att.index = i /\ att.provider = refs[i]
            /\ tr' = IF att.status = "success" THEN succeed(attempted(tr, att), att)
                                              ELSE attempted(tr, att)
      BY <2>7, AnsweringAttempt
    <3>2. pc = "calling" /\ AtKnownCandidate /\ UNCHANGED <<refs, CtxOver>>
      BY <2>7 DEF Answer, CtxOver
    <3> DEFINE rec == attempted(tr, att)
    <3>3. att \in Attempts /\ att.index = i /\ att.provider = refs[i]
      BY <3>1
    <3>4. tr' = IF att.status = "success" THEN succeed(rec, att) ELSE rec
      BY <3>1
    <3>5. /\ rec \in Traces /\ rec.attempts = Append(tr.attempts, att)
          /\ rec.status = tr.status /\ rec.provider = tr.provider
      BY <3>3, AttemptedFacts
    <3> HIDE DEF rec
    <3>6. FirstNot(RefusedIn(tr), i)
      <4>1. Tried = {k \in Known : k < i}
        BY <3>2 DEF Tried, Passed, Known
      <4>2. i \in Known
        BY <3>2 DEF Known, AtKnownCandidate
      <4> QED  BY <2>1, <3>2, <4>1, <4>2 DEF FirstNot, Known
    <3>7. CASE att.status = "success"
      <4>1. /\ tr'.attempts = Append(tr.attempts, att) /\ tr'.status = "success"
            /\ tr'.provider = refs[i]
        BY <3>3, <3>4, <3>5, <3>7, SucceedFacts
      <4>2. RefusedIn(tr') = RefusedIn(tr)
        BY <3>3, <3>7, <4>1, RefusedAppend
      <4>3. VerdictOf(tr') = "served"
        BY <4>1 DEF VerdictOf
      <4> QED  BY <2>1, <3>2, <3>6, <4>1, <4>2, <4>3, ServeStep DEF Promise!Next
    <3>8. CASE att.status # "success"
      <4>1. tr' = rec
        BY <3>4, <3>8
      <4>2. RefusedIn(tr') = RefusedIn(tr) \cup {i}
        BY <3>3, <3>5, <3>8, <4>1, RefusedAppend
      <4>3. VerdictOf(tr') = "open" /\ tr'.provider = tr.provider
        BY <2>1, <3>2, <3>5, <4>1 DEF VerdictOf
      <4> QED  BY <2>1, <3>2, <3>6, <4>2, <4>3, RefuseStep DEF Promise!Next
    <3> QED  BY <3>7, <3>8
  <2> QED  BY <2>2, <2>3, <2>4, <2>5, <2>6, <2>7 DEF Next, Engine, Clock
<1> QED
  BY <1>1, <1>2, TypedInvariant, RouteInvariant, StoryInvariant, PTL
     DEF Spec, ImplementsFallback, Promise!Spec
=============================================================================
