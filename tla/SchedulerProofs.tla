-------------------------- MODULE SchedulerProofs --------------------------
(***************************************************************************)
(* What holds of the scheduler for any number of jobs, any schedules and   *)
(* any stretch of time: its types, that fires of one job never overlap,    *)
(* that a job's last run only moves forward, and that no instant is used   *)
(* twice or lost.                                                          *)
(***************************************************************************)
EXTENDS Scheduler, WellFoundedInduction, TLAPS

USE DEF Fires

(* A nonempty set of naturals has the least element Earliest looks for.    *)
LEMMA EarliestIsLeast ==
  ASSUME NEW S, S \subseteq Nat, S # {}
  PROVE  Earliest(S) \in S /\ \A e \in S : Earliest(S) <= e
<1> DEFINE less == {ss \in Nat \X Nat : ss[1] < ss[2]}
<1>1. IsWellFoundedOn(less, Nat)
  BY NatLessThanWellFounded, Zenon DEF OpToRel
<1>2. \E d \in S : \A e \in S : ~(<<e, d>> \in less)
  <2> HIDE DEF less
  <2> QED  BY <1>1, WFMin, Zenon
<1>3. \E d \in S : \A e \in S : d <= e
  <2>1. PICK d \in S : \A e \in S : ~(<<e, d>> \in less)
    BY <1>2
  <2>2. ASSUME NEW e \in S PROVE d <= e
    <3>1. <<e, d>> \in Nat \X Nat /\ ~(<<e, d>> \in less)
      BY <2>1
    <3>2. ~(e < d)
      BY <3>1
    <3> QED  BY <3>2
  <2> QED  BY <2>2
<1> QED  BY <1>3 DEF Earliest

(* NextAfter yields an instant after t at which the job is due, or 0.      *)
LEMMA NextAfterFacts ==
  ASSUME NEW j \in Jobs, NEW t \in Nat, due \in [Jobs -> SUBSET (1..MaxTime)], MaxTime \in Nat
  PROVE  /\ NextAfter(j, t) \in 0..MaxTime
         /\ NextAfter(j, t) # 0 => NextAfter(j, t) \in due[j] /\ NextAfter(j, t) > t
<1> DEFINE later == {d \in due[j] : d > t}
<1>1. later \subseteq 1..MaxTime  OBVIOUS
<1>2. CASE later = {}
  BY <1>2 DEF NextAfter, Earliest
<1>3. CASE later # {}
  <2>1. Earliest(later) \in later
    BY <1>1, <1>3, EarliestIsLeast
  <2> QED  BY <2>1, <1>1 DEF NextAfter
<1> QED  BY <1>2, <1>3

(* Every variable keeps its type.                                          *)
THEOREM TypeCorrect == Spec => []TypeOK
<1>1. Init => TypeOK
  <2> SUFFICES ASSUME Init PROVE TypeOK
    OBVIOUS
  <2>1. lpc \in {"select", "tick", "stopped"}
    BY DEF Init
  <2>2. fires \subseteq Fires /\ log \subseteq [job: Jobs, tick: 1..MaxTime, what: {"fired", "skipped"}]
    BY DEF Init
  <2>3. next \in [Jobs -> 0..MaxTime] /\ seeded \in [Jobs -> 0..MaxTime]
    BY TimeAssumption DEF Init
  <2>4. running \in [Jobs -> BOOLEAN] /\ last \in [Jobs -> Nat]
    BY DEF Init
  <2>5. now \in 0..MaxTime /\ ticker \in 0..MaxTime /\ at \in 0..MaxTime /\ runs \in Nat
    BY TimeAssumption DEF Init
  <2> QED  BY <2>1, <2>2, <2>3, <2>4, <2>5 DEF Init, TypeOK
<1>2. TypeOK /\ [Next]_vars => TypeOK'
  <2> SUFFICES ASSUME TypeOK, [Next]_vars PROVE TypeOK'
    OBVIOUS
  <2> USE TimeAssumption, SchedulesAssumption, JobsAssumption DEF TypeOK
  <2>1. CASE Clock
    BY <2>1 DEF Clock, loopVars, history
  <2>2. CASE Shutdown
    BY <2>2 DEF Shutdown, loopVars, history
  <2>3. CASE Stop
    BY <2>3 DEF Stop, history
  <2>4. CASE BeginTick
    BY <2>4 DEF BeginTick, history
  <2>5. ASSUME NEW j \in Jobs, TickJob(j) PROVE TypeOK'
    <3>1. NextDue(j) \in 0..MaxTime
      BY NextAfterFacts DEF NextDue
    <3>2. next' \in [Jobs -> 0..MaxTime] /\ seeded' \in [Jobs -> 0..MaxTime]
      BY <2>5, <3>1 DEF TickJob
    <3>3. log' \subseteq [job: Jobs, tick: 1..MaxTime, what: {"fired", "skipped"}]
      BY <2>5 DEF TickJob
    <3>4. running' \in [Jobs -> BOOLEAN] /\ runs' \in Nat /\ fires' \subseteq Fires
      <4> DEFINE isFired == next[j] # 0 /\ next[j] <= at /\ MayFire(j)
      <4>1. CASE isFired
        <5>1. running' = [running EXCEPT ![j] = TRUE] /\ runs' = runs + 1
          BY <2>5, <4>1 DEF TickJob
        <5>2. fires' = fires \cup {[job |-> j, run |-> runs', stage |-> "run"]}
          BY <2>5, <4>1 DEF TickJob
        <5> QED  BY <5>1, <5>2
      <4>2. CASE ~isFired
        <5>1. UNCHANGED <<running, runs, fires>>
          BY <2>5, <4>2 DEF TickJob
        <5> QED  BY <5>1
      <4> QED  BY <4>1, <4>2
    <3>5. lpc' \in {"select", "tick", "stopped"} /\ todo' \subseteq Jobs
      BY <2>5 DEF TickJob
    <3> QED  BY <2>5, <3>2, <3>3, <3>4, <3>5 DEF TickJob
  <2>6. ASSUME NEW f \in fires, RunReturns(f) PROVE TypeOK'
    BY <2>6 DEF RunReturns, Advance, loopVars, history
  <2>7. ASSUME NEW f \in fires, Record(f) PROVE TypeOK'
    BY <2>7 DEF Record, Advance, loopVars, history
  <2>8. ASSUME NEW f \in fires, Release(f) PROVE TypeOK'
    BY <2>8 DEF Release, loopVars, history
  <2>9. CASE UNCHANGED vars
    BY <2>9 DEF vars, loopVars, history
  <2> QED
    BY <2>1, <2>2, <2>3, <2>4, <2>5, <2>6, <2>7, <2>8, <2>9 DEF Next, Loop, Fire
<1> QED  BY <1>1, <1>2, PTL DEF Spec
-----------------------------------------------------------------------------
(* The fires of a job never overlap: NoOverlap is inductive once the types *)
(* are known, because tick fires only a job whose flag is down, raises the *)
(* flag in the same locked section, and only the end of that fire lowers   *)
(* it.                                                                     *)
THEOREM FiresNeverOverlap == Spec => []NoOverlap
<1>1. Init => NoOverlap
  BY DEF Init, NoOverlap
<1>2. TypeOK /\ NoOverlap /\ [Next]_vars => NoOverlap'
  <2> SUFFICES ASSUME TypeOK, NoOverlap, [Next]_vars PROVE NoOverlap'
    OBVIOUS
  <2> USE DEF TypeOK, NoOverlap
  <2>1. ASSUME UNCHANGED <<running, fires>> PROVE NoOverlap'
    BY <2>1
  <2>2. ASSUME NEW j \in Jobs, TickJob(j) PROVE NoOverlap'
    <3> DEFINE isFired == next[j] # 0 /\ next[j] <= at /\ MayFire(j)
    <3>1. CASE isFired
      <4>1. running' = [running EXCEPT ![j] = TRUE]
        BY <2>2, <3>1 DEF TickJob
      <4> DEFINE g == [job |-> j, run |-> runs', stage |-> "run"]
      <4>2. fires' = fires \cup {g} /\ g.job = j
        BY <2>2, <3>1 DEF TickJob
      <4>3. \A f \in fires : f.job # j
        BY <3>1 DEF MayFire
      <4> HIDE DEF g
      <4>4. \A f, h \in fires' : f.job = h.job => f = h
        BY <4>2, <4>3
      <4>5. \A i \in Jobs : running'[i] <=> \E f \in fires' : f.job = i
        <5> SUFFICES ASSUME NEW i \in Jobs
                     PROVE  running'[i] <=> \E f \in fires' : f.job = i
          OBVIOUS
        <5>1. CASE i = j
          BY <4>1, <4>2, <5>1
        <5>2. CASE i # j
          BY <4>1, <4>2, <5>2
        <5> QED  BY <5>1, <5>2
      <4> QED  BY <4>4, <4>5
    <3>2. CASE ~isFired
      BY <2>1, <2>2, <3>2 DEF TickJob
    <3> QED  BY <3>1, <3>2
  <2>3. ASSUME NEW f \in fires, NEW s \in {"record", "release"}, Advance(f, s),
               UNCHANGED running
        PROVE  NoOverlap'
    <3> DEFINE g == [f EXCEPT !.stage = s]
    <3>1. g.job = f.job /\ fires' = (fires \ {f}) \cup {g}
      BY <2>3 DEF Advance
    <3> HIDE DEF g
    <3>2. \A h \in fires' : h \in fires \ {f} \/ h = g
      BY <3>1
    <3>3. \A h, k \in fires' : h.job = k.job => h = k
      BY <3>1, <3>2
    <3>4. \A j \in Jobs : (\E h \in fires : h.job = j) <=> \E h \in fires' : h.job = j
      BY <3>1, <3>2
    <3> QED  BY <2>3, <3>3, <3>4
  <2>4. ASSUME NEW f \in fires, Release(f) PROVE NoOverlap'
    <3>1. running' = [running EXCEPT ![f.job] = FALSE] /\ fires' = fires \ {f}
      BY <2>4 DEF Release
    <3>2. f.job \in Jobs /\ running \in [Jobs -> BOOLEAN]
      OBVIOUS
    <3>3. \A g \in fires' : g \in fires /\ g.job # f.job
      BY <3>1
    <3> QED  BY <3>1, <3>2, <3>3
  <2>5. CASE Clock \/ Shutdown \/ Stop \/ BeginTick \/ UNCHANGED vars
    BY <2>1, <2>5 DEF Clock, Shutdown, Stop, BeginTick, vars
  <2>6. ASSUME NEW f \in fires, RunReturns(f) \/ Record(f) PROVE NoOverlap'
    BY <2>3, <2>6 DEF RunReturns, Record
  <2> QED
    BY <2>2, <2>4, <2>5, <2>6 DEF Next, Loop, Fire
<1> QED  BY <1>1, <1>2, TypeCorrect, PTL DEF Spec
-----------------------------------------------------------------------------
(* A fire in progress is at least as late as the run its job shows, and    *)
(* runs counts them all.                                                   *)
RunsInOrder ==
  /\ \A f \in fires : last[f.job] <= f.run /\ f.run <= runs
  /\ \A j \in Jobs : last[j] <= runs

LEMMA RunsStayInOrder == Spec => []RunsInOrder
<1>1. Init => RunsInOrder
  BY DEF Init, RunsInOrder
<1>2. TypeOK /\ NoOverlap /\ RunsInOrder /\ [Next]_vars => RunsInOrder'
  <2> SUFFICES ASSUME TypeOK, NoOverlap, RunsInOrder, [Next]_vars PROVE RunsInOrder'
    OBVIOUS
  <2> USE DEF TypeOK, RunsInOrder
  <2>1. ASSUME UNCHANGED <<last, runs>>, fires' \subseteq fires PROVE RunsInOrder'
    BY <2>1
  <2>2. ASSUME NEW j \in Jobs, TickJob(j) PROVE RunsInOrder'
    <3> DEFINE isFired == next[j] # 0 /\ next[j] <= at /\ MayFire(j)
    <3>1. CASE isFired
      <4> DEFINE g == [job |-> j, run |-> runs', stage |-> "run"]
      <4>1. runs' = runs + 1 /\ last' = last /\ fires' = fires \cup {g}
        BY <2>2, <3>1 DEF TickJob
      <4>2. g.job = j /\ g.run = runs + 1
        BY <4>1
      <4> HIDE DEF g
      <4>3. \A f \in fires : f.run \in Nat
        OBVIOUS
      <4> QED  BY <4>1, <4>2, <4>3
    <3>2. CASE ~isFired
      BY <2>1, <2>2, <3>2 DEF TickJob
    <3> QED  BY <3>1, <3>2
  <2>3. ASSUME NEW f \in fires, RunReturns(f) PROVE RunsInOrder'
    <3>1. PICK s \in {"record", "release"} : fires' = (fires \ {f}) \cup {[f EXCEPT !.stage = s]}
      BY <2>3 DEF RunReturns, Advance
    <3>2. UNCHANGED <<last, runs>>
      BY <2>3 DEF RunReturns
    <3> DEFINE g == [f EXCEPT !.stage = s]
    <3>3. g.job = f.job /\ g.run = f.run
      OBVIOUS
    <3> HIDE DEF g
    <3> QED  BY <3>1, <3>2, <3>3 DEF g
  <2>4. ASSUME NEW f \in fires, Record(f) PROVE RunsInOrder'
    <3> DEFINE g == [f EXCEPT !.stage = "release"]
    <3>1. /\ fires' = (fires \ {f}) \cup {g}
          /\ last' = [last EXCEPT ![f.job] = f.run]
          /\ runs' = runs
      BY <2>4 DEF Record, Advance
    <3>2. g.job = f.job /\ g.run = f.run /\ f.run \in Nat /\ f.job \in Jobs
      OBVIOUS
    <3>3. \A h \in fires \ {f} : h.job # f.job
      BY DEF NoOverlap
    <3> HIDE DEF g
    <3> QED  BY <3>1, <3>2, <3>3
  <2>5. ASSUME NEW f \in fires, Release(f) PROVE RunsInOrder'
    BY <2>1, <2>5 DEF Release
  <2>6. CASE Clock \/ Shutdown \/ Stop \/ BeginTick \/ UNCHANGED vars
    BY <2>1, <2>6 DEF Clock, Shutdown, Stop, BeginTick, vars
  <2> QED
    BY <2>2, <2>3, <2>4, <2>5, <2>6 DEF Next, Loop, Fire
<1> QED  BY <1>1, <1>2, TypeCorrect, FiresNeverOverlap, PTL DEF Spec

(* The last run of a job only ever moves on to a later fire of that job.   *)
THEOREM LastRunOnlyMovesForward == Spec => LastRunMovesForward
<1>1. TypeOK /\ RunsInOrder /\ [Next]_vars => [\A j \in Jobs : last'[j] >= last[j]]_last
  <2> SUFFICES ASSUME TypeOK, RunsInOrder, [Next]_vars, last' # last
               PROVE  \A j \in Jobs : last'[j] >= last[j]
    OBVIOUS
  <2>1. PICK f \in fires : Record(f)
    BY DEF Next, Loop, Fire, Clock, Shutdown, Stop, BeginTick, TickJob, RunReturns, Release, vars
  <2>2. last' = [last EXCEPT ![f.job] = f.run] /\ last[f.job] <= f.run
    BY <2>1 DEF Record, RunsInOrder
  <2> QED  BY <2>2 DEF TypeOK
<1> QED  BY <1>1, TypeCorrect, RunsStayInOrder, PTL DEF Spec, LastRunMovesForward
-----------------------------------------------------------------------------
(* What keeps decisions moving forward: ticks are read in the order of     *)
(* time, a job's next instant lies after its seeding and after every tick  *)
(* logged for it, and a job still to be looked at has nothing logged at    *)
(* this tick.                                                              *)
ClockOrder ==
  /\ at <= now
  /\ ticker # 0 => at < ticker /\ ticker <= now
  /\ lpc = "tick" => at # 0
  /\ lpc # "tick" => todo = {}

NextIsAhead ==
  /\ \A j \in Jobs : seeded[j] <= at
  /\ \A j \in Jobs : next[j] # 0 =>
       seeded[j] # 0 /\ next[j] \in due[j] /\ seeded[j] < next[j]
  /\ \A e \in log :
       /\ e.tick <= at
       /\ seeded[e.job] # 0
       /\ e.job \in todo => e.tick < at
       /\ next[e.job] # 0 => e.tick < next[e.job]

(* The two facts above and FireForward, written for one entry at a time.   *)
Justified(e) == \E d \in due[e.job] :
  /\ d <= e.tick
  /\ seeded[e.job] < d
  /\ \A g \in log : g.job = e.job /\ g.tick < e.tick => g.tick < d

ForwardInv == ClockOrder /\ NextIsAhead /\ \A e \in log : Justified(e)

LEMMA ForwardInvariant == Spec => []ForwardInv
<1> USE DEF ForwardInv
<1>1. Init => ForwardInv
  BY DEF Init, ClockOrder, NextIsAhead, Justified
<1>2. TypeOK /\ ForwardInv /\ [Next]_vars => ForwardInv'
  <2> SUFFICES ASSUME TypeOK, ForwardInv, [Next]_vars PROVE ForwardInv'
    OBVIOUS
  <2> USE TimeAssumption, SchedulesAssumption DEF TypeOK
  <2>1. ASSUME UNCHANGED <<due, loopVars, next, history, now, ticker>> PROVE ForwardInv'
    BY <2>1 DEF ClockOrder, NextIsAhead, Justified, loopVars, history
  <2>2. CASE Clock
    BY <2>2 DEF Clock, ClockOrder, NextIsAhead, Justified, loopVars, history
  <2>3. CASE Stop
    BY <2>3 DEF Stop, ClockOrder, NextIsAhead, Justified, history
  <2>4. CASE BeginTick
    BY <2>4 DEF BeginTick, ClockOrder, NextIsAhead, Justified, history
  <2>5. ASSUME NEW j \in Jobs, TickJob(j) PROVE ForwardInv'
    <3> DEFINE isDue == next[j] # 0 /\ next[j] <= at
    <3>1. /\ lpc = "tick" /\ j \in todo /\ at # 0
          /\ todo' = todo \ {j} /\ UNCHANGED <<due, now, ticker, at>>
      BY <2>5 DEF TickJob, ClockOrder
    <3>2. ClockOrder'
      BY <2>5, <3>1 DEF TickJob, ClockOrder
    <3>3. seeded' = IF seeded[j] = 0 THEN [seeded EXCEPT ![j] = at] ELSE seeded
      BY <2>5 DEF TickJob
    <3>4. next' = IF next[j] = 0 \/ next[j] <= at THEN [next EXCEPT ![j] = NextDue(j)]
                                                ELSE next
      BY <2>5 DEF TickJob
    <3>5. /\ NextDue(j) \in 0..MaxTime
          /\ NextDue(j) # 0 => NextDue(j) \in due[j] /\ NextDue(j) > at
      BY NextAfterFacts DEF NextDue
    <3>6. /\ \A i \in Jobs : seeded'[i] <= at'
          /\ \A i \in Jobs : seeded[i] # 0 => seeded'[i] = seeded[i]
      BY <3>1, <3>3 DEF NextIsAhead
    <3>7. seeded'[j] # 0 /\ \A i \in Jobs : next'[i] # 0 =>
            seeded'[i] # 0 /\ next'[i] \in due[i] /\ seeded'[i] < next'[i]
      <4> SUFFICES ASSUME NEW i \in Jobs
                   PROVE  /\ seeded'[j] # 0
                          /\ next'[i] # 0 =>
                               seeded'[i] # 0 /\ next'[i] \in due[i] /\ seeded'[i] < next'[i]
        OBVIOUS
      <4>1. seeded'[j] # 0
        BY <3>1, <3>3
      <4>2. CASE i = j
        BY <3>1, <3>3, <3>4, <3>5, <4>1, <4>2 DEF NextIsAhead
      <4>3. CASE i # j
        BY <3>1, <3>3, <3>4, <4>3 DEF NextIsAhead
      <4> QED  BY <4>1, <4>2, <4>3
    <3>8. \A e \in log :
            /\ e.tick <= at
            /\ seeded'[e.job] # 0 /\ seeded'[e.job] = seeded[e.job]
            /\ e.job \in todo' => e.tick < at
            /\ next'[e.job] # 0 => e.tick < next'[e.job]
      <4> SUFFICES ASSUME NEW e \in log
                   PROVE  /\ e.tick <= at
                          /\ seeded'[e.job] # 0 /\ seeded'[e.job] = seeded[e.job]
                          /\ e.job \in todo' => e.tick < at
                          /\ next'[e.job] # 0 => e.tick < next'[e.job]
        OBVIOUS
      <4>1. e.job \in Jobs /\ e.tick \in Nat
        OBVIOUS
      <4>2. e.tick <= at /\ seeded[e.job] # 0 /\ (next[e.job] # 0 => e.tick < next[e.job])
        BY DEF NextIsAhead
      <4>3. e.job \in todo' => e.tick < at
        BY <3>1 DEF NextIsAhead
      <4>4. next'[e.job] # 0 => e.tick < next'[e.job]
        BY <3>4, <3>5, <4>1, <4>2
      <4> QED  BY <3>6, <4>1, <4>2, <4>3, <4>4
    <3>9. CASE ~isDue
      <4>1. log' = log
        BY <2>5, <3>9 DEF TickJob
      <4>2. NextIsAhead'
        BY <3>1, <3>6, <3>7, <3>8, <4>1 DEF NextIsAhead
      <4>3. \A e \in log : Justified(e)'
        BY <3>1, <3>8, <4>1 DEF Justified
      <4> QED  BY <3>2, <4>1, <4>2, <4>3
    <3>10. CASE isDue
      <4>1. PICK w \in {"fired", "skipped"} :
              log' = log \cup {[job |-> j, tick |-> at, what |-> w]}
        BY <2>5, <3>10 DEF TickJob
      <4>2. PICK new : new.job = j /\ new.tick = at /\ log' = log \cup {new}
        BY <4>1
      <4>3. \A e \in log : e.job = j => e.tick < at /\ e.tick < next[j]
        BY <3>1, <3>10 DEF NextIsAhead
      <4>4. next'[j] # 0 => at < next'[j]
        BY <3>4, <3>5, <3>10
      <4>5. NextIsAhead'
        BY <3>1, <3>6, <3>7, <3>8, <4>2, <4>4 DEF NextIsAhead
      <4>6. Justified(new)'
        <5>1. next[j] \in due[j] /\ next[j] <= at /\ seeded[j] < next[j] /\ seeded[j] # 0
          BY <3>10 DEF NextIsAhead
        <5>2. \A g \in log' : g.job = j /\ g.tick < at => g.tick < next[j]
          BY <4>2, <4>3
        <5> QED  BY <3>1, <3>6, <4>2, <5>1, <5>2 DEF Justified
      <4>7. ASSUME NEW e \in log PROVE Justified(e)'
        <5>1. PICK d \in due[e.job] :
                /\ d <= e.tick /\ seeded[e.job] < d
                /\ \A g \in log : g.job = e.job /\ g.tick < e.tick => g.tick < d
          BY DEF Justified
        <5>2. e.tick <= at /\ seeded'[e.job] = seeded[e.job] /\ e.tick \in Nat /\ at \in Nat
          BY <3>8
        <5>3. \A g \in log' : g.job = e.job /\ g.tick < e.tick => g.tick < d
          BY <4>2, <5>1, <5>2
        <5> QED  BY <3>1, <5>1, <5>2, <5>3 DEF Justified
      <4> QED  BY <3>2, <4>2, <4>5, <4>6, <4>7
    <3> QED  BY <3>9, <3>10
  <2>6. ASSUME NEW f \in fires, Fire(f) PROVE ForwardInv'
    BY <2>1, <2>6 DEF Fire, RunReturns, Record, Release
  <2>7. CASE Shutdown \/ UNCHANGED vars
    BY <2>1, <2>7 DEF Shutdown, vars
  <2> QED  BY <2>2, <2>3, <2>4, <2>5, <2>6, <2>7 DEF Next, Loop
<1> QED  BY <1>1, <1>2, TypeCorrect, PTL DEF Spec

(* Every decision uses an instant that is after the job's first evaluation *)
(* and after all its earlier decisions: the scheduler never replays.       *)
THEOREM NeverReplays == Spec => []FireForward
<1>1. TypeOK /\ ForwardInv => FireForward
  <2> SUFFICES ASSUME TypeOK, ForwardInv, NEW e \in log
               PROVE  LET before == {g.tick : g \in {h \in log : h.job = e.job /\ h.tick < e.tick}}
                                      \cup {seeded[e.job]}
                      IN \E d \in due[e.job] : d <= e.tick /\ \A t \in before : t < d
    BY DEF FireForward
  <2>1. Justified(e)
    BY DEF ForwardInv
  <2> QED  BY <2>1 DEF Justified
<1> QED  BY <1>1, TypeCorrect, ForwardInvariant, PTL
-----------------------------------------------------------------------------
(* NextAfter passes over no instant.                                       *)
LEMMA NextAfterSkipsNone ==
  ASSUME NEW j \in Jobs, NEW t \in Nat, due \in [Jobs -> SUBSET (1..MaxTime)], MaxTime \in Nat,
         NEW d \in due[j], d > t
  PROVE  NextAfter(j, t) # 0 /\ NextAfter(j, t) <= d
<1> DEFINE later == {c \in due[j] : c > t}
<1>1. later \subseteq 1..MaxTime /\ d \in later  OBVIOUS
<1>2. Earliest(later) \in later /\ Earliest(later) <= d
  BY <1>1, EarliestIsLeast
<1> QED  BY <1>1, <1>2 DEF NextAfter

(* An instant after the job's first evaluation is answered, or not before  *)
(* the job's next one; and that lies ahead of the tick once the tick has   *)
(* looked at the job.                                                      *)
Answered(j, d) == \E e \in log : e.job = j /\ d <= e.tick

AnswerInv ==
  /\ \A j \in Jobs : \A d \in due[j] :
       seeded[j] # 0 /\ seeded[j] < d => Answered(j, d) \/ (next[j] # 0 /\ next[j] <= d)
  /\ \A j \in Jobs \ todo : next[j] # 0 => at < next[j]

LEMMA AnswerInvariant == Spec => []AnswerInv
<1>1. Init => AnswerInv
  BY DEF Init, AnswerInv
<1>2. TypeOK /\ ForwardInv /\ AnswerInv /\ [Next]_vars => AnswerInv'
  <2> SUFFICES ASSUME TypeOK, ForwardInv, AnswerInv, [Next]_vars PROVE AnswerInv'
    OBVIOUS
  <2> USE TimeAssumption, SchedulesAssumption DEF TypeOK
  <2>1. ASSUME UNCHANGED <<due, at, todo, next, history>> PROVE AnswerInv'
    BY <2>1 DEF AnswerInv, Answered, history
  <2>2. CASE BeginTick
    BY <2>2 DEF BeginTick, AnswerInv, Answered, history
  <2>3. ASSUME NEW j \in Jobs, TickJob(j) PROVE AnswerInv'
    <3> DEFINE isDue == next[j] # 0 /\ next[j] <= at
    <3>1. todo' = todo \ {j} /\ UNCHANGED <<due, at>> /\ at \in Nat
      BY <2>3 DEF TickJob
    <3>2. seeded' = IF seeded[j] = 0 THEN [seeded EXCEPT ![j] = at] ELSE seeded
      BY <2>3 DEF TickJob
    <3>3. next' = IF next[j] = 0 \/ next[j] <= at THEN [next EXCEPT ![j] = NextDue(j)]
                                                ELSE next
      BY <2>3 DEF TickJob
    <3>4. /\ NextDue(j) \in 0..MaxTime
          /\ NextDue(j) # 0 => NextDue(j) > at
          /\ \A d \in due[j] : d > at => NextDue(j) # 0 /\ NextDue(j) <= d
      BY <3>1, NextAfterFacts, NextAfterSkipsNone DEF NextDue
    <3>5. /\ log \subseteq log'
          /\ isDue => \E e \in log' : e.job = j /\ e.tick = at
      <4>1. CASE ~isDue
        BY <2>3, <4>1 DEF TickJob
      <4>2. CASE isDue
        <5>1. PICK w \in {"fired", "skipped"} :
                log' = log \cup {[job |-> j, tick |-> at, what |-> w]}
          BY <2>3, <4>2 DEF TickJob
        <5>2. PICK new : new.job = j /\ new.tick = at /\ log' = log \cup {new}
          BY <5>1
        <5> QED  BY <5>2
      <4> QED  BY <4>1, <4>2
    <3>6. \A i \in Jobs, d \in Nat : Answered(i, d) => Answered(i, d)'
      BY <3>5 DEF Answered
    <3>7. ASSUME NEW d \in due[j], seeded'[j] # 0, seeded'[j] < d
          PROVE  Answered(j, d)' \/ (next'[j] # 0 /\ next'[j] <= d)
      <4>1. d \in Nat  OBVIOUS
      <4>2. CASE d > at /\ (next[j] = 0 \/ next[j] <= at)
        BY <3>3, <3>4, <4>2
      <4>3. CASE d <= at /\ isDue
        BY <3>5, <4>3 DEF Answered
      <4>4. CASE d <= at /\ next[j] = 0
        <5>1. seeded[j] # 0 /\ seeded'[j] = seeded[j]
          BY <3>2, <3>7, <4>4
        <5> QED  BY <3>6, <3>7, <4>1, <4>4, <5>1 DEF AnswerInv
      <4>5. CASE next[j] # 0 /\ ~(next[j] <= at)
        <5>1. seeded[j] # 0
          BY <4>5 DEF ForwardInv, NextIsAhead
        <5>2. seeded' = seeded /\ next' = next
          BY <3>2, <3>3, <4>5, <5>1
        <5> QED  BY <3>6, <3>7, <4>1, <5>1, <5>2 DEF AnswerInv
      <4>6. next[j] \in Nat
        OBVIOUS
      <4> QED  BY <3>1, <4>1, <4>2, <4>3, <4>4, <4>5, <4>6
    <3>8. ASSUME NEW i \in Jobs \ {j}, NEW d \in due[i], seeded'[i] # 0, seeded'[i] < d
          PROVE  Answered(i, d)' \/ (next'[i] # 0 /\ next'[i] <= d)
      <4>1. seeded'[i] = seeded[i] /\ next'[i] = next[i] /\ d \in Nat
        BY <3>2, <3>3
      <4> QED  BY <3>6, <3>8, <4>1 DEF AnswerInv
    <3>9. ASSUME NEW i \in Jobs \ todo', next'[i] # 0 PROVE at < next'[i]
      <4>1. CASE i = j
        BY <3>1, <3>3, <3>4, <3>9, <4>1
      <4>2. CASE i # j
        BY <3>1, <3>3, <3>9, <4>2 DEF AnswerInv
      <4> QED  BY <4>1, <4>2
    <3> QED  BY <3>1, <3>7, <3>8, <3>9 DEF AnswerInv
  <2>4. ASSUME NEW f \in fires, Fire(f) PROVE AnswerInv'
    BY <2>1, <2>4 DEF Fire, RunReturns, Record, Release, loopVars
  <2>5. CASE Clock \/ Shutdown \/ Stop \/ UNCHANGED vars
    BY <2>1, <2>5 DEF Clock, Shutdown, Stop, vars, loopVars
  <2> QED  BY <2>2, <2>3, <2>4, <2>5 DEF Next, Loop
<1> QED  BY <1>1, <1>2, TypeCorrect, ForwardInvariant, PTL DEF Spec

(* No instant after a job's first evaluation is lost, however slow the     *)
(* loop and however many ticks the ticker drops.                           *)
THEOREM EveryInstantIsAnswered == Spec => []EveryInstantAnswered
<1>1. TypeOK /\ ForwardInv /\ AnswerInv => EveryInstantAnswered
  <2> SUFFICES ASSUME TypeOK, ForwardInv, AnswerInv, lpc # "tick", NEW j \in Jobs, NEW d \in due[j],
                      seeded[j] # 0, seeded[j] < d, d <= at
               PROVE  \E e \in log : e.job = j /\ d <= e.tick
    BY DEF EveryInstantAnswered
  <2>1. j \notin todo
    BY DEF ForwardInv, ClockOrder
  <2>2. ~(next[j] # 0 /\ next[j] <= d)
    <3>1. next[j] # 0 => at < next[j]
      BY <2>1 DEF AnswerInv
    <3>2. next[j] \in Nat /\ at \in Nat /\ d \in Nat
      BY SchedulesAssumption DEF TypeOK
    <3> QED  BY <3>1, <3>2
  <2> QED  BY <2>2 DEF AnswerInv, Answered
<1> QED  BY <1>1, TypeCorrect, ForwardInvariant, AnswerInvariant, PTL
=============================================================================
