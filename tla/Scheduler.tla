----------------------------- MODULE Scheduler -----------------------------
(***************************************************************************)
(* The cron scheduler (core/scheduler/scheduler.go): a loop that evaluates *)
(* every job on each tick of a time.Ticker, and one goroutine per fire     *)
(* that runs the job's workflow and records the outcome.                   *)
(*                                                                         *)
(* A cron expression is the set of instants at which it is due; 0 is Go's  *)
(* zero time, which cron's Next also returns when nothing is due any more. *)
(* The sections the code runs under j.mu are single steps.  Run IDs are    *)
(* numbered in the order of the fires.                                     *)
(***************************************************************************)
EXTENDS Naturals

CONSTANTS Jobs,        \* the jobs New accepted
          Schedules,   \* the cron schedules they may have
          Incomplete,  \* jobs whose inputs lack one their workflow declares
          MaxTime      \* bound: the clock stops there

ASSUME TimeAssumption      == MaxTime \in Nat
ASSUME SchedulesAssumption == Schedules \subseteq [Jobs -> SUBSET (1..MaxTime)]
ASSUME JobsAssumption      == Incomplete \subseteq Jobs

VARIABLES
  due,       \* each job's schedule
  now,       \* the wall clock
  ticker,    \* the ticker's one-slot channel: the time in it, or 0
  shutdown,  \* the scheduler's context is over
  lpc,       \* the loop goroutine
  at,        \* the `now` of the tick being evaluated
  todo,      \* jobs this tick has still to look at
  next,      \* Job.next
  running,   \* Job.running
  last,      \* Job.last: the number of the run, 0 for none
  fires,     \* the goroutines running fire
  runs,      \* how many fires there were
  seeded,    \* history: when a job was first evaluated, 0 before that
  log        \* history: what the ticks decided for jobs that were due

loopVars == <<lpc, at, todo>>
history  == <<seeded, log>>
vars == <<due, now, ticker, shutdown, loopVars, next, running, last, fires, runs, history>>

Fires == [job: Jobs, run: Nat, stage: {"run", "record", "release"}]

TypeOK ==
  /\ due \in Schedules
  /\ now \in 0..MaxTime /\ ticker \in 0..MaxTime
  /\ shutdown \in BOOLEAN
  /\ lpc \in {"select", "tick", "stopped"}
  /\ at \in 0..MaxTime
  /\ todo \subseteq Jobs
  /\ next \in [Jobs -> 0..MaxTime]
  /\ running \in [Jobs -> BOOLEAN]
  /\ last \in [Jobs -> Nat]
  /\ fires \subseteq Fires
  /\ runs \in Nat
  /\ seeded \in [Jobs -> 0..MaxTime]
  /\ log \subseteq [job: Jobs, tick: 1..MaxTime, what: {"fired", "skipped"}]

Init ==
  /\ due \in Schedules
  /\ now = 0 /\ ticker = 0
  /\ shutdown = FALSE
  /\ lpc = IF Jobs = {} THEN "stopped" ELSE "select"   \* Start
  /\ at = 0 /\ todo = {}
  /\ next = [j \in Jobs |-> 0]
  /\ running = [j \in Jobs |-> FALSE]
  /\ last = [j \in Jobs |-> 0]
  /\ fires = {} /\ runs = 0
  /\ seeded = [j \in Jobs |-> 0] /\ log = {}
-----------------------------------------------------------------------------
(* Time passes.  A ticker drops its tick when the last one was not read    *)
(* yet, so a slow loop sees old ticks and misses others.                   *)
Clock ==
  /\ now < MaxTime
  /\ now' = now + 1
  /\ ticker' = IF ticker = 0 THEN now + 1 ELSE ticker
  /\ UNCHANGED <<due, shutdown, loopVars, next, running, last, fires, runs, history>>

Shutdown ==
  /\ ~shutdown /\ shutdown' = TRUE
  /\ UNCHANGED <<due, now, ticker, loopVars, next, running, last, fires, runs, history>>

(* A loop whose ctx.Done case only breaks out of the select.               *)
StopBreaksTheSelect ==
  /\ lpc = "select" /\ shutdown
  /\ UNCHANGED vars

(* loop: a select with both cases ready takes either.                      *)
Stop ==
  /\ lpc = "select" /\ shutdown
  /\ lpc' = "stopped"
  /\ UNCHANGED <<due, now, ticker, shutdown, at, todo, next, running, last, fires, runs,
                 history>>

BeginTick ==
  /\ lpc = "select" /\ ticker # 0
  /\ lpc' = "tick"
  /\ at' = ticker /\ ticker' = 0 /\ todo' = Jobs
  /\ UNCHANGED <<due, now, shutdown, next, running, last, fires, runs, history>>

-----------------------------------------------------------------------------
(* cron.Schedule.Next: the first instant it is due strictly after t.       *)
Earliest(S)       == IF S = {} THEN 0 ELSE CHOOSE d \in S : \A e \in S : d <= e
NextAfter(j, t)   == Earliest({d \in due[j] : d > t})

NextFromLast(j)  == NextAfter(j, next[j])
NextFromClock(j) == NextAfter(j, now)

(* `next` is seeded and moved on from the time of the tick, which may be   *)
(* well behind the clock or past several instants.                         *)
NextDue(j) == NextAfter(j, at)

MayFireAnyway(j) == TRUE
MayFire(j)       == ~running[j]

(* The body of tick for one job, under its lock: the first evaluation only *)
(* seeds `next`; a job that is due moves on to its next instant and then   *)
(* fires, unless its previous fire is still running.  Jobs share nothing,  *)
(* so the order in which a tick takes them is left open.                   *)
TickJob(j) ==
  /\ lpc = "tick" /\ j \in todo
  /\ todo' = todo \ {j}
  /\ lpc' = IF todo' = {} THEN "select" ELSE "tick"
  /\ next' = IF next[j] = 0 \/ next[j] <= at THEN [next EXCEPT ![j] = NextDue(j)]
                                            ELSE next
  /\ seeded' = IF seeded[j] = 0 THEN [seeded EXCEPT ![j] = at] ELSE seeded
  /\ LET isDue == next[j] # 0 /\ next[j] <= at
         fire  == isDue /\ MayFire(j)
     IN /\ log' = IF isDue THEN log \cup {[job |-> j, tick |-> at,
                                 what |-> IF fire THEN "fired" ELSE "skipped"]}
                           ELSE log
        /\ IF fire THEN /\ running' = [running EXCEPT ![j] = TRUE]
                        /\ runs' = runs + 1
                        /\ fires' = fires \cup {[job |-> j, run |-> runs', stage |-> "run"]}
                   ELSE UNCHANGED <<running, runs, fires>>
  /\ UNCHANGED <<due, now, ticker, shutdown, at, last>>

Loop == BeginTick \/ \E j \in Jobs : TickJob(j)
-----------------------------------------------------------------------------
Advance(f, stage) == fires' = (fires \ {f}) \cup {[f EXCEPT !.stage = stage]}

(* RunTriggered returns: an error when an input is missing, a run (failed  *)
(* or not) otherwise.                                                      *)
RunReturns(f) ==
  /\ f.stage = "run"
  /\ Advance(f, IF f.job \in Incomplete THEN "release" ELSE "record")
  /\ UNCHANGED <<due, now, ticker, shutdown, loopVars, next, running, last, runs, history>>

Record(f) ==
  /\ f.stage = "record"
  /\ last' = [last EXCEPT ![f.job] = f.run]
  /\ Advance(f, "release")
  /\ UNCHANGED <<due, now, ticker, shutdown, loopVars, next, running, runs, history>>

ReleaseOnlyOnSuccess(f) ==
  /\ f.stage = "release" /\ f.job \notin Incomplete
  /\ running' = [running EXCEPT ![f.job] = FALSE]
  /\ fires' = fires \ {f}
  /\ UNCHANGED <<due, now, ticker, shutdown, loopVars, next, last, runs, history>>

(* The deferred function, whatever fire did.                               *)
Release(f) ==
  /\ f.stage = "release"
  /\ running' = [running EXCEPT ![f.job] = FALSE]
  /\ fires' = fires \ {f}
  /\ UNCHANGED <<due, now, ticker, shutdown, loopVars, next, last, runs, history>>

Fire(f) == RunReturns(f) \/ Record(f) \/ Release(f)

Next == Clock \/ Shutdown \/ Stop \/ Loop \/ \E f \in fires : Fire(f)

(* The goroutines run, a triggered run ends (module Workflow, RunEnds),    *)
(* and select, which picks a ready case at random, does not ignore         *)
(* ctx.Done for ever.                                                      *)
Fairness ==
  /\ WF_vars(Loop) /\ SF_vars(Stop)
  /\ \A j \in Jobs : WF_vars(\E f \in fires : f.job = j /\ Fire(f))

Spec == Init /\ [][Next]_vars /\ Fairness
-----------------------------------------------------------------------------
(* Per job at most one fire runs at any time, and Job.running says exactly *)
(* whether there is one, also while it is recorded and cleaned up.         *)
NoOverlap ==
  /\ \A f, g \in fires : f.job = g.job => f = g
  /\ \A j \in Jobs : running[j] <=> \E f \in fires : f.job = j

(* Fire-forward: a decision to fire or skip needs an instant the job was   *)
(* due after its first evaluation, and after the previous decision: no     *)
(* instant is used twice, and what was due before the start, or piled up   *)
(* behind a slow tick, is never replayed.                                  *)
FireForward == \A e \in log :
  LET before == {g.tick : g \in {h \in log : h.job = e.job /\ h.tick < e.tick}}
                  \cup {seeded[e.job]}
  IN \E d \in due[e.job] : d <= e.tick /\ \A t \in before : t < d

(* No instant is lost: once a tick has been evaluated, every instant a job *)
(* was due since its first evaluation is answered by a fire or by a skip   *)
(* because of a running fire, at that tick at the latest.                  *)
EveryInstantAnswered ==
  lpc # "tick" => \A j \in Jobs : \A d \in due[j] :
    seeded[j] # 0 /\ seeded[j] < d /\ d <= at =>
      \E e \in log : e.job = j /\ d <= e.tick

(* What /v1/schedules shows as a job's last run only ever moves on to a    *)
(* later fire of that job.                                                 *)
LastRunMovesForward == [][\A j \in Jobs : last'[j] >= last[j]]_last

(* A job is never stuck in "previous run still in progress": a fire that   *)
(* failed to start gives the job free just as one that ran to its end.     *)
JobsComeFree == \A j \in Jobs : running[j] ~> ~running[j]

(* After the cancellation the loop ends, though its ticker goes on and the *)
(* select may take a few more ticks and fire on the dead context; and once *)
(* those fires have drained nothing of the scheduler runs any more.        *)
ShutdownQuiesces == shutdown ~> [](lpc = "stopped" /\ fires = {})
=============================================================================
