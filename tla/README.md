# A TLA+ model of conductor-ai

Conductor is a single Go process in front of LLM providers. It routes a request
to the first provider that answers, streams or not, keeps a trace of every
request, runs DAGs of prompts ("workflows"), by hand or on a cron schedule, and
stores what happened in SQLite. This directory holds TLA+ modules of the parts
where order, interleaving and failure decide whether it is correct, the TLC
configurations that check them, and proofs of the results that hold for every
size.

1. [The system](#1-the-system) – inventory
2. [The modules and the code](#2-the-modules-and-the-code)
3. [The runs](#3-the-runs) – what is checked, with which bounds
4. [Fairness and deadlock](#4-fairness-and-deadlock)
5. [The proofs](#5-the-proofs)
6. [Where the code and its documentation disagree](#6-where-the-code-and-its-documentation-disagree)
7. [What is not modelled](#7-what-is-not-modelled)
8. [The plan](#8-the-plan)
9. [How to run it](#9-how-to-run-it)

Paths below are relative to the repository's `src/`.

## 1. The system

```
   HTTP client ──► gateway ──► pipeline.Engine ──► router.static ──► ProviderSet
  (api/http/server.go)   │     Complete / Stream         │
                         │            └────► providers (mock, openaicompat)
                         │            └────► trace store ◄────┐
                         └──► workflow.Service ──► Engine.Run ┤ (sqlite)
   cron loop ────────────────►  RunTriggered     └► Complete  │
  (core/scheduler)                    └────► run store  ◄─────┘
                 kernel.New builds all of it, Kernel.Run serves and tears it down
```

| Component | State it keeps | Operations | What makes it correct |
|---|---|---|---|
| Pipeline, unary (`core/pipeline/engine.go`) | per request: candidates, loop index, trace | `Complete`, `route`, `buildAttempt`, `fail`, `save` | attempts are the router's candidates in order; it fails only with a reason; the trace tells what happened; time is bounded; it returns |
| Pipeline, streaming (`core/pipeline/engine_stream.go`) | per stream: start loop, two channels, `drain`'s chunk, usage and error | `Stream`, `drain`, `finishStream` | one provider per stream; trace saved before the end is visible; chunks, error and trace agree; no goroutine is left |
| Provider set and static router (`core/pipeline/providerset.go`, `modules/router/static`) | map and list of instances; configured order | `Add`, `Views`, `Get`; `Route`, `orderViews` | every active provider once; nobody left out; priority order |
| Workflow layering (`core/workflow/dag.go`) | in-degrees, current layer | `Layers`, `Validate` | ends; dependencies in earlier layers; earliest layers; cycles are real |
| Workflow engine and service (`core/workflow/engine.go`, `service.go`, `template.go`) | `outputs`, results per node, the run record | `RunTriggered`, `Run`, `runNode`, `failNode`, `render` | nodes see exactly the finished layers; the record tells what happened; attempts are accounted; it ends |
| Scheduler (`core/scheduler/scheduler.go`) | per job under its lock: `next`, `running`, `last` | `Start`, `loop`, `tick`, `fire`, `Jobs` | no overlap; no instant used twice or lost; last run only moves forward; no job stuck; stops |
| Kernel and command (`internal/kernel/kernel.go`, `cmd/conductor`) | modules, cleanup hooks, server, contexts | `New`, `instantiate`, `Run`, `runCleanups`, `startCmd` | what was opened is closed; a record is lost only for a cause one can name; the process ends |
| Gateway (`api/http`) | none of its own; one goroutine per request | handlers for chat, runs, traces, schedules; `requireAuth`, `logger`, `recoverer` | response, access log, record and later lookups agree; the end of a stream is honest; handlers end |
| Providers (`modules/providers`) | HTTP client; a goroutine per stream | `Generate`, `Stream`, `Capabilities` | stop when their context is over; close their channel after an error |
| SQLite store (`modules/memory/sqlite`) | the tables | `Provision` and its migration; `Save`, `SaveRun`, `PutPrompt` and the queries; `Cleanup` | what was accepted is found again, after a crash too; versions grow by one; a writer is refused only for another; a broken-off start is made good |
| Configuration (`internal/config`) | none; a function of the file and the environment | `parse`, `applyEnvOverrides`, `applyDefaults`, `validate` | what serves is what was configured |
| Loader, registry, observability, ports, dashboard | none that changes after start | | see section 7 |

The parts interact by direct calls with one `context.Context` handed down, by
unbuffered channels (streams), by a lock per job (scheduler), and by the
database. The behaviours that are hard to test:

* **concurrency**: two writers on one database file; provider, `drain` and handler on one stream; the nodes of a
  layer over one unlocked map; ticks against fires; shutdown against everything;
* **failure**: a provider that refuses, hangs, panics or breaks off; a client that
  leaves at any moment; a module that fails while others are open; a store that
  refuses a record; a process that dies while it migrates or writes its database;
* **ordering**: save, then close the channel; merge a layer, then start the
  next; wait for handlers, then close the store;
* **timeouts**: attempt, node, request and shutdown deadlines nested in each
  other, each of which may end while another answer is under way.

`PROJECT.json` lists 40 hazards at the lines where they bite, with the
properties that cover them.

## 2. The modules and the code

Each component is a module with its state as variables and one action per step
between two points at which another goroutine, the clock or the caller may come
in. Definitions carry the source's names. Every module also holds a few
operators that nothing in the specification uses, placed before the definition
they vary (`StopAtOnce` before `StopEarly`): plausible wrong versions, with which
the properties are shown to be violated.

**Trace** – `ports.Trace`, `ports.Attempt` and the helpers `buildAttempt`,
`fail` and the success branch, shared by both halves of the pipeline. One number
`usage` stands for token usage and cost, which the code derives from it and
writes in the same places. `Coherent` is the story a finished trace must tell.

**Complete** – one request through `Engine.Complete`. The actions are the
points of the loop: `Route`, `Skip` (a name the set does not know), `Begin`,
`Answer`, then the check of `ctx.Err()` (`StopEarly` or `FallBack`), `Exhausted`,
`Save`. The environment is the provider, which may answer, refuse, time out or
report usage beside an error at any moment; the clock, which passes while a
provider works and while the save waits for the store; and the caller, who may
cancel at any moment or have set a deadline. A provider notices the end of its
context within `Grace` ticks, and `Save` happens within `SaveTimeout` (the five
seconds of its detached context), for which `Complete` waits. Requests share only
read-only data and the store, so one is enough.

**Stream** – one streamed request, three goroutines. `Starter` is the start
loop of `Engine.Stream`; the producer is `Client.Stream`'s goroutine, of which the
mock's is a special case; `Drain` is `drain` and `finishStream`; the handler is
`streamChat`, with net/http's cancellation when a handler returns or a client
leaves. A send on an unbuffered channel and its receive are one step. `select`
with both cases ready takes either.

Its token accounting is `drain`'s: `usage` and `haveUsage` hold the last report,
`completion` the text as a count of its tokens.

**Fallback** – what both halves of the pipeline promise, with no loop, clock or
goroutine: candidates in order, each refused at most once, until one serves; a
failure only when all refused or the caller is gone; a verdict that is final.
`ImplementsFallback` in **Complete** and **Stream** is the refinement: a failed
attempt is a refusal, a started stream is served.

**Config**, **Routing** – `Config` is `parse` as operators: references to the
environment (which may expand to nothing, or to a name already taken), override,
defaults, `validate`. `Routing` is the process around it: `Load` or `LoadFails`,
one `BuildProvider` per entry of the file (`ProviderSet.Add`), `BuildRouter`, and
then one `Route` per request, the static router's `orderViews` and filter, against
a definition by rank. `selected` is the router's loop shape, append what passes,
as a recursive function of how far the loop has come.

**Dag** – `Layering`, the word **Layers** and **Workflow** share: every node in
one layer, its dependencies in earlier ones.

**Layers** – Kahn's algorithm step by step, on any graph `Validate` may pass to
it (cyclic, self-loops, double entries). Nodes are integers in definition order;
`layerOf` is the list of layers turned round. Its names (`stage`, `KahnInit` …)
differ from **Workflow**'s because one module proves facts about both.

**DagRun** – what a run of a workflow promises, with no layers, goroutines,
retries or contexts: a node runs once, after all it depends on has succeeded; its
result is final; after a failure no further node starts; and the verdict, given
when nobody runs, is success exactly when every node has succeeded.

**Workflow** – one run. `Trigger` … `SaveRun` are `RunTriggered` and `Run`;
`Render`, `Call`, `Answer`, `CallFails`, `Retry`, `StopNode` are `runNode`, in a
goroutine per node. `ImplementsDagRun` is the refinement: a layer that is spawned
starts its nodes. The layering is a constant, `LayersOf`, and
`WorkflowsAssumption` says that it is a `Layering` of the definition, which is what
the theorem `LayersAlwaysRespectDependencies` says of the code's; the pipeline call is one that answers or fails and returns when its
context is over, which is `RequestReturns` of **Complete**. A prompt is the set
of things it mentions: rendering succeeds when all have a value.

**Scheduler** – the loop, its ticker (which drops a tick when the last one was
not read), and the `fire` goroutines. A cron expression is the set of instants at
which it is due. The sections under `j.mu` are single steps; the run of a fire is
one that ends, which is `RunEnds` of **Workflow**.

**Ledger**, **Store** – `Ledger` is what the store promises: entries that are
there whole or not at all, versions 1, 2, 3 … of each prompt, and answers that are
true, across crashes. Two kinds of caller are told nothing of their entry: one cut
off by a crash, and a save whose own context ended (`Doubt`). `Store` is
`modules/memory/sqlite` on one database file: `Start`, `CreateTable`, `AddColumn` are `Provision`, statement by statement, which
`Fault` may break off anywhere; `BeginTx`, `SelectMax`, `Insert`, `Commit`,
`Rollback` are `PutPrompt`; `Save`, `Lock`, `Write`, `Interrupt` are `Save` and
`SaveRun`; `columns` and `scan` are the two conversions between a record and its
row. `Save` and `SaveRun` hand their caller's context to one autocommit statement,
so `Interrupt` may come before the row is written or after it, and the error it
returns leaves that open; `PutPrompt` has a transaction that rolls back. SQLite
itself appears by four rules of its documentation, stated at the head
of the module and marked external in `PROJECT.json`.

**Gateway** – any number of exchanges, each a client, a handler goroutine and,
for a stream, its drain. `Receive`, `RequireAuth`, `Decode`, `Lookup` are the way
in; `Complete`, `Run`, `StreamFails`, `StreamStarts`, `Panic` what the engine does
with the request; `TakeChunk`, `TakeError`, `Terminate` the event stream;
`DrainSaves`, `CloseOut` the record. A lookup remembers whether the client of the
exchange it asks about had its whole answer when it was sent, which is what
"found again" is measured by.

**Kernel** – the process. `Instantiate`, the three ways it can go wrong
(`ModuleUnknown`, `ProvisionFails`, `WrongPort`) and the three steps after the
modules (`LoadDir`, `NewService`, `BuildScheduler`, each of which may reject the
configuration) are `kernel.New`; `Run` … `ShutdownTimesOut`, `CleanUp`, `Exit` are `Kernel.Run` and
main's return; `Accept`, `Leave`, `Fire`, `Finish`, `LoopReturns` are the handlers,
drain goroutines and scheduled runs beside it, reduced to the one thing that
matters here: they end by saving a record. The store takes it while it is open
and the context it is saved under is not over (`SaveCtxOver`): a chat's is
detached, a client's run (`Runs`) has its request's, a fired run has `Run`'s own,
which the signal cancels while `Shutdown` still waits.

So the composition is by contract: Kernel relies on nothing but that work ends
with a save; Scheduler on Workflow's end; Workflow on Complete's return and on
the layering; Gateway on the records and returns of Complete, Stream and
Workflow; Stream and Complete on Trace, and both keep Fallback's promise, as
Workflow keeps DagRun's and Store Ledger's. Each of those contracts is a property
some run checks or a theorem.

## 3. The runs

Each run takes seconds with two workers; `gateway` takes a minute, `complete` and
`store` half of one.

| Run | Module | Question | Bounds |
|---|---|---|---|
| `complete` | MCComplete | Does a request fall back, give up, account and return correctly? | every list of ≤ 3 candidates over two known names and one unknown, repeats included; attempt timeout 2 ticks, grace and save timeout 1; no deadline, one equal to the attempt timeout, one between one and two attempts |
| `stream` | MCStream | Do the three goroutines of a stream agree, and all end? | candidate lists of ≤ 2; ≤ 3 chunks; usage reports 0 or 2 |
| `routing` | MCRouting | Does a process serve what it was configured with, and are a request's candidates the right ones in the right order? | files of ≤ 3 entries over three names, a `${VAR}`, a missing name, a missing `use`; timeout −1, 0, 30; six environments; every configured order of ≤ 3 names; every set of supporting providers |
| `store` | MCStore | Is the store a ledger, whoever writes, leaves or dies? | two `PutPrompt`s of one name and one of another, one `SaveRun`, a new file or an old one, one crash or failed start |
| `gateway` | MCGateway | Do response, log, record and lookup of concurrent requests agree? | two exchanges of any kind, with and without a key and a store; ≤ 2 chunks and an error |
| `layers` | MCLayers | Does Kahn's algorithm end, layer right and detect cycles right? | every graph of 4 nodes with ≤ 2 entries per list |
| `workflow` | MCWorkflow | Do the nodes of a run see, and the record tell, what happened? | all 8 DAGs of three nodes (in topological order); retries −1, 0, 1; one input, supplied or not; prompts with an undeclared mention |
| `scheduler` | MCScheduler | No overlap, no instant lost or replayed, nothing stuck? | two jobs, four instants, every schedule for one job, never/always for the other |
| `kernel` | MCKernel | What is closed, what can be lost, and does it end? | three modules, two with a hook; one chat, one run for a client, one scheduled run |
| `node_timeout`, `stream_cut`, `run_persisted` | | section 6 | smaller versions of the above |

Why the bounds are enough to see the interesting cases:

* *Complete*: with three candidates there is a first, a middle and a last one,
  an unknown one may stand in each place, and a provider may come twice. A tick
  is half an attempt, so an attempt may end before, at and after another limit; a
  grace and a save of one tick each let a deadline pass before, in and after them.
  The counters (`elapsed`, `lateStarts`, `i`) are bounded by the list.
* *Stream*: three chunks hold a delta, a report and a second report or an error,
  in any order, so that cuts fall before, between and after them. After the
  start nothing depends on the number of candidates; two show one fallback.
* *Routing*: three entries hold a name twice, apart or next to each other, once
  by way of the environment; every default is applied and not applied.
* *Store*: two calls on one name race for a version, the third shows that names
  do not disturb each other but writers do, the save waits where they do not. One
  crash is enough: it falls before, between and after any two steps, and a second
  would find a state that one also leaves. `MaxFaults` bounds crashes and failed
  starts together; the proofs have no such bound.
* *Gateway*: two exchanges hold a lookup before, during and after the request it
  asks about, and two requests at once share only the store. Two chunks tell the
  first one from the rest.
* *Layers*: four nodes hold a diamond, a cycle beside and behind a finished
  layer, a self-loop and double entries.
* *Workflow*: three nodes hold two in one layer with a third before or behind
  them, and chains, so a failure may come in the first, middle and last layer.
* *Scheduler*: `MaxTime` stops the clock at four. A tick can be dropped, taken
  late, and two instants can pile up behind one tick. Stopping the clock creates
  no fairness problem: nothing waits for a later tick.
* *Kernel*: the store and one more module with a hook, around one without,
  show the order of the hooks and every position of a failure. In the tree only
  the SQLite module has a hook; the kernel handles any number, and so does the
  model. The three kinds of work save under three kinds of context; each may end
  before, while and after another is waited for.

What the properties say:

* **Complete** – `AttemptsFollowRoute`: the attempts on record are the known
  candidates the loop passed, once each and in order. `TraceCoherent`: returned
  and stored trace agree, and verdict, provider and usage are the last attempt's
  alone. `ImplementsFallback`: among other things, a request fails only unrouted,
  with its context over, or with everything tried. `AtMostOneLateStart`: the check of the context and
  the next attempt are not atomic, but no more than one attempt starts on a dead
  context. `TimeBounded`: at most the attempt timeout and the grace per attempt
  made, plus the save; and past a deadline at most one grace, that of the attempt it
  ended, and the save. `RequestReturns`.
* **Stream** – `RecordedBeforeTheEnd`: who learns from the closed channel, or
  from `Stream`'s error, that it is over finds the trace stored, once.
  `OneProviderPerStream`: no fallback after the first chunk could have been sent.
  `SuccessDeliversAll`: a recorded success lost no chunk, and a client that saw
  an error finds none. `UsageMatchesDelivery`: usage on record is the last report
  sent, or the count of what came. `ImplementsFallback`. `NoGoroutineLeft`.
* **Routing** – `StartsAsConfigured`: a process that serves has one instance per
  entry of its file, under the name the file or the environment gave it, in the
  file's order, and every value the kernel relies on. `NobodyLeftOut`,
  `PriorityRespected`.
* **Store** – `ImplementsLedger`; `ConfirmedIsReadable`: what was confirmed is
  read back as it was handed in; `RefusedForAWriter`: a call that is refused the
  lock is so for another that holds it and is about to write, or for an entry the
  file has taken since the call's snapshot, never for one that was itself refused,
  cancelled or cut off; `StartsAgain`: whatever a start was broken off at,
  the next one that nothing disturbs succeeds with the schema complete.
* **Gateway** – `AccountsAgree`: one log line with the response's status (none
  after a panic); an answered client was told what is on record, and finds it when
  it asks, unless the store refused it. `EndOfStreamIsHonest`: one terminator, every
  chunk before it, an error frame unless the trace says success. `HandlersEnd`.
* **Layers** – `LayersRespectDependencies` (the result is a `Layering`),
  `CycleIsReal`, `LayersAreEarliest` (with the first: a node's layer is the longest chain that ends in it),
  `LayersTerminates`.
* **Workflow** – `OutputsStableWhileRunning`: the unlocked
  map holds exactly the earlier layers while any goroutine runs;
  `RunTellsWhatHappened`; `AttemptsAccounted`: calls are bounded by the retries,
  the reported number is the calls' (or 1 if there were none), and a node calls at
  most once more after the run is over; `ImplementsDagRun`: among other things, a
  node starts only after its dependencies succeeded, none after a failure; `RunEnds`.
* **Scheduler** – `NoOverlap`, `FireForward`, `EveryInstantAnswered`,
  `JobsComeFree`; `ShutdownQuiesces`: after a shutdown there comes a time from
  which the loop is over and no fire runs, for good.
* **Kernel** – `LeaksOnlyTheFailedModule`; `LostOnlyWithCause`: a request's record is
  lost only if it was left early, outlasted Shutdown's deadline or the listener
  failed, a chat's or a stream's only to the end of the process, and a fired run's
  only after the signal or the listener's failure; `KernelExits`.

Each of them has a mutant in `PROJECT.json`: a wrong version of one definition
with which the same run finds the property violated. The list shows what each
property is sensitive to.

## 4. Fairness and deadlock

Fairness is stated per goroutine, and only where the code or a documented
contract gives a reason:

* The program's own goroutines run when they can (weak fairness on `Engine`,
  `Starter`, `Drain`, `Handler`, `Run`, `Node`, `Loop`, `Fire`, and on the kernel's
  main goroutine).
* A provider owes what `core/ports/provider.go:20-30` asks of it: it respects the
  cancellation of its context and closes its channel. So `Answer` is fair only
  once the attempt's context is over, `Leave` and `CloseAfterError` on a stream
  likewise. A provider that is in time owes nothing, and a stream may take any
  time to start, with no timeout of the engine's to end it: only its caller's
  departure does.
* The clock is fair in Complete while a provider works or a save waits, because
  `context.WithTimeout` is. It is not in Scheduler, where nothing waits for it. The
  save of a trace is owed only when its own timeout is over.
* `Stop` of the scheduler's loop is strongly fair: `select` picks among ready
  cases at random, and a loop that keeps finding ticks still takes `ctx.Done`
  in the end.
* In Store, a started `Provision` and a started call run on: a waiting write gets
  the lock or its `busy_timeout`. Nobody must call, cancel, crash or restart.
* In Gateway, handlers and drains run, and `Complete` and a run return because
  `RequestReturns` and `RunEnds` say so; starting a stream and its chunks owe
  something only once the request's context is over.
* In Kernel only the main goroutine is fair. `http.Server.Shutdown` is called
  with a deadline of 15 seconds, so one of `ShutdownReturns` and
  `ShutdownTimesOut` happens. Handlers, runs, the listener and the signal owe
  nothing: `KernelExits` holds however long they take.

`CHECK_DEADLOCK FALSE` stands in every configuration: requests, streams, runs,
layerings, exchanges and the process end, a configuration may be rejected, calls
of the store are finitely many, and the scheduler comes to rest when the bounded
clock does. That nothing comes to rest too early is what the liveness properties
say.

## 5. The proofs

TLAPS checks the following for every value of the constants; each `*Proofs`
module EXTENDS the module it is about. Nothing is assumed beyond the named
`ASSUME`s of the modules, which say what kind of things the constants are.

| Module | Theorems | Inductive argument |
|---|---|---|
| CompleteProofs | `TypeCorrect`, `AttemptsAlwaysFollowRoute`, `TraceAlwaysCoherent`, `NeverFailsWithoutCause`, `OneLateStartAtMost`, `RequestsAreBounded`, `RequestsNeverGoRound`, `CompleteIsAFallback` | One invariant for each question. `RouteInv` relates the loop index to the recorded indexes at every point of the loop, because between two points the property alone does not say where the next attempt goes. `CauseInv` adds that a failed verdict is only given with one of the three reasons, each of which is stable. `LateInv` adds that after a late start the context is over for good, so the check that follows stops the loop. `SpentInv` accounts for the running attempt and its overrun; `DeadlineInv` says that the loop is only ever entered before the deadline, so that one attempt at most overruns it. `StoryInv` adds that before the end no attempt has succeeded. The refinement needs `RouteInv` and `StoryInv`: the next candidate that exists is the first place not refused. `RequestsNeverGoRound` counts a number of steps per candidate left, within which the running attempt's time, its grace and at last the save's are counted down. |
| StreamProofs | `TypeCorrect`, `AlwaysRecordedBeforeTheEnd`, `AlwaysOneProvider`, `SuccessAlwaysDeliversAll`, `UsageAlwaysMatches`, `StreamIsAFallback` | `Phases` says which states of the start loop, the producer, the drain and the handler occur together. `DeliveryInv`: what the drain took is what the handler got, and at most the chunk in hand; all of it is from the winner. `TraceInv`: until the drain has finished, every attempt on record failed to start. `UsageInv`: `usage` and `completion` are those of the chunks taken. `IndexInv` ties the attempts' indexes to the places passed. |
| StoreProofs | `TypeCorrect`, `AlwaysReadable`, `RefusedOnlyForAWriter`, `StoreIsALedger` | `Locking`: the lock is held by the one call about to commit. `Versioning`: a prompt's versions are exactly 1..k, and a call whose snapshot is still the newest holds k + 1; this is what makes `MAX(version) + 1`, computed without the lock, right when it is used. `Recording`: a row is there exactly for who has written. `Counted`: every commit leaves one entry in the file, so a snapshot that is no longer the newest is older than an entry. |
| GatewayProofs | `TypeCorrect`, `AccountsAlwaysAgree`, `EndIsAlwaysHonest` | Each step touches one exchange (`Local`). `Exchange` says, at each place of the handler and of the drain, what reply, record and log look like: above all that the body of a stream is the frames of the chunks heard, and that a drain that failed unheard had lost its client. `Asked`: an answered client stays answered. |
| RoutingProofs | `TypeCorrect`, `AlwaysStartsAsConfigured`, `NobodyEverLeftOut`, `PriorityAlwaysRespected` | `Selection`: after k rounds the router's loop holds the passing members of the first k, in order, each under an increasing place. It is proved by `Least`, the least k at which it would not hold. From it follow what the two lists of `orderViews` contain, how often, and by which rank. `StartInv` is the other half: the instances built so far are the file's first entries, under distinct names, because `validate` saw the same list. |
| WorkflowProofs, on Layers | `KahnTypeCorrect`, `LayersAlwaysRespectDependencies`, `CyclesAreAlwaysReal`, `LayersAreAlwaysEarliest`, `NoLayeringIsEarlier`, `EveryStepIsProgress` | `KahnInv`: the in-degree of a node not yet placed is the number of entries of its list that are not placed, and a placed node's stays negative. From it an in-degree of 0 means all dependencies are placed, and a collection that finds none leaves a set each of whose members waits for another. `NoLayeringIsEarlier`: in the first layer of another layering that holds a node too early, the dependency that forces it later would be too early before it. Cardinalities come from FiniteSetTheorems. |
| WorkflowProofs, on Workflow | `TypeCorrect`, `AlwaysDependenciesFirst`, `OutputsAlwaysStable`, `RunAlwaysTells`, `AttemptsAlwaysAccounted`, `RunIsADagRun`, `RunsNeverGoRound` | `Between`, `Within` and `Broken` are the three situations of a run: between two layers the record, the outputs and the goroutines that ever ran are those of the earlier layers; within one, its nodes run and nothing else changed; after a failure the failed layer is the last. `NodeInv` is the history of one goroutine. The refinement takes a node's state from its goroutine and its result; that no node of an open layer has failed unnoticed before the next starts is `Between`. |
| SchedulerProofs | `TypeCorrect`, `FiresNeverOverlap`, `LastRunOnlyMovesForward`, `NeverReplays`, `EveryInstantIsAnswered` | `NoOverlap` is inductive with the types. `RunsInOrder` adds that a job's last run is older than its running fire. `ForwardInv` ties `Job.next` to the log: it is an instant the job is due after every decision and after its first evaluation. `AnswerInv` is the other half: an instant not yet answered is not before `Job.next`, and that lies ahead of a tick that has looked at the job. |
| KernelProofs | `TypeCorrect`, `NothingElseLeaks`, `NoRecordLostWithoutCause`, `MainNeverGoesRound` | `HookInv`: an open module has its hook to come, or is the one that failed; and the verdict is only given when New or Run is over. `Holding`: the modules New is done with, the store among them, are open until the cleanups. `WaitInv`: nothing runs before Run, and once Shutdown has returned in time no handler it waits for does, because the closed server starts none; with it go the losses so far and their causes, none of which is ever taken back. |

`RequestsAreBounded` is what a caller of `Complete` may rely on: the list's length
times the attempt timeout and the grace, and the save; and, if it set a deadline,
no more than one grace and one save beyond it, however many candidates are left.
`NeverFailsWithoutCause`, `AlwaysDependenciesFirst`, `LastRunOnlyMovesForward` and
`NoLayeringIsEarlier` prove what no run lists: the first is part of
`ImplementsFallback`, the second all but part of `ImplementsDagRun`, the third of
the order `NoOverlap` and `FireForward` leave, the fourth compares with layerings
the algorithm does not compute.

The four refinements, `CompleteIsAFallback`, `StreamIsAFallback`, `RunIsADagRun` and
`StoreIsALedger`, are proved as TLC checks them: initial states to initial states,
every step to a step or a stutter, for every size. The abstract specifications
state no fairness.

`WorkflowsAssumption`, the one assumption that speaks of another component's
result, is `LayersAlwaysRespectDependencies` with Layers' result for `LayersOf`.

Every module with a specification of its own that models code has its type
invariant proved, so no run spends time on it.

Out of the prover's reach, and shown by TLC only: liveness (`RequestReturns`,
`NoGoroutineLeft`, `HandlersEnd`, `StartsAgain`,
`LayersTerminates`, `RunEnds`, `JobsComeFree`, `ShutdownQuiesces`, `KernelExits`),
because it rests on fairness, whose definition has ENABLED in it. Of four of these
the other half is proved: `RequestsNeverGoRound` (`RequestReturns`),
`EveryStepIsProgress` (`LayersTerminates`), `RunsNeverGoRound` (`RunEnds`) and
`MainNeverGoesRound` (`KernelExits`) each give a natural number that every step of
the program decreases and no step of its environment raises. There is no infinite
run of steps, whatever the sizes; that the program is not stuck before its end is
what TLC adds.

## 6. Where the code and its documentation disagree

Three runs each check one sentence of the repository and find it violated by what
the code does; `PROJECT.json` quotes the lines.

1. `node_timeout` – "falling back on failure": a workflow node without a timeout
   of its own runs under the same limit as each attempt of the pipeline, so when
   the first provider hangs, both end together and no other candidate is tried.
2. `stream_cut` – a stream whose context ends while `drain` waits for the next
   chunk is recorded as a success, though it was cut.
3. `run_persisted` – "persists every completed run": a cancelled run is saved
   under its cancelled context, which the store refuses.

Seen while modelling, and part of the model as the code has them, without a run
of their own:

* "attemptTimeout caps each individual provider attempt": starting a stream is
  not capped (`engine_stream.go:53`). In Stream a start may hang until its caller
  is gone.
* "misconfiguration surfaces at startup, never silently at fire time": a job that
  lacks a declared input is accepted (`scheduler.go:107`) and fails at each fire.
* WAL mode and a busy timeout are there to keep callers from "database is locked"
  (`sqlite.go:54-56`, which speaks of one writer); of two concurrent `PutPrompt`s the
  one whose snapshot is no longer the newest gets that error at once, because the
  busy handler is not asked. In Store this is `InsertRefused`, and
  `RefusedForAWriter` says how far it can go.
* A save that reports its context's error may have written its row all the same
  (`sqlite.go:109`, `174`).
* "on every response" (`server.go:22`): a stream that fails to start, and a
  response of 400, 401, 404, 500 or 501, has no trace header; nor has a lookup.
* `recoverer` is outside `logger`: a request whose handler panics has no log line.
  It does not reach the goroutines of nodes, drains and fires, where a panic ends
  the process.
* `request_timeout` is "the overall per-request budget in seconds across all fallback
  attempts" in `config.go:75-78`, and one per attempt in `README.md:186`. The kernel
  hands it to the pipeline as the timeout of each attempt (`kernel.go:74`). So the
  bound on a request without a deadline, as an HTTP request is, is the first half of
  `TimeBounded`, which grows with the list; the one budget holds, as the second half,
  where the caller's context has a deadline, as a workflow node's has.
* A name listed twice in the router's `order` is attempted twice; the engine waits
  for a whole layer where `core/ports/workflow.go:35-36` speaks of a node's own
  dependencies; negative retries pass `Validate` and give a node that was never
  called but reports one attempt; `Complete` always ends a failed trace as "error",
  while `finishStream` keeps "timeout"; an `http.Client.Timeout` covers a whole
  stream.
* A module that fails after it acquired its resource leaves it open
  (`sqlite.go:70-83`); scheduled runs and drain goroutines are not waited for at
  shutdown; `last_run` may name a run the store refused.

## 7. What is not modelled

* **Loader and registry**: reading and decoding at start, without state of their
  own. Their failures are Kernel's `ModuleUnknown`, `ProvisionFails` and `LoadDir`.
* **Configuration**: YAML, the choice of the file, and module settings, which are
  opaque to `internal/config`; `${VAR}` in other fields than a provider's name and
  use expands the same way and is left out.
* **Observability**: the logger, and cost as a product of floating-point numbers.
* **Ports**: interfaces. Their contracts are the fairness and the environment
  actions of the modules, and Fallback and Ledger.
* **Dashboard**: a read-only browser view of the HTTP API.
* **Lists and read-only views** of the gateway and the store (health, models,
  configuration, jobs, the latest traces and runs): they read one table or one
  snapshot and cut it at a limit. The kernel shows `prompt_store` in its summary and
  builds nothing for it yet, so `PutPrompt` has no caller in the tree; it is modelled
  as the port offers it, to any number of callers.
* **Wire formats** of the gateway and the providers: decoding and formatting of
  one request, no interplay between two.
* A database at `:memory:`, where every pooled connection has its own; and SQLite
  itself beyond the four rules Store names.
* Latencies, costs, model names, prompts and error texts, everywhere.

## 8. The plan

Order of the modules, the most important behaviour first; all of these are
written:

1. `Trace`, `Complete` – the fallback loop; proofs.
2. `Stream` – the goroutines of a stream; proofs.
3. `Fallback` – the promise of both; refinements, and proofs of them.
4. `Config`, `Routing` – where the candidates come from; proofs.
5. `Dag`, `Layers` – layering; proofs.
6. `DagRun`, `Workflow` – the promise of a run, and a run on top of the layers;
   refinement and proofs.
7. `Scheduler` – triggering; proofs.
8. `Kernel` – lifecycle of it all; proofs.
9. `Ledger`, `Store` – the database, concurrent writers, crashes; proofs.
10. `Gateway` – concurrent exchanges over all of it; proofs.

Left to do:

* The abstract pipeline call Workflow uses, implemented by Complete, and DagRun in
  the place of the abstract run Scheduler and Gateway use; today those two are
  contracts by name.
* Measures like `RunsNeverGoRound` for the goroutines of Stream, the exchanges of
  Gateway and the calls of Store.

## 9. How to run it

```
tlc -workers 2 -config MCComplete.cfg MCComplete     # any MC module, its .cfg
tlc -workers 2 -config StreamCut.cfg MCStream        # a run of section 6
tlapm CompleteProofs.tla                             # any *Proofs module
```
