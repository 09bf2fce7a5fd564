------------------------------ MODULE Complete ------------------------------
(***************************************************************************)
(* Engine.Complete (core/pipeline/engine.go): a non-streaming request      *)
(* walks the router's candidates until a provider answers.  Requests run   *)
(* in goroutines of their own and share only the read-only ProviderSet and *)
(* the store, so one request is modelled: its engine, the provider it is   *)
(* waiting for, the clock, and the caller that may cancel at any moment.   *)
(*                                                                         *)
(* Time is discrete and passes while the engine waits for another: for a   *)
(* provider, which is to stop when its context is over but needs up to     *)
(* `Grace` ticks to notice, and for the trace store, under a limit of the  *)
(* save's own.  The engine's own code takes none.  `elapsed` counts from   *)
(* the request's start; `deadline` is the one its caller put on the        *)
(* request's context (a workflow node has one; an HTTP request has none,   *)
(* which is 0 here).                                                       *)
(***************************************************************************)
EXTENDS Trace

CONSTANTS Providers,        \* the instances the ProviderSet holds
          Routes,           \* the candidate lists the router may return
          AttemptTimeout,   \* Options.AttemptTimeout, in ticks
          SaveTimeout,      \* the limit of a save, in ticks
          Grace,            \* how long a provider may outlast its context
          Deadlines         \* the deadlines a caller may set

ASSUME ProvidersAssumption == Providers \subseteq Names
ASSUME RoutesAssumption    == Routes \subseteq Seq(Names)
ASSUME TimeoutAssumption   == /\ AttemptTimeout \in Nat \ {0} /\ Deadlines \subseteq Nat
                              /\ SaveTimeout \in Nat /\ Grace \in Nat

VARIABLES
  pc,         \* where Complete is in its body
  refs,       \* the candidates route returned
  i,          \* the loop index over refs
  begun,      \* when the current attempt began
  elapsed,    \* time since the request began
  overrun,    \* how long the current attempt has outlasted its context
  saving,     \* how long the save has taken
  deadline,   \* of the request's context
  cancelled,  \* the caller gave up: the request's context was cancelled
  tr,         \* the trace under construction, then the returned one
  store,      \* the rows the trace store accepted for this request
  lateStarts  \* history: attempts begun on a context that was already over

waits == <<overrun, saving>>
vars  == <<pc, refs, i, begun, elapsed, waits, deadline, cancelled, tr, store, lateStarts>>

TypeOK ==
  /\ pc \in {"route", "loop", "calling", "check", "save", "done"}
  /\ refs \in Seq(Names)
  /\ i \in Nat \ {0}
  /\ begun \in Nat
  /\ elapsed \in Nat
  /\ overrun \in 0..Grace
  /\ saving \in 0..SaveTimeout
  /\ deadline \in Nat
  /\ cancelled \in BOOLEAN
  /\ tr \in Traces
  /\ store \in Seq(Traces)
  /\ lateStarts \in Nat

Init ==
  /\ pc = "route"
  /\ refs = <<>>
  /\ i = 1
  /\ begun = 0
  /\ elapsed = 0
  /\ overrun = 0
  /\ saving = 0
  /\ deadline \in Deadlines
  /\ cancelled = FALSE
  /\ tr = newTrace
  /\ store = <<>>
  /\ lateStarts = 0

-----------------------------------------------------------------------------
(* ctx.Err() # nil: the caller cancelled, or its deadline has passed.      *)
CtxOver == cancelled \/ (deadline # 0 /\ elapsed >= deadline)

(* The attempt runs under WithTimeout(ctx, attemptTimeout).                *)
AttemptCtxOver  == CtxOver \/ elapsed >= begun + AttemptTimeout

AtCandidate == pc = "loop" /\ i <= Len(refs)

(* The router fails, returns nothing, or returns candidates.               *)
Route ==
  /\ pc = "route"
  /\ \/ tr' = fail(tr) /\ pc' = "save" /\ UNCHANGED refs
     \/ refs' \in Routes \ {<<>>} /\ pc' = "loop" /\ UNCHANGED tr
  /\ UNCHANGED <<i, begun, elapsed, waits, deadline, cancelled, store, lateStarts>>

(* A loop whose `continue` skips the increment.                            *)
SkipForever == AtCandidate /\ refs[i] \notin Providers /\ UNCHANGED vars

(* ProviderSet.Get does not know the candidate.                            *)
Skip ==
  /\ AtCandidate /\ refs[i] \notin Providers
  /\ i' = i + 1
  /\ UNCHANGED <<pc, refs, begun, elapsed, waits, deadline, cancelled, tr, store, lateStarts>>

Begin ==
  /\ AtCandidate /\ refs[i] \in Providers
  /\ pc' = "calling"
  /\ begun' = elapsed
  /\ overrun' = 0
  /\ lateStarts' = IF CtxOver THEN lateStarts + 1 ELSE lateStarts
  /\ UNCHANGED <<refs, i, elapsed, saving, deadline, cancelled, tr, store>>

(* The provider works; once the attempt's context is over it must stop,    *)
(* and takes up to Grace to do so.                                         *)
Work ==
  /\ pc = "calling" /\ (AttemptCtxOver => overrun < Grace)
  /\ overrun' = IF AttemptCtxOver THEN overrun + 1 ELSE overrun
  /\ elapsed' = elapsed + 1
  /\ UNCHANGED <<pc, refs, i, begun, saving, deadline, cancelled, tr, store, lateStarts>>

(* How Generate may end, at any moment, the moment its context ends        *)
(* included: it may report a timeout of its own HTTP client before the     *)
(* engine's, and usage beside an error.                                    *)
GenerateEnds == [status: AttemptStatus, usage: Usages]

Answer ==
  /\ pc = "calling"
  /\ \E end \in GenerateEnds :
       LET att == buildAttempt(i, refs[i], end.status, end.usage)
           rec == attempted(tr, att)
       IN IF end.status = "success"
            THEN tr' = succeed(rec, att) /\ pc' = "save"
            ELSE tr' = rec /\ pc' = "check"
  /\ UNCHANGED <<refs, i, begun, elapsed, waits, deadline, cancelled, store, lateStarts>>

GiveUp ==
  /\ tr' = fail(tr)
  /\ pc' = "save"
  /\ UNCHANGED <<refs, i, begun, elapsed, waits, deadline, cancelled, store, lateStarts>>

(* After a failed attempt: break when the whole request is over ...        *)
StopAtOnce == pc = "check" /\ GiveUp
StopEarly == pc = "check" /\ CtxOver /\ GiveUp

AfterFailureSkipsOne == i + 2
AfterFailure         == i + 1

GoOn ==
  /\ i' = AfterFailure
  /\ pc' = "loop"
  /\ UNCHANGED <<refs, begun, elapsed, waits, deadline, cancelled, tr, store, lateStarts>>

FallBackBlindly         == pc = "check" /\ GoOn
FallBackUnlessCancelled == pc = "check" /\ ~cancelled /\ GoOn

(* ... and go on to the next candidate otherwise.                          *)
FallBack == pc = "check" /\ ~CtxOver /\ GoOn

Exhausted == pc = "loop" /\ i > Len(refs) /\ GiveUp

(* save: best effort under a context of its own, so neither the request's  *)
(* cancellation nor a storage error changes what Complete returns; but     *)
(* Complete waits for it, for as long as that context lasts.               *)
SaveWaits ==
  /\ pc = "save" /\ saving < SaveTimeout
  /\ saving' = saving + 1
  /\ elapsed' = elapsed + 1
  /\ UNCHANGED <<pc, refs, i, begun, overrun, deadline, cancelled, tr, store, lateStarts>>

Save ==
  /\ pc = "save"
  /\ \/ store' = Append(store, tr)
     \/ UNCHANGED store
  /\ pc' = "done"
  /\ UNCHANGED <<refs, i, begun, elapsed, waits, deadline, cancelled, tr, lateStarts>>

(* The caller: the client disconnects, the workflow run is stopped.        *)
Cancel ==
  /\ pc # "done" /\ ~cancelled
  /\ cancelled' = TRUE
  /\ UNCHANGED <<pc, refs, i, begun, elapsed, waits, deadline, tr, store, lateStarts>>

Engine == Route \/ Skip \/ Begin \/ StopEarly \/ FallBack \/ Exhausted

Clock == Work \/ SaveWaits

Next == Engine \/ Clock \/ Answer \/ Save \/ Cancel

(* The engine's goroutine runs, time passes, a provider whose attempt      *)
(* context is over returns (core/ports/provider.go: it must respect ctx    *)
(* cancellation), and so does the store when the save's is.  Neither owes  *)
(* anything while it is in time.                                           *)
Fairness ==
  /\ WF_vars(Engine) /\ WF_vars(Clock)
  /\ WF_vars(AttemptCtxOver /\ Answer)
  /\ WF_vars(saving = SaveTimeout /\ Save)

Spec == Init /\ [][Next]_vars /\ Fairness
-----------------------------------------------------------------------------
(* The indexes of the candidates the loop is past, or has just tried.      *)
Passed == IF pc \in {"check", "save", "done"} THEN 1..i ELSE 1..(i - 1)
Tried  == {k \in Passed \cap (1..Len(refs)) : refs[k] \in Providers}

(* The attempts of a trace are the router's candidates in the router's     *)
(* order: each one the loop passed that the ProviderSet knows was tried    *)
(* exactly once, and none is invented, whichever vanished in between.      *)
AttemptsFollowRoute ==
  LET a == tr.attempts IN
  /\ {a[k].index : k \in 1..Len(a)} = Tried
  /\ \A k \in 1..Len(a) : a[k].provider = refs[a[k].index]
  /\ \A k, l \in 1..Len(a) : k < l => a[k].index < a[l].index

(* What Complete returns and the row it stored tell one coherent story:    *)
(* success exactly when the last attempt succeeded, with that attempt's    *)
(* provider and usage, and no usage counted for the failures before it.    *)
TraceCoherent ==
  /\ pc \in {"save", "done"} => Coherent(tr)
  /\ \A k \in 1..Len(store) : store[k] = tr

(* A request fails for one of three reasons only: nothing was routed, the  *)
(* caller's context is over, or every candidate there was has failed.      *)
FailsOnlyWithCause ==
  pc \in {"save", "done"} /\ tr.status # "success" =>
    \/ refs = <<>>
    \/ CtxOver
    \/ \A k \in 1..Len(refs) : refs[k] \in Providers =>
         \E a \in 1..Len(tr.attempts) : tr.attempts[a].index = k

(* The check of ctx.Err() after a failed attempt and the next attempt are  *)
(* not atomic: at most one attempt starts on a context already over.       *)
AtMostOneLateStart == lateStarts <= 1

(* What a request can cost.  Its caller waits at most for the attempt      *)
(* timeout and the provider's grace once per attempt made, and for the     *)
(* save.  A deadline outlasts them all but for one grace and the save: the *)
(* attempt it ends is the last one, whatever is left of the list.          *)
TimeBounded ==
  LET begunAttempts == Len(tr.attempts) + (IF pc = "calling" THEN 1 ELSE 0) IN
  /\ elapsed <= (AttemptTimeout + Grace) * begunAttempts + saving
  /\ deadline # 0 => elapsed <= deadline + Grace + saving

(* Complete returns, though a provider may hang for as long as its context *)
(* lets it and the store for as long as the save's does.                   *)
RequestReturns == <>(pc = "done")

(* The promise of module Fallback, kept by a loop with an index, skipped   *)
(* names and a check of the context between two attempts: the candidates   *)
(* are offered the request in order, each once, it fails only when all     *)
(* have refused or the caller is gone, and the verdict is not taken back.  *)
Promise == INSTANCE Fallback WITH
  route   <- refs,
  refused <- {a.index : a \in {tr.attempts[k] : k \in {l \in 1..Len(tr.attempts) :
                                            tr.attempts[l].status # "success"}}},
  verdict <- CASE tr.status = "pending" -> "open"
               [] tr.status = "success" -> "served"
               [] OTHER -> "failed",
  by      <- tr.provider,
  gone    <- CtxOver,
  Nobody  <- NoProvider

ImplementsFallback == Promise!Spec
-----------------------------------------------------------------------------
(* README.md:52: the engine attempts each candidate under a timeout,       *)
(* "falling back on failure".  A request nobody cancelled whose last       *)
(* attempt timed out has no candidate left to try.                         *)
FailsOverOnTimeout ==
  (/\ pc = "done" /\ ~cancelled
   /\ tr.attempts # <<>> /\ LastAttempt(tr).status = "timeout")
  => \A k \in 1..Len(refs) : refs[k] \in Providers => k \in Tried
=============================================================================
