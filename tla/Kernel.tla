------------------------------- MODULE Kernel -------------------------------
(***************************************************************************)
(* The life of a conductor process (internal/kernel/kernel.go and          *)
(* cmd/conductor/main.go): kernel.New instantiates the configured modules  *)
(* one by one and fails fast, Run serves until a signal or a listener      *)
(* error, waits for the HTTP handlers for a while, and closes the modules. *)
(*                                                                         *)
(* The point of the model is who is waited for.  Handlers are, up to the   *)
(* deadline of http.Server.Shutdown; the runs the scheduler fires and the  *)
(* drain goroutine of a stream whose client has left are not.  All three   *)
(* end by saving a record in the trace store, which may be closed by then, *)
(* or the process gone; and a workflow run is saved under the context it   *)
(* ran under, which may be over while the store is still open.  What the   *)
(* work computes is Complete's, Stream's and Workflow's business; here it  *)
(* is running, and then recorded or lost.                                  *)
(***************************************************************************)
EXTENDS Naturals, SequencesExt

CONSTANTS Modules,        \* as New builds them: the providers, the router, the store
          CleanerUppers,  \* the ones that hold a resource and have a Cleanup hook
          Store,          \* the trace store among them
          Handlers,       \* HTTP requests that end in a record
          Runs,           \* the ones among them that run a workflow
          Fires           \* scheduled runs

ASSUME ModulesAssumption ==
  /\ Modules \in Seq(ToSet(Modules)) /\ IsInjective(Modules)
  /\ CleanerUppers \subseteq ToSet(Modules) /\ Store \in CleanerUppers
ASSUME WorkAssumption == Handlers \cap Fires = {} /\ Runs \subseteq Handlers

Work == Handlers \cup Fires

VARIABLES
  pc,        \* where New, then Run, is
  built,     \* how many of Modules are instantiated
  open,      \* the modules that hold their resource
  cleanups,  \* k.cleanups
  verdict,   \* why the process ends
  stopped,   \* Run's ctx is cancelled: SIGINT or SIGTERM arrived
  server,    \* the goroutine in ListenAndServe
  looping,   \* the scheduler's loop is alive
  work,      \* of each piece of work
  left,      \* the handlers whose client is gone, or got an error chunk
  timedOut   \* Shutdown gave up waiting

vars == <<pc, built, open, cleanups, verdict, stopped, server, looping, work, left, timedOut>>
booting == <<built, verdict>>
running == <<stopped, server, looping, work, left, timedOut>>

TypeOK ==
  /\ pc \in {"new", "loaded", "accepted", "composed", "serving", "shutting", "cleaning", "exited"}
  /\ built \in 0..Len(Modules)
  /\ open \subseteq CleanerUppers
  /\ cleanups \in Seq(CleanerUppers)
  /\ verdict \in {"none", "rejected", "server error", "stopped"}
  /\ stopped \in BOOLEAN /\ looping \in BOOLEAN /\ timedOut \in BOOLEAN
  /\ server \in {"off", "starting", "up", "failed", "closed"}
  /\ work \in [Work -> {"idle", "running", "recorded", "lost"}]
  /\ left \subseteq Handlers

Init ==
  /\ pc = "new" /\ built = 0 /\ verdict = "none"
  /\ open = {} /\ cleanups = <<>>
  /\ stopped = FALSE /\ server = "off" /\ looping = FALSE
  /\ work = [w \in Work |-> "idle"] /\ left = {} /\ timedOut = FALSE

-----------------------------------------------------------------------------
(* kernel.New.                                                             *)

NextModule == Modules[built + 1]
Building   == pc = "new" /\ built < Len(Modules)

Opened == open \cup ({NextModule} \cap CleanerUppers)

Registered == IF NextModule \in CleanerUppers THEN Append(cleanups, NextModule) ELSE cleanups

(* Provision and Validate succeeded: the hook is registered.               *)
Instantiate ==
  /\ Building
  /\ open' = Opened /\ cleanups' = Registered
  /\ built' = built + 1
  /\ UNCHANGED <<pc, verdict, running>>

RejectAndReturn == verdict' = "rejected" /\ pc' = "exited"

(* Every error path of New runs the hooks registered so far.               *)
Reject == verdict' = "rejected" /\ pc' = "cleaning"

(* registry.New finds no module of that name: it was not compiled in.      *)
ModuleUnknown == Building /\ Reject /\ UNCHANGED <<built, open, cleanups, running>>

(* Provision or Validate fails before the hook is registered, with the     *)
(* resource acquired or not: the SQLite module returns without closing the *)
(* database it opened when the ping or a migration fails.                  *)
ProvisionFails ==
  /\ Building /\ Reject /\ open' \in {open, Opened}
  /\ UNCHANGED <<built, cleanups, running>>

(* The module, provisioned, is of another port than its configuration's.   *)
WrongPort ==
  /\ Building /\ Reject /\ open' = Opened /\ cleanups' = Registered
  /\ UNCHANGED <<built, running>>

(* What follows the modules succeeds or rejects the configuration.         *)
ComposeStep(from, to) ==
  /\ pc = from
  /\ \/ pc' = to /\ UNCHANGED verdict
     \/ Reject
  /\ UNCHANGED <<built, open, cleanups, running>>

(* The workflow files are readable and parse.                              *)
LoadDir == built = Len(Modules) /\ ComposeStep("new", "loaded")

(* Every definition is valid and no two share a name.                      *)
NewService == ComposeStep("loaded", "accepted")

(* Every job is valid and names a workflow; New returns the kernel.        *)
BuildScheduler == ComposeStep("accepted", "composed")

-----------------------------------------------------------------------------
(* Kernel.Run.                                                             *)

(* The scheduler starts, unless it has no jobs, and the server's goroutine.*)
Run ==
  /\ pc = "composed"
  /\ pc' = "serving" /\ server' = "starting" /\ looping' = (Fires # {})
  /\ UNCHANGED <<booting, open, cleanups, stopped, work, left, timedOut>>

Listen ==
  /\ server = "starting" /\ server' = "up"
  /\ UNCHANGED <<pc, booting, open, cleanups, stopped, looping, work, left, timedOut>>

(* The address is taken, or a later Accept fails for good: errCh is sent.  *)
ListenFails ==
  /\ server \in {"starting", "up"} /\ server' = "failed"
  /\ UNCHANGED <<pc, booting, open, cleanups, stopped, looping, work, left, timedOut>>

Signal ==
  /\ pc \notin {"new", "loaded", "accepted", "exited"} /\ verdict # "rejected"
  /\ ~stopped /\ stopped' = TRUE
  /\ UNCHANGED <<pc, booting, open, cleanups, server, looping, work, left, timedOut>>

(* select: the error branch closes the modules at once, under whatever the *)
(* handlers and the scheduler, whose context is still alive, are doing.    *)
SeeServerError ==
  /\ pc = "serving" /\ server = "failed"
  /\ pc' = "cleaning" /\ verdict' = "server error"
  /\ UNCHANGED <<built, open, cleanups, running>>

SeeSignalAndClean ==
  /\ pc = "serving" /\ stopped
  /\ pc' = "cleaning" /\ verdict' = "stopped"
  /\ UNCHANGED <<built, open, cleanups, running>>

(* The other branch calls Shutdown: no further connection is accepted.     *)
SeeSignal ==
  /\ pc = "serving" /\ stopped
  /\ pc' = "shutting" /\ verdict' = "stopped" /\ server' = "closed"
  /\ UNCHANGED <<built, open, cleanups, stopped, looping, work, left, timedOut>>

(* A handler left by its client: a stream's returns at once, its drain     *)
(* goes on without it; a run's runs on.                                    *)
Serving == {h \in Runs \cup (Handlers \ left) : work[h] = "running"}

(* Shutdown returns once no handler is running ...                         *)
ShutdownReturns ==
  /\ pc = "shutting" /\ Serving = {}
  /\ pc' = "cleaning"
  /\ UNCHANGED <<booting, open, cleanups, running>>

ShutdownKeepsWaiting == pc = "shutting" /\ Serving # {} /\ UNCHANGED vars

(* ... or when its 15 seconds are over; the handlers go on.                *)
ShutdownTimesOut ==
  /\ pc = "shutting" /\ Serving # {}
  /\ pc' = "cleaning" /\ timedOut' = TRUE
  /\ UNCHANGED <<booting, open, cleanups, stopped, server, looping, work, left>>

(* runCleanups: the hooks, last registered first; errors are logged.       *)
CleanUp ==
  /\ pc = "cleaning" /\ cleanups # <<>>
  /\ open' = open \ {Last(cleanups)} /\ cleanups' = Front(cleanups)
  /\ UNCHANGED <<pc, booting, running>>

(* main returns: whatever is still running dies with the process.          *)
Exit ==
  /\ pc = "cleaning" /\ cleanups = <<>>
  /\ pc' = "exited" /\ server' = "off" /\ looping' = FALSE
  /\ work' = [w \in Work |-> IF work[w] = "running" THEN "lost" ELSE work[w]]
  /\ UNCHANGED <<booting, open, cleanups, stopped, left, timedOut>>

-----------------------------------------------------------------------------
(* The goroutines beside Run.                                              *)

Begin(w) == work' = [work EXCEPT ![w] = "running"]

Accept(h) ==
  /\ server = "up" /\ work[h] = "idle" /\ Begin(h)
  /\ UNCHANGED <<pc, booting, open, cleanups, stopped, server, looping, left, timedOut>>

(* The loop's select may take a pending tick after the signal.             *)
Fire(f) ==
  /\ looping /\ work[f] = "idle" /\ Begin(f)
  /\ UNCHANGED <<pc, booting, open, cleanups, stopped, server, looping, left, timedOut>>

LoopReturns ==
  /\ looping /\ stopped /\ looping' = FALSE
  /\ UNCHANGED <<pc, booting, open, cleanups, stopped, server, work, left, timedOut>>

(* The client of a run is gone, and the run's context is over; or that of  *)
(* a stream is, or an error chunk ended it: streamChat returns, and drain  *)
(* has yet to close the trace.                                             *)
Leave(h) ==
  /\ work[h] = "running" /\ h \notin left
  /\ left' = left \cup {h}
  /\ UNCHANGED <<pc, booting, open, cleanups, stopped, server, looping, work, timedOut>>

(* The context a record is saved under: a fired run's is Run's own, a run  *)
(* for a client has its request's, and chats are saved under a fresh one.  *)
SaveCtxOver(w) == (w \in Fires /\ stopped) \/ w \in Runs \cap left

(* The work ends by saving its record.  A closed store refuses it, and so  *)
(* does an open one under a context that is over; either is logged and     *)
(* changes nothing else.  What an open store refuses for reasons of its    *)
(* own, a busy file say, is module Store's and left out here.              *)
Finish(w) ==
  /\ work[w] = "running"
  /\ work' = [work EXCEPT ![w] = IF Store \in open /\ ~SaveCtxOver(w) THEN "recorded"
                                                                     ELSE "lost"]
  /\ UNCHANGED <<pc, booting, open, cleanups, stopped, server, looping, left, timedOut>>

ModuleFails == ModuleUnknown \/ ProvisionFails \/ WrongPort
Compose     == LoadDir \/ NewService \/ BuildScheduler

NewSteps == Instantiate \/ ModuleFails \/ Compose
RunSteps ==
  \/ Run \/ SeeServerError \/ SeeSignal \/ ShutdownReturns \/ ShutdownTimesOut
  \/ CleanUp \/ Exit

Next ==
  \/ NewSteps \/ RunSteps
  \/ Listen \/ ListenFails \/ Signal \/ LoopReturns
  \/ \E h \in Handlers : Accept(h) \/ Leave(h)
  \/ \E f \in Fires : Fire(f)
  \/ \E w \in Work : Finish(w)

(* The main goroutine runs, provisioning being bounded by its own context  *)
(* and Shutdown by its own deadline.  Nothing else is promised: a handler  *)
(* may take longer than any deadline and a listener may never fail.        *)
Spec == Init /\ [][Next]_vars /\ WF_vars(NewSteps \/ RunSteps)
-----------------------------------------------------------------------------
(* A process that ends, at start or after serving, has closed every module *)
(* it opened; the one exception is the module whose own Provision or       *)
(* Validate failed, which no hook covers yet.                              *)
LeaksOnlyTheFailedModule ==
  pc = "exited" => \A m \in open :
    verdict = "rejected" /\ built < Len(Modules) /\ m = NextModule

(* No record is lost without a cause.  A request that was not left early   *)
(* is recorded, unless it outlasted Shutdown's deadline or the listener    *)
(* failed; a chat or stream, left or not, is lost to the end of the        *)
(* process alone; and a fired run is recorded unless the signal or the     *)
(* listener's failure came before its end.                                 *)
LostOnlyWithCause ==
  /\ \A h \in Handlers : work[h] = "lost" => h \in left \/ timedOut \/ verdict = "server error"
  /\ \A h \in Handlers \ Runs : work[h] = "lost" => pc \in {"cleaning", "exited"}
  /\ \A f \in Fires : work[f] = "lost" => stopped \/ verdict = "server error"

(* The process ends after a signal or a listener error, however long the   *)
(* handlers take, and so does one whose configuration was rejected.        *)
KernelExits == (stopped \/ server = "failed" \/ pc = "cleaning") ~> (pc = "exited")
=============================================================================
