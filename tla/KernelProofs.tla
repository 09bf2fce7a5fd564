---------------------------- MODULE KernelProofs ----------------------------
(***************************************************************************)
(* What holds of the life of a process for any list of modules, any of     *)
(* which may have a Cleanup hook, and any requests and scheduled runs.     *)
(***************************************************************************)
EXTENDS Kernel, Integers, SequenceTheorems, TLAPS

(* The two operations on k.cleanups.                                       *)
LEMMA AppendFacts ==
  ASSUME NEW S, NEW s \in Seq(S), NEW e \in S
  PROVE  /\ Append(s, e) \in Seq(S) /\ ToSet(Append(s, e)) = ToSet(s) \cup {e}
         /\ Len(Append(s, e)) = Len(s) + 1
<1>1. /\ Append(s, e) \in Seq(S)
      /\ Len(s) \in Nat
      /\ DOMAIN s = 1..Len(s)
      /\ DOMAIN Append(s, e) = 1..(Len(s) + 1) /\ Len(Append(s, e)) = Len(s) + 1
      /\ \A k \in 1..Len(s) : Append(s, e)[k] = s[k]
      /\ Append(s, e)[Len(s) + 1] = e
  OBVIOUS
<1>2. ToSet(Append(s, e)) \subseteq ToSet(s) \cup {e}
  <2> SUFFICES ASSUME NEW k \in DOMAIN Append(s, e) PROVE Append(s, e)[k] \in ToSet(s) \cup {e}
    BY DEF ToSet
  <2>1. k \in 1..Len(s) \/ k = Len(s) + 1
    BY <1>1
  <2> QED  BY <1>1, <2>1 DEF ToSet
<1>3. ToSet(s) \cup {e} \subseteq ToSet(Append(s, e))
  <2>1. ASSUME NEW k \in DOMAIN s PROVE s[k] \in ToSet(Append(s, e))
    <3>1. k \in DOMAIN Append(s, e) /\ Append(s, e)[k] = s[k]
      BY <1>1
    <3> QED  BY <3>1 DEF ToSet
  <2>2. e \in ToSet(Append(s, e))
    <3>1. Len(s) + 1 \in DOMAIN Append(s, e)
      BY <1>1
    <3> QED  BY <1>1, <3>1 DEF ToSet
  <2> QED  BY <2>1, <2>2 DEF ToSet
<1> QED  BY <1>1, <1>2, <1>3

LEMMA FrontFacts ==
  ASSUME NEW S, NEW s \in Seq(S), s # <<>>
  PROVE  /\ Front(s) \in Seq(S) /\ Last(s) \in S
         /\ ToSet(s) \subseteq ToSet(Front(s)) \cup {Last(s)}
         /\ Len(Front(s)) = Len(s) - 1 /\ Len(s) \in Nat \ {0}
<1>1. /\ Len(s) \in Nat \ {0}
      /\ DOMAIN s = 1..Len(s)
  OBVIOUS
<1>4. /\ Front(s) \in Seq(S)
      /\ Len(Front(s)) = Len(s) - 1
      /\ \A k \in 1..(Len(s) - 1) : Front(s)[k] = s[k]
  <2>1. 1 \in 1..(Len(s) + 1) /\ Len(s) - 1 \in 1 - 1..Len(s)
    BY <1>1
  <2>2. /\ SubSeq(s, 1, Len(s) - 1) \in Seq(S)
        /\ Len(SubSeq(s, 1, Len(s) - 1)) = Len(s) - 1
        /\ \A k \in 1..(Len(s) - 1) : SubSeq(s, 1, Len(s) - 1)[k] = s[k]
    BY <1>1, <2>1, SMTT(30)
  <2> QED  BY <2>2 DEF Front
<1>2. Last(s) \in S
  BY <1>1 DEF Last
<1>3. ASSUME NEW k \in DOMAIN s PROVE s[k] \in ToSet(Front(s)) \cup {Last(s)}
  <2>1. CASE k = Len(s)
    BY <2>1 DEF Last
  <2>2. CASE k # Len(s)
    <3>1. k \in 1..(Len(s) - 1) /\ DOMAIN Front(s) = 1..(Len(s) - 1)
      BY <1>1, <1>4, <2>2
    <3> QED  BY <1>4, <3>1 DEF ToSet
  <2> QED  BY <2>1, <2>2
<1> QED  BY <1>1, <1>2, <1>3, <1>4 DEF ToSet

LEMMA LengthFacts ==
  ASSUME NEW S, NEW s \in Seq(S)
  PROVE  Len(s) \in Nat /\ DOMAIN s = 1..Len(s)
OBVIOUS

LEMMA ModulesFacts == Len(Modules) \in Nat /\ DOMAIN Modules = 1..Len(Modules)
<1>1. Modules \in Seq(ToSet(Modules))
  BY ModulesAssumption
<1> HIDE DEF ToSet
<1> QED  BY ONLY <1>1, LengthFacts

-----------------------------------------------------------------------------
(* Every variable keeps its type, and no hook is left when the process is  *)
(* over.                                                                   *)
Typed == TypeOK /\ (pc = "exited" => cleanups = <<>>)

(* What New does to the hooks and the open modules.                        *)
LEMMA BuildFacts ==
  ASSUME Typed, Building
  PROVE  /\ NextModule \in ToSet(Modules)
         /\ built + 1 \in 0..Len(Modules)
         /\ Opened \subseteq CleanerUppers
         /\ Registered \in Seq(CleanerUppers)
         /\ ToSet(cleanups) \subseteq ToSet(Registered)
         /\ Opened \subseteq open \cup ToSet(Registered)
         /\ open \subseteq Opened
         /\ NextModule \in CleanerUppers => NextModule \in Opened
         /\ Opened \subseteq open \cup {NextModule}
<1>1. /\ built \in Nat /\ built < Len(Modules) /\ Len(Modules) \in Nat
      /\ DOMAIN Modules = 1..Len(Modules)
  <2>1. built \in 0..Len(Modules)
    BY DEF Typed, TypeOK
  <2>2. built < Len(Modules)
    BY DEF Building
  <2> QED  BY <2>1, <2>2, ModulesFacts
<1>2. built + 1 \in DOMAIN Modules /\ built + 1 \in 0..Len(Modules)
  BY <1>1
<1>3. NextModule \in ToSet(Modules)
  BY <1>2 DEF NextModule, ToSet
<1>4. open \subseteq CleanerUppers /\ cleanups \in Seq(CleanerUppers)
  BY DEF Typed, TypeOK
<1>5. CASE NextModule \in CleanerUppers
  <2>1. Registered = Append(cleanups, NextModule) /\ Opened = open \cup {NextModule}
    BY <1>5 DEF Registered, Opened
  <2>2. /\ Append(cleanups, NextModule) \in Seq(CleanerUppers)
        /\ ToSet(Append(cleanups, NextModule)) = ToSet(cleanups) \cup {NextModule}
    BY <1>4, <1>5, AppendFacts
  <2> QED  BY <1>2, <1>3, <1>4, <1>5, <2>1, <2>2
<1>6. CASE NextModule \notin CleanerUppers
  <2>1. Registered = cleanups /\ Opened = open
    BY <1>6 DEF Registered, Opened
  <2> QED  BY <1>2, <1>3, <1>4, <1>6, <2>1
<1> QED  BY <1>5, <1>6

LEMMA TypedInvariant == Spec => []Typed
<1>1. Init => Typed
  <2> SUFFICES ASSUME Init PROVE Typed
    OBVIOUS
  <2>1. 0 \in 0..Len(Modules)
    BY ModulesFacts
  <2>2. <<>> \in Seq(CleanerUppers)
    OBVIOUS
  <2> QED  BY <2>1, <2>2 DEF Init, Typed, TypeOK
<1>2. Typed /\ [Next]_vars => Typed'
  <2> SUFFICES ASSUME Typed, [Next]_vars PROVE Typed'
    OBVIOUS
  <2> USE DEF Typed, TypeOK, booting, running
  <2>1. CASE Instantiate
    <3>1. built' \in 0..Len(Modules) /\ open' \subseteq CleanerUppers /\ cleanups' \in Seq(CleanerUppers)
      BY <2>1, BuildFacts DEF Instantiate
    <3> QED  BY <2>1, <3>1 DEF Instantiate, Building
  <2>2. CASE ModuleFails
    <3>1. open' \subseteq CleanerUppers /\ cleanups' \in Seq(CleanerUppers)
      BY <2>2, BuildFacts DEF ModuleFails, ModuleUnknown, ProvisionFails, WrongPort
    <3> QED  BY <2>2, <3>1 DEF ModuleFails, ModuleUnknown, ProvisionFails, WrongPort, Reject
  <2>3. CASE Compose
    BY <2>3 DEF Compose, LoadDir, NewService, BuildScheduler, ComposeStep, Reject
  <2>4. CASE Run
    BY <2>4 DEF Run
  <2>5. CASE SeeServerError \/ SeeSignal
    BY <2>5 DEF SeeServerError, SeeSignal
  <2>6. CASE ShutdownReturns \/ ShutdownTimesOut
    BY <2>6 DEF ShutdownReturns, ShutdownTimesOut
  <2>7. CASE CleanUp
    <3>1. cleanups' \in Seq(CleanerUppers)
      BY <2>7, FrontFacts DEF CleanUp
    <3> QED  BY <2>7, <3>1 DEF CleanUp
  <2>8. CASE Exit
    BY <2>8 DEF Exit
  <2>9. CASE Listen \/ ListenFails \/ Signal \/ LoopReturns
    BY <2>9 DEF Listen, ListenFails, Signal, LoopReturns
  <2>10. ASSUME NEW h \in Handlers, Accept(h) \/ Leave(h) PROVE Typed'
    BY <2>10 DEF Accept, Leave, Begin, Work
  <2>11. ASSUME NEW f \in Fires, Fire(f) PROVE Typed'
    BY <2>11 DEF Fire, Begin, Work
  <2>12. ASSUME NEW w \in Work, Finish(w) PROVE Typed'
    BY <2>12 DEF Finish
  <2>13. CASE UNCHANGED vars
    BY <2>13 DEF vars
  <2> QED
    BY <2>1, <2>2, <2>3, <2>4, <2>5, <2>6, <2>7, <2>8, <2>9, <2>10, <2>11, <2>12, <2>13
    DEF Next, NewSteps, RunSteps
<1> QED  BY <1>1, <1>2, PTL DEF Spec

(* Every variable of the model keeps its type (kernel.go: New and Run).    *)
THEOREM TypeCorrect == Spec => []TypeOK
<1>1. Typed => TypeOK
  BY DEF Typed
<1> QED  BY <1>1, TypedInvariant, PTL

-----------------------------------------------------------------------------
(* Whoever is open has a hook to come, but for the module that failed.     *)
Covered ==
  \A m \in open :
    \/ m \in ToSet(cleanups)
    \/ verdict = "rejected" /\ built < Len(Modules) /\ m = NextModule

(* The verdict falls when Run, or New, is over.                            *)
Judged ==
  /\ pc \in {"new", "loaded", "accepted", "composed", "serving"} => verdict = "none"
  /\ pc = "shutting" => verdict = "stopped"
  /\ pc \in {"cleaning", "exited"} => verdict # "none"

HookInv == Covered /\ Judged

LEMMA HookInvariant == Spec => []HookInv
<1>1. Init => HookInv
  BY DEF Init, HookInv, Covered, Judged
<1>2. Typed /\ HookInv /\ [Next]_vars => HookInv'
  <2> SUFFICES ASSUME Typed, HookInv, [Next]_vars PROVE HookInv'
    OBVIOUS
  <2> USE DEF HookInv, Covered, Judged, booting, running
  <2>1. CASE Instantiate
    BY <2>1, BuildFacts DEF Instantiate, Building
  <2>2. CASE ModuleFails
    <3>1. built < Len(Modules) /\ verdict = "none"
      BY <2>2 DEF ModuleFails, ModuleUnknown, ProvisionFails, WrongPort, Building
    <3>2. NextModule' = NextModule /\ built' = built
      BY <2>2 DEF ModuleFails, ModuleUnknown, ProvisionFails, WrongPort, NextModule
    <3> QED  BY <2>2, <3>1, <3>2, BuildFacts DEF ModuleFails, ModuleUnknown, ProvisionFails, WrongPort, Reject
  <2>3. CASE Compose
    BY <2>3 DEF Compose, LoadDir, NewService, BuildScheduler, ComposeStep, Reject, NextModule
  <2>4. CASE CleanUp
    <3>1. ToSet(cleanups) \subseteq ToSet(cleanups') \cup {Last(cleanups)}
      BY <2>4, FrontFacts DEF CleanUp, Typed, TypeOK
    <3>2. NextModule' = NextModule
      BY <2>4 DEF CleanUp, NextModule
    <3> QED  BY <2>4, <3>1, <3>2 DEF CleanUp
  <2>5. CASE Run \/ SeeServerError \/ SeeSignal \/ ShutdownReturns \/ ShutdownTimesOut \/ Exit
    BY <2>5 DEF Run, SeeServerError, SeeSignal, ShutdownReturns, ShutdownTimesOut, Exit, NextModule
  <2>6. CASE UNCHANGED <<pc, built, verdict, open, cleanups>>
    BY <2>6 DEF NextModule
  <2> QED
    <3>1. ASSUME \/ Listen \/ ListenFails \/ Signal \/ LoopReturns \/ UNCHANGED vars
                 \/ \E h \in Handlers : Accept(h) \/ Leave(h)
                 \/ \E f \in Fires : Fire(f)
                 \/ \E w \in Work : Finish(w)
          PROVE  UNCHANGED <<pc, built, verdict, open, cleanups>>
      BY <3>1 DEF Listen, ListenFails, Signal, LoopReturns, Accept, Leave, Fire, Finish, vars
    <3> QED  BY <2>1, <2>2, <2>3, <2>4, <2>5, <2>6, <3>1 DEF Next, NewSteps, RunSteps
<1> QED  BY <1>1, <1>2, TypedInvariant, PTL DEF Spec

(* However New or Run ends, runCleanups has closed every module a hook was *)
(* registered for, so that at the end only the failed one can be open.     *)
THEOREM NothingElseLeaks == Spec => []LeaksOnlyTheFailedModule
<1>1. Typed /\ HookInv => LeaksOnlyTheFailedModule
  <2> SUFFICES ASSUME Typed, HookInv, pc = "exited", NEW m \in open
               PROVE  verdict = "rejected" /\ built < Len(Modules) /\ m = NextModule
    BY DEF LeaksOnlyTheFailedModule
  <2>1. ToSet(cleanups) = {}
    BY DEF Typed, ToSet
  <2> QED  BY <2>1 DEF HookInv, Covered
<1> QED  BY <1>1, TypedInvariant, HookInvariant, PTL

-----------------------------------------------------------------------------
(* The modules New is done with hold what they opened, until runCleanups.  *)
Holding ==
  /\ pc = "new" => \A i \in 1..built : Modules[i] \in CleanerUppers => Modules[i] \in open
  /\ pc \in {"loaded", "accepted", "composed", "serving", "shutting"} => Store \in open

LEMMA StoreHeld == Spec => []Holding
<1>1. Init => Holding
  BY DEF Init, Holding
<1>2. Typed /\ Holding /\ [Next]_vars => Holding'
  <2> SUFFICES ASSUME Typed, Holding, [Next]_vars PROVE Holding'
    OBVIOUS
  <2> USE DEF Holding, booting, running
  <2>1. CASE Instantiate
    <3>1. built \in Nat
      <4>1. built \in 0..Len(Modules)
        BY DEF Typed, TypeOK
      <4> QED  BY <4>1, ModulesFacts
    <3>2. \A i \in 1..built' : i \in 1..built \/ i = built + 1
      BY <2>1, <3>1 DEF Instantiate
    <3>3. \A i \in 1..built' : Modules[i] \in CleanerUppers => Modules[i] \in Opened
      BY <2>1, <3>2, BuildFacts DEF Instantiate, Building, NextModule
    <3> QED  BY <2>1, <3>3 DEF Instantiate, Building
  <2>2. CASE ModuleFails
    BY <2>2 DEF ModuleFails, ModuleUnknown, ProvisionFails, WrongPort, Reject
  <2>3. CASE Compose
    <3>1. Store \in CleanerUppers /\ Store \in ToSet(Modules)
      BY ModulesAssumption
    <3>2. PICK i \in DOMAIN Modules : Modules[i] = Store
      BY <3>1 DEF ToSet
    <3>3. i \in 1..Len(Modules)
      BY <3>2, ModulesFacts
    <3> QED  BY <2>3, <3>1, <3>2, <3>3 DEF Compose, LoadDir, NewService, BuildScheduler, ComposeStep, Reject
  <2>4. CASE Run \/ SeeServerError \/ SeeSignal \/ ShutdownReturns \/ ShutdownTimesOut \/ CleanUp \/ Exit
    BY <2>4 DEF Run, SeeServerError, SeeSignal, ShutdownReturns, ShutdownTimesOut, CleanUp, Exit
  <2> QED
    <3>1. ASSUME \/ Listen \/ ListenFails \/ Signal \/ LoopReturns \/ UNCHANGED vars
                 \/ \E h \in Handlers : Accept(h) \/ Leave(h)
                 \/ \E f \in Fires : Fire(f)
                 \/ \E w \in Work : Finish(w)
          PROVE  UNCHANGED <<pc, built, open>>
      BY <3>1 DEF Listen, ListenFails, Signal, LoopReturns, Accept, Leave, Fire, Finish, vars
    <3> QED  BY <2>1, <2>2, <2>3, <2>4, <3>1 DEF Next, NewSteps, RunSteps
<1> QED  BY <1>1, <1>2, TypedInvariant, PTL DEF Spec

-----------------------------------------------------------------------------
(* Nothing runs before Run does, nor after the process is over; and once   *)
(* the server is closed and Shutdown came back in time, no handler does.   *)
Quiet ==
  /\ pc \in {"new", "loaded", "accepted", "composed"} \/ verdict = "rejected" =>
       server = "off" /\ ~looping /\ \A w \in Work : work[w] = "idle"
  /\ pc = "exited" => server = "off" /\ ~looping /\ \A w \in Work : work[w] # "running"
  /\ verdict = "stopped" => server \in {"closed", "off"}
  /\ pc \in {"cleaning", "exited"} /\ verdict = "stopped" /\ ~timedOut => Serving = {}

Signalled == verdict = "stopped" => stopped

WaitInv == Quiet /\ Signalled /\ LostOnlyWithCause

(* A record a step loses is one that nothing was going to wait for, or one *)
(* whose own context is over.                                              *)
LEMMA LosingStep ==
  ASSUME Typed, HookInv, Holding, WaitInv, NEW w \in Work, work[w] = "running",
         Store \notin open \/ pc = "cleaning" \/ SaveCtxOver(w)
  PROVE  /\ w \in Handlers => w \in left \/ timedOut \/ verdict = "server error"
         /\ w \in Handlers \ Runs => pc = "cleaning"
         /\ w \in Fires => stopped \/ verdict = "server error"
<1>1. pc \notin {"new", "loaded", "accepted", "composed", "exited"} /\ verdict # "rejected"
  BY DEF WaitInv, Quiet
<1>2. CASE Store \notin open \/ pc = "cleaning"
  <2>1. pc = "cleaning" /\ verdict \in {"stopped", "server error"}
    BY <1>1, <1>2 DEF Holding, HookInv, Judged, Typed, TypeOK
  <2> QED  BY <2>1, WorkAssumption DEF WaitInv, Quiet, Signalled, Serving
<1>3. CASE SaveCtxOver(w)
  BY <1>3, WorkAssumption DEF SaveCtxOver
<1> QED  BY <1>2, <1>3

(* What excuses a loss stays an excuse.                                    *)
LEMMA CausesStay ==
  ASSUME Typed, HookInv, [Next]_vars
  PROVE  /\ left \subseteq left' /\ (timedOut => timedOut') /\ (stopped => stopped')
         /\ verdict = "server error" => verdict' = "server error"
         /\ pc \in {"cleaning", "exited"} => pc' \in {"cleaning", "exited"}
<1> USE DEF booting, running, Next, NewSteps, RunSteps, Instantiate, ModuleFails, ModuleUnknown, ProvisionFails, WrongPort, Compose,
     LoadDir, NewService, BuildScheduler, ComposeStep, Run, SeeServerError, SeeSignal, ShutdownReturns,
     ShutdownTimesOut, CleanUp, Exit, Listen, ListenFails, Signal, LoopReturns, Accept, Leave, Fire, Finish, vars
<1>1. left \subseteq left'
  OBVIOUS
<1>2. timedOut = TRUE => timedOut' = TRUE
  OBVIOUS
<1>3. stopped = TRUE => stopped' = TRUE
  OBVIOUS
<1>4. verdict = "server error" => verdict' = "server error"
  BY DEF Building, HookInv, Judged
<1>5. pc \in {"cleaning", "exited"} => pc' \in {"cleaning", "exited"}
  BY DEF Building
<1>6. (timedOut => timedOut') /\ (stopped => stopped')
  <2>1. timedOut \in BOOLEAN /\ stopped \in BOOLEAN
    BY DEF Typed, TypeOK
  <2> QED  BY <1>2, <1>3, <2>1
<1> QED  BY <1>1, <1>4, <1>5, <1>6

(* Work is lost when the process ends, and when it ends by itself and its  *)
(* record is refused.                                                      *)
LEMMA WhatIsLost ==
  ASSUME Typed, [Next]_vars, NEW w \in Work, work'[w] = "lost", work[w] # "lost"
  PROVE  work[w] = "running" /\ (Store \notin open \/ pc = "cleaning" \/ SaveCtxOver(w))
<1>1. work \in [Work -> {"idle", "running", "recorded", "lost"}] /\ Handlers \subseteq Work /\ Fires \subseteq Work
  BY DEF Typed, TypeOK, Work
<1>2. CASE Exit
  BY <1>1, <1>2 DEF Exit
<1>3. ASSUME NEW v \in Work, Finish(v) PROVE work[w] = "running" /\ (Store \notin open \/ SaveCtxOver(w))
  <2>1. w = v
    BY <1>1, <1>3 DEF Finish
  <2> QED  BY <1>1, <1>3, <2>1 DEF Finish
<1>4. ASSUME \E v \in Work : work' = [work EXCEPT ![v] = "running"] PROVE FALSE
  BY <1>1, <1>4
<1>5. \/ Exit \/ \E v \in Work : Finish(v)
      \/ \E v \in Work : work' = [work EXCEPT ![v] = "running"]
      \/ work' = work
  BY <1>1 DEF Next, NewSteps, RunSteps, Instantiate, ModuleFails, ModuleUnknown, ProvisionFails, WrongPort, Compose,
     LoadDir, NewService, BuildScheduler, ComposeStep, Run, SeeServerError, SeeSignal, ShutdownReturns,
     ShutdownTimesOut, CleanUp, Listen, ListenFails, Signal, LoopReturns, Accept, Leave, Fire, Begin, vars,
     running
<1> QED  BY <1>2, <1>3, <1>4, <1>5

LEMMA LossesStep ==
  ASSUME Typed, HookInv, Holding, WaitInv, [Next]_vars
  PROVE  LostOnlyWithCause'
<1>1. Handlers \subseteq Work /\ Fires \subseteq Work
  BY DEF Work
<1>2. ASSUME NEW h \in Handlers, work'[h] = "lost"
      PROVE  h \in left' \/ timedOut' \/ verdict' = "server error"
  <2>1. h \in left \/ timedOut \/ verdict = "server error"
    BY <1>1, <1>2, WhatIsLost, LosingStep DEF WaitInv, LostOnlyWithCause
  <2> QED  BY <2>1, CausesStay
<1>3. ASSUME NEW h \in Handlers \ Runs, work'[h] = "lost"
      PROVE  pc' \in {"cleaning", "exited"}
  <2>1. pc \in {"cleaning", "exited"}
    BY <1>1, <1>3, WhatIsLost, LosingStep DEF WaitInv, LostOnlyWithCause
  <2> QED  BY <2>1, CausesStay
<1>4. ASSUME NEW f \in Fires, work'[f] = "lost"
      PROVE  stopped' \/ verdict' = "server error"
  <2>1. stopped \/ verdict = "server error"
    BY <1>1, <1>4, WhatIsLost, LosingStep DEF WaitInv, LostOnlyWithCause
  <2> QED  BY <2>1, CausesStay
<1> QED  BY <1>2, <1>3, <1>4 DEF LostOnlyWithCause

LEMMA SignalledStep ==
  ASSUME Typed, HookInv, WaitInv, [Next]_vars
  PROVE  Signalled'
<1>1. verdict' = "stopped" => verdict = "stopped" \/ SeeSignal
  BY DEF Next, NewSteps, RunSteps, Instantiate, ModuleFails, ModuleUnknown, ProvisionFails, WrongPort, Compose,
     LoadDir, NewService, BuildScheduler, ComposeStep, Reject, Run, SeeServerError, ShutdownReturns,
     ShutdownTimesOut, CleanUp, Exit, Listen, ListenFails, Signal, LoopReturns, Accept, Leave, Fire, Finish, vars,
     booting
<1>2. verdict' = "stopped" => stopped
  BY <1>1 DEF SeeSignal, WaitInv, Signalled
<1> QED  BY <1>2, CausesStay DEF Signalled

LEMMA QuietStep == Typed /\ HookInv /\ Quiet /\ [Next]_vars => Quiet'
<1> SUFFICES ASSUME Typed, HookInv, Quiet, [Next]_vars PROVE Quiet'
  OBVIOUS
<1>0. work \in [Work -> {"idle", "running", "recorded", "lost"}]
      /\ Handlers \subseteq Work /\ Fires \subseteq Work /\ Runs \subseteq Work
  BY WorkAssumption DEF Typed, TypeOK, Work
<1> USE DEF HookInv, Judged, Quiet, booting, running
<1>1. CASE Instantiate \/ ModuleFails \/ Compose
  <2>1. /\ pc \in {"new", "loaded", "accepted"} /\ verdict = "none" /\ UNCHANGED running
        /\ verdict' \in {"none", "rejected"} /\ pc' \in {"new", "loaded", "accepted", "composed", "cleaning"}
    BY <1>1 DEF Instantiate, ModuleFails, ModuleUnknown, ProvisionFails, WrongPort, Compose, LoadDir,
       NewService, BuildScheduler, ComposeStep, Building, Reject
  <2>2. server = "off" /\ ~looping /\ \A w \in Work : work[w] = "idle"
    BY <2>1
  <2> QED  BY <1>0, <2>1, <2>2
<1>2. CASE Run
  BY <1>0, <1>2 DEF Run
<1>3. CASE SeeServerError \/ SeeSignal
  BY <1>0, <1>3 DEF SeeServerError, SeeSignal
<1>4. CASE ShutdownReturns \/ ShutdownTimesOut
  BY <1>0, <1>4 DEF ShutdownReturns, ShutdownTimesOut, Serving
<1>5. CASE CleanUp
  BY <1>0, <1>5 DEF CleanUp, Serving
<1>6. CASE Exit
  BY <1>0, <1>6 DEF Exit, Serving
<1>7. CASE Listen \/ ListenFails \/ Signal \/ LoopReturns
  <2>1. /\ UNCHANGED <<pc, verdict, work, left, timedOut>>
        /\ server' # server => server \in {"starting", "up"}
    BY <1>7 DEF Listen, ListenFails, Signal, LoopReturns
  <2>2. ~looping => ~looping'
    <3>1. CASE LoopReturns
      BY <3>1, Zenon DEF LoopReturns
    <3>2. CASE Listen \/ ListenFails \/ Signal
      <4>1. looping' = looping
        BY <3>2 DEF Listen, ListenFails, Signal
      <4> QED  BY <4>1, Zenon
    <3> QED  BY <1>7, <3>1, <3>2
  <2>3. Serving' = Serving
    BY <2>1 DEF Serving
  <2> QED  BY <2>1, <2>2, <2>3
<1>8. ASSUME NEW h \in Handlers, Accept(h) PROVE Quiet'
  BY <1>0, <1>8 DEF Accept, Begin, Serving
<1>9. ASSUME NEW h \in Handlers, Leave(h) PROVE Quiet'
  BY <1>0, <1>9 DEF Leave, Serving
<1>10. ASSUME NEW f \in Fires, Fire(f) PROVE Quiet'
  BY <1>0, <1>10, WorkAssumption DEF Fire, Begin, Serving
<1>11. ASSUME NEW w \in Work, Finish(w) PROVE Quiet'
  BY <1>0, <1>11 DEF Finish, Serving
<1>12. CASE UNCHANGED vars
  BY <1>12 DEF vars, Serving
<1> QED
  BY <1>1, <1>2, <1>3, <1>4, <1>5, <1>6, <1>7, <1>8, <1>9, <1>10, <1>11, <1>12
  DEF Next, NewSteps, RunSteps

LEMMA WaitInvariant == Spec => []WaitInv
<1>1. Init => WaitInv
  BY DEF Init, WaitInv, Quiet, Signalled, LostOnlyWithCause, Work
<1>2. Typed /\ HookInv /\ Holding /\ WaitInv /\ [Next]_vars => WaitInv'
  <2>1. WaitInv => Quiet
    BY DEF WaitInv
  <2> QED  BY <2>1, QuietStep, SignalledStep, LossesStep DEF WaitInv
<1> QED  BY <1>1, <1>2, TypedInvariant, HookInvariant, StoreHeld, PTL DEF Spec

(* LostOnlyWithCause: Run closes the modules only after it has waited for  *)
(* the handlers, so whoever it waited for finds the trace store open, and  *)
(* is refused by it only under a context of its own that is over.          *)
THEOREM NoRecordLostWithoutCause == Spec => []LostOnlyWithCause
<1>1. WaitInv => LostOnlyWithCause
  BY DEF WaitInv
<1> QED  BY <1>1, WaitInvariant, PTL
-----------------------------------------------------------------------------
(* What the main goroutine has ahead of it: the modules to instantiate and *)
(* the hooks to run, each module adding one at most, and the rest of New   *)
(* and Run.                                                                *)
Ahead ==
  CASE pc = "new"      -> 7
    [] pc = "loaded"   -> 6
    [] pc = "accepted" -> 5
    [] pc = "composed" -> 4
    [] pc = "serving"  -> 3
    [] pc = "shutting" -> 2
    [] pc = "cleaning" -> 1
    [] OTHER           -> 0

StepsToExit == 2 * (Len(Modules) - built) + Len(cleanups) + Ahead

(* A step of the main goroutine brings the process nearer to its end, and  *)
(* no request, run, signal or listener sets it back.                       *)
Nearer ==
  /\ StepsToExit' <= StepsToExit
  /\ NewSteps \/ RunSteps => StepsToExit' < StepsToExit

(* KernelExits without the fairness: New and Run take at most two steps    *)
(* per module and seven more, whatever fails on the way and whatever the   *)
(* rest of the process does, so Run never returns to serving and no error  *)
(* path runs the hooks again.                                              *)
THEOREM MainNeverGoesRound ==
  /\ Init => StepsToExit = 2 * Len(Modules) + 7
  /\ Spec => [](StepsToExit \in Nat)
  /\ Spec => [][Nearer]_vars
<1>1. Init => StepsToExit = 2 * Len(Modules) + 7
  BY ModulesFacts DEF Init, StepsToExit, Ahead
<1>2. ASSUME Typed
      PROVE  built \in Nat /\ Len(Modules) \in Nat /\ built <= Len(Modules) /\ Len(cleanups) \in Nat
             /\ cleanups \in Seq(CleanerUppers)
  <2>1. cleanups \in Seq(CleanerUppers) /\ built \in 0..Len(Modules)
    BY <1>2 DEF Typed, TypeOK
  <2> QED  BY ONLY <2>1, LengthFacts, ModulesFacts
<1>3. Typed => StepsToExit \in Nat
  <2> SUFFICES ASSUME Typed PROVE StepsToExit \in Nat
    OBVIOUS
  <2>1. 2 * (Len(Modules) - built) \in Nat /\ Len(cleanups) \in Nat
    BY <1>2
  <2>2. Ahead \in Nat
    BY DEF Ahead
  <2> QED  BY <2>1, <2>2 DEF StepsToExit
<1>4. ASSUME Typed, [Next]_vars PROVE [Nearer]_vars
  <2> DEFINE hooks == Len(cleanups)
             total == Len(Modules)
  <2>1. built \in Nat /\ total \in Nat /\ built <= total /\ hooks \in Nat
    BY <1>2, <1>4
  <2>2. Len(Registered) \in Nat /\ Building => Len(Registered) <= hooks + 1
    <3>1. CASE NextModule \in CleanerUppers
      BY <1>2, <1>4, <3>1, AppendFacts DEF Registered
    <3>2. CASE NextModule \notin CleanerUppers
      BY <2>1, <3>2 DEF Registered
    <3> QED  BY <3>1, <3>2
  <2>3. ASSUME StepsToExit' < StepsToExit /\ StepsToExit' <= StepsToExit PROVE [Nearer]_vars
    BY <2>3 DEF Nearer
  <2>4. CASE Instantiate
    <3>1. pc = "new" /\ pc' = "new" /\ built' = built + 1 /\ cleanups' = Registered /\ Building
      BY <2>4 DEF Instantiate, Building
    <3>2. Len(cleanups') <= hooks + 1 /\ Len(cleanups') \in Nat
      <4>1. Registered \in Seq(CleanerUppers)
        BY <1>4, <3>1, BuildFacts
      <4>2. Len(Registered) \in Nat
        BY ONLY <4>1, LengthFacts
      <4> QED  BY <2>2, <3>1, <4>2
    <3>3. StepsToExit = 2 * (total - built) + hooks + 7
      BY <3>1 DEF StepsToExit, Ahead
    <3>4. StepsToExit' = 2 * (total - (built + 1)) + Len(cleanups') + 7
      BY <3>1 DEF StepsToExit, Ahead
    <3> HIDE DEF hooks, total
    <3>5. StepsToExit' < StepsToExit /\ StepsToExit' <= StepsToExit
      BY <2>1, <3>2, <3>3, <3>4
    <3> QED  BY <2>3, <3>5
  <2>5. CASE ModuleFails
    <3>1. pc = "new" /\ pc' = "cleaning" /\ built' = built /\ cleanups' \in {cleanups, Registered}
          /\ Building
      BY <2>5 DEF ModuleFails, ModuleUnknown, ProvisionFails, WrongPort, Reject, Building
    <3>2. Len(cleanups') <= hooks + 1 /\ Len(cleanups') \in Nat
      <4>1. Registered \in Seq(CleanerUppers)
        BY <1>4, <3>1, BuildFacts
      <4>2. Len(Registered) \in Nat
        BY ONLY <4>1, LengthFacts
      <4> QED  BY <2>1, <2>2, <3>1, <4>2
    <3>3. StepsToExit = 2 * (total - built) + hooks + 7
      BY <3>1 DEF StepsToExit, Ahead
    <3>4. StepsToExit' = 2 * (total - built) + Len(cleanups') + 1
      BY <3>1 DEF StepsToExit, Ahead
    <3> HIDE DEF hooks, total
    <3>5. StepsToExit' < StepsToExit /\ StepsToExit' <= StepsToExit
      BY <2>1, <3>2, <3>3, <3>4
    <3> QED  BY <2>3, <3>5
  <2>6. CASE Compose \/ Run \/ SeeServerError \/ SeeSignal \/ ShutdownReturns \/ ShutdownTimesOut \/ Exit
    <3>1. built' = built /\ cleanups' = cleanups
      BY <2>6 DEF Compose, LoadDir, NewService, BuildScheduler, ComposeStep, Reject, Run, SeeServerError,
         SeeSignal, ShutdownReturns, ShutdownTimesOut, Exit, booting, running
    <3>2. \/ pc \in {"new", "loaded", "accepted"} /\ pc' = "cleaning"
          \/ pc = "new" /\ pc' = "loaded"
          \/ pc = "loaded" /\ pc' = "accepted"
          \/ pc = "accepted" /\ pc' = "composed"
          \/ pc = "composed" /\ pc' = "serving"
          \/ pc = "serving" /\ pc' \in {"shutting", "cleaning"}
          \/ pc = "shutting" /\ pc' = "cleaning"
          \/ pc = "cleaning" /\ pc' = "exited"
      BY <2>6 DEF Compose, LoadDir, NewService, BuildScheduler, ComposeStep, Reject, Run, SeeServerError,
         SeeSignal, ShutdownReturns, ShutdownTimesOut, Exit
    <3>3. \E a, b \in Nat : b < a /\ Ahead = a /\ Ahead' = b
      BY <3>2 DEF Ahead
    <3>4. PICK a, b \in Nat : b < a /\ Ahead = a /\ Ahead' = b
      BY <3>3
    <3>5. StepsToExit = 2 * (total - built) + hooks + a /\ StepsToExit' = 2 * (total - built) + hooks + b
      BY <3>1, <3>4 DEF StepsToExit
    <3> HIDE DEF hooks, total
    <3>6. StepsToExit' < StepsToExit /\ StepsToExit' <= StepsToExit
      BY <2>1, <3>4, <3>5
    <3> QED  BY <2>3, <3>6
  <2>7. CASE CleanUp
    <3>1. pc = "cleaning" /\ pc' = pc /\ built' = built /\ cleanups' = Front(cleanups) /\ cleanups # <<>>
      BY <2>7 DEF CleanUp, booting
    <3>2. Len(cleanups') = hooks - 1
      BY <1>2, <1>4, <3>1, FrontFacts
    <3>3. StepsToExit = 2 * (total - built) + hooks + 1
      BY <3>1 DEF StepsToExit, Ahead
    <3>4. StepsToExit' = 2 * (total - built) + (hooks - 1) + 1
      BY <3>1, <3>2 DEF StepsToExit, Ahead
    <3> HIDE DEF hooks, total
    <3>5. StepsToExit' < StepsToExit /\ StepsToExit' <= StepsToExit
      BY <2>1, <3>3, <3>4
    <3> QED  BY <2>3, <3>5
  <2>8. ASSUME \/ Listen \/ ListenFails \/ Signal \/ LoopReturns
               \/ \E h \in Handlers : Accept(h) \/ Leave(h)
               \/ \E f \in Fires : Fire(f)
               \/ \E w \in Work : Finish(w)
        PROVE  [Nearer]_vars
    <3>1. UNCHANGED <<pc, built, cleanups>>
      BY <2>8 DEF Listen, ListenFails, Signal, LoopReturns, Accept, Leave, Fire, Finish, booting
    <3>2. StepsToExit' = StepsToExit
      BY <3>1 DEF StepsToExit, Ahead
    <3>3. ~(NewSteps \/ RunSteps)
      <4>1. ~Instantiate
        BY <2>1, <3>1 DEF Instantiate
      <4>2. ~CleanUp
        <5>1. CleanUp => Len(cleanups') = Len(cleanups) - 1
          BY <1>2, <1>4, FrontFacts DEF CleanUp
        <5> QED  BY <2>1, <3>1, <5>1
      <4>3. ~(ModuleFails \/ Compose)
        BY <3>1 DEF ModuleFails, ModuleUnknown, ProvisionFails, WrongPort, Reject, Building, Compose, LoadDir,
           NewService, BuildScheduler, ComposeStep
      <4>4. ~(Run \/ SeeServerError \/ SeeSignal \/ ShutdownReturns \/ ShutdownTimesOut \/ Exit)
        BY <3>1 DEF Run, SeeServerError, SeeSignal, ShutdownReturns, ShutdownTimesOut, Exit
      <4> QED  BY <4>1, <4>2, <4>3, <4>4 DEF NewSteps, RunSteps
    <3>4. StepsToExit \in Int
      BY <1>3, <1>4
    <3> QED  BY <3>2, <3>3, <3>4 DEF Nearer
  <2>9. CASE UNCHANGED vars
    BY <2>9
  <2> QED
    BY <1>4, <2>4, <2>5, <2>6, <2>7, <2>8, <2>9 DEF Next, NewSteps, RunSteps
<1> QED  BY <1>1, <1>3, <1>4, TypedInvariant, PTL DEF Spec
=============================================================================
