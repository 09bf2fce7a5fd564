---------------------------- MODULE StreamProofs ----------------------------
(***************************************************************************)
(* What holds of a streamed completion for any set of providers, any       *)
(* candidate lists and streams of any length.                              *)
(***************************************************************************)
EXTENDS Stream, FiniteSetTheorems, TLAPS

(* What the helpers of Trace return, as far as Stream uses them.           *)
LEMMA AttemptType ==
  ASSUME NEW idx \in Nat, NEW name \in Names, NEW status \in Failures
  PROVE  LET att == buildAttempt(idx, name, status, 0)
         IN  /\ att \in Attempts /\ att.index = idx
             /\ att.status = status /\ att.status # "success" /\ att.usage = 0
BY DEF buildAttempt, Attempts, AttemptStatus, Failures

LEMMA AttemptedFacts ==
  ASSUME NEW t \in Traces, NEW att \in Attempts
  PROVE  /\ attempted(t, att) \in Traces
         /\ attempted(t, att).attempts = Append(t.attempts, att)
         /\ attempted(t, att).status = t.status
         /\ attempted(t, att).provider = t.provider
         /\ attempted(t, att).usage = t.usage
<1>1. t.attempts \in Seq(Attempts)
  BY DEF Traces
<1>2. Append(t.attempts, att) \in Seq(Attempts)
  BY <1>1
<1>3. attempted(t, att) = [t EXCEPT !.attempts = Append(t.attempts, att)]
  BY DEF attempted
<1> QED  BY <1>2, <1>3 DEF Traces

LEMMA FailFacts ==
  ASSUME NEW t \in Traces
  PROVE  /\ fail(t) \in Traces /\ fail(t).status = "error"
         /\ fail(t).attempts = t.attempts
         /\ fail(t).provider = t.provider /\ fail(t).usage = t.usage
BY DEF fail, Traces, AttemptStatus

LEMMA NewTraceType == newTrace \in Traces
BY DEF newTrace, Traces

(* The candidate a stream is started with.                                 *)
AtKnownCandidate == i <= Len(refs) /\ refs[i] \in Providers

(* The three goroutines and the start loop fit together: the provider's    *)
(* and the drain's run only once a stream has started, and each holds a    *)
(* chunk exactly when it has one to pass on.                               *)
Phases ==
  /\ pc \in {"starting", "check", "started"} => AtKnownCandidate
  /\ pc = "started" <=> dpc # "off"
  /\ pc # "started" => prod = "off"
  /\ hpc = "receiving" => pc = "started"
  /\ prod = "sending" => offer \in Chunk
  /\ dpc = "forward" => held \in Chunk

Typed == TypeOK /\ Phases

(* What drain's last word on a stream is.                                  *)
LEMMA FinishedFacts ==
  ASSUME Typed, dpc = "finish"
  PROVE  \E att \in Attempts :
           /\ att.index = i /\ att.provider = refs[i] /\ att.usage = StreamUsage
           /\ att.status = IF streamErr = NoError THEN "success" ELSE streamErr
           /\ finished \in Traces
           /\ finished.attempts = Append(tr.attempts, att)
           /\ finished.status = att.status /\ finished.usage = att.usage
           /\ finished.provider = IF streamErr = NoError THEN refs[i] ELSE tr.provider
<1> USE ProvidersAssumption DEF Typed, TypeOK, Phases, AtKnownCandidate
<1> DEFINE att == [index |-> i, provider |-> refs[i], usage |-> StreamUsage,
                   status |-> IF streamErr = NoError THEN "success" ELSE streamErr]
           rec == attempted(tr, att)
<1>1. refs[i] \in Names
  OBVIOUS
<1>2. StreamUsage \in Nat
  BY DEF StreamUsage
<1>3. att \in Attempts
  BY <1>1, <1>2 DEF Attempts, AttemptStatus, Failures, NoError
<1>4. rec \in Traces /\ rec.attempts = Append(tr.attempts, att) /\ rec.provider = tr.provider
  <2> HIDE DEF att
  <2> QED  BY <1>3, AttemptedFacts
<1>5. finished = [rec EXCEPT !.status = att.status, !.usage = att.usage,
                             !.provider = IF streamErr = NoError THEN refs[i] ELSE @]
  BY DEF finished
<1>6. /\ att.index = i /\ att.provider = refs[i] /\ att.usage = StreamUsage
      /\ att.status = IF streamErr = NoError THEN "success" ELSE streamErr
  OBVIOUS
<1> HIDE DEF att, rec
<1>7. /\ finished \in Traces /\ finished.attempts = rec.attempts
      /\ finished.status = att.status /\ finished.usage = att.usage
      /\ finished.provider = IF streamErr = NoError THEN refs[i] ELSE rec.provider
  BY <1>1, <1>3, <1>4, <1>5 DEF Traces, Attempts
<1> QED  BY <1>3, <1>4, <1>6, <1>7

LEMMA TypedInvariant == Spec => []Typed
<1> USE ProvidersAssumption, RoutesAssumption
<1>1. Init => Typed
  <2> SUFFICES ASSUME Init PROVE Typed
    OBVIOUS
  <2>1. TypeOK
    <3>1. /\ pc = "route" /\ refs \in Seq(Names) /\ i = 1 /\ cancelled = FALSE
          /\ prod = "off" /\ offer = NoChunk /\ whole = FALSE
      BY DEF Init
    <3>2. /\ dpc = "off" /\ held = NoChunk /\ taken \in Seq(Chunk) /\ streamErr = NoError
          /\ usage = 0 /\ haveUsage = FALSE /\ completion = 0
      BY DEF Init
    <3>3. /\ hpc = "starting" /\ got \in Seq(Chunk) /\ tr \in Traces /\ store \in Seq(Traces)
      BY NewTraceType DEF Init
    <3>4. /\ pc \in {"route", "loop", "starting", "check", "started", "failed"}
          /\ i \in Nat \ {0} /\ prod \in {"off", "reading", "sending", "leaving", "closed"}
          /\ dpc \in {"off", "range", "forward", "finish", "close", "closed"}
          /\ hpc \in {"starting", "receiving", "returned"}
      BY <3>1, <3>2, <3>3
    <3>5. /\ cancelled \in BOOLEAN /\ whole \in BOOLEAN /\ haveUsage \in BOOLEAN
          /\ usage \in Nat /\ completion \in Nat
      BY <3>1, <3>2
    <3> QED  BY <3>1, <3>2, <3>3, <3>4, <3>5 DEF TypeOK
  <2>2. Phases
    BY DEF Init, Phases
  <2> QED  BY <2>1, <2>2 DEF Typed
<1>2. Typed /\ [Next]_vars => Typed'
  <2> SUFFICES ASSUME Typed, [Next]_vars PROVE Typed'
    OBVIOUS
  <2> USE DEF Typed, TypeOK, Phases, AtKnownCandidate
  <2>1. CASE Route
    <3>1. CASE GiveUp /\ UNCHANGED refs
      <4>1. tr' \in Traces /\ store' \in Seq(Traces) /\ pc' = "failed"
        BY <3>1, FailFacts DEF GiveUp
      <4> QED  BY <2>1, <3>1, <4>1 DEF Route, channel, drain, counted, handler
    <3>2. CASE refs' \in Routes \ {<<>>} /\ pc' = "loop" /\ UNCHANGED record
      BY <2>1, <3>2 DEF Route, channel, drain, counted, handler, record
    <3> QED  BY <2>1, <3>1, <3>2 DEF Route
  <2>2. CASE Skip
    BY <2>2 DEF Skip, AtCandidate, channel, drain, counted, handler, record
  <2>3. CASE Begin
    BY <2>3 DEF Begin, AtCandidate, channel, drain, counted, handler, record
  <2>4. CASE StartFails
    <3>1. PICK status \in Failures : tr' = attempted(tr, buildAttempt(i, refs[i], status, 0))
      BY <2>4 DEF StartFails, StartErrors
    <3>2. refs[i] \in Names
      BY <2>4 DEF StartFails
    <3>3. tr' \in Traces
      BY <3>1, <3>2, AttemptType, AttemptedFacts
    <3> QED  BY <2>4, <3>3 DEF StartFails, channel, drain, counted, handler
  <2>5. CASE StartWins
    BY <2>5 DEF StartWins, counted, record
  <2>6. CASE StopEarly \/ Exhausted
    <3>1. /\ pc \in {"check", "loop"} /\ tr' = fail(tr) /\ store' = Append(store, fail(tr))
          /\ pc' = "failed" /\ UNCHANGED <<refs, i, cancelled, channel, drain, handler>>
      BY <2>6 DEF StopEarly, Exhausted, GiveUp
    <3>2. tr' \in Traces /\ store' \in Seq(Traces)
      BY <3>1, FailFacts
    <3> QED  BY <3>1, <3>2 DEF channel, drain, counted, handler
  <2>7. CASE FallBack
    BY <2>7 DEF FallBack, channel, drain, counted, handler, record
  <2>8. CASE Produce
    BY <2>8, UsagesAssumption DEF Produce, Chunk, start, drain, counted, handler, record
  <2>9. CASE ReadFails
    BY <2>9 DEF ReadFails, Chunk, start, drain, counted, handler, record
  <2>10. CASE Finish \/ Leave \/ CloseAfterError
    BY <2>10 DEF Finish, Leave, LeaveWhenCancelled, CloseAfterError, start, drain, counted, handler, record
  <2>11. CASE Receive
    <3>1. offer \in Chunk
      BY <2>11 DEF Receive
    <3>2. usage' \in Nat /\ haveUsage' \in BOOLEAN /\ completion' \in Nat
      BY <2>11, <3>1 DEF Receive, Accumulate, Chunk
    <3> QED  BY <2>11, <3>1, <3>2 DEF Receive, start, handler, record
  <2>12. CASE RangeEnds \/ CloseOut
    BY <2>12 DEF RangeEnds, CloseOut, start, channel, counted, handler, record
  <2>13. CASE Forward
    BY <2>13 DEF Forward, start, channel, counted, record
  <2>14. CASE Abandon
    BY <2>14 DEF Abandon, Failures, start, channel, counted, handler, record
  <2>15. CASE finishStream
    <3>1. finished \in Traces
      BY <2>15, FinishedFacts DEF finishStream
    <3> QED  BY <2>15, <3>1 DEF finishStream, start, channel, counted, handler
  <2>16. CASE Return \/ ReturnCancels \/ Disconnect
    <3>1. CASE Return
      BY <3>1 DEF Return, start, channel, drain, counted, record
    <3>2. CASE ReturnCancels \/ Disconnect
      <4>1. /\ cancelled' = TRUE /\ UNCHANGED <<pc, refs, i, prod, offer, whole, hpc, got, tr, store>>
            /\ UNCHANGED <<dpc, held, taken, streamErr, usage, haveUsage, completion>>
        BY <3>2 DEF ReturnCancels, Disconnect, start, channel, drain, counted, handler, record
      <4> QED  BY <4>1
    <3> QED  BY <2>16, <3>1, <3>2
  <2>17. CASE UNCHANGED vars
    BY <2>17 DEF vars, start, channel, drain, counted, handler, record
  <2> QED
    BY <2>1, <2>2, <2>3, <2>4, <2>5, <2>6, <2>7, <2>8, <2>9, <2>10, <2>11, <2>12, <2>13,
       <2>14, <2>15, <2>16, <2>17 DEF Next, Starter, Producer, Drain, Handler
<1> QED  BY <1>1, <1>2, PTL DEF Spec

(* Every variable keeps its type.                                          *)
THEOREM TypeCorrect == Spec => []TypeOK
BY TypedInvariant, PTL DEF Typed
-----------------------------------------------------------------------------
(* One trace is stored, when the start loop gives up or when the drain is  *)
(* done; a handler that has returned saw one or the other, or an error.    *)
RecordInv ==
  /\ pc \notin {"failed", "started"} => store = <<>>
  /\ pc = "failed" => Len(store) = 1
  /\ pc = "started" => IF Recorded THEN Len(store) = 1 ELSE store = <<>>
  /\ hpc = "returned" => pc = "failed" \/ dpc = "closed" \/ Failed(got)

(* What Append does to a sequence of chunks.                               *)
LEMMA AppendChunk ==
  ASSUME NEW s \in Seq(Chunk), NEW c \in Chunk
  PROVE  /\ Append(s, c) \in Seq(Chunk) /\ Len(Append(s, c)) = Len(s) + 1
         /\ 1..Len(Append(s, c)) = (1..Len(s)) \cup {Len(s) + 1}
         /\ Append(s, c)[Len(s) + 1] = c
         /\ \A k \in 1..Len(s) : Append(s, c)[k] = s[k]
OBVIOUS

LEMMA FailedAppend ==
  ASSUME NEW s \in Seq(Chunk), NEW c \in Chunk
  PROVE  Failed(Append(s, c)) <=> Failed(s) \/ c.kind \in Failures
<1> DEFINE u == Append(s, c)
<1>1. /\ 1..Len(u) = (1..Len(s)) \cup {Len(s) + 1} /\ u[Len(s) + 1] = c
      /\ \A k \in 1..Len(s) : u[k] = s[k]
  BY AppendChunk
<1> HIDE DEF u
<1>2. Failed(u) <=> Failed(s) \/ c.kind \in Failures
  BY <1>1 DEF Failed
<1> QED  BY <1>2 DEF u

LEMMA AtMostOne ==
  ASSUME NEW s \in Seq(Traces), s = <<>> \/ Len(s) = 1
  PROVE  Len(s) <= 1
<1>1. CASE s = <<>>
  BY <1>1
<1>2. CASE Len(s) = 1
  BY <1>2
<1> QED  BY <1>1, <1>2

LEMMA RecordInvariant == Spec => []RecordInv
<1> USE DEF RecordInv, Recorded
<1>1. Init => RecordInv
  BY DEF Init
<1>2. Typed /\ RecordInv /\ [Next]_vars => RecordInv'
  <2> SUFFICES ASSUME Typed, RecordInv, [Next]_vars PROVE RecordInv'
    OBVIOUS
  <2> USE DEF Typed, TypeOK, Phases
  <2>1. CASE Skip \/ Begin \/ StartFails \/ FallBack
    BY <2>1 DEF Skip, Begin, StartFails, FallBack, AtCandidate, drain, handler, record, Failed
  <2>2. CASE Route
    BY <2>2 DEF Route, GiveUp, drain, handler, record, Failed
  <2>3. CASE StopEarly \/ Exhausted
    <3>1. store = <<>> /\ store' = Append(store, fail(tr)) /\ pc' = "failed"
      BY <2>3 DEF StopEarly, Exhausted, GiveUp
    <3>2. Len(store') = 1
      BY <3>1
    <3> QED  BY <3>1, <3>2
  <2>4. CASE StartWins
    BY <2>4 DEF StartWins, record, Failed
  <2>5. CASE Producer
    BY <2>5 DEF Producer, Produce, ReadFails, Finish, Leave, LeaveWhenCancelled, CloseAfterError,
                start, drain, handler, record, Failed
  <2>6. CASE Receive
    BY <2>6 DEF Receive, start, handler, record, Failed
  <2>7. CASE RangeEnds \/ Abandon \/ CloseOut
    BY <2>7 DEF RangeEnds, Abandon, CloseOut, start, handler, record, Failed
  <2>8. CASE Forward
    <3>1. Failed(got') <=> Failed(got) \/ held.kind \in Failures
      BY <2>8, FailedAppend DEF Forward
    <3>2. hpc' = "returned" => Failed(got')
      BY <2>8, <3>1 DEF Forward
    <3>3. Failed(got') <=> Failed(got)'
      BY DEF Failed
    <3> QED  BY <2>8, <3>2, <3>3 DEF Forward, start, record
  <2>9. CASE finishStream
    BY <2>9 DEF finishStream, start, handler, Failed
  <2>10. CASE Return
    BY <2>10 DEF Return, start, drain, record, Failed
  <2>11. CASE ReturnCancels \/ Disconnect \/ UNCHANGED vars
    BY <2>11 DEF ReturnCancels, Disconnect, vars, start, drain, handler, record, Failed
  <2> QED
    BY <2>1, <2>2, <2>3, <2>4, <2>5, <2>6, <2>7, <2>8, <2>9, <2>10, <2>11
       DEF Next, Starter, Drain, Handler
<1> QED  BY <1>1, <1>2, TypedInvariant, PTL DEF Spec

(* The trace is in the store when the caller learns of the end.            *)
THEOREM AlwaysRecordedBeforeTheEnd == Spec => []RecordedBeforeTheEnd
<1>1. Typed /\ RecordInv => RecordedBeforeTheEnd
  <2> SUFFICES ASSUME Typed, RecordInv PROVE RecordedBeforeTheEnd
    OBVIOUS
  <2> USE DEF Typed, TypeOK, Phases, RecordInv, Recorded
  <2>1. Len(store) <= 1
    BY AtMostOne
  <2>2. hpc = "returned" /\ ~Failed(got) => Len(store) = 1
    OBVIOUS
  <2> QED  BY <2>1, <2>2 DEF RecordedBeforeTheEnd
<1> QED  BY <1>1, TypedInvariant, RecordInvariant, PTL
-----------------------------------------------------------------------------
(* What is where: the chunks are all of the winner's; the client has what  *)
(* drain has, except for the chunk in drain's hand; and streamErr says     *)
(* whether an error or an abandoned chunk was among them.                  *)
FromWinner(chunks) == \A n \in 1..Len(chunks) : chunks[n].from = refs[i]

DeliveryInv ==
  /\ pc # "started" => got = <<>> /\ taken = <<>> /\ streamErr = NoError
  /\ FromWinner(got) /\ FromWinner(taken)
  /\ prod = "sending" => offer.from = refs[i]
  /\ dpc = "forward" => held.from = refs[i] /\ taken = Append(got, held)
  /\ dpc = "range" => got = taken
  /\ dpc \in {"range", "forward"} => (streamErr = NoError <=> ~Failed(taken))
  /\ dpc \in {"finish", "close", "closed"} =>
       /\ streamErr = NoError => got = taken /\ ~Failed(taken)
       /\ Failed(got) => streamErr # NoError

LEMMA FromWinnerAppend ==
  ASSUME NEW s \in Seq(Chunk), NEW c \in Chunk, FromWinner(s), c.from = refs[i]
  PROVE  FromWinner(Append(s, c))
<1> DEFINE u == Append(s, c)
<1>1. /\ 1..Len(u) = (1..Len(s)) \cup {Len(s) + 1} /\ u[Len(s) + 1] = c
      /\ \A k \in 1..Len(s) : u[k] = s[k]
  BY AppendChunk
<1> HIDE DEF u
<1>2. FromWinner(u)
  BY <1>1 DEF FromWinner
<1> QED  BY <1>2 DEF u

LEMMA DeliveryInvariant == Spec => []DeliveryInv
<1> USE DEF DeliveryInv
<1>1. Init => DeliveryInv
  BY DEF Init, FromWinner
<1>2. Typed /\ DeliveryInv /\ [Next]_vars => DeliveryInv'
  <2> SUFFICES ASSUME Typed, DeliveryInv, [Next]_vars PROVE DeliveryInv'
    OBVIOUS
  <2> USE DEF Typed, TypeOK, Phases
  <2>1. ASSUME UNCHANGED <<pc, refs, i, got, taken, streamErr, dpc, held>>,
               prod' = "sending" => offer'.from = refs[i]
        PROVE  DeliveryInv'
    BY <2>1 DEF FromWinner, Failed
  <2>2. CASE Route \/ Skip \/ Begin \/ StartFails \/ StopEarly \/ FallBack \/ Exhausted
    <3>1. pc # "started" /\ pc' # "started" /\ UNCHANGED <<channel, drain, handler>>
      BY <2>2 DEF Route, Skip, Begin, StartFails, StopEarly, FallBack, Exhausted, GiveUp, AtCandidate
    <3>2. got' = <<>> /\ taken' = <<>> /\ dpc' = "off" /\ prod' = "off" /\ streamErr' = NoError
      BY <3>1 DEF channel, drain, handler
    <3> QED  BY <3>1, <3>2 DEF FromWinner
  <2>3. CASE StartWins
    <3>1. /\ pc # "started" /\ pc' = "started" /\ dpc' = "range" /\ prod' = "reading"
          /\ UNCHANGED <<refs, i, got, taken, streamErr>>
      BY <2>3 DEF StartWins
    <3> QED  BY <3>1 DEF FromWinner, Failed
  <2>4. CASE Producer
    <3>1. UNCHANGED <<pc, refs, i, got, taken, streamErr, dpc, held>>
      BY <2>4 DEF Producer, Produce, ReadFails, Finish, Leave, LeaveWhenCancelled, CloseAfterError,
                  start, drain, handler
    <3>2. prod' = "sending" => offer'.from = refs[i]
      BY <2>4 DEF Producer, Produce, ReadFails, Finish, Leave, LeaveWhenCancelled, CloseAfterError
    <3> QED  BY <2>1, <3>1, <3>2
  <2>5. CASE Receive
    <3>1. /\ dpc = "range" /\ dpc' = "forward" /\ offer \in Chunk /\ offer.from = refs[i]
          /\ held' = offer /\ taken' = Append(taken, offer) /\ prod' # "sending"
          /\ streamErr' = IF offer.kind \in Failures THEN offer.kind ELSE streamErr
          /\ UNCHANGED <<pc, refs, i, got>>
      BY <2>5 DEF Receive, start, handler
    <3>2. Failed(taken') <=> Failed(taken) \/ offer.kind \in Failures
      BY <3>1, FailedAppend
    <3>3. FromWinner(taken') /\ FromWinner(got')
      BY <3>1, FromWinnerAppend
    <3>4. streamErr' = NoError <=> ~Failed(taken')
      BY <3>1, <3>2 DEF Failures, NoError
    <3>5. pc = "started"
      BY <3>1
    <3> QED  BY <3>1, <3>3, <3>4, <3>5 DEF FromWinner, Failed
  <2>6. CASE RangeEnds
    BY <2>6 DEF RangeEnds, start, channel, handler, FromWinner, Failed
  <2>7. CASE Forward
    <3>1. /\ dpc = "forward" /\ dpc' = "range" /\ got' = Append(got, held)
          /\ UNCHANGED <<pc, refs, i, prod, offer, taken, streamErr>>
      BY <2>7 DEF Forward, start, channel
    <3>2. got' = taken /\ pc = "started"
      BY <3>1
    <3> QED  BY <3>1, <3>2 DEF FromWinner, Failed
  <2>8. CASE Abandon
    <3>1. /\ dpc = "forward" /\ dpc' = "finish" /\ streamErr' # NoError
          /\ UNCHANGED <<pc, refs, i, prod, offer, taken, got>>
      BY <2>8 DEF Abandon, NoError, start, channel, handler
    <3> QED  BY <3>1 DEF FromWinner, Failed
  <2>9. CASE finishStream \/ CloseOut
    BY <2>9 DEF finishStream, CloseOut, start, channel, handler, FromWinner, Failed
  <2>10. CASE Return \/ ReturnCancels \/ Disconnect \/ UNCHANGED vars
    BY <2>1, <2>10 DEF Return, ReturnCancels, Disconnect, vars, start, channel, drain, handler
  <2> QED
    BY <2>2, <2>3, <2>4, <2>5, <2>6, <2>7, <2>8, <2>9, <2>10 DEF Next, Starter, Drain, Handler
<1> QED  BY <1>1, <1>2, TypedInvariant, PTL DEF Spec
-----------------------------------------------------------------------------
(* The trace: only failed attempts, without usage, until the drain adds    *)
(* the winner's; and what is stored is the trace.                          *)
AllFailed(t) ==
  /\ \A n \in 1..Len(t.attempts) : t.attempts[n].status # "success" /\ t.attempts[n].usage = 0
  /\ t.provider = NoProvider /\ t.usage = 0

TraceInv ==
  /\ ~Recorded /\ pc # "failed" => AllFailed(tr)
  /\ pc = "failed" => Coherent(tr)
  /\ Recorded => /\ Coherent(tr) /\ LastAttempt(tr).provider = refs[i]
                 /\ tr.usage = StreamUsage
                 /\ tr.status = "success" <=> streamErr = NoError
  /\ \A n \in 1..Len(store) : store[n] = tr

LEMMA AppendAttempt ==
  ASSUME NEW s \in Seq(Attempts), NEW a \in Attempts
  PROVE  /\ Len(Append(s, a)) = Len(s) + 1 /\ Len(s) \in Nat
         /\ 1..Len(Append(s, a)) = (1..Len(s)) \cup {Len(s) + 1}
         /\ Append(s, a)[Len(s) + 1] = a /\ Append(s, a) # <<>>
         /\ \A n \in 1..Len(s) : Append(s, a)[n] = s[n]
OBVIOUS

LEMMA FailedIsCoherent ==
  ASSUME NEW t \in Traces, AllFailed(t)
  PROVE  Coherent(fail(t))
<1> DEFINE u == fail(t)
<1>1. u \in Traces /\ u.status = "error" /\ u.attempts = t.attempts /\ u.provider = t.provider
      /\ u.usage = t.usage
  BY FailFacts
<1> HIDE DEF u
<1>2. u.attempts \in Seq(Attempts)
  BY <1>1 DEF Traces
<1>3. u.attempts # <<>> => Len(u.attempts) \in 1..Len(u.attempts)
  BY <1>2
<1>4. ~Served(u) /\ u.usage = (IF u.attempts = <<>> THEN 0 ELSE LastAttempt(u).usage)
  BY <1>1, <1>3 DEF Served, LastAttempt, AllFailed
<1>5. \A k \in 1..Len(u.attempts) - 1 : u.attempts[k].status # "success" /\ u.attempts[k].usage = 0
  BY <1>1, <1>2 DEF AllFailed
<1>6. Coherent(u)
  BY <1>1, <1>4, <1>5 DEF Coherent, AllFailed
<1> QED  BY <1>6 DEF u

LEMMA FailedAttemptAdded ==
  ASSUME NEW t \in Traces, AllFailed(t), NEW a \in Attempts, a.status # "success", a.usage = 0
  PROVE  AllFailed(attempted(t, a))
<1> DEFINE u == attempted(t, a)
<1>1. u.attempts = Append(t.attempts, a) /\ u.provider = t.provider /\ u.usage = t.usage
  BY AttemptedFacts
<1>2. t.attempts \in Seq(Attempts)
  BY DEF Traces
<1> HIDE DEF u
<1>3. AllFailed(u)
  BY <1>1, <1>2, AppendAttempt DEF AllFailed
<1> QED  BY <1>3 DEF u

(* A trace closed by an attempt that carries its status and its usage.     *)
LEMMA LastAttemptCloses ==
  ASSUME NEW t \in Traces, AllFailed(t), NEW u \in Traces, NEW a \in Attempts,
         u.attempts = Append(t.attempts, a), u.status = a.status, u.usage = a.usage,
         u.provider = IF a.status = "success" THEN a.provider ELSE t.provider
  PROVE  Coherent(u) /\ LastAttempt(u) = a
<1>1. t.attempts \in Seq(Attempts)
  BY DEF Traces
<1>2. u.attempts # <<>> /\ LastAttempt(u) = a
  BY <1>1, AppendAttempt DEF LastAttempt
<1>3. Served(u) <=> a.status = "success"
  BY <1>2 DEF Served
<1>4. ASSUME NEW k \in 1..Len(u.attempts) - 1
      PROVE  u.attempts[k].status # "success" /\ u.attempts[k].usage = 0
  <2>1. k \in 1..Len(t.attempts)
    BY <1>1, AppendAttempt
  <2> QED  BY <1>1, <2>1, AppendAttempt DEF AllFailed
<1> QED  BY <1>2, <1>3, <1>4 DEF Coherent, AllFailed

LEMMA TraceInvariant == Spec => []TraceInv
<1> USE DEF TraceInv, Recorded
<1>1. Init => TraceInv
  BY DEF Init, newTrace, AllFailed
<1>2. Typed /\ RecordInv /\ TraceInv /\ [Next]_vars => TraceInv'
  <2> SUFFICES ASSUME Typed, RecordInv, TraceInv, [Next]_vars PROVE TraceInv'
    OBVIOUS
  <2> USE DEF Typed, TypeOK, Phases
  <2>1. ASSUME UNCHANGED record, UNCHANGED <<refs, i, streamErr, counted>>,
               Recorded' = Recorded, pc' = "failed" <=> pc = "failed"
        PROVE  TraceInv'
    BY <2>1 DEF record, AllFailed, Coherent, LastAttempt, Served, StreamUsage, counted
  <2>2. ASSUME UNCHANGED record, ~Recorded, ~Recorded', pc # "failed", pc' # "failed"
        PROVE  TraceInv'
    BY <2>2 DEF record, AllFailed
  <2>3. ASSUME GiveUp, pc \in {"route", "loop", "check"}, UNCHANGED drain
        PROVE  TraceInv'
    <3>1. /\ ~Recorded /\ ~Recorded' /\ pc' = "failed" /\ store = <<>>
          /\ tr' = fail(tr) /\ store' = Append(store, fail(tr))
      BY <2>3 DEF GiveUp, drain, RecordInv
    <3>2. AllFailed(tr)
      BY <2>3, <3>1
    <3>3. Coherent(tr')
      BY <3>1, <3>2, FailedIsCoherent
    <3>4. \A n \in 1..Len(store') : store'[n] = tr'
      BY <3>1
    <3> QED  BY <3>1, <3>3, <3>4 DEF Coherent, LastAttempt, Served
  <2>4. CASE Route
    <3>1. CASE GiveUp
      BY <2>3, <2>4, <3>1 DEF Route
    <3>2. CASE pc' = "loop" /\ UNCHANGED record
      BY <2>2, <2>4, <3>2 DEF Route, drain
    <3> QED  BY <2>4, <3>1, <3>2 DEF Route
  <2>5. CASE StopEarly \/ Exhausted
    BY <2>3, <2>5 DEF StopEarly, Exhausted
  <2>6. CASE Skip \/ Begin \/ FallBack
    BY <2>2, <2>6 DEF Skip, Begin, FallBack, AtCandidate, drain
  <2>7. CASE StartWins
    BY <2>2, <2>7 DEF StartWins
  <2>8. CASE StartFails
    <3>1. PICK status \in Failures : tr' = attempted(tr, buildAttempt(i, refs[i], status, 0))
      BY <2>8 DEF StartFails, StartErrors
    <3>2. /\ pc = "starting" /\ pc' = "check" /\ store' = store /\ store = <<>> /\ dpc' = "off"
          /\ refs[i] \in Names /\ AllFailed(tr)
      BY <2>8, ProvidersAssumption DEF StartFails, drain, RecordInv, AtKnownCandidate
    <3>3. AllFailed(tr')
      BY <3>1, <3>2, AttemptType, FailedAttemptAdded
    <3> QED  BY <3>2, <3>3 DEF AllFailed
  <2>9. CASE Producer
    BY <2>1, <2>9 DEF Producer, Produce, ReadFails, Finish, Leave, LeaveWhenCancelled, CloseAfterError,
                      start, drain
  <2>10. CASE Receive \/ RangeEnds \/ Forward \/ Abandon
    BY <2>2, <2>10 DEF Receive, RangeEnds, Forward, Abandon, start
  <2>11. CASE finishStream
    <3>1. /\ dpc = "finish" /\ pc = "started" /\ store = <<>> /\ AllFailed(tr)
          /\ tr' = finished /\ store' = Append(store, finished) /\ dpc' = "close"
          /\ UNCHANGED <<pc, refs, i, streamErr, usage, haveUsage, completion>>
      BY <2>11 DEF finishStream, start, counted, RecordInv
    <3>2. PICK att \in Attempts :
           /\ att.index = i /\ att.provider = refs[i] /\ att.usage = StreamUsage
           /\ att.status = IF streamErr = NoError THEN "success" ELSE streamErr
           /\ finished \in Traces
           /\ finished.attempts = Append(tr.attempts, att)
           /\ finished.status = att.status /\ finished.usage = att.usage
           /\ finished.provider = IF streamErr = NoError THEN refs[i] ELSE tr.provider
      BY <3>1, FinishedFacts
    <3>3. att.status = "success" <=> streamErr = NoError
      BY <3>2 DEF Failures, NoError
    <3>4. Coherent(finished) /\ LastAttempt(finished) = att
      BY <3>1, <3>2, <3>3, LastAttemptCloses
    <3>5. \A n \in 1..Len(store') : store'[n] = tr'
      BY <3>1
    <3>6. Coherent(tr)' /\ LastAttempt(tr)' = att /\ StreamUsage' = StreamUsage
      BY <3>1, <3>4 DEF Coherent, LastAttempt, Served, StreamUsage
    <3> QED  BY <3>1, <3>2, <3>3, <3>5, <3>6
  <2>12. CASE CloseOut \/ Return \/ ReturnCancels \/ Disconnect \/ UNCHANGED vars
    BY <2>1, <2>12 DEF CloseOut, Return, ReturnCancels, Disconnect, vars, start, drain
  <2> QED
    BY <2>4, <2>5, <2>6, <2>7, <2>8, <2>9, <2>10, <2>11, <2>12 DEF Next, Starter, Drain, Handler
<1> QED  BY <1>1, <1>2, TypedInvariant, RecordInvariant, PTL DEF Spec

(* Every chunk a client sees is from the provider its trace ends with, and *)
(* the trace on record is coherent.                                        *)
THEOREM AlwaysOneProvider == Spec => []OneProviderPerStream
<1>1. Typed /\ RecordInv /\ DeliveryInv /\ TraceInv => OneProviderPerStream
  <2> SUFFICES ASSUME Typed, RecordInv, DeliveryInv, TraceInv PROVE OneProviderPerStream
    OBVIOUS
  <2>1. \A n \in 1..Len(got) : got[n].from = refs[i]
    BY DEF DeliveryInv, FromWinner
  <2>2. \A n \in 1..Len(got) : got[n].from = got[1].from
    <3> SUFFICES ASSUME NEW n \in 1..Len(got) PROVE got[n].from = got[1].from
      OBVIOUS
    <3>1. 1 \in 1..Len(got)
      BY DEF Typed, TypeOK
    <3> QED  BY <2>1, <3>1
  <2>3. Recorded => \A n \in 1..Len(got) : got[n].from = LastAttempt(tr).provider
    BY <2>1 DEF TraceInv
  <2>4. \A n \in 1..Len(store) : Coherent(store[n])
    <3> SUFFICES ASSUME NEW n \in 1..Len(store) PROVE Coherent(store[n])
      OBVIOUS
    <3>1. store[n] = tr
      BY DEF TraceInv
    <3>2. store # <<>>
      OBVIOUS
    <3>3. pc = "failed" \/ Recorded
      BY <3>2 DEF RecordInv
    <3> QED  BY <3>1, <3>3 DEF TraceInv
  <2> QED  BY <2>2, <2>3, <2>4 DEF OneProviderPerStream
<1> QED  BY <1>1, TypedInvariant, RecordInvariant, DeliveryInvariant, TraceInvariant, PTL

(* A stream recorded as a success was delivered whole and without an       *)
(* error.                                                                  *)
THEOREM SuccessAlwaysDeliversAll == Spec => []SuccessDeliversAll
<1>1. DeliveryInv /\ TraceInv => SuccessDeliversAll
  BY DEF DeliveryInv, TraceInv, SuccessDeliversAll, Recorded
<1> QED  BY <1>1, DeliveryInvariant, TraceInvariant, PTL
-----------------------------------------------------------------------------
(* What drain has counted is what the chunks it received amount to.        *)
UsageInv ==
  /\ haveUsage <=> Reports(taken) # {}
  /\ \A k \in Reports(taken) :
       (\A j \in Reports(taken) : j <= k) => usage = taken[k].usage
  /\ completion = Deltas(taken)
  /\ got = taken \/ \E c \in Chunk : taken = Append(got, c)

DeltaPlaces(chunks) == {k \in 1..Len(chunks) : chunks[k].kind = "delta"}

LEMMA DeltasAppend ==
  ASSUME NEW s \in Seq(Chunk), NEW c \in Chunk
  PROVE  /\ Deltas(s) \in Nat
         /\ Deltas(Append(s, c)) = Deltas(s) + (IF c.kind = "delta" THEN 1 ELSE 0)
<1> DEFINE u == Append(s, c)
           n == Len(s)
<1>1. /\ n \in Nat /\ 1..Len(u) = (1..n) \cup {n + 1} /\ u[n + 1] = c /\ n + 1 \notin 1..n
      /\ \A k \in 1..n : u[k] = s[k]
  BY AppendChunk
<1>2. IsFiniteSet(DeltaPlaces(s))
  <2>1. IsFiniteSet(1..n)
    BY <1>1, FS_Interval
  <2>2. DeltaPlaces(s) \subseteq 1..n
    BY DEF DeltaPlaces
  <2> QED  BY <2>1, <2>2, FS_Subset
<1>3. Cardinality(DeltaPlaces(s)) \in Nat
  BY <1>2, FS_CardinalityType
<1> HIDE DEF u
<1>4. CASE c.kind = "delta"
  <2>1. DeltaPlaces(u) = DeltaPlaces(s) \cup {n + 1} /\ n + 1 \notin DeltaPlaces(s)
    BY <1>1, <1>4 DEF DeltaPlaces
  <2>2. Cardinality(DeltaPlaces(u)) = Cardinality(DeltaPlaces(s)) + 1
    BY <1>2, <2>1, FS_AddElement
  <2> QED  BY <1>3, <1>4, <2>2 DEF u, Deltas, DeltaPlaces
<1>5. CASE c.kind # "delta"
  <2>1. DeltaPlaces(u) = DeltaPlaces(s)
    BY <1>1, <1>5 DEF DeltaPlaces
  <2>2. Deltas(u) = Deltas(s) /\ Deltas(s) \in Nat
    BY <1>3, <2>1 DEF Deltas, DeltaPlaces
  <2> QED  BY <1>5, <2>2 DEF u
<1> QED  BY <1>4, <1>5

LEMMA ReportsAppend ==
  ASSUME NEW s \in Seq(Chunk), NEW c \in Chunk
  PROVE  Reports(Append(s, c)) = Reports(s) \cup (IF c.kind = "usage" THEN {Len(s) + 1} ELSE {})
<1> DEFINE u == Append(s, c)
<1>1. /\ 1..Len(u) = (1..Len(s)) \cup {Len(s) + 1} /\ u[Len(s) + 1] = c
      /\ \A k \in 1..Len(s) : u[k] = s[k]
  BY AppendChunk
<1> HIDE DEF u
<1>2. Reports(u) = Reports(s) \cup (IF c.kind = "usage" THEN {Len(s) + 1} ELSE {})
  BY <1>1 DEF Reports
<1> QED  BY <1>2 DEF u

LEMMA UsageInvariant == Spec => []UsageInv
<1>1. Init => UsageInv
  <2> SUFFICES ASSUME Init PROVE UsageInv
    OBVIOUS
  <2>1. taken = <<>> /\ got = <<>> /\ haveUsage = FALSE /\ completion = 0
    BY DEF Init
  <2>2. Reports(taken) = {} /\ DeltaPlaces(taken) = {}
    BY <2>1 DEF Reports, DeltaPlaces
  <2>3. Deltas(taken) = 0
    BY <2>2, FS_EmptySet DEF Deltas, DeltaPlaces
  <2> QED  BY <2>1, <2>2, <2>3 DEF UsageInv
<1>2. Typed /\ DeliveryInv /\ UsageInv /\ [Next]_vars => UsageInv'
  <2> SUFFICES ASSUME Typed, DeliveryInv, UsageInv, [Next]_vars PROVE UsageInv'
    OBVIOUS
  <2> USE DEF Typed, TypeOK
  <2>1. ASSUME UNCHANGED <<taken, got, counted>> PROVE UsageInv'
    BY <2>1 DEF UsageInv, counted, Reports, Deltas
  <2>2. CASE Route \/ Skip \/ Begin \/ StartFails \/ StopEarly \/ FallBack \/ Exhausted
    BY <2>1, <2>2 DEF Route, Skip, Begin, StartFails, StopEarly, FallBack, Exhausted, AtCandidate,
                      drain, handler
  <2>3. CASE StartWins \/ Producer
    BY <2>1, <2>3 DEF StartWins, Producer, Produce, ReadFails, Finish, Leave, LeaveWhenCancelled,
                      CloseAfterError, drain, handler
  <2>4. CASE Receive
    <3>1. /\ offer \in Chunk /\ taken' = Append(taken, offer) /\ got' = got /\ got = taken
          /\ Accumulate(offer)
      BY <2>4 DEF Receive, Phases, DeliveryInv, handler
    <3>2. /\ Reports(taken') = Reports(taken) \cup (IF offer.kind = "usage" THEN {Len(taken) + 1} ELSE {})
          /\ Deltas(taken') = Deltas(taken) + (IF offer.kind = "delta" THEN 1 ELSE 0)
          /\ Deltas(taken) \in Nat
      BY <3>1, ReportsAppend, DeltasAppend
    <3>3. completion' = Deltas(taken')
      BY <3>1, <3>2 DEF Accumulate, UsageInv
    <3>4. haveUsage' <=> Reports(taken') # {}
      BY <3>1, <3>2 DEF Accumulate, UsageInv
    <3>5. ASSUME NEW k \in Reports(taken'), \A j \in Reports(taken') : j <= k
          PROVE  usage' = taken'[k].usage
      <4>1. CASE offer.kind = "usage"
        <5>1. k = Len(taken) + 1
          <6>1. Len(taken) + 1 <= k
            BY <3>2, <3>5, <4>1
          <6>2. Reports(taken) \subseteq 1..Len(taken)
            BY DEF Reports
          <6> QED  BY <3>2, <3>5, <6>1, <6>2
        <5> QED  BY <3>1, <4>1, <5>1, AppendChunk DEF Accumulate
      <4>2. CASE offer.kind # "usage"
        <5>1. Reports(taken') = Reports(taken) /\ usage' = usage
          BY <3>1, <3>2, <4>2 DEF Accumulate
        <5>2. k \in 1..Len(taken)
          BY <3>5, <5>1 DEF Reports
        <5>3. taken'[k] = taken[k]
          BY <3>1, <5>2, AppendChunk
        <5> QED  BY <3>5, <5>1, <5>3 DEF UsageInv
      <4> QED  BY <4>1, <4>2
    <3>6. Reports(taken)' = Reports(taken') /\ Deltas(taken)' = Deltas(taken')
      BY DEF Reports, Deltas
    <3> QED  BY <3>1, <3>3, <3>4, <3>5, <3>6 DEF UsageInv
  <2>5. CASE Forward
    <3>1. got' = Append(got, held) /\ taken = Append(got, held) /\ UNCHANGED <<taken, counted>>
      BY <2>5 DEF Forward, DeliveryInv
    <3> QED  BY <3>1 DEF UsageInv, counted, Reports, Deltas
  <2>6. CASE RangeEnds \/ Abandon \/ finishStream \/ CloseOut
    BY <2>1, <2>6 DEF RangeEnds, Abandon, finishStream, CloseOut, handler
  <2>7. CASE Return \/ ReturnCancels \/ Disconnect \/ UNCHANGED vars
    BY <2>1, <2>7 DEF Return, ReturnCancels, Disconnect, vars, drain, handler
  <2> QED
    BY <2>2, <2>3, <2>4, <2>5, <2>6, <2>7 DEF Next, Starter, Drain, Handler
<1> QED  BY <1>1, <1>2, TypedInvariant, DeliveryInvariant, PTL DEF Spec

(* The usage on record is the last report the client could see, or the     *)
(* number of its deltas but for one.                                       *)
THEOREM UsageAlwaysMatches == Spec => []UsageMatchesDelivery
<1>1. Typed /\ TraceInv /\ UsageInv => UsageMatchesDelivery
  <2> SUFFICES ASSUME Typed, TraceInv, UsageInv, Recorded
               PROVE  IF Reports(taken) = {}
                        THEN tr.usage \in {Deltas(got), Deltas(got) + 1}
                        ELSE Reports(got) = Reports(taken) =>
                               \A k \in Reports(got) :
                                 (\A j \in Reports(got) : j <= k) => tr.usage = got[k].usage
    BY DEF UsageMatchesDelivery
  <2> USE DEF Typed, TypeOK
  <2>1. tr.usage = StreamUsage
    BY DEF TraceInv
  <2>2. CASE Reports(taken) = {}
    <3>1. tr.usage = Deltas(taken)
      BY <2>1, <2>2 DEF UsageInv, StreamUsage
    <3>2. Deltas(taken) \in {Deltas(got), Deltas(got) + 1}
      <4>1. CASE got = taken
        BY <4>1
      <4>2. ASSUME NEW c \in Chunk, taken = Append(got, c)
            PROVE  Deltas(taken) \in {Deltas(got), Deltas(got) + 1}
        <5>1. Deltas(got) \in Nat /\ Deltas(taken) = Deltas(got) + (IF c.kind = "delta" THEN 1 ELSE 0)
          BY <4>2, DeltasAppend
        <5> QED  BY <5>1
      <4> QED  BY <4>1, <4>2 DEF UsageInv
    <3> QED  BY <2>2, <3>1, <3>2
  <2>3. ASSUME Reports(taken) # {}, Reports(got) = Reports(taken),
               NEW k \in Reports(got), \A j \in Reports(got) : j <= k
        PROVE  tr.usage = got[k].usage
    <3>1. tr.usage = taken[k].usage
      BY <2>1, <2>3 DEF UsageInv, StreamUsage
    <3>2. k \in 1..Len(got)
      BY DEF Reports
    <3>3. taken[k] = got[k]
      BY <3>2, AppendChunk DEF UsageInv
    <3> QED  BY <3>1, <3>3
  <2> QED  BY <2>2, <2>3
<1> QED  BY <1>1, TypedInvariant, TraceInvariant, UsageInvariant, PTL
-----------------------------------------------------------------------------
(* The refinement: a step of Stream is a step of the abstract request of   *)
(* module Fallback, or one it does not notice.                             *)

Indexes(t) == {t.attempts[n].index : n \in 1..Len(t.attempts)}
Known      == {n \in 1..Len(refs) : refs[n] \in Providers}
Refusals   == Indexes(tr) \ (IF pc = "started" THEN {i} ELSE {})
Verdict    == CASE pc = "started" -> "served" [] pc = "failed" -> "failed" [] OTHER -> "open"
By         == IF pc = "started" THEN refs[i] ELSE NoProvider

(* The attempts on record are the known candidates the loop is past, the   *)
(* one that has just failed, and the one whose stream is over.             *)
IndexInv ==
  /\ i <= Len(refs) + 1
  /\ pc = "route" => refs = <<>>
  /\ pc # "failed" =>
       Indexes(tr) = {n \in Known : n < i \/ (n = i /\ (pc = "check" \/ Recorded))}

LEMMA IndexesAppend ==
  ASSUME NEW t \in Traces, NEW u, NEW a \in Attempts, u.attempts = Append(t.attempts, a)
  PROVE  Indexes(u) = Indexes(t) \cup {a.index}
<1>1. t.attempts \in Seq(Attempts)
  BY DEF Traces
<1>2. ASSUME NEW x PROVE x \in Indexes(u) <=> x \in Indexes(t) \/ x = a.index
  <2> DEFINE n == Len(t.attempts)
  <2>1. x \in Indexes(t) <=> \E k \in 1..n : x = t.attempts[k].index
    BY DEF Indexes
  <2>2. x \in Indexes(u) <=> \E k \in 1..Len(u.attempts) : x = u.attempts[k].index
    BY DEF Indexes
  <2>3. /\ 1..Len(u.attempts) = (1..n) \cup {n + 1} /\ u.attempts[n + 1] = a
        /\ \A k \in 1..n : u.attempts[k] = t.attempts[k]
    BY <1>1, AppendAttempt
  <2> HIDE DEF n
  <2>4. x \in Indexes(u) <=> (\E k \in 1..n : x = u.attempts[k].index) \/ x = u.attempts[n + 1].index
    BY <2>2, <2>3
  <2> QED  BY <2>1, <2>3, <2>4
<1>3. ASSUME NEW x PROVE x \in Indexes(u) <=> x \in Indexes(t) \cup {a.index}
  BY <1>2
<1> QED  BY <1>3, Zenon

LEMMA StartFailsFacts ==
  ASSUME Typed, StartFails
  PROVE  /\ Indexes(tr') = Indexes(tr) \cup {i}
         /\ pc = "starting" /\ pc' = "check" /\ i \in Known
         /\ UNCHANGED <<refs, i, cancelled, dpc>>
<1> USE DEF Typed, TypeOK, Phases
<1>1. PICK status \in Failures : tr' = attempted(tr, buildAttempt(i, refs[i], status, 0))
  BY DEF StartFails, StartErrors
<1>2. /\ pc = "starting" /\ pc' = "check" /\ AtKnownCandidate
      /\ UNCHANGED <<refs, i, cancelled, dpc>>
  BY DEF StartFails, drain
<1>3. refs[i] \in Names /\ i \in Known
  BY <1>2, ProvidersAssumption DEF AtKnownCandidate, Known
<1> DEFINE a == buildAttempt(i, refs[i], status, 0)
<1>4. a \in Attempts /\ a.index = i
  BY <1>3, AttemptType
<1>5. tr' = attempted(tr, a)
  BY <1>1
<1> HIDE DEF a
<1>6. tr'.attempts = Append(tr.attempts, a)
  BY <1>4, <1>5, AttemptedFacts
<1> QED  BY <1>2, <1>3, <1>4, <1>6, IndexesAppend

LEMMA IndexInvariant == Spec => []IndexInv
<1> USE DEF IndexInv, Recorded
<1>1. Init => IndexInv
  BY DEF Init, newTrace, Indexes, Known
<1>2. Typed /\ IndexInv /\ [Next]_vars => IndexInv'
  <2> SUFFICES ASSUME Typed, IndexInv, [Next]_vars PROVE IndexInv'
    OBVIOUS
  <2> USE RoutesAssumption DEF Typed, TypeOK, Phases, AtKnownCandidate
  <2>1. ASSUME UNCHANGED <<pc, refs, i, tr>>, Recorded' = Recorded PROVE IndexInv'
    BY <2>1 DEF Indexes, Known
  <2>2. CASE Route
    <3>1. CASE GiveUp /\ UNCHANGED refs
      BY <2>2, <3>1 DEF Route, GiveUp
    <3>2. CASE refs' \in Routes \ {<<>>} /\ pc' = "loop" /\ UNCHANGED record
      <4>1. i' = i /\ dpc' = "off" /\ tr' = tr /\ refs = <<>> /\ i = 1
        BY <2>2, <3>2 DEF Route, drain, record
      <4>2. Indexes(tr) = {}
        BY <2>2, <4>1 DEF Route, Known
      <4>3. Indexes(tr)' = {}
        BY <4>1, <4>2 DEF Indexes
      <4>4. refs' \in Seq(Names)
        BY <3>2
      <4> QED  BY <3>2, <4>1, <4>3, <4>4 DEF Known
    <3> QED  BY <2>2, <3>1, <3>2 DEF Route
  <2>3. CASE Skip
    <3>1. UNCHANGED <<refs, tr, dpc>> /\ i' = i + 1 /\ dpc = "off"
          /\ pc' = "loop" /\ pc = "loop" /\ i \notin Known /\ i <= Len(refs)
      BY <2>3 DEF Skip, AtCandidate, Known, drain, record
    <3>2. Indexes(tr)' = Indexes(tr) /\ Known' = Known
      BY <3>1 DEF Indexes, Known
    <3>3. Indexes(tr) = {n \in Known : n < i + 1}
      BY <3>1 DEF Known
    <3> QED  BY <3>1, <3>2, <3>3
  <2>4. CASE Begin
    BY <2>4 DEF Begin, AtCandidate, drain, record, Indexes, Known
  <2>5. CASE StartFails
    <3>1. Indexes(tr)' = Indexes(tr')
      BY DEF Indexes
    <3> QED  BY <2>5, <3>1, StartFailsFacts DEF Known
  <2>6. CASE StartWins
    BY <2>6 DEF StartWins, record, Indexes, Known
  <2>7. CASE StopEarly \/ Exhausted
    BY <2>7 DEF StopEarly, Exhausted, GiveUp
  <2>8. CASE FallBack
    <3>1. UNCHANGED <<refs, tr, dpc>> /\ i' = i + 1 /\ dpc = "off"
          /\ pc' = "loop" /\ pc = "check" /\ i <= Len(refs) /\ i \in Known
      BY <2>8 DEF FallBack, Known, drain, record
    <3>2. Indexes(tr)' = Indexes(tr) /\ Known' = Known
      BY <3>1 DEF Indexes, Known
    <3>3. Indexes(tr) = {n \in Known : n < i + 1}
      BY <3>1 DEF Known
    <3> QED  BY <3>1, <3>2, <3>3
  <2>9. CASE Producer
    BY <2>1, <2>9 DEF Producer, Produce, ReadFails, Finish, Leave, LeaveWhenCancelled, CloseAfterError,
                      start, drain, record
  <2>10. CASE Receive \/ RangeEnds \/ Forward \/ Abandon \/ CloseOut
    BY <2>1, <2>10 DEF Receive, RangeEnds, Forward, Abandon, CloseOut, start, record
  <2>11. CASE finishStream
    <3>1. dpc = "finish" /\ pc = "started" /\ tr' = finished /\ dpc' = "close" /\ UNCHANGED <<pc, refs, i>>
      BY <2>11 DEF finishStream, start
    <3>2. PICK a \in Attempts : a.index = i /\ finished.attempts = Append(tr.attempts, a)
      BY <3>1, FinishedFacts
    <3>3. Indexes(tr') = Indexes(tr) \cup {i}
      BY <3>1, <3>2, IndexesAppend
    <3>4. i \in Known
      BY <3>1 DEF Known
    <3>5. Indexes(tr)' = Indexes(tr')
      BY DEF Indexes
    <3> QED  BY <3>1, <3>3, <3>4, <3>5 DEF Known
  <2>12. CASE Return \/ ReturnCancels \/ Disconnect \/ UNCHANGED vars
    BY <2>1, <2>12 DEF Return, ReturnCancels, Disconnect, vars, start, drain, record
  <2> QED
    BY <2>2, <2>3, <2>4, <2>5, <2>6, <2>7, <2>8, <2>9, <2>10, <2>11, <2>12
       DEF Next, Starter, Drain, Handler
<1> QED  BY <1>1, <1>2, TypedInvariant, PTL DEF Spec

(* The steps of Fallback in the words of Stream.                           *)
FirstOpen(n) == n \in Known \ Refusals /\ \A j \in Known \ Refusals : n <= j

LEMMA Unnoticed ==
  UNCHANGED <<refs, Refusals, Verdict, By, cancelled>> => UNCHANGED Promise!vars
BY DEF Promise!vars, Refusals, Indexes, Verdict, By

LEMMA ChooseStep ==
  /\ Verdict = "open" /\ refs = <<>> /\ refs' \in Routes \ {<<>>}
  /\ UNCHANGED <<Refusals, Verdict, By, cancelled>>
  => Promise!Choose
BY DEF Promise!Choose, Promise!Open, Refusals, Indexes, Verdict, By

LEMMA RefuseStep ==
  /\ Verdict = "open" /\ FirstOpen(i)
  /\ Refusals' = Refusals \cup {i} /\ UNCHANGED <<refs, Verdict, By, cancelled>>
  => Promise!Refuse
BY DEF Promise!Refuse, Promise!Turn, Promise!Places, Promise!Open, FirstOpen, Known,
       Refusals, Indexes, Verdict, By

LEMMA ServeStep ==
  /\ Verdict = "open" /\ FirstOpen(i)
  /\ Verdict' = "served" /\ By' = refs[i] /\ UNCHANGED <<refs, Refusals, cancelled>>
  => Promise!Serve
BY DEF Promise!Serve, Promise!Turn, Promise!Places, Promise!Open, FirstOpen, Known,
       Refusals, Indexes, Verdict, By

LEMMA FailStep ==
  /\ Verdict = "open" /\ (cancelled \/ Known \subseteq Refusals)
  /\ Verdict' = "failed" /\ UNCHANGED <<refs, Refusals, By, cancelled>>
  => Promise!Fail
BY DEF Promise!Fail, Promise!Places, Promise!Open, Known, Refusals, Indexes, Verdict, By

LEMMA LeaveStep ==
  ~cancelled /\ cancelled' = TRUE /\ UNCHANGED <<refs, Refusals, Verdict, By>> => Promise!Leave
BY DEF Promise!Leave, Refusals, Indexes, Verdict, By

(* Stream keeps the promise of Fallback: it starts like a request there,   *)
(* and every one of its steps is a step there or changes nothing there.    *)
THEOREM StreamIsAFallback == Spec => ImplementsFallback
<1>1. Init => Promise!Init
  <2> SUFFICES ASSUME Init PROVE Promise!Init
    OBVIOUS
  <2>1. tr.attempts = <<>> /\ refs = <<>> /\ pc = "route" /\ cancelled = FALSE
    BY DEF Init, newTrace
  <2>2. Refusals = {}
    BY <2>1 DEF Refusals, Indexes
  <2>3. Verdict = "open" /\ By = NoProvider /\ cancelled \in BOOLEAN
    BY <2>1 DEF Verdict, By
  <2> QED  BY <2>1, <2>2, <2>3 DEF Promise!Init, Refusals, Indexes, Verdict, By
<1>2. Typed /\ IndexInv /\ [Next]_vars => [Promise!Next]_(Promise!vars)
  <2> SUFFICES ASSUME Typed, IndexInv, [Next]_vars
               PROVE  Promise!Next \/ UNCHANGED Promise!vars
    OBVIOUS
  <2> USE DEF Typed, TypeOK, Phases
  <2> DEFINE Starting == {"route", "loop", "starting", "check"}
  <2>1. pc \in Starting => Verdict = "open" /\ Refusals = Indexes(tr) /\ By = NoProvider /\ ~Recorded
    BY DEF Verdict, Refusals, By, Recorded
  <2>2. pc' \in Starting => Verdict' = "open" /\ Refusals' = Indexes(tr') /\ By' = NoProvider
    BY DEF Verdict, Refusals, By, Indexes
  <2>3. ASSUME pc \in Starting, GiveUp, UNCHANGED <<refs, cancelled>>,
               cancelled \/ Known \subseteq Indexes(tr)
        PROVE  Promise!Fail
    <3>1. tr'.attempts = tr.attempts /\ pc' = "failed"
      BY <2>3, FailFacts DEF GiveUp
    <3>2. Verdict' = "failed" /\ Refusals' = Indexes(tr) /\ By' = NoProvider
      BY <3>1 DEF Verdict, Refusals, By, Indexes
    <3> QED  BY <2>1, <2>3, <3>2, FailStep
  <2>4. ASSUME UNCHANGED <<refs, tr, cancelled>>, pc \in Starting, pc' \in Starting
        PROVE  UNCHANGED Promise!vars
    BY <2>1, <2>2, <2>4, Unnoticed
  <2>5. ASSUME UNCHANGED <<pc, refs, i, tr, cancelled>> PROVE UNCHANGED Promise!vars
    BY <2>5, Unnoticed DEF Verdict, Refusals, By, Indexes
  <2>6. CASE Route
    <3>1. CASE GiveUp /\ UNCHANGED refs
      <4>1. Known = {} /\ pc = "route"
        BY <2>6 DEF Route, IndexInv, Known
      <4> QED  BY <2>3, <2>6, <3>1, <4>1 DEF Route, Promise!Next
    <3>2. CASE refs' \in Routes \ {<<>>} /\ pc' = "loop" /\ UNCHANGED record
      <4>1. pc = "route" /\ refs = <<>> /\ UNCHANGED <<tr, cancelled>>
        BY <2>6, <3>2 DEF Route, IndexInv, record
      <4> QED  BY <2>1, <2>2, <3>2, <4>1, ChooseStep DEF Promise!Next
    <3> QED  BY <2>6, <3>1, <3>2 DEF Route
  <2>7. CASE Skip \/ Begin \/ FallBack
    BY <2>4, <2>7 DEF Skip, Begin, FallBack, AtCandidate, record
  <2>8. CASE StartFails
    <3>1. /\ Indexes(tr') = Indexes(tr) \cup {i} /\ pc = "starting" /\ pc' = "check" /\ i \in Known
          /\ UNCHANGED <<refs, i, cancelled>>
      BY <2>8, StartFailsFacts
    <3>2. FirstOpen(i)
      BY <2>1, <3>1 DEF IndexInv, FirstOpen, Known
    <3> QED  BY <2>1, <2>2, <3>1, <3>2, RefuseStep DEF Promise!Next
  <2>9. CASE StartWins
    <3>1. pc = "starting" /\ pc' = "started" /\ UNCHANGED <<refs, i, tr, cancelled>> /\ i \in Known
      BY <2>9 DEF StartWins, record, AtKnownCandidate, Known
    <3>2. FirstOpen(i) /\ i \notin Indexes(tr)
      BY <2>1, <3>1 DEF IndexInv, FirstOpen, Known
    <3>3. Verdict' = "served" /\ By' = refs[i] /\ Refusals' = Refusals
      BY <2>1, <3>1, <3>2 DEF Verdict, By, Refusals, Indexes
    <3> QED  BY <2>1, <3>1, <3>2, <3>3, ServeStep DEF Promise!Next
  <2>10. CASE StopEarly
    BY <2>3, <2>10 DEF StopEarly, Promise!Next
  <2>11. CASE Exhausted
    <3>1. pc = "loop" /\ Known \subseteq Indexes(tr)
      BY <2>11 DEF Exhausted, IndexInv, Known
    <3> QED  BY <2>3, <2>11, <3>1 DEF Exhausted, Promise!Next
  <2>12. CASE Producer
    BY <2>5, <2>12 DEF Producer, Produce, ReadFails, Finish, Leave, LeaveWhenCancelled,
                       CloseAfterError, start, record
  <2>13. CASE Receive \/ RangeEnds \/ Forward \/ Abandon \/ CloseOut
    BY <2>5, <2>13 DEF Receive, RangeEnds, Forward, Abandon, CloseOut, start, record
  <2>14. CASE finishStream
    <3>1. /\ dpc = "finish" /\ pc = "started" /\ tr' = finished
          /\ UNCHANGED <<pc, refs, i, cancelled>>
      BY <2>14 DEF finishStream, start
    <3>2. PICK a \in Attempts : a.index = i /\ finished.attempts = Append(tr.attempts, a)
      BY <3>1, FinishedFacts
    <3>3. Indexes(tr') = Indexes(tr) \cup {i}
      BY <3>1, <3>2, IndexesAppend
    <3>4. Refusals' = Refusals /\ Verdict' = Verdict /\ By' = By
      BY <3>1, <3>3 DEF Refusals, Verdict, By, Indexes
    <3> QED  BY <3>1, <3>4, Unnoticed
  <2>15. CASE Return \/ UNCHANGED vars
    BY <2>5, <2>15 DEF Return, vars, start, record
  <2>16. CASE ReturnCancels \/ Disconnect
    <3>1. ~cancelled /\ cancelled' = TRUE /\ UNCHANGED <<pc, refs, i, tr>>
      BY <2>16 DEF ReturnCancels, Disconnect, start, record
    <3> QED  BY <3>1, LeaveStep DEF Verdict, Refusals, By, Indexes, Promise!Next
  <2> QED
    BY <2>6, <2>7, <2>8, <2>9, <2>10, <2>11, <2>12, <2>13, <2>14, <2>15, <2>16
       DEF Next, Starter, Drain, Handler
<1> QED
  BY <1>1, <1>2, TypedInvariant, IndexInvariant, PTL DEF Spec, ImplementsFallback, Promise!Spec
=============================================================================
