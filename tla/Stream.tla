------------------------------- MODULE Stream -------------------------------
(***************************************************************************)
(* One streamed completion, end to end: Engine.Stream tries candidates     *)
(* until one starts a stream; from then on three goroutines pass chunks    *)
(* over two unbuffered channels, with one request context between them:    *)
(*                                                                         *)
(*     provider --in--> drain (engine_stream.go) --out--> handler          *)
(*                                                        (streamChat)     *)
(*                                                                         *)
(* An unbuffered send and its receive are one step, so `taken`, the chunks *)
(* drain received, is also what the provider sent.  A chunk is a delta, a  *)
(* usage report, or an error; its text is left out, and a delta counts as  *)
(* one token of completion text.                                           *)
(***************************************************************************)
EXTENDS Trace, FiniteSets

CONSTANTS Providers, Routes,
          MaxChunks        \* bound: chunks a provider sends on one stream

ASSUME ProvidersAssumption == Providers \subseteq Names
ASSUME RoutesAssumption    == Routes \subseteq Seq(Names)
ASSUME BoundAssumption     == MaxChunks \in Nat

VARIABLES
  pc,         \* Engine.Stream's start loop
  refs, i,    \* the candidates and the loop index
  cancelled,  \* the request's context is over
  prod,       \* the provider's goroutine
  offer,      \* the chunk it is trying to send
  whole,      \* history: the provider reached the end of its answer
  dpc,        \* the drain goroutine
  held,       \* the chunk drain is forwarding
  taken,      \* the chunks drain received from the provider
  usage,      \* drain's usage, the last one reported ...
  haveUsage,  \* ... if any was
  completion, \* drain's completion text, as a count of its tokens
  streamErr,  \* drain's streamErr
  hpc,        \* the HTTP handler
  got,        \* the chunks the handler received
  tr,         \* the trace
  store       \* the traces handed to the trace store

start   == <<pc, refs, i>>
channel == <<prod, offer, whole>>
counted == <<usage, haveUsage, completion>>
drain   == <<dpc, held, taken, streamErr, counted>>
handler == <<hpc, got>>
record  == <<tr, store>>
vars    == <<start, cancelled, channel, drain, handler, record>>

Failures == {"error", "timeout"}         \* what classify makes of an error
Chunk    == [kind: {"delta", "usage"} \cup Failures, from: Names, usage: Nat]
NoChunk  == [kind |-> "none"]
NoError  == "none"

TypeOK ==
  /\ pc \in {"route", "loop", "starting", "check", "started", "failed"}
  /\ refs \in Seq(Names) /\ i \in Nat \ {0}
  /\ cancelled \in BOOLEAN
  /\ prod \in {"off", "reading", "sending", "leaving", "closed"}
  /\ offer \in Chunk \cup {NoChunk}
  /\ whole \in BOOLEAN
  /\ dpc \in {"off", "range", "forward", "finish", "close", "closed"}
  /\ held \in Chunk \cup {NoChunk}
  /\ taken \in Seq(Chunk)
  /\ usage \in Nat /\ haveUsage \in BOOLEAN /\ completion \in Nat
  /\ streamErr \in Failures \cup {NoError}
  /\ hpc \in {"starting", "receiving", "returned"}
  /\ got \in Seq(Chunk)
  /\ tr \in Traces
  /\ store \in Seq(Traces)

Init ==
  /\ pc = "route" /\ refs = <<>> /\ i = 1
  /\ cancelled = FALSE
  /\ prod = "off" /\ offer = NoChunk /\ whole = FALSE
  /\ dpc = "off" /\ held = NoChunk /\ taken = <<>> /\ streamErr = NoError
  /\ usage = 0 /\ haveUsage = FALSE /\ completion = 0
  /\ hpc = "starting" /\ got = <<>>
  /\ tr = newTrace /\ store = <<>>

-----------------------------------------------------------------------------
(* Engine.Stream.                                                          *)

AtCandidate == pc = "loop" /\ i <= Len(refs)

(* fail saves the trace before Stream returns its error.                   *)
GiveUp ==
  /\ tr' = fail(tr)
  /\ store' = Append(store, fail(tr))
  /\ pc' = "failed"

Route ==
  /\ pc = "route"
  /\ \/ GiveUp /\ UNCHANGED refs
     \/ refs' \in Routes \ {<<>>} /\ pc' = "loop" /\ UNCHANGED record
  /\ UNCHANGED <<i, cancelled, channel, drain, handler>>

Skip ==
  /\ AtCandidate /\ refs[i] \notin Providers
  /\ i' = i + 1
  /\ UNCHANGED <<pc, refs, cancelled, channel, drain, handler, record>>

Begin ==
  /\ AtCandidate /\ refs[i] \in Providers
  /\ pc' = "starting"
  /\ UNCHANGED <<refs, i, cancelled, channel, drain, handler, record>>

(* What keeps a stream from starting: the request cannot be sent, the HTTP *)
(* client's own timeout strikes, or the answer's status is not 2xx.        *)
StartErrors == Failures

StartFails ==
  /\ pc = "starting"
  /\ \E status \in StartErrors :
       tr' = attempted(tr, buildAttempt(i, refs[i], status, 0))
  /\ pc' = "check"
  /\ UNCHANGED <<refs, i, cancelled, channel, drain, handler, store>>

(* The winner: the provider's and the drain's goroutine run from here on,  *)
(* and the handler receives from the drain's channel.                      *)
StartWins ==
  /\ pc = "starting"
  /\ pc' = "started" /\ prod' = "reading" /\ dpc' = "range" /\ hpc' = "receiving"
  /\ UNCHANGED <<refs, i, cancelled, offer, whole, held, taken, streamErr, counted, got, record>>

(* A start loop without the way back to its next candidate.                *)
StopAtFirstFailure ==
  /\ pc = "check"
  /\ GiveUp
  /\ UNCHANGED <<refs, i, cancelled, channel, drain, handler>>

StopEarly ==
  /\ pc = "check" /\ cancelled
  /\ GiveUp
  /\ UNCHANGED <<refs, i, cancelled, channel, drain, handler>>

FallBack ==
  /\ pc = "check" /\ ~cancelled
  /\ i' = i + 1 /\ pc' = "loop"
  /\ UNCHANGED <<refs, cancelled, channel, drain, handler, record>>

Exhausted ==
  /\ pc = "loop" /\ i > Len(refs)
  /\ GiveUp
  /\ UNCHANGED <<refs, i, cancelled, channel, drain, handler>>

Starter == Route \/ Skip \/ Begin \/ StopEarly \/ FallBack \/ Exhausted
-----------------------------------------------------------------------------
(* The provider's goroutine (openaicompat/client.go, mock.go).             *)

(* The next chunk is there: offer it to drain.                             *)
Produce ==
  /\ prod = "reading" /\ Len(taken) < MaxChunks
  /\ \E kind \in {"delta", "usage"}, n \in Usages :
       /\ kind = "delta" => n = 0
       /\ offer' = [kind |-> kind, from |-> refs[i], usage |-> n]
  /\ prod' = "sending"
  /\ UNCHANGED <<start, cancelled, whole, drain, handler, record>>

(* Reading fails: an error chunk, but only while the context is alive.     *)
ReadFails ==
  /\ prod = "reading" /\ ~cancelled
  /\ \E status \in Failures :
       offer' = [kind |-> status, from |-> refs[i], usage |-> 0]
  /\ prod' = "sending"
  /\ UNCHANGED <<start, cancelled, whole, drain, handler, record>>

(* The end of the answer: "[DONE]", the end of the body, or the last word. *)
Finish ==
  /\ prod = "reading"
  /\ prod' = "closed" /\ whole' = TRUE
  /\ UNCHANGED <<start, cancelled, offer, drain, handler, record>>

(* The context is over: a send that is waiting takes its ctx.Done branch,  *)
(* a read that fails says nothing.  The channel is closed with no error.   *)
LeaveWhenCancelled ==
  /\ prod \in {"reading", "sending"} /\ cancelled
  /\ prod' = "closed" /\ offer' = NoChunk
  /\ UNCHANGED <<start, cancelled, whole, drain, handler, record>>

(* A provider that forgot the ctx.Done branch of its send.                 *)
LeaveOnlyBetweenSends ==
  /\ prod = "reading" /\ cancelled
  /\ prod' = "closed" /\ offer' = NoChunk
  /\ UNCHANGED <<start, cancelled, whole, drain, handler, record>>

Leave == LeaveWhenCancelled

(* An error chunk is the last one.                                         *)
CloseAfterError ==
  /\ prod = "leaving"
  /\ prod' = "closed"
  /\ UNCHANGED <<start, cancelled, offer, whole, drain, handler, record>>

Producer == Produce \/ ReadFails \/ Finish \/ Leave \/ CloseAfterError
-----------------------------------------------------------------------------
(* Engine.drain.                                                           *)

(* A drain that answers a mid-stream error by going back to the start loop. *)
ReceiveAndFallBack ==
  /\ dpc = "range" /\ prod = "sending"
  /\ IF offer.kind \in Failures
       THEN pc' = "check" /\ dpc' = "off" /\ prod' = "off" /\ UNCHANGED <<held, taken>>
       ELSE pc' = pc /\ dpc' = "forward" /\ prod' = "reading"
              /\ held' = offer /\ taken' = Append(taken, offer)
  /\ offer' = NoChunk
  /\ UNCHANGED <<refs, i, cancelled, whole, streamErr, counted, handler, record>>

FirstReport(chunk) ==
  /\ haveUsage' = (haveUsage \/ chunk.kind = "usage")
  /\ usage' = IF chunk.kind = "usage" /\ ~haveUsage THEN chunk.usage ELSE usage
  /\ completion' = IF chunk.kind = "delta" THEN completion + 1 ELSE completion

(* What drain accumulates of a chunk: a later report replaces an earlier   *)
(* one, and a delta adds to the text.                                      *)
Accumulate(chunk) ==
  /\ haveUsage' = (haveUsage \/ chunk.kind = "usage")
  /\ usage' = IF chunk.kind = "usage" THEN chunk.usage ELSE usage
  /\ completion' = IF chunk.kind = "delta" THEN completion + 1 ELSE completion

Receive ==
  /\ dpc = "range" /\ prod = "sending"
  /\ held' = offer /\ taken' = Append(taken, offer) /\ offer' = NoChunk
  /\ prod' = IF offer.kind \in Failures THEN "leaving" ELSE "reading"
  /\ streamErr' = IF offer.kind \in Failures THEN offer.kind ELSE streamErr
  /\ Accumulate(offer)
  /\ dpc' = "forward"
  /\ UNCHANGED <<start, cancelled, whole, handler, record>>

RangeEnds ==
  /\ dpc = "range" /\ prod = "closed"
  /\ dpc' = "finish"
  /\ UNCHANGED <<start, cancelled, channel, held, taken, streamErr, counted, handler, record>>

(* select's send branch; the handler breaks out of its loop on an error    *)
(* chunk, writes the error and returns.                                    *)
Forward ==
  /\ dpc = "forward" /\ hpc = "receiving"
  /\ got' = Append(got, held) /\ held' = NoChunk
  /\ hpc' = IF held.kind \in Failures THEN "returned" ELSE hpc
  /\ dpc' = "range"
  /\ UNCHANGED <<start, cancelled, channel, taken, streamErr, counted, record>>

(* select's ctx.Done branch; context.Canceled classifies as an error.      *)
AbandonSilently ==
  /\ dpc = "forward" /\ cancelled
  /\ dpc' = "finish"
  /\ UNCHANGED <<start, cancelled, channel, held, taken, streamErr, counted, handler, record>>

Abandon ==
  /\ dpc = "forward" /\ cancelled
  /\ streamErr' = "error"
  /\ dpc' = "finish"
  /\ UNCHANGED <<start, cancelled, channel, held, taken, counted, handler, record>>

(* The provider's last report, or else a count of the text that came.      *)
StreamUsage == IF haveUsage THEN usage ELSE completion

finished ==
  LET att == [index |-> i, provider |-> refs[i], usage |-> StreamUsage,
              status |-> IF streamErr = NoError THEN "success" ELSE streamErr]
  IN [attempted(tr, att) EXCEPT
        !.status = att.status, !.usage = att.usage,
        !.provider = IF streamErr = NoError THEN refs[i] ELSE @]

finishStream ==
  /\ dpc = "finish"
  /\ tr' = finished /\ store' = Append(store, finished)
  /\ dpc' = "close"
  /\ UNCHANGED <<start, cancelled, channel, held, taken, streamErr, counted, handler>>

CloseBeforeSaving ==
  /\ dpc \in {"close", "finish"}
  /\ dpc' = "closed"
  /\ UNCHANGED <<start, cancelled, channel, held, taken, streamErr, counted, handler, record>>

(* The deferred close(out).                                                *)
CloseOut ==
  /\ dpc = "close"
  /\ dpc' = "closed"
  /\ UNCHANGED <<start, cancelled, channel, held, taken, streamErr, counted, handler, record>>

Drain == Receive \/ RangeEnds \/ Forward \/ Abandon \/ finishStream \/ CloseOut
-----------------------------------------------------------------------------
(* Server.streamChat, net/http around it, and the client.                  *)

(* Stream returned an error, or the channel was closed.                    *)
Return ==
  /\ \/ hpc = "starting" /\ pc = "failed"
     \/ hpc = "receiving" /\ dpc = "closed"
  /\ hpc' = "returned"
  /\ UNCHANGED <<start, cancelled, channel, drain, got, record>>

(* net/http cancels the request's context when the handler returns ...     *)
ReturnCancels ==
  /\ hpc = "returned" /\ ~cancelled
  /\ cancelled' = TRUE
  /\ UNCHANGED <<start, channel, drain, handler, record>>

(* ... or when the client goes away.                                       *)
Disconnect ==
  /\ hpc # "returned" /\ ~cancelled
  /\ cancelled' = TRUE
  /\ UNCHANGED <<start, channel, drain, handler, record>>

Handler == Return \/ ReturnCancels

Next == Starter \/ StartFails \/ StartWins \/ Producer \/ Drain \/ Handler \/ Disconnect

(* The program's own goroutines run.  A provider owes what ports.Provider  *)
(* asks of it and no more: once the context is over it stops, and after an *)
(* error chunk it closes the channel.                                      *)
Fairness ==
  /\ WF_vars(Starter) /\ WF_vars(Drain) /\ WF_vars(Handler)
  /\ WF_vars(cancelled /\ (StartFails \/ StartWins))
  /\ WF_vars(Leave) /\ WF_vars(CloseAfterError)

Spec == Init /\ [][Next]_vars /\ Fairness
-----------------------------------------------------------------------------
Failed(chunks) == \E k \in 1..Len(chunks) : chunks[k].kind \in Failures
Recorded       == dpc \in {"close", "closed"}

(* One trace per request, and it is there when the caller learns that the  *)
(* request is over from Stream's error or from the closed channel.  (It    *)
(* may not be there yet when the caller stops early, at an error chunk.)   *)
RecordedBeforeTheEnd ==
  /\ Len(store) <= 1
  /\ pc = "failed" => Len(store) = 1
  /\ hpc = "returned" /\ ~Failed(got) => Len(store) = 1

(* Fallback is for the start only: every chunk a client sees is from one   *)
(* provider, the one its trace names in the last attempt, and the attempts *)
(* before that one all failed to start.                                    *)
OneProviderPerStream ==
  /\ \A k \in 1..Len(got) : got[k].from = got[1].from
  /\ Recorded => \A k \in 1..Len(got) : got[k].from = LastAttempt(tr).provider
  /\ \A k \in 1..Len(store) : Coherent(store[k])

(* A stream recorded as a success lost nothing on the way: the client got  *)
(* every chunk the provider sent, in order, and none was an error.  A      *)
(* client that saw an error chunk finds no success in the trace.           *)
SuccessDeliversAll ==
  Recorded => /\ tr.status = "success" => got = taken /\ ~Failed(taken)
              /\ Failed(got) => tr.status # "success"

Reports(chunks) == {k \in 1..Len(chunks) : chunks[k].kind = "usage"}
Deltas(chunks)  == Cardinality({k \in 1..Len(chunks) : chunks[k].kind = "delta"})

(* The usage on record never lags what the client was told: it is the last *)
(* usage report sent, or without one the count of the deltas that came, of *)
(* which at most the one in drain's hand did not reach the client.         *)
UsageMatchesDelivery ==
  Recorded =>
    IF Reports(taken) = {}
      THEN tr.usage \in {Deltas(got), Deltas(got) + 1}
      ELSE Reports(got) = Reports(taken) =>
             \A k \in Reports(got) :
               (\A j \in Reports(got) : j <= k) => tr.usage = got[k].usage

(* No goroutine is left behind: when the handler is gone, the provider's   *)
(* and the drain's goroutine end too, wherever they were, and the trace of *)
(* what was sent is written.                                               *)
NoGoroutineLeft ==
  hpc = "returned" ~> /\ prod \in {"off", "closed"} /\ dpc \in {"off", "closed"}
                      /\ Len(store) = 1

(* The promise of module Fallback, kept by the start loop of Stream and    *)
(* everything after it: once a provider has started the stream the choice  *)
(* is final, whatever the stream runs into; before that a candidate that   *)
(* cannot start is followed by the next one.                               *)
Promise == INSTANCE Fallback WITH
  route   <- refs,
  refused <- {tr.attempts[k].index : k \in 1..Len(tr.attempts)}
               \ (IF pc = "started" THEN {i} ELSE {}),
  verdict <- CASE pc = "started" -> "served"
               [] pc = "failed"  -> "failed"
               [] OTHER          -> "open",
  by      <- IF pc = "started" THEN refs[i] ELSE NoProvider,
  gone    <- cancelled,
  Nobody  <- NoProvider

ImplementsFallback == Promise!Spec
-----------------------------------------------------------------------------
(* core/ports/trace.go:29-31: a Trace is "the full lifecycle record of one *)
(* request ... and the final outcome".  A stream recorded as a success ran *)
(* to the end of the provider's answer.                                    *)
SuccessMeansWhole == Recorded /\ tr.status = "success" => whole
=============================================================================
