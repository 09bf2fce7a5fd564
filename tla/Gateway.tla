------------------------------ MODULE Gateway ------------------------------
(***************************************************************************)
(* The HTTP gateway (api/http): concurrent exchanges, each a handler       *)
(* goroutine between its client and the engines, under the middleware      *)
(* recoverer(logger(requireAuth(handler))), with one store among them.     *)
(*                                                                         *)
(* The engines appear by what they promise elsewhere: Complete returns and *)
(* has saved its trace, Stream fails with a saved trace or starts a drain  *)
(* that saves it and closes the channel, a run returns and was saved while *)
(* its client was there.  An exchange stands for the ID of its trace or    *)
(* run.  `reply` is what the handler wrote; a client that is still there   *)
(* when the handler returns has got all of it.                             *)
(***************************************************************************)
EXTENDS Naturals, Sequences

CONSTANTS Exchanges,
          MaxChunks     \* bound: chunks of one stream

ASSUME BoundAssumption == MaxChunks \in Nat

VARIABLES
  keyed,   \* an API key is configured
  stored,  \* a store is configured
  req,     \* what each client asked for
  at,      \* where its handler is
  here,    \* the client is there; its absence ends the request's context
  reply,   \* the response
  heard,   \* chunks the handler took from its stream
  drain,   \* the stream's drain goroutine
  rows,    \* the verdict in the store, for each ID
  lost,    \* the IDs the store refused
  log      \* the access log's statuses, of each exchange

config == <<keyed, stored>>
store  == <<rows, lost>>
vars   == <<config, req, at, here, reply, heard, drain, store, log>>

Operations == {"complete", "stream", "run", "lookup"}
Verdicts   == {"success", "failed"}
NoRow      == "none"

(* The record a lookup asks for, and whether its client was answered about *)
(* that one before; an exchange's own ID is one that does not exist yet.   *)
Request == [op: Operations, of: Exchanges, answered: BOOLEAN]
NoReply == [status |-> 0, traced |-> FALSE, body |-> <<>>]

(* What a body is made of: event-stream frames, or one JSON verdict.       *)
Pieces      == [kind: {"first", "chunk", "error", "done"} \cup Verdicts, n: Nat]
JSON(v)     == <<[kind |-> v, n |-> 0]>>

TypeOK ==
  /\ keyed \in BOOLEAN /\ stored \in BOOLEAN
  /\ req \in [Exchanges -> Request]
  /\ at \in [Exchanges -> {"new", "received", "admitted", "engine", "answering",
                           "receiving", "ending", "returned"}]
  /\ here \in [Exchanges -> BOOLEAN]
  /\ reply \in [Exchanges -> [status: Nat, traced: BOOLEAN, body: Seq(Pieces)]]
  /\ heard \in [Exchanges -> Nat]
  /\ drain \in [Exchanges -> {"off", "range", "success", "failed", "close", "closed"}]
  /\ rows \in [Exchanges -> Verdicts \cup {NoRow}]
  /\ lost \subseteq Exchanges
  /\ log \in [Exchanges -> Seq(Nat)]

Init ==
  /\ keyed \in BOOLEAN /\ stored \in BOOLEAN
  /\ req = [x \in Exchanges |-> [op |-> "lookup", of |-> x, answered |-> FALSE]]
  /\ at = [x \in Exchanges |-> "new"]
  /\ here = [x \in Exchanges |-> TRUE]
  /\ reply = [x \in Exchanges |-> NoReply]
  /\ heard = [x \in Exchanges |-> 0]
  /\ drain = [x \in Exchanges |-> "off"]
  /\ rows = [x \in Exchanges |-> NoRow] /\ lost = {}
  /\ log = [x \in Exchanges |-> <<>>]
-----------------------------------------------------------------------------
Failed(x) == \E k \in 1..Len(reply[x].body) : reply[x].body[k].kind = "error"

(* Its client has the whole response, with an ID to ask for, and no error  *)
(* frame before which it could have stopped reading.                       *)
Answered(x) == at[x] = "returned" /\ here[x] /\ reply[x].traced /\ ~Failed(x)

(* The request's context.                                                  *)
CtxDetached(x) == FALSE
CtxOver(x)     == ~here[x] \/ at[x] = "returned"

Go(x, place) == at' = [at EXCEPT ![x] = place]

(* statusRecorder keeps what WriteHeader got, and logger runs after the    *)
(* handler, unless that panicked.                                          *)
Return(x, status) == Go(x, "returned") /\ log' = [log EXCEPT ![x] = Append(@, status)]

(* writeJSON and writeError: head and body at once, then the handler ends. *)
Respond(x, status, traced, body) ==
  /\ reply' = [reply EXCEPT ![x] = [status |-> status, traced |-> traced, body |-> body]]
  /\ Return(x, status)

Refuse(x, status) ==
  /\ Respond(x, status, FALSE, <<>>)
  /\ UNCHANGED <<config, req, here, heard, drain, store>>

(* net/http reads a request and starts its handler.                        *)
Receive(x) ==
  /\ at[x] = "new"
  /\ \E op \in Operations, y \in Exchanges :
       /\ op # "lookup" => y = x
       /\ req' = [req EXCEPT ![x] = [op |-> op, of |-> y, answered |-> Answered(y)]]
  /\ Go(x, "received")
  /\ UNCHANGED <<config, here, reply, heard, drain, store, log>>

RequireAuth(x) ==
  /\ at[x] = "received"
  /\ \E rightKey \in BOOLEAN :
       IF keyed /\ ~rightKey
         THEN Refuse(x, 401)
         ELSE Go(x, "admitted") /\ UNCHANGED <<config, req, here, reply, heard, drain, store, log>>

(* handleChat, handleRunWorkflow: the body is decoded and checked.         *)
Decode(x) ==
  /\ at[x] = "admitted" /\ req[x].op # "lookup"
  /\ \/ Refuse(x, 400)
     \/ Go(x, "engine") /\ UNCHANGED <<config, req, here, reply, heard, drain, store, log>>

(* handleGetTrace, handleGetRun.                                           *)
Lookup(x) ==
  /\ at[x] = "admitted" /\ req[x].op = "lookup"
  /\ LET found == rows[req[x].of] IN
     \/ ~stored /\ Refuse(x, 501)
     \/ stored /\ Refuse(x, 500)
     \/ stored /\ found = NoRow /\ Refuse(x, 404)
     \/ /\ stored /\ found # NoRow
        /\ Respond(x, 200, FALSE, JSON(found))
        /\ UNCHANGED <<config, req, here, heard, drain, store>>
-----------------------------------------------------------------------------
(* What a save does that runs on a context of its own: the store may fail. *)
Save(x, verdict) ==
  IF stored
    THEN \/ rows' = [rows EXCEPT ![x] = verdict] /\ UNCHANGED lost
         \/ lost' = lost \cup {x} /\ UNCHANGED rows
    ELSE UNCHANGED store

AtEngine(x, op) == at[x] = "engine" /\ req[x].op = op

(* The status line, with or without the trace's ID, and no body yet.       *)
Begin(x, status, traced) ==
  reply' = [reply EXCEPT ![x] = [status |-> status, traced |-> traced, body |-> <<>>]]

(* completeChat.                                                           *)
Complete(x) ==
  /\ AtEngine(x, "complete")
  /\ \E verdict \in Verdicts :
       /\ Save(x, verdict)
       /\ Begin(x, IF verdict = "success" THEN 200 ELSE 502, TRUE)
  /\ Go(x, "answering")
  /\ UNCHANGED <<config, req, here, heard, drain, log>>

(* Service.Run for handleRunWorkflow; a failed run is a 200 too.  SaveRun  *)
(* has the request's context.                                              *)
Run(x) ==
  /\ AtEngine(x, "run")
  /\ \E verdict \in Verdicts :
       /\ IF CtxOver(x) /\ stored THEN lost' = lost \cup {x} /\ UNCHANGED rows
                                  ELSE Save(x, verdict)
       /\ reply' = [reply EXCEPT ![x] = [status |-> 200, traced |-> TRUE, body |-> JSON(verdict)]]
  /\ Go(x, "answering")
  /\ UNCHANGED <<config, req, here, heard, drain, log>>

(* An unknown workflow or a missing input.                                 *)
RunRejected(x) == AtEngine(x, "run") /\ Refuse(x, 400)

(* streamChat with no stream: the engine has saved the trace and returned  *)
(* no result, so the response has no ID.                                   *)
StreamFails(x) ==
  /\ AtEngine(x, "stream")
  /\ Save(x, "failed")
  /\ Begin(x, 502, FALSE)
  /\ Go(x, "answering")
  /\ UNCHANGED <<config, req, here, heard, drain, log>>

Answer(x) ==
  /\ at[x] = "answering"
  /\ Return(x, reply[x].status)
  /\ UNCHANGED <<config, req, here, reply, heard, drain, store>>

(* A provider panics in the handler's goroutine: past logger, recoverer    *)
(* writes a 500.                                                           *)
Panic(x) ==
  /\ at[x] = "engine" /\ req[x].op \in {"complete", "stream"}
  /\ Begin(x, 500, FALSE)
  /\ Go(x, "returned")
  /\ UNCHANGED <<config, req, here, heard, drain, store, log>>
-----------------------------------------------------------------------------
(* streamChat with a stream.                                               *)

Write(x, frame) == reply' = [reply EXCEPT ![x].body = Append(@, frame)]

StreamStarts(x) ==
  /\ AtEngine(x, "stream")
  /\ Begin(x, 200, TRUE)
  /\ drain' = [drain EXCEPT ![x] = "range"]
  /\ Go(x, "receiving")
  /\ UNCHANGED <<config, req, here, heard, store, log>>

Flowing(x) == at[x] = "receiving" /\ drain[x] = "range"

(* The first frame carries the role.                                       *)
ChunkKind(n) == IF n = 1 THEN "first" ELSE "chunk"

TakeChunk(x) ==
  /\ Flowing(x) /\ heard[x] < MaxChunks
  /\ heard' = [heard EXCEPT ![x] = @ + 1]
  /\ Write(x, [kind |-> ChunkKind(heard[x] + 1), n |-> heard[x] + 1])
  /\ UNCHANGED <<config, req, at, here, drain, store, log>>

TakeErrorSilently(x) ==
  /\ Flowing(x)
  /\ drain' = [drain EXCEPT ![x] = "failed"]
  /\ Go(x, "ending")
  /\ UNCHANGED <<config, req, here, reply, heard, store, log>>

(* An error chunk: the handler writes it and stops reading, while drain    *)
(* has the trace still to save.                                            *)
TakeError(x) ==
  /\ Flowing(x)
  /\ drain' = [drain EXCEPT ![x] = "failed"]
  /\ Write(x, [kind |-> "error", n |-> heard[x]])
  /\ Go(x, "ending")
  /\ UNCHANGED <<config, req, here, heard, store, log>>

ChannelClosed(x) ==
  /\ at[x] = "receiving" /\ drain[x] = "closed"
  /\ Go(x, "ending")
  /\ UNCHANGED <<config, req, here, reply, heard, drain, store, log>>

(* The terminator, whatever came before it.                                *)
Terminate(x) ==
  /\ at[x] = "ending"
  /\ Write(x, [kind |-> "done", n |-> heard[x]])
  /\ Return(x, reply[x].status)
  /\ UNCHANGED <<config, req, here, heard, drain, store>>

(* The provider's stream is at its end, or was cut between two chunks.     *)
StreamCloses(x) ==
  /\ drain[x] = "range"
  /\ drain' = [drain EXCEPT ![x] = "success"]
  /\ UNCHANGED <<config, req, at, here, reply, heard, store, log>>

(* drain stops forwarding: its send waits and the context is over.         *)
Abandon(x) ==
  /\ drain[x] = "range" /\ CtxOver(x)
  /\ drain' = [drain EXCEPT ![x] = "failed"]
  /\ UNCHANGED <<config, req, at, here, reply, heard, store, log>>

DrainSaves(x) ==
  /\ drain[x] \in Verdicts
  /\ Save(x, drain[x])
  /\ drain' = [drain EXCEPT ![x] = "close"]
  /\ UNCHANGED <<config, req, at, here, reply, heard, log>>

CloseBeforeSaving(x) ==
  /\ drain[x] \in Verdicts \cup {"close"}
  /\ drain' = [drain EXCEPT ![x] = "closed"]
  /\ UNCHANGED <<config, req, at, here, reply, heard, store, log>>

CloseOut(x) ==
  /\ drain[x] = "close"
  /\ drain' = [drain EXCEPT ![x] = "closed"]
  /\ UNCHANGED <<config, req, at, here, reply, heard, store, log>>
-----------------------------------------------------------------------------
Disconnect(x) ==
  /\ at[x] \notin {"new", "returned"} /\ here[x]
  /\ here' = [here EXCEPT ![x] = FALSE]
  /\ UNCHANGED <<config, req, at, reply, heard, drain, store, log>>

Handle(x) == RequireAuth(x) \/ Decode(x) \/ Lookup(x) \/ Answer(x) \/ ChannelClosed(x) \/ Terminate(x)
Engine(x) == Complete(x) \/ Run(x) \/ RunRejected(x) \/ Panic(x)
Start(x)  == StreamFails(x) \/ StreamStarts(x)
Drain(x)  == StreamCloses(x) \/ Abandon(x)

Next == \E x \in Exchanges :
  \/ Receive(x) \/ Handle(x) \/ Engine(x) \/ Start(x) \/ Drain(x)
  \/ TakeChunk(x) \/ TakeError(x) \/ DrainSaves(x) \/ CloseOut(x) \/ Disconnect(x)

(* Handlers and drains run; Complete and a run return (RequestReturns and  *)
(* RunEnds); a stream owes something only once its context is over.        *)
Fairness == \A x \in Exchanges :
  /\ WF_vars(Handle(x)) /\ WF_vars(Engine(x) /\ req[x].op # "stream")
  /\ WF_vars(CtxOver(x) /\ Start(x)) /\ WF_vars(CtxOver(x) /\ Drain(x))
  /\ WF_vars(DrainSaves(x)) /\ WF_vars(CloseOut(x))

Spec == Init /\ [][Next]_vars /\ Fairness
-----------------------------------------------------------------------------
Panicked(x) == at[x] = "returned" /\ reply[x].status = 500 /\ req[x].op # "lookup"

(* The verdict a client reads off a whole response.                        *)
Told(x) == CASE req[x].op = "run" -> reply[x].body[1].kind
             [] reply[x].status = 502 \/ Failed(x) -> "failed"
             [] OTHER -> "success"

(* Response, access log, store and later lookups tell the same of one      *)
(* exchange: the log has its status, once, unless the handler panicked; an *)
(* answered client was told what is on record, and finds it when it asks,  *)
(* unless the store refused it.                                            *)
AccountsAgree == \A x \in Exchanges :
  /\ at[x] = "returned" => log[x] = IF Panicked(x) THEN <<>> ELSE <<reply[x].status>>
  /\ Answered(x) /\ stored => x \in lost \/ rows[x] = Told(x)
  /\ at[x] = "returned" /\ req[x].op = "lookup" =>
       /\ reply[x].status = 404 /\ req[x].answered => req[x].of \in lost
       /\ reply[x].status = 200 /\ Answered(req[x].of) => reply[x].body = JSON(Told(req[x].of))

(* A client that is there to the end can tell a whole answer from a broken *)
(* one: one terminator, at the end; before it every chunk that was sent,   *)
(* in order, the role in the first; and an error frame just before the     *)
(* terminator unless the trace says success.                               *)
EndOfStreamIsHonest == \A x \in Exchanges :
  LET body == reply[x].body
      last == Len(body) - (IF Failed(x) THEN 2 ELSE 1)
  IN at[x] = "returned" /\ here[x] /\ req[x].op = "stream" /\ reply[x].traced =>
       /\ body[Len(body)].kind = "done" /\ last = heard[x]
       /\ \A k \in 1..last : body[k] = [kind |-> ChunkKind(k), n |-> k]
       /\ Failed(x) => body[Len(body) - 1].kind = "error" /\ rows[x] # "success"
       /\ ~Failed(x) => rows[x] # "failed"

(* A request is answered: but a stream only when its client is gone.  Then *)
(* the drain ends too, and what the engine did is on record or refused.    *)
HandlersEnd == \A x \in Exchanges :
  at[x] # "new" /\ (req[x].op # "stream" \/ ~here[x]) ~>
    /\ at[x] = "returned" /\ drain[x] \in {"off", "closed"}
    /\ stored /\ reply[x].traced => rows[x] # NoRow \/ x \in lost
=============================================================================
