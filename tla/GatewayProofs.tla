---------------------------- MODULE GatewayProofs ----------------------------
(***************************************************************************)
(* What holds of the HTTP gateway for any number of exchanges at once and  *)
(* any length of stream.                                                   *)
(***************************************************************************)
EXTENDS Gateway, TLAPS

Places == {"new", "received", "admitted", "engine", "answering", "receiving", "ending", "returned"}
Drains == {"off", "range", "success", "failed", "close", "closed"}
Replies == [status: Nat, traced: BOOLEAN, body: Seq(Pieces)]

(* Everything an exchange does.                                            *)
Step(x) ==
  \/ Receive(x) \/ Handle(x) \/ Engine(x) \/ Start(x) \/ Drain(x)
  \/ TakeChunk(x) \/ TakeError(x) \/ DrainSaves(x) \/ CloseOut(x) \/ Disconnect(x)

(* It touches nothing of another one.                                      *)
Local(x) ==
  /\ stored' = stored /\ keyed' = keyed
  /\ \A y \in Exchanges \ {x} :
       /\ at'[y] = at[y] /\ req'[y] = req[y] /\ here'[y] = here[y] /\ reply'[y] = reply[y]
       /\ heard'[y] = heard[y] /\ drain'[y] = drain[y] /\ rows'[y] = rows[y] /\ log'[y] = log[y]
       /\ y \in lost' <=> y \in lost

(* The frames of the chunks a stream has sent.                             *)
Chunks(h) == [k \in 1..h |-> [kind |-> ChunkKind(k), n |-> k]]
Sent(x)   == Chunks(heard[x])
Error(x)  == [kind |-> "error", n |-> heard[x]]
Done(x)   == [kind |-> "done", n |-> heard[x]]

LEMMA ChunksType ==
  ASSUME NEW h \in Nat
  PROVE  Chunks(h) \in Seq(Pieces) /\ Len(Chunks(h)) = h
<1>1. \A k \in 1..h : [kind |-> ChunkKind(k), n |-> k] \in Pieces
  BY DEF ChunkKind, Pieces
<1> QED  BY <1>1 DEF Chunks

LEMMA OneMoreChunk ==
  ASSUME NEW h \in Nat
  PROVE  Append(Chunks(h), [kind |-> ChunkKind(h + 1), n |-> h + 1]) = Chunks(h + 1)
<1> DEFINE piece(k) == [kind |-> ChunkKind(k), n |-> k]
<1>1. Chunks(h) \in Seq(Pieces) /\ Len(Chunks(h)) = h
  BY ChunksType
<1>2. Append(Chunks(h), piece(h + 1)) = [k \in 1..(h + 1) |-> IF k = h + 1 THEN piece(h + 1) ELSE Chunks(h)[k]]
  BY <1>1
<1>3. \A k \in 1..(h + 1) : (IF k = h + 1 THEN piece(h + 1) ELSE Chunks(h)[k]) = piece(k)
  BY DEF Chunks
<1> QED  BY <1>2, <1>3 DEF Chunks
-----------------------------------------------------------------------------
(* A step keeps the types and stays with its exchange.                     *)

LEMMA Types ==
  TypeOK <=> /\ keyed \in BOOLEAN /\ stored \in BOOLEAN
             /\ req \in [Exchanges -> Request] /\ at \in [Exchanges -> Places]
             /\ here \in [Exchanges -> BOOLEAN] /\ reply \in [Exchanges -> Replies]
             /\ heard \in [Exchanges -> Nat] /\ drain \in [Exchanges -> Drains]
             /\ rows \in [Exchanges -> Verdicts \cup {NoRow}] /\ lost \subseteq Exchanges
             /\ log \in [Exchanges -> Seq(Nat)]
BY DEF TypeOK, Places, Replies, Drains

LEMMA SaveType ==
  ASSUME TypeOK, NEW x \in Exchanges, NEW v \in Verdicts, Save(x, v)
  PROVE  /\ rows' \in [Exchanges -> Verdicts \cup {NoRow}] /\ lost' \subseteq Exchanges
         /\ \A y \in Exchanges \ {x} : rows'[y] = rows[y] /\ (y \in lost' <=> y \in lost)
BY DEF TypeOK, Save, store

LEMMA RespondType ==
  ASSUME TypeOK, NEW x \in Exchanges, NEW status \in Nat, NEW traced \in BOOLEAN, NEW body \in Seq(Pieces),
         Respond(x, status, traced, body)
  PROVE  /\ reply' = [reply EXCEPT ![x] = [status |-> status, traced |-> traced, body |-> body]]
         /\ reply' \in [Exchanges -> Replies]
         /\ at' = [at EXCEPT ![x] = "returned"] /\ at' \in [Exchanges -> Places]
         /\ log' = [log EXCEPT ![x] = Append(@, status)] /\ log' \in [Exchanges -> Seq(Nat)]
BY DEF TypeOK, Respond, Return, Go, Places, Replies

LEMMA RefuseType ==
  ASSUME TypeOK, NEW x \in Exchanges, NEW status \in Nat, Refuse(x, status)
  PROVE  TypeOK' /\ Local(x)
<1>1. Respond(x, status, FALSE, <<>>) /\ UNCHANGED <<keyed, stored, req, here, heard, drain, rows, lost>>
  BY DEF Refuse, config, store
<1>2. /\ reply' = [reply EXCEPT ![x] = [status |-> status, traced |-> FALSE, body |-> <<>>]]
      /\ reply' \in [Exchanges -> Replies]
      /\ at' = [at EXCEPT ![x] = "returned"] /\ at' \in [Exchanges -> Places]
      /\ log' = [log EXCEPT ![x] = Append(@, status)] /\ log' \in [Exchanges -> Seq(Nat)]
  <2>1. FALSE \in BOOLEAN /\ <<>> \in Seq(Pieces)
    OBVIOUS
  <2> QED  BY <1>1, <2>1, RespondType
<1> QED  BY <1>1, <1>2 DEF TypeOK, Places, Replies, Local

LEMMA JSONType ==
  ASSUME NEW v \in Verdicts
  PROVE  JSON(v) \in Seq(Pieces)
<1>1. [kind |-> v, n |-> 0] \in Pieces
  BY DEF Pieces
<1> QED  BY <1>1 DEF JSON

LEMMA BodyChanged ==
  ASSUME NEW r \in Replies, NEW body
  PROVE  [r EXCEPT !.body = body] = [status |-> r.status, traced |-> r.traced, body |-> body]
BY DEF Replies

LEMMA ReplySet ==
  ASSUME TypeOK, NEW x \in Exchanges, NEW r \in Replies, reply' = [reply EXCEPT ![x] = r]
  PROVE  /\ reply' \in [Exchanges -> Replies] /\ reply'[x] = r
         /\ \A y \in Exchanges \ {x} : reply'[y] = reply[y]
BY DEF TypeOK, Replies

LEMMA BeginSet ==
  ASSUME TypeOK, NEW x \in Exchanges, NEW status \in Nat, NEW traced \in BOOLEAN, Begin(x, status, traced)
  PROVE  /\ reply' \in [Exchanges -> Replies]
         /\ reply'[x] = [status |-> status, traced |-> traced, body |-> <<>>]
         /\ \A y \in Exchanges \ {x} : reply'[y] = reply[y]
<1>1. [status |-> status, traced |-> traced, body |-> <<>>] \in Replies
  BY DEF Replies
<1> QED  BY <1>1, ReplySet DEF Begin

LEMMA FrameSet ==
  ASSUME TypeOK, NEW x \in Exchanges, NEW f \in Pieces, Write(x, f)
  PROVE  /\ reply' \in [Exchanges -> Replies]
         /\ reply'[x] = [status |-> reply[x].status, traced |-> reply[x].traced, body |-> Append(reply[x].body, f)]
         /\ \A y \in Exchanges \ {x} : reply'[y] = reply[y]
<1> DEFINE body == Append(reply[x].body, f)
<1>1. reply[x] \in Replies
  BY DEF TypeOK, Replies
<1>2. reply' = [reply EXCEPT ![x] = [reply[x] EXCEPT !.body = body]]
  BY DEF TypeOK, Write
<1>3. [reply[x] EXCEPT !.body = body] = [status |-> reply[x].status, traced |-> reply[x].traced, body |-> body]
  BY <1>1, BodyChanged
<1>4. [status |-> reply[x].status, traced |-> reply[x].traced, body |-> body] \in Replies
  BY <1>1 DEF Replies
<1> QED  BY <1>2, <1>3, <1>4, ReplySet

LEMMA HandlerType ==
  ASSUME TypeOK, NEW x \in Exchanges, Handle(x) \/ Receive(x)
  PROVE  TypeOK' /\ Local(x)
<1> USE DEF config, store, Go, Local
<1>1. CASE Receive(x)
  <2>1. PICK op \in Operations, y \in Exchanges :
          req' = [req EXCEPT ![x] = [op |-> op, of |-> y, answered |-> Answered(y)]]
    BY <1>1 DEF Receive
  <2>2. Answered(y) \in BOOLEAN
    BY DEF Answered, Failed
  <2>3. req' \in [Exchanges -> Request]
    BY <2>1, <2>2 DEF TypeOK, Request
  <2>4. UNCHANGED <<config, here, reply, heard, drain, store, log>> /\ at' = [at EXCEPT ![x] = "received"]
    BY <1>1 DEF Receive
  <2> QED  BY <2>1, <2>3, <2>4 DEF TypeOK
<1>2. CASE RequireAuth(x)
  <2>1. CASE Refuse(x, 401)
    BY <2>1, RefuseType
  <2>2. CASE ~Refuse(x, 401)
    BY <1>2, <2>2 DEF RequireAuth, TypeOK
  <2> QED  BY <2>1, <2>2
<1>3. CASE Decode(x)
  <2>1. CASE Refuse(x, 400)
    BY <2>1, RefuseType
  <2>2. CASE ~Refuse(x, 400)
    BY <1>3, <2>2 DEF Decode, TypeOK
  <2> QED  BY <2>1, <2>2
<1>4. CASE Lookup(x)
  <2>1. CASE Refuse(x, 501) \/ Refuse(x, 500) \/ Refuse(x, 404)
    BY <2>1, RefuseType
  <2>2. CASE ~(Refuse(x, 501) \/ Refuse(x, 500) \/ Refuse(x, 404))
    <3> DEFINE found == rows[req[x].of]
    <3>1. found # NoRow /\ Respond(x, 200, FALSE, JSON(found))
          /\ UNCHANGED <<config, req, here, heard, drain, store>>
      BY <1>4, <2>2 DEF Lookup
    <3>2. found \in Verdicts
      BY <3>1 DEF TypeOK, Request
    <3>3. FALSE \in BOOLEAN /\ 200 \in Nat /\ JSON(found) \in Seq(Pieces)
      BY <3>2, JSONType
    <3> HIDE DEF found
    <3>4. /\ reply' = [reply EXCEPT ![x] = [status |-> 200, traced |-> FALSE, body |-> JSON(found)]]
          /\ reply' \in [Exchanges -> Replies]
          /\ at' = [at EXCEPT ![x] = "returned"] /\ at' \in [Exchanges -> Places]
          /\ log' = [log EXCEPT ![x] = Append(@, 200)] /\ log' \in [Exchanges -> Seq(Nat)]
      BY <3>1, <3>3, RespondType
    <3> QED  BY <3>1, <3>4 DEF TypeOK, Places, Replies
  <2> QED  BY <2>1, <2>2
<1>5. CASE Answer(x)
  <2>1. reply[x].status \in Nat
    BY DEF TypeOK
  <2> QED  BY <1>5, <2>1 DEF Answer, Return, TypeOK
<1>6. CASE ChannelClosed(x)
  BY <1>6 DEF ChannelClosed, TypeOK
<1>7. CASE Terminate(x)
  <2>1. Done(x) \in Pieces /\ reply[x].status \in Nat
    BY DEF TypeOK, Pieces, Done
  <2>4. reply' \in [Exchanges -> Replies] /\ \A y \in Exchanges \ {x} : reply'[y] = reply[y]
    BY <1>7, <2>1, FrameSet DEF Terminate, Done
  <2>5. log' \in [Exchanges -> Seq(Nat)] /\ \A y \in Exchanges \ {x} : log'[y] = log[y]
    BY <1>7, <2>1 DEF Terminate, Return, TypeOK, Replies
  <2>6. at' = [at EXCEPT ![x] = "returned"] /\ UNCHANGED <<config, req, here, heard, drain, store>>
    BY <1>7 DEF Terminate, Return
  <2> QED  BY <2>4, <2>5, <2>6 DEF TypeOK, Replies
<1> QED  BY <1>1, <1>2, <1>3, <1>4, <1>5, <1>6, <1>7 DEF Handle

LEMMA EngineType ==
  ASSUME TypeOK, NEW x \in Exchanges, Engine(x) \/ Start(x)
  PROVE  TypeOK' /\ Local(x)
<1> USE DEF config, store, Go, Local
<1>1. CASE Complete(x)
  <2>1. PICK v \in Verdicts :
          /\ Save(x, v)
          /\ Begin(x, IF v = "success" THEN 200 ELSE 502, TRUE)
    BY <1>1 DEF Complete
  <2>2. reply' \in [Exchanges -> Replies] /\ \A y \in Exchanges \ {x} : reply'[y] = reply[y]
    <3>1. TRUE \in BOOLEAN /\ (IF v = "success" THEN 200 ELSE 502) \in Nat
      OBVIOUS
    <3> QED  BY <2>1, <3>1, BeginSet
  <2>3. at' = [at EXCEPT ![x] = "answering"] /\ UNCHANGED <<config, req, here, heard, drain, log>>
    BY <1>1 DEF Complete
  <2>4. /\ rows' \in [Exchanges -> Verdicts \cup {NoRow}] /\ lost' \subseteq Exchanges
        /\ \A y \in Exchanges \ {x} : rows'[y] = rows[y] /\ (y \in lost' <=> y \in lost)
    BY <2>1, SaveType
  <2> QED  BY <2>2, <2>3, <2>4 DEF TypeOK, Replies
<1>2. CASE Run(x)
  <2>1. PICK v \in Verdicts :
          /\ \/ lost' = lost \cup {x} /\ UNCHANGED rows
             \/ Save(x, v)
          /\ reply' = [reply EXCEPT ![x] = [status |-> 200, traced |-> TRUE, body |-> JSON(v)]]
    BY <1>2 DEF Run
  <2>2. reply' \in [Exchanges -> Replies] /\ \A y \in Exchanges \ {x} : reply'[y] = reply[y]
    <3>1. [status |-> 200, traced |-> TRUE, body |-> JSON(v)] \in Replies
      BY JSONType DEF Replies
    <3> QED  BY <2>1, <3>1, ReplySet
  <2>3. at' = [at EXCEPT ![x] = "answering"] /\ UNCHANGED <<config, req, here, heard, drain, log>>
    BY <1>2 DEF Run
  <2>4. /\ rows' \in [Exchanges -> Verdicts \cup {NoRow}] /\ lost' \subseteq Exchanges
        /\ \A y \in Exchanges \ {x} : rows'[y] = rows[y] /\ (y \in lost' <=> y \in lost)
    BY <2>1, SaveType DEF TypeOK
  <2> QED  BY <2>2, <2>3, <2>4 DEF TypeOK, Replies
<1>3. CASE RunRejected(x)
  BY <1>3, RefuseType DEF RunRejected
<1>4. CASE Panic(x)
  <2>1. reply' \in [Exchanges -> Replies] /\ \A y \in Exchanges \ {x} : reply'[y] = reply[y]
    <3>1. FALSE \in BOOLEAN /\ 500 \in Nat
      OBVIOUS
    <3>2. Begin(x, 500, FALSE)
      BY <1>4 DEF Panic
    <3> QED  BY <3>1, <3>2, BeginSet
  <2> QED  BY <1>4, <2>1 DEF Panic, TypeOK, Replies
<1>5. CASE StreamFails(x)
  <2>1. "failed" \in Verdicts /\ Save(x, "failed")
    BY <1>5 DEF StreamFails, Verdicts
  <2>2. /\ rows' \in [Exchanges -> Verdicts \cup {NoRow}] /\ lost' \subseteq Exchanges
        /\ \A y \in Exchanges \ {x} : rows'[y] = rows[y] /\ (y \in lost' <=> y \in lost)
    BY <2>1, SaveType
  <2>3. at' = [at EXCEPT ![x] = "answering"] /\ Begin(x, 502, FALSE)
        /\ UNCHANGED <<config, req, here, heard, drain, log>>
    BY <1>5 DEF StreamFails
  <2>4. reply' \in [Exchanges -> Replies] /\ \A y \in Exchanges \ {x} : reply'[y] = reply[y]
    <3>1. FALSE \in BOOLEAN /\ 502 \in Nat
      OBVIOUS
    <3> QED  BY <2>3, <3>1, BeginSet
  <2> QED  BY <2>2, <2>3, <2>4 DEF TypeOK, Replies
<1>6. CASE StreamStarts(x)
  <2>1. reply' \in [Exchanges -> Replies] /\ \A y \in Exchanges \ {x} : reply'[y] = reply[y]
    BY <1>6, BeginSet DEF StreamStarts
  <2> QED  BY <1>6, <2>1 DEF StreamStarts, TypeOK, Replies
<1> QED  BY <1>1, <1>2, <1>3, <1>4, <1>5, <1>6 DEF Engine, Start

LEMMA StreamType ==
  ASSUME TypeOK, NEW x \in Exchanges,
         Drain(x) \/ TakeChunk(x) \/ TakeError(x) \/ DrainSaves(x) \/ CloseOut(x) \/ Disconnect(x)
  PROVE  TypeOK' /\ Local(x)
<1> USE DEF config, store, Go, Local
<1>1. CASE Drain(x)
  BY <1>1 DEF Drain, StreamCloses, Abandon, TypeOK
<1>2. CASE TakeChunk(x)
  <2>1. [kind |-> ChunkKind(heard[x] + 1), n |-> heard[x] + 1] \in Pieces
    BY DEF TypeOK, Pieces, ChunkKind
  <2>2. reply' \in [Exchanges -> Replies] /\ \A y \in Exchanges \ {x} : reply'[y] = reply[y]
    BY <1>2, <2>1, FrameSet DEF TakeChunk
  <2>3. heard' = [heard EXCEPT ![x] = @ + 1] /\ UNCHANGED <<config, req, at, here, drain, store, log>>
    BY <1>2 DEF TakeChunk
  <2> QED  BY <2>2, <2>3 DEF TypeOK, Replies
<1>3. CASE TakeError(x)
  <2>1. [kind |-> "error", n |-> heard[x]] \in Pieces
    BY DEF TypeOK, Pieces
  <2>2. reply' \in [Exchanges -> Replies] /\ \A y \in Exchanges \ {x} : reply'[y] = reply[y]
    BY <1>3, <2>1, FrameSet DEF TakeError
  <2> QED  BY <1>3, <2>2 DEF TakeError, TypeOK, Replies
<1>4. CASE DrainSaves(x)
  <2>1. drain[x] \in Verdicts /\ Save(x, drain[x])
    BY <1>4 DEF DrainSaves
  <2>2. /\ rows' \in [Exchanges -> Verdicts \cup {NoRow}] /\ lost' \subseteq Exchanges
        /\ \A y \in Exchanges \ {x} : rows'[y] = rows[y] /\ (y \in lost' <=> y \in lost)
    BY <2>1, SaveType
  <2> QED  BY <1>4, <2>2 DEF DrainSaves, TypeOK
<1>5. CASE CloseOut(x)
  BY <1>5 DEF CloseOut, TypeOK
<1>6. CASE Disconnect(x)
  BY <1>6 DEF Disconnect, TypeOK
<1> QED  BY <1>1, <1>2, <1>3, <1>4, <1>5, <1>6

LEMMA StepType ==
  ASSUME TypeOK, NEW x \in Exchanges, Step(x)
  PROVE  TypeOK' /\ Local(x)
BY HandlerType, EngineType, StreamType DEF Step
-----------------------------------------------------------------------------
(* The invariant: what one exchange's response, drain, log and record have *)
(* to do with each other.                                                  *)

Blank(x)       == rows[x] = NoRow /\ x \notin lost
OnRecord(x, v) == \/ x \in lost /\ rows[x] = NoRow
                  \/ x \notin lost /\ rows[x] = IF stored THEN v ELSE NoRow

Untouched(x) == reply[x] = NoReply /\ heard[x] = 0 /\ drain[x] = "off" /\ Blank(x)

(* A whole answer of an engine that returned.                              *)
Whole(x) ==
  /\ drain[x] = "off"
  /\ \/ /\ req[x].op = "complete" /\ reply[x].traced /\ reply[x].body = <<>>
        /\ \E v \in Verdicts : OnRecord(x, v) /\ reply[x].status = IF v = "success" THEN 200 ELSE 502
     \/ /\ req[x].op = "run" /\ reply[x].traced /\ reply[x].status = 200
        /\ \E v \in Verdicts : OnRecord(x, v) /\ reply[x].body = JSON(v)
     \/ /\ req[x].op = "stream" /\ ~reply[x].traced /\ reply[x].status = 502

(* A stream that was heard to its end, and one that ended in an error.     *)
Clean(x) == /\ drain[x] = "closed"
            /\ OnRecord(x, "success") \/ (~here[x] /\ OnRecord(x, "failed"))
Dirty(x) == \/ drain[x] = "failed" /\ Blank(x)
            \/ drain[x] \in {"close", "closed"} /\ OnRecord(x, "failed")

Streamed(x) ==
  /\ req[x].op = "stream" /\ reply[x].traced /\ reply[x].status = 200
  /\ at[x] = "receiving" =>
       /\ reply[x].body = Sent(x)
       /\ \/ drain[x] \in {"range", "success"} /\ Blank(x)
          \/ drain[x] = "failed" /\ Blank(x) /\ ~here[x]
          \/ drain[x] \in {"close", "closed"} /\ (OnRecord(x, "success") \/ (~here[x] /\ OnRecord(x, "failed")))
  /\ at[x] = "ending" => \/ Clean(x) /\ reply[x].body = Sent(x)
                         \/ Dirty(x) /\ reply[x].body = Append(Sent(x), Error(x))
  /\ at[x] = "returned" => \/ Clean(x) /\ reply[x].body = Append(Sent(x), Done(x))
                           \/ Dirty(x) /\ reply[x].body = Append(Append(Sent(x), Error(x)), Done(x))

(* Refused before an engine, or after a panic.                             *)
Refused(x) ==
  /\ req[x].op # "lookup" /\ drain[x] = "off" /\ ~reply[x].traced
  /\ \/ reply[x].status = 400 /\ log[x] = <<400>>
     \/ reply[x].status = 401 /\ log[x] = <<401>>
     \/ reply[x].status = 500 /\ log[x] = <<>>

Looked(x) ==
  /\ req[x].op = "lookup" /\ drain[x] = "off" /\ ~reply[x].traced /\ log[x] = <<reply[x].status>>
  /\ reply[x].status = 404 /\ req[x].answered => req[x].of \in lost
  /\ reply[x].status = 200 => /\ stored /\ rows[req[x].of] # NoRow
                              /\ reply[x].body = JSON(rows[req[x].of])

Exchange(x) ==
  /\ at[x] \in {"new", "received", "admitted", "engine"} => Untouched(x) /\ log[x] = <<>>
  /\ at[x] = "engine" => req[x].op # "lookup"
  /\ at[x] = "answering" => Whole(x) /\ log[x] = <<>>
  /\ at[x] \in {"receiving", "ending"} => Streamed(x) /\ log[x] = <<>>
  /\ at[x] = "returned" => \/ (Whole(x) \/ Streamed(x)) /\ log[x] = <<reply[x].status>>
                           \/ Refused(x)
                           \/ Looked(x)

Asked(x) == req[x].answered => Answered(req[x].of)

IInv == TypeOK /\ \A x \in Exchanges : Exchange(x) /\ Asked(x)
-----------------------------------------------------------------------------
LEMMA SentFrames ==
  ASSUME TypeOK, NEW x \in Exchanges
  PROVE  /\ Sent(x) \in Seq(Pieces) /\ Len(Sent(x)) = heard[x] /\ heard[x] \in Nat
         /\ \A k \in 1..heard[x] : Sent(x)[k] = [kind |-> ChunkKind(k), n |-> k]
         /\ \A k \in 1..heard[x] : Sent(x)[k].kind \in {"first", "chunk"}
<1>1. heard[x] \in Nat
  BY DEF TypeOK
<1>2. \A k \in 1..heard[x] : Sent(x)[k] = [kind |-> ChunkKind(k), n |-> k]
  BY DEF Sent, Chunks
<1>3. ASSUME NEW k \in 1..heard[x] PROVE Sent(x)[k].kind \in {"first", "chunk"}
  <2>1. ChunkKind(k) \in {"first", "chunk"}
    BY DEF ChunkKind
  <2>2. Sent(x)[k].kind = ChunkKind(k)
    <3>1. Sent(x)[k] = [kind |-> ChunkKind(k), n |-> k]
      BY <1>2
    <3>2. [kind |-> ChunkKind(k), n |-> k].kind = ChunkKind(k)
      OBVIOUS
    <3> QED  BY <3>1, <3>2
  <2> QED  BY <2>1, <2>2
<1>4. Sent(x) \in Seq(Pieces) /\ Len(Sent(x)) = heard[x]
  BY <1>1, ChunksType DEF Sent
<1> QED  BY <1>1, <1>2, <1>3, <1>4

(* Which whole responses hold an error frame.                              *)
LEMMA CleanBody ==
  ASSUME TypeOK, NEW x \in Exchanges, reply[x].body = Append(Sent(x), Done(x))
  PROVE  /\ ~Failed(x) /\ Len(reply[x].body) = heard[x] + 1
         /\ reply[x].body[heard[x] + 1].kind = "done"
         /\ \A k \in 1..heard[x] : reply[x].body[k] = [kind |-> ChunkKind(k), n |-> k]
<1> DEFINE h == heard[x]
           b == reply[x].body
<1>1. h \in Nat /\ Sent(x) \in Seq(Pieces) /\ Len(Sent(x)) = h /\ Done(x) \in Pieces
  BY SentFrames DEF Done, Pieces
<1>2. Len(b) = h + 1 /\ b[h + 1] = Done(x) /\ \A k \in 1..h : b[k] = Sent(x)[k]
  BY <1>1
<1>3. \A k \in 1..(h + 1) : b[k].kind # "error"
  BY <1>1, <1>2, SentFrames DEF Done
<1> QED  BY <1>1, <1>2, <1>3, SentFrames DEF Failed, Done

LEMMA DirtyBody ==
  ASSUME TypeOK, NEW x \in Exchanges, reply[x].body = Append(Append(Sent(x), Error(x)), Done(x))
  PROVE  /\ Failed(x) /\ Len(reply[x].body) = heard[x] + 2
         /\ reply[x].body[heard[x] + 2].kind = "done" /\ reply[x].body[heard[x] + 1].kind = "error"
         /\ \A k \in 1..heard[x] : reply[x].body[k] = [kind |-> ChunkKind(k), n |-> k]
<1> DEFINE h == heard[x]
           b == reply[x].body
           s == Append(Sent(x), Error(x))
<1>1. h \in Nat /\ Sent(x) \in Seq(Pieces) /\ Len(Sent(x)) = h /\ Done(x) \in Pieces /\ Error(x) \in Pieces
  BY SentFrames DEF Done, Error, Pieces
<1>2. s \in Seq(Pieces) /\ Len(s) = h + 1 /\ s[h + 1] = Error(x) /\ \A k \in 1..h : s[k] = Sent(x)[k]
  BY <1>1
<1>3. b = Append(s, Done(x))
  OBVIOUS
<1> HIDE DEF s
<1>4. Len(b) = h + 2 /\ b[h + 2] = Done(x) /\ \A k \in 1..(h + 1) : b[k] = s[k]
  BY <1>1, <1>2, <1>3
<1>5. b[h + 1] = Error(x) /\ \A k \in 1..h : b[k] = Sent(x)[k]
  BY <1>1, <1>2, <1>4
<1>6. Failed(x)
  <2>1. h + 1 \in 1..Len(b) /\ b[h + 1].kind = "error"
    BY <1>1, <1>4, <1>5 DEF Error
  <2> QED  BY <2>1 DEF Failed
<1> QED  BY <1>1, <1>4, <1>5, <1>6, SentFrames DEF Done, Error
-----------------------------------------------------------------------------
LEMMA InitInv == Init => IInv
<1> SUFFICES ASSUME Init PROVE IInv
  OBVIOUS
<1>1. TypeOK
  <2>1. \A x \in Exchanges : [op |-> "lookup", of |-> x, answered |-> FALSE] \in Request
    BY DEF Request, Operations
  <2>2. NoReply \in Replies
    BY DEF NoReply, Replies
  <2>3. req \in [Exchanges -> Request] /\ reply = [x \in Exchanges |-> NoReply]
    BY <2>1 DEF Init
  <2>4. reply \in [Exchanges -> Replies]
    BY <2>2, <2>3
  <2>5. log \in [Exchanges -> Seq(Nat)]
    BY DEF Init
  <2> QED  BY <2>3, <2>4, <2>5 DEF Init, TypeOK, Replies
<1>2. \A x \in Exchanges : Exchange(x) /\ Asked(x)
  BY DEF Init, Exchange, Asked, Untouched, Blank
<1> QED  BY <1>1, <1>2 DEF IInv

(* An answered client was told what is on record, if the store took it.    *)
LEMMA AnsweredRecord ==
  ASSUME TypeOK, NEW x \in Exchanges, Exchange(x), Answered(x)
  PROVE  /\ Told(x) \in Verdicts /\ OnRecord(x, Told(x))
         /\ drain[x] \in {"off", "closed"}
<1>1. at[x] = "returned" /\ here[x] /\ reply[x].traced /\ ~Failed(x)
  BY DEF Answered
<1>2. Whole(x) \/ Streamed(x)
  BY <1>1 DEF Exchange, Refused, Looked
<1>3. CASE Whole(x) /\ req[x].op = "complete"
  <2>1. PICK v \in Verdicts : OnRecord(x, v) /\ reply[x].status = IF v = "success" THEN 200 ELSE 502
    BY <1>3 DEF Whole
  <2>2. Told(x) = v
    BY <1>1, <1>3, <2>1 DEF Told, Verdicts
  <2> QED  BY <1>3, <2>1, <2>2 DEF Whole
<1>4. CASE Whole(x) /\ req[x].op = "run"
  <2>1. PICK v \in Verdicts : OnRecord(x, v) /\ reply[x].body = JSON(v)
    BY <1>4 DEF Whole
  <2>2. Told(x) = v
    <3>1. JSON(v)[1] = [kind |-> v, n |-> 0]
      BY DEF JSON
    <3>2. reply[x].body[1].kind = v
      BY <2>1, <3>1
    <3>3. Told(x) = reply[x].body[1].kind
      BY <1>1, <1>4 DEF Told, Whole
    <3> QED  BY <3>2, <3>3
  <2> QED  BY <1>4, <2>1, <2>2 DEF Whole
<1>5. CASE Streamed(x)
  <2>1. reply[x].body # Append(Append(Sent(x), Error(x)), Done(x))
    BY <1>1, DirtyBody
  <2>2. Clean(x) /\ req[x].op = "stream" /\ reply[x].status = 200
    BY <1>1, <1>5, <2>1 DEF Streamed
  <2>3. Told(x) = "success"
    BY <1>1, <2>2 DEF Told
  <2> QED  BY <1>1, <2>2, <2>3 DEF Clean, Verdicts
<1> QED  BY <1>1, <1>2, <1>3, <1>4, <1>5 DEF Whole

(* What others rely on: no record is changed, no answer taken back.        *)
Keeps(x) ==
  /\ rows[x] # NoRow => rows'[x] = rows[x]
  /\ x \in lost => x \in lost'
  /\ Answered(x) => Answered(x)'

LEMMA Moves ==
  ASSUME IInv, NEW x \in Exchanges, TypeOK', Local(x), Keeps(x), Exchange(x)',
         req'[x].answered => Answered(req'[x].of)
  PROVE  IInv'
<1>1. TypeOK
  BY DEF IInv
<1>2. \A y \in Exchanges : Answered(y) => Answered(y)'
  BY DEF Local, Keeps, Answered, Failed
<1>3. \A y \in Exchanges : rows[y] # NoRow => rows'[y] = rows[y]
  BY DEF Local, Keeps
<1>4. \A y \in Exchanges : y \in lost => y \in lost'
  BY DEF Local, Keeps
<1>5. \A y \in Exchanges : req[y].of \in Exchanges /\ req'[y].of \in Exchanges
  BY <1>1 DEF TypeOK, Request
<1>6. ASSUME NEW y \in Exchanges, y # x PROVE Exchange(y)' /\ Asked(y)'
  <2>1. /\ at'[y] = at[y] /\ req'[y] = req[y] /\ here'[y] = here[y] /\ reply'[y] = reply[y]
        /\ heard'[y] = heard[y] /\ drain'[y] = drain[y] /\ rows'[y] = rows[y] /\ log'[y] = log[y]
        /\ (y \in lost' <=> y \in lost) /\ stored' = stored
    BY <1>6 DEF Local
  <2>2. Exchange(y) /\ Asked(y)
    BY DEF IInv
  <2>3. \A v : OnRecord(y, v)' <=> OnRecord(y, v)
    BY <2>1 DEF OnRecord
  <2>4. (Untouched(y)' <=> Untouched(y)) /\ (Refused(y)' <=> Refused(y)) /\ (Blank(y)' <=> Blank(y))
    BY <2>1 DEF Untouched, Refused, Blank
  <2>5. Whole(y) => Whole(y)'
    BY <2>1, <2>3 DEF Whole
  <2>6. Sent(y)' = Sent(y) /\ Error(y)' = Error(y) /\ Done(y)' = Done(y)
    BY <2>1 DEF Sent, Error, Done
  <2>7. Streamed(y) => Streamed(y)'
    BY <2>1, <2>3, <2>4, <2>6 DEF Streamed, Clean, Dirty
  <2>8. Looked(y) => Looked(y)'
    BY <1>3, <1>4, <1>5, <2>1 DEF Looked
  <2>9. Exchange(y)'
    BY <2>1, <2>2, <2>4, <2>5, <2>7, <2>8 DEF Exchange
  <2>10. Asked(y)'
    BY <1>2, <1>5, <2>1, <2>2 DEF Asked
  <2> QED  BY <2>9, <2>10
<1>7. Asked(x)'
  BY <1>2, <1>5 DEF Asked
<1> QED  BY <1>6, <1>7 DEF IInv
-----------------------------------------------------------------------------
(* The steps up to the engine.                                             *)

(* A handler that gives up before the engine, or gets no record.           *)
LEMMA RefuseKeeps ==
  ASSUME IInv, NEW x \in Exchanges, NEW status \in {400, 401, 404, 500, 501}, Refuse(x, status),
         at[x] \in {"received", "admitted", "engine"},
         \/ req[x].op # "lookup" /\ status \in {400, 401}
         \/ req[x].op = "lookup" /\ (status = 404 /\ req[x].answered => req[x].of \in lost)
  PROVE  IInv'
<1>1. TypeOK /\ Exchange(x) /\ Asked(x)
  BY DEF IInv
<1>2. status \in Nat /\ TypeOK' /\ Local(x)
  BY <1>1, RefuseType
<1>3. UNCHANGED <<keyed, stored, req, here, heard, drain, rows, lost>>
  BY DEF Refuse, config, store
<1>4. /\ reply'[x] = [status |-> status, traced |-> FALSE, body |-> <<>>]
      /\ at'[x] = "returned" /\ log'[x] = Append(log[x], status)
  BY <1>1 DEF Refuse, Respond, Return, Go, TypeOK
<1>5. drain[x] = "off" /\ log[x] = <<>>
  BY <1>1 DEF Exchange, Untouched
<1>6. reply'[x].status = status /\ ~reply'[x].traced /\ log'[x] = <<status>>
  BY <1>4, <1>5
<1>7. Refused(x)' \/ Looked(x)'
  BY <1>3, <1>5, <1>6 DEF Refused, Looked
<1>8. Exchange(x)'
  BY <1>4, <1>7 DEF Exchange
<1>9. Keeps(x)
  BY <1>3 DEF Keeps, Answered
<1> QED  BY <1>1, <1>2, <1>3, <1>8, <1>9, Moves DEF Asked

(* A step that is none of these and writes nothing.                        *)
LEMMA Passes ==
  ASSUME IInv, NEW x \in Exchanges, TypeOK', Local(x),
         at[x] \in {"new", "received", "admitted"}, at'[x] \in {"received", "admitted", "engine"},
         UNCHANGED <<stored, here, reply, heard, drain, rows, lost, log>>,
         at'[x] = "engine" => req'[x].op # "lookup",
         req'[x].answered => Answered(req'[x].of)
  PROVE  IInv'
<1>1. Untouched(x)' /\ log'[x] = <<>>
  BY DEF IInv, Exchange, Untouched, Blank
<1>2. Exchange(x)'
  BY <1>1 DEF Exchange
<1>3. Keeps(x)
  BY DEF Keeps, Answered
<1> QED  BY <1>2, <1>3, Moves

LEMMA ReceiveStep == ASSUME IInv, NEW x \in Exchanges, Receive(x) PROVE IInv'
<1>1. TypeOK' /\ Local(x) /\ TypeOK
  BY HandlerType DEF IInv
<1>2. PICK op \in Operations, y \in Exchanges :
        req' = [req EXCEPT ![x] = [op |-> op, of |-> y, answered |-> Answered(y)]]
  BY DEF Receive
<1>3. req'[x] = [op |-> op, of |-> y, answered |-> Answered(y)]
  BY <1>1, <1>2 DEF TypeOK
<1>4. at[x] = "new" /\ at'[x] = "received" /\ UNCHANGED <<stored, here, reply, heard, drain, rows, lost, log>>
  BY <1>1 DEF Receive, Go, TypeOK, config, store
<1> QED  BY <1>1, <1>3, <1>4, Passes

LEMMA RequireAuthStep == ASSUME IInv, NEW x \in Exchanges, RequireAuth(x) PROVE IInv'
<1>1. TypeOK' /\ Local(x) /\ TypeOK /\ Asked(x)
  BY HandlerType DEF IInv, Handle
<1>2. CASE Refuse(x, 401)
  BY <1>2, RefuseKeeps DEF RequireAuth
<1>3. CASE ~Refuse(x, 401)
  BY <1>1, <1>3, Passes DEF RequireAuth, Go, TypeOK, config, store, Asked
<1> QED  BY <1>2, <1>3

LEMMA DecodeStep == ASSUME IInv, NEW x \in Exchanges, Decode(x) PROVE IInv'
<1>1. TypeOK' /\ Local(x) /\ TypeOK /\ Asked(x)
  BY HandlerType DEF IInv, Handle
<1>2. CASE Refuse(x, 400)
  BY <1>2, RefuseKeeps DEF Decode
<1>3. CASE ~Refuse(x, 400)
  BY <1>1, <1>3, Passes DEF Decode, Go, TypeOK, config, store, Asked
<1> QED  BY <1>2, <1>3

LEMMA LookupStep == ASSUME IInv, NEW x \in Exchanges, Lookup(x) PROVE IInv'
<1> DEFINE y == req[x].of
<1>1. TypeOK' /\ Local(x) /\ TypeOK /\ Exchange(x) /\ Asked(x) /\ y \in Exchanges
  BY HandlerType DEF IInv, Handle, TypeOK, Request
<1>2. at[x] = "admitted" /\ req[x].op = "lookup"
  BY DEF Lookup
<1>3. CASE Refuse(x, 501) \/ Refuse(x, 500)
  BY <1>2, <1>3, RefuseKeeps
<1>4. CASE stored /\ rows[y] = NoRow /\ Refuse(x, 404)
  <2>1. req[x].answered => y \in lost
    <3>1. SUFFICES ASSUME Answered(y) PROVE y \in lost
      BY <1>1 DEF Asked
    <3>2. OnRecord(y, Told(y)) /\ Told(y) \in Verdicts
      BY <1>1, <3>1, AnsweredRecord DEF IInv
    <3> QED  BY <1>4, <3>2 DEF OnRecord, Verdicts, NoRow
  <2> QED  BY <1>2, <1>4, <2>1, RefuseKeeps
<1>5. CASE /\ stored /\ rows[y] # NoRow
           /\ Respond(x, 200, FALSE, JSON(rows[y]))
           /\ UNCHANGED <<config, req, here, heard, drain, store>>
  <2>1. UNCHANGED <<keyed, stored, req, here, heard, drain, rows, lost>>
    BY <1>5 DEF config, store
  <2>2. /\ reply'[x] = [status |-> 200, traced |-> FALSE, body |-> JSON(rows[y])]
        /\ at'[x] = "returned" /\ log'[x] = Append(log[x], 200)
    BY <1>1, <1>5 DEF Respond, Return, Go, TypeOK
  <2>3. drain[x] = "off" /\ log[x] = <<>>
    BY <1>1, <1>2 DEF Exchange, Untouched
  <2>4. reply'[x].status = 200 /\ ~reply'[x].traced /\ reply'[x].body = JSON(rows[y]) /\ log'[x] = <<200>>
    BY <2>2, <2>3
  <2>5. JSON(rows'[y]) = JSON(rows[y])
    BY <2>1
  <2>6. Looked(x)'
    BY <1>2, <1>5, <2>1, <2>3, <2>4, <2>5 DEF Looked
  <2>7. Exchange(x)'
    BY <2>2, <2>6 DEF Exchange
  <2>8. Keeps(x)
    BY <1>2, <2>1 DEF Keeps, Answered
  <2> QED  BY <1>1, <2>1, <2>7, <2>8, Moves DEF Asked
<1> QED  BY <1>3, <1>4, <1>5 DEF Lookup
-----------------------------------------------------------------------------
(* The engines.                                                            *)

LEMMA SaveRecords ==
  ASSUME TypeOK, NEW x \in Exchanges, NEW v \in Verdicts, Blank(x), Save(x, v), UNCHANGED stored
  PROVE  OnRecord(x, v)'
BY DEF TypeOK, Blank, Save, OnRecord, store

(* The engine has answered: the handler's last step is left.               *)
LEMMA Answers ==
  ASSUME IInv, NEW x \in Exchanges, TypeOK', Local(x), at[x] = "engine", at'[x] = "answering",
         Whole(x)', UNCHANGED <<req, log>>
  PROVE  IInv'
<1>1. log'[x] = <<>> /\ Blank(x) /\ TypeOK /\ Asked(x)
  BY DEF IInv, Exchange, Untouched
<1>2. Exchange(x)'
  BY <1>1 DEF Exchange
<1>3. Keeps(x)
  BY <1>1 DEF Keeps, Blank, Answered
<1> QED  BY <1>1, <1>2, <1>3, Moves DEF Asked

LEMMA CompleteStep == ASSUME IInv, NEW x \in Exchanges, Complete(x) PROVE IInv'
<1>1. TypeOK' /\ Local(x) /\ TypeOK
  BY EngineType DEF IInv, Engine
<1>2. PICK v \in Verdicts : Save(x, v) /\ Begin(x, IF v = "success" THEN 200 ELSE 502, TRUE)
  BY DEF Complete
<1>3. at[x] = "engine" /\ req[x].op = "complete" /\ at'[x] = "answering"
      /\ UNCHANGED <<stored, req, here, heard, drain, log>>
  BY <1>1 DEF Complete, AtEngine, Go, TypeOK, config
<1>4. Blank(x) /\ drain[x] = "off"
  BY <1>3 DEF IInv, Exchange, Untouched
<1>5. OnRecord(x, v)'
  BY <1>1, <1>2, <1>3, <1>4, SaveRecords
<1>6. reply'[x] = [status |-> IF v = "success" THEN 200 ELSE 502, traced |-> TRUE, body |-> <<>>]
  BY <1>1, <1>2 DEF Begin, TypeOK
<1>7. reply'[x].traced /\ reply'[x].body = <<>> /\ reply'[x].status = IF v = "success" THEN 200 ELSE 502
  BY <1>6
<1>8. Whole(x)'
  BY <1>3, <1>4, <1>5, <1>7 DEF Whole
<1> QED  BY <1>1, <1>3, <1>8, Answers

LEMMA RunStep == ASSUME IInv, NEW x \in Exchanges, Run(x) PROVE IInv'
<1>1. TypeOK' /\ Local(x) /\ TypeOK
  BY EngineType DEF IInv, Engine
<1>2. PICK v \in Verdicts :
        /\ IF CtxOver(x) /\ stored THEN lost' = lost \cup {x} /\ UNCHANGED rows ELSE Save(x, v)
        /\ reply' = [reply EXCEPT ![x] = [status |-> 200, traced |-> TRUE, body |-> JSON(v)]]
  BY DEF Run
<1>3. at[x] = "engine" /\ req[x].op = "run" /\ at'[x] = "answering"
      /\ UNCHANGED <<stored, req, here, heard, drain, log>>
  BY <1>1 DEF Run, AtEngine, Go, TypeOK, config
<1>4. Blank(x) /\ drain[x] = "off"
  BY <1>3 DEF IInv, Exchange, Untouched
<1>5. OnRecord(x, v)'
  <2>1. CASE CtxOver(x) /\ stored
    BY <1>2, <1>4, <2>1 DEF Blank, OnRecord
  <2>2. CASE ~(CtxOver(x) /\ stored)
    BY <1>1, <1>2, <1>3, <1>4, <2>2, SaveRecords
  <2> QED  BY <2>1, <2>2
<1>6. reply'[x] = [status |-> 200, traced |-> TRUE, body |-> JSON(v)]
  BY <1>1, <1>2 DEF TypeOK
<1>7. reply'[x].traced /\ reply'[x].body = JSON(v) /\ reply'[x].status = 200
  BY <1>6
<1>8. Whole(x)'
  BY <1>3, <1>4, <1>5, <1>7 DEF Whole
<1> QED  BY <1>1, <1>3, <1>8, Answers

LEMMA StreamFailsStep == ASSUME IInv, NEW x \in Exchanges, StreamFails(x) PROVE IInv'
<1>1. TypeOK' /\ Local(x) /\ TypeOK
  BY EngineType DEF IInv, Start
<1>2. at[x] = "engine" /\ req[x].op = "stream" /\ at'[x] = "answering"
      /\ UNCHANGED <<stored, req, here, heard, drain, log>> /\ Begin(x, 502, FALSE)
  BY <1>1 DEF StreamFails, AtEngine, Go, TypeOK, config
<1>3. drain[x] = "off"
  BY <1>2 DEF IInv, Exchange, Untouched
<1>4. reply'[x] = [status |-> 502, traced |-> FALSE, body |-> <<>>]
  BY <1>1, <1>2 DEF Begin, TypeOK
<1>5. ~reply'[x].traced /\ reply'[x].status = 502
  BY <1>4
<1>6. Whole(x)'
  BY <1>2, <1>3, <1>5 DEF Whole
<1> QED  BY <1>1, <1>2, <1>6, Answers

LEMMA PanicStep == ASSUME IInv, NEW x \in Exchanges, Panic(x) PROVE IInv'
<1>1. TypeOK' /\ Local(x) /\ TypeOK /\ Asked(x)
  BY EngineType DEF IInv, Engine
<1>2. at[x] = "engine" /\ req[x].op # "lookup" /\ at'[x] = "returned"
      /\ UNCHANGED <<stored, req, here, heard, drain, rows, lost, log>> /\ Begin(x, 500, FALSE)
  BY <1>1 DEF Panic, Go, TypeOK, config, store
<1>3. drain[x] = "off" /\ log[x] = <<>>
  BY <1>2 DEF IInv, Exchange, Untouched
<1>4. reply'[x] = [status |-> 500, traced |-> FALSE, body |-> <<>>]
  BY <1>1, <1>2 DEF Begin, TypeOK
<1>5. ~reply'[x].traced /\ reply'[x].status = 500
  BY <1>4
<1>6. Exchange(x)'
  BY <1>2, <1>3, <1>5 DEF Exchange, Refused
<1>7. Keeps(x)
  BY <1>2 DEF Keeps, Answered
<1> QED  BY <1>1, <1>2, <1>6, <1>7, Moves DEF Asked

LEMMA AnswerStep == ASSUME IInv, NEW x \in Exchanges, Answer(x) PROVE IInv'
<1>1. TypeOK' /\ Local(x) /\ TypeOK /\ Asked(x) /\ Exchange(x)
  BY HandlerType DEF IInv, Handle
<1>2. at[x] = "answering" /\ at'[x] = "returned" /\ log'[x] = Append(log[x], reply[x].status)
      /\ UNCHANGED <<stored, req, here, reply, heard, drain, rows, lost>>
  BY <1>1 DEF Answer, Return, Go, TypeOK, config, store
<1>3. Whole(x) /\ log'[x] = <<reply[x].status>>
  <2>1. Whole(x) /\ log[x] = <<>>
    BY <1>1, <1>2 DEF Exchange
  <2> QED  BY <1>2, <2>1
<1>4. Whole(x)'
  BY <1>2, <1>3 DEF Whole, OnRecord
<1>5. Exchange(x)'
  BY <1>2, <1>3, <1>4 DEF Exchange
<1>6. Keeps(x)
  BY <1>2 DEF Keeps, Answered
<1> QED  BY <1>1, <1>2, <1>5, <1>6, Moves DEF Asked
-----------------------------------------------------------------------------
(* Streams.                                                                *)

LEMMA StreamStartsStep == ASSUME IInv, NEW x \in Exchanges, StreamStarts(x) PROVE IInv'
<1>1. TypeOK' /\ Local(x) /\ TypeOK /\ Asked(x)
  BY EngineType DEF IInv, Start
<1>2. at[x] = "engine" /\ req[x].op = "stream" /\ at'[x] = "receiving" /\ drain'[x] = "range"
      /\ UNCHANGED <<stored, req, here, heard, rows, lost, log>> /\ Begin(x, 200, TRUE)
  BY <1>1 DEF StreamStarts, AtEngine, Go, TypeOK, config, store
<1>3. Untouched(x) /\ log[x] = <<>>
  BY <1>2 DEF IInv, Exchange
<1>4. reply'[x] = [status |-> 200, traced |-> TRUE, body |-> <<>>]
  BY <1>1, <1>2 DEF Begin, TypeOK
<1>5. reply'[x].traced /\ reply'[x].status = 200 /\ reply'[x].body = <<>>
  BY <1>4
<1>6. Sent(x)' = <<>>
  BY <1>2, <1>3 DEF Sent, Chunks, Untouched
<1>7. Streamed(x)'
  BY <1>2, <1>3, <1>5, <1>6 DEF Streamed, Untouched, Blank
<1>8. Exchange(x)'
  BY <1>2, <1>3, <1>7 DEF Exchange
<1>9. Keeps(x)
  BY <1>2 DEF Keeps, Answered
<1> QED  BY <1>1, <1>2, <1>8, <1>9, Moves DEF Asked

(* A step of a streaming handler or its drain.                             *)
LEMMA StreamMoves ==
  ASSUME IInv, NEW x \in Exchanges, TypeOK', Local(x), at[x] \in {"receiving", "ending"},
         at'[x] \in {"receiving", "ending", "returned"}, UNCHANGED req,
         rows[x] # NoRow => rows'[x] = rows[x], x \in lost => x \in lost',
         log'[x] = IF at'[x] = "returned" THEN Append(log[x], reply'[x].status) ELSE log[x],
         Streamed(x)'
  PROVE  IInv'
<1>1. log[x] = <<>> /\ TypeOK /\ Asked(x)
  BY DEF IInv, Exchange
<1>2. Exchange(x)'
  BY <1>1 DEF Exchange
<1>3. Keeps(x)
  BY DEF Keeps, Answered
<1> QED  BY <1>1, <1>2, <1>3, Moves DEF Asked

LEMMA TakeChunkStep == ASSUME IInv, NEW x \in Exchanges, TakeChunk(x) PROVE IInv'
<1>1. TypeOK' /\ Local(x) /\ TypeOK /\ heard[x] \in Nat
  BY StreamType DEF IInv, TypeOK
<1>2. at[x] = "receiving" /\ drain[x] = "range" /\ heard'[x] = heard[x] + 1
      /\ UNCHANGED <<stored, req, at, here, drain, rows, lost, log>>
  BY <1>1 DEF TakeChunk, Flowing, TypeOK, config, store
<1>3. Streamed(x)
  BY <1>2 DEF IInv, Exchange
<1>4. [kind |-> ChunkKind(heard[x] + 1), n |-> heard[x] + 1] \in Pieces
  BY <1>1 DEF Pieces, ChunkKind
<1>5. reply'[x] = [status |-> reply[x].status, traced |-> reply[x].traced,
                   body |-> Append(reply[x].body, [kind |-> ChunkKind(heard[x] + 1), n |-> heard[x] + 1])]
  BY <1>1, <1>4, FrameSet DEF TakeChunk
<1>6. reply[x].body = Chunks(heard[x]) /\ reply[x].status = 200 /\ reply[x].traced
  BY <1>2, <1>3 DEF Streamed, Sent
<1>7. reply'[x].body = Chunks(heard[x] + 1) /\ reply'[x].status = 200 /\ reply'[x].traced
  BY <1>1, <1>5, <1>6, OneMoreChunk
<1>8. Sent(x)' = Chunks(heard[x] + 1)
  BY <1>2 DEF Sent, Chunks
<1>9. Streamed(x)'
  BY <1>2, <1>3, <1>7, <1>8 DEF Streamed, Blank
<1> QED  BY <1>1, <1>2, <1>9, StreamMoves

LEMMA TakeErrorStep == ASSUME IInv, NEW x \in Exchanges, TakeError(x) PROVE IInv'
<1>1. TypeOK' /\ Local(x) /\ TypeOK /\ heard[x] \in Nat
  BY StreamType DEF IInv, TypeOK
<1>2. at[x] = "receiving" /\ drain[x] = "range" /\ at'[x] = "ending" /\ drain'[x] = "failed"
      /\ UNCHANGED <<stored, req, here, heard, rows, lost, log>> /\ Write(x, Error(x))
  BY <1>1 DEF TakeError, Flowing, Go, TypeOK, config, store, Error
<1>3. Streamed(x)
  BY <1>2 DEF IInv, Exchange
<1>4. Error(x) \in Pieces
  BY <1>1 DEF Error, Pieces
<1>5. reply'[x] = [status |-> reply[x].status, traced |-> reply[x].traced, body |-> Append(reply[x].body, Error(x))]
  BY <1>1, <1>2, <1>4, FrameSet
<1>6. reply[x].body = Sent(x) /\ reply[x].status = 200 /\ reply[x].traced /\ Blank(x)
  BY <1>2, <1>3 DEF Streamed
<1>7. reply'[x].body = Append(Sent(x), Error(x)) /\ reply'[x].status = 200 /\ reply'[x].traced
  BY <1>5, <1>6
<1>8. Sent(x)' = Sent(x) /\ Error(x)' = Error(x)
  BY <1>2 DEF Sent, Error
<1>9. Streamed(x)'
  BY <1>2, <1>3, <1>6, <1>7, <1>8 DEF Streamed, Dirty, Blank
<1> QED  BY <1>1, <1>2, <1>9, StreamMoves

LEMMA ChannelClosedStep == ASSUME IInv, NEW x \in Exchanges, ChannelClosed(x) PROVE IInv'
<1>1. TypeOK' /\ Local(x) /\ TypeOK
  BY HandlerType DEF IInv, Handle
<1>2. at[x] = "receiving" /\ drain[x] = "closed" /\ at'[x] = "ending"
      /\ UNCHANGED <<stored, req, here, reply, heard, drain, rows, lost, log>>
  BY <1>1 DEF ChannelClosed, Go, TypeOK, config, store
<1>3. Streamed(x)
  BY <1>2 DEF IInv, Exchange
<1>4. Streamed(x)'
  BY <1>2, <1>3 DEF Streamed, Clean, Sent, OnRecord
<1> QED  BY <1>1, <1>2, <1>4, StreamMoves

LEMMA TerminateStep == ASSUME IInv, NEW x \in Exchanges, Terminate(x) PROVE IInv'
<1>1. TypeOK' /\ Local(x) /\ TypeOK /\ heard[x] \in Nat
  BY HandlerType DEF IInv, Handle, TypeOK
<1>2. at[x] = "ending" /\ at'[x] = "returned" /\ log'[x] = Append(log[x], reply[x].status)
      /\ UNCHANGED <<stored, req, here, heard, drain, rows, lost>> /\ Write(x, Done(x))
  BY <1>1 DEF Terminate, Return, Go, TypeOK, config, store, Done
<1>3. Streamed(x)
  BY <1>2 DEF IInv, Exchange
<1>4. Done(x) \in Pieces
  BY <1>1 DEF Done, Pieces
<1>5. reply'[x] = [status |-> reply[x].status, traced |-> reply[x].traced, body |-> Append(reply[x].body, Done(x))]
  BY <1>1, <1>2, <1>4, FrameSet
<1>6. reply'[x].body = Append(reply[x].body, Done(x)) /\ reply'[x].status = reply[x].status
      /\ reply'[x].traced = reply[x].traced
  BY <1>5
<1>7. Sent(x)' = Sent(x) /\ Error(x)' = Error(x) /\ Done(x)' = Done(x)
  BY <1>2 DEF Sent, Error, Done
<1>8. (Clean(x) => Clean(x)') /\ (Dirty(x) => Dirty(x)')
  BY <1>2 DEF Clean, Dirty, OnRecord, Blank
<1>9. Streamed(x)'
  BY <1>2, <1>3, <1>6, <1>7, <1>8 DEF Streamed
<1> QED  BY <1>1, <1>2, <1>6, <1>9, StreamMoves

(* A drain belongs to a stream; its last steps may come after the handler's*)
(* return.                                                                 *)
LEMMA Draining ==
  ASSUME IInv, NEW x \in Exchanges, drain[x] # "off"
  PROVE  /\ Streamed(x) /\ at[x] \in {"receiving", "ending", "returned"}
         /\ at[x] = "returned" => log[x] = <<reply[x].status>>
         /\ at[x] # "returned" => log[x] = <<>>
BY DEF IInv, TypeOK, Exchange, Untouched, Whole, Refused, Looked

LEMMA DrainStep == ASSUME IInv, NEW x \in Exchanges, Drain(x) PROVE IInv'
<1>1. TypeOK' /\ Local(x) /\ TypeOK
  BY StreamType DEF IInv
<1>2. /\ drain[x] = "range" /\ UNCHANGED <<stored, req, at, here, reply, heard, rows, lost, log>>
      /\ drain'[x] \in {"success", "failed"}
      /\ drain'[x] = "failed" => CtxOver(x)
  BY <1>1 DEF Drain, StreamCloses, Abandon, TypeOK, config, store
<1>3. at[x] = "receiving" /\ Streamed(x)
  BY <1>2, Draining DEF Streamed, Clean, Dirty
<1>4. drain'[x] = "failed" => ~here[x]
  BY <1>2, <1>3 DEF CtxOver
<1>5. Streamed(x)'
  BY <1>2, <1>3, <1>4 DEF Streamed, Blank, Sent
<1> QED  BY <1>1, <1>2, <1>3, <1>5, StreamMoves

LEMMA DrainMoves ==
  ASSUME IInv, NEW x \in Exchanges, TypeOK', Local(x), drain[x] # "off",
         UNCHANGED <<req, at, here, reply, log>>, Streamed(x)',
         rows[x] # NoRow => rows'[x] = rows[x], x \in lost => x \in lost'
  PROVE  IInv'
<1>1. Exchange(x)'
  BY Draining DEF Exchange
<1>2. Keeps(x)
  BY DEF Keeps, Answered, Failed
<1> QED  BY <1>1, <1>2, Moves DEF Asked, IInv

LEMMA DrainSavesStep == ASSUME IInv, NEW x \in Exchanges, DrainSaves(x) PROVE IInv'
<1>1. TypeOK' /\ Local(x) /\ TypeOK
  BY StreamType DEF IInv
<1>2. drain[x] \in Verdicts /\ drain'[x] = "close" /\ Save(x, drain[x])
      /\ UNCHANGED <<stored, req, at, here, reply, heard, log>>
  BY <1>1 DEF DrainSaves, TypeOK, config
<1>3. drain[x] # "off" /\ drain[x] \notin {"range", "close", "closed"}
  BY <1>2 DEF Verdicts
<1>4. Streamed(x) /\ at[x] \in {"receiving", "ending", "returned"}
  BY <1>3, Draining
<1>5. Blank(x) /\ (at[x] \in {"ending", "returned"} => drain[x] = "failed")
  BY <1>2, <1>3, <1>4 DEF Streamed, Clean, Dirty
<1>6. /\ drain[x] = "success" => OnRecord(x, "success")'
      /\ drain[x] = "failed" => OnRecord(x, "failed")'
  BY <1>1, <1>2, <1>5, SaveRecords
<1>7. Sent(x)' = Sent(x) /\ Error(x)' = Error(x) /\ Done(x)' = Done(x)
  BY <1>2 DEF Sent, Error, Done
<1>8. Streamed(x)'
  <2>1. CASE drain[x] = "success"
    <3>1. at[x] = "receiving" /\ OnRecord(x, "success")'
      BY <1>4, <1>5, <1>6, <2>1
    <3> QED  BY <1>2, <1>4, <1>7, <3>1 DEF Streamed
  <2>2. CASE drain[x] = "failed"
    BY <1>2, <1>4, <1>5, <1>6, <1>7, <2>2 DEF Streamed, Dirty, Clean
  <2> QED  BY <1>2, <2>1, <2>2 DEF Verdicts
<1>9. (rows[x] # NoRow => rows'[x] = rows[x]) /\ (x \in lost => x \in lost')
  BY <1>5 DEF Blank
<1> QED  BY <1>1, <1>2, <1>3, <1>8, <1>9, DrainMoves

LEMMA CloseOutStep == ASSUME IInv, NEW x \in Exchanges, CloseOut(x) PROVE IInv'
<1>1. TypeOK' /\ Local(x) /\ TypeOK
  BY StreamType DEF IInv
<1>2. drain[x] = "close" /\ drain'[x] = "closed"
      /\ UNCHANGED <<stored, req, at, here, reply, heard, rows, lost, log>>
  BY <1>1 DEF CloseOut, TypeOK, config, store
<1>3. Streamed(x)
  BY <1>2, Draining
<1>4. Sent(x)' = Sent(x) /\ Error(x)' = Error(x) /\ Done(x)' = Done(x)
  BY <1>2 DEF Sent, Error, Done
<1>5. Streamed(x)'
  BY <1>2, <1>3, <1>4 DEF Streamed, Clean, Dirty, OnRecord
<1> QED  BY <1>1, <1>2, <1>5, DrainMoves

LEMMA DisconnectStep == ASSUME IInv, NEW x \in Exchanges, Disconnect(x) PROVE IInv'
<1>1. TypeOK' /\ Local(x) /\ TypeOK /\ Exchange(x) /\ Asked(x)
  BY StreamType DEF IInv
<1>2. at[x] \notin {"new", "returned"} /\ ~here'[x]
      /\ UNCHANGED <<stored, req, at, reply, heard, drain, rows, lost, log>>
  BY <1>1 DEF Disconnect, TypeOK, config, store
<1>3. (Untouched(x) => Untouched(x)') /\ (Whole(x) => Whole(x)')
  BY <1>2 DEF Untouched, Whole, Blank, OnRecord
<1>4. Sent(x)' = Sent(x) /\ Error(x)' = Error(x) /\ Done(x)' = Done(x)
  BY <1>2 DEF Sent, Error, Done
<1>5. Streamed(x) => Streamed(x)'
  BY <1>2, <1>4 DEF Streamed, Clean, Dirty, Blank, OnRecord
<1>6. Exchange(x)'
  BY <1>1, <1>2, <1>3, <1>5 DEF Exchange
<1>7. Keeps(x)
  BY <1>2 DEF Keeps, Answered
<1> QED  BY <1>1, <1>2, <1>6, <1>7, Moves DEF Asked
-----------------------------------------------------------------------------
LEMMA IInvHolds == Spec => []IInv
<1>1. ASSUME IInv, NEW x \in Exchanges, Step(x) PROVE IInv'
  <2>1. CASE Handle(x)
    BY <1>1, <2>1, RequireAuthStep, DecodeStep, LookupStep, AnswerStep, ChannelClosedStep, TerminateStep DEF Handle
  <2>2. CASE Engine(x)
    <3>1. CASE RunRejected(x)
      <4>1. Refuse(x, 400) /\ at[x] = "engine" /\ req[x].op = "run"
        BY <3>1 DEF RunRejected, AtEngine
      <4> QED  BY <1>1, <4>1, RefuseKeeps
    <3> QED  BY <1>1, <2>2, <3>1, CompleteStep, RunStep, PanicStep DEF Engine
  <2>3. CASE Start(x)
    BY <1>1, <2>3, StreamFailsStep, StreamStartsStep DEF Start
  <2> QED  BY <1>1, <2>1, <2>2, <2>3, ReceiveStep, DrainStep, TakeChunkStep, TakeErrorStep, DrainSavesStep,
              CloseOutStep, DisconnectStep DEF Step
<1>2. IInv /\ UNCHANGED vars => IInv'
  <2> SUFFICES ASSUME IInv, UNCHANGED vars PROVE IInv'
    OBVIOUS
  <2>1. UNCHANGED <<keyed, stored, req, at, here, reply, heard, drain, rows, lost, log>>
    BY DEF vars, config, store
  <2>2. TypeOK'
    BY <2>1 DEF IInv, TypeOK
  <2> SUFFICES ASSUME NEW x \in Exchanges PROVE Exchange(x)' /\ Asked(x)'
    BY <2>2 DEF IInv
  <2>3. (Untouched(x)' <=> Untouched(x)) /\ (Refused(x)' <=> Refused(x)) /\ (Looked(x)' <=> Looked(x))
    BY <2>1 DEF Untouched, Refused, Looked, Blank
  <2>4. Whole(x)' <=> Whole(x)
    BY <2>1 DEF Whole, OnRecord
  <2>5. Sent(x)' = Sent(x) /\ Error(x)' = Error(x) /\ Done(x)' = Done(x)
    BY <2>1 DEF Sent, Error, Done
  <2>6. Streamed(x)' <=> Streamed(x)
    BY <2>1, <2>5 DEF Streamed, Clean, Dirty, Blank, OnRecord
  <2>7. Exchange(x)'
    BY <2>1, <2>3, <2>4, <2>6 DEF IInv, Exchange
  <2>8. Asked(x)'
    BY <2>1 DEF IInv, Asked, Answered, Failed
  <2> QED  BY <2>7, <2>8
<1>3. IInv /\ [Next]_vars => IInv'
  BY <1>1, <1>2 DEF Next, Step
<1> QED  BY <1>3, InitInv, PTL DEF Spec

(* TypeOK of Gateway: requests, responses, drains and records.             *)
THEOREM TypeCorrect == Spec => []TypeOK
BY IInvHolds, PTL DEF IInv

(* AccountsAgree, for any number of exchanges and lookups among them.      *)
THEOREM AccountsAlwaysAgree == Spec => []AccountsAgree
<1>1. IInv => AccountsAgree
  <2> SUFFICES ASSUME IInv, NEW x \in Exchanges
               PROVE  /\ at[x] = "returned" => log[x] = IF Panicked(x) THEN <<>> ELSE <<reply[x].status>>
                      /\ Answered(x) /\ stored => x \in lost \/ rows[x] = Told(x)
                      /\ at[x] = "returned" /\ req[x].op = "lookup" =>
                           /\ reply[x].status = 404 /\ req[x].answered => req[x].of \in lost
                           /\ reply[x].status = 200 /\ Answered(req[x].of) => reply[x].body = JSON(Told(req[x].of))
    BY DEF AccountsAgree
  <2>1. TypeOK /\ Exchange(x) /\ req[x].of \in Exchanges /\ Exchange(req[x].of)
    BY DEF IInv, TypeOK, Request
  <2>2. at[x] = "returned" => log[x] = IF Panicked(x) THEN <<>> ELSE <<reply[x].status>>
    <3>1. ASSUME at[x] = "returned", log[x] = <<reply[x].status>>,
                 reply[x].status # 500 \/ req[x].op = "lookup"
          PROVE  log[x] = IF Panicked(x) THEN <<>> ELSE <<reply[x].status>>
      BY <3>1 DEF Panicked
    <3>2. CASE Whole(x) \/ Streamed(x)
      <4>1. reply[x].status # 500
        BY <3>2 DEF Whole, Streamed
      <4>2. ~Refused(x) /\ ~Looked(x)
        BY <3>2 DEF Refused, Looked, Whole, Streamed
      <4>3. at[x] = "returned" => log[x] = <<reply[x].status>>
        BY <2>1, <4>2 DEF Exchange
      <4> QED  BY <3>1, <4>1, <4>3
    <3>3. CASE Refused(x)
      BY <3>3 DEF Refused, Panicked
    <3>4. CASE Looked(x)
      BY <3>1, <3>4 DEF Looked
    <3> QED  BY <2>1, <3>2, <3>3, <3>4 DEF Exchange
  <2>3. \A y \in Exchanges : Exchange(y) /\ Answered(y) /\ stored =>
          (y \in lost /\ rows[y] = NoRow) \/ rows[y] = Told(y)
    BY <2>1, AnsweredRecord DEF OnRecord
  <2>4. at[x] = "returned" /\ req[x].op = "lookup" => Looked(x)
    BY <2>1 DEF Exchange, Whole, Streamed, Refused
  <2> QED  BY <2>1, <2>2, <2>3, <2>4 DEF Looked
<1> QED  BY <1>1, IInvHolds, PTL

(* EndOfStreamIsHonest, for any length of stream.                          *)
THEOREM EndIsAlwaysHonest == Spec => []EndOfStreamIsHonest
<1>1. IInv => EndOfStreamIsHonest
  <2> SUFFICES ASSUME IInv, NEW x \in Exchanges,
                      at[x] = "returned", here[x], req[x].op = "stream", reply[x].traced
               PROVE  LET body == reply[x].body
                          last == Len(body) - (IF Failed(x) THEN 2 ELSE 1)
                      IN /\ body[Len(body)].kind = "done" /\ last = heard[x]
                         /\ \A k \in 1..last : body[k] = [kind |-> ChunkKind(k), n |-> k]
                         /\ Failed(x) => body[Len(body) - 1].kind = "error" /\ rows[x] # "success"
                         /\ ~Failed(x) => rows[x] # "failed"
    BY DEF EndOfStreamIsHonest
  <2>1. TypeOK /\ Streamed(x) /\ heard[x] \in Nat
    <3>1. TypeOK /\ Exchange(x) /\ heard[x] \in Nat
      BY DEF IInv, TypeOK
    <3>2. ~Whole(x) /\ ~Refused(x) /\ ~Looked(x)
      BY DEF Whole, Refused, Looked
    <3> QED  BY <3>1, <3>2 DEF Exchange
  <2>2. CASE Clean(x) /\ reply[x].body = Append(Sent(x), Done(x))
    <3>1. ~Failed(x) /\ Len(reply[x].body) = heard[x] + 1 /\ rows[x] # "failed"
      BY <2>1, <2>2, CleanBody DEF Clean, OnRecord, NoRow
    <3>2. Len(reply[x].body) - 1 = heard[x]
      BY <2>1, <3>1
    <3> QED  BY <2>1, <2>2, <3>1, <3>2, CleanBody
  <2>3. CASE Dirty(x) /\ reply[x].body = Append(Append(Sent(x), Error(x)), Done(x))
    <3>1. Failed(x) /\ Len(reply[x].body) = heard[x] + 2 /\ rows[x] # "success"
      BY <2>1, <2>3, DirtyBody DEF Dirty, OnRecord, Blank, NoRow
    <3>2. Len(reply[x].body) - 2 = heard[x] /\ Len(reply[x].body) - 1 = heard[x] + 1
      BY <2>1, <3>1
    <3> QED  BY <2>1, <2>3, <3>1, <3>2, DirtyBody
  <2> QED  BY <2>1, <2>2, <2>3 DEF Streamed
<1> QED  BY <1>1, IInvHolds, PTL
=============================================================================
