------------------------------- MODULE Trace -------------------------------
(***************************************************************************)
(* The record core/pipeline keeps of one request: ports.Trace and its      *)
(* ports.Attempt entries (core/ports/trace.go), and the helpers that both  *)
(* Engine.Complete and Engine.Stream build them with.                      *)
(*                                                                         *)
(* Abstracted: IDs, model names, latencies and error texts.  `usage` is    *)
(* one number and stands for Usage and CostUSD together: the code derives  *)
(* the cost from the usage and writes both in the same places.  Indexes    *)
(* are 1-based here, 0-based in Go.                                        *)
(***************************************************************************)
EXTENDS Naturals, Sequences

CONSTANTS Names,   \* every instance name a router can return
          Usages   \* the token counts a provider can report

ASSUME UsagesAssumption == Usages \subseteq Nat /\ 0 \in Usages

AttemptStatus == {"success", "error", "timeout"}
NoProvider    == "(none)"        \* FinalProvider's zero value, ""

ASSUME NamesAssumption == NoProvider \notin Names

Attempts == [index: Nat, provider: Names, status: AttemptStatus, usage: Nat]

Traces == [attempts: Seq(Attempts),
           status:   AttemptStatus \cup {"pending"},
           provider: Names \cup {NoProvider},
           usage:    Nat]

newTrace == [attempts |-> <<>>, status |-> "pending", provider |-> NoProvider, usage |-> 0]

(* An attempt that kept the usage a provider reported beside its error.    *)
buildAttemptKeepsUsage(idx, name, status, usage) ==
  [index |-> idx, provider |-> name, status |-> status, usage |-> usage]

(* buildAttempt returns before it prices a failed attempt, so the usage a  *)
(* provider returned together with an error is dropped.                    *)
buildAttempt(idx, name, status, usage) ==
  [index |-> idx, provider |-> name, status |-> status,
   usage |-> IF status = "success" THEN usage ELSE 0]

attempted(tr, att) == [tr EXCEPT !.attempts = Append(@, att)]

(* The failing end of a request, whatever the last attempt's status was.   *)
fail(tr) == [tr EXCEPT !.status = "error"]

(* The last attempt succeeded: its provider and usage become the trace's.  *)
succeed(tr, att) ==
  [tr EXCEPT !.status = "success", !.provider = att.provider, !.usage = att.usage]

LastAttempt(tr) == tr.attempts[Len(tr.attempts)]

Served(tr) == tr.attempts # <<>> /\ LastAttempt(tr).status = "success"

(* TRUE of a finished trace that tells one coherent story: only the last   *)
(* attempt can have succeeded, the verdict is that attempt's, and the      *)
(* trace's usage is what its attempts used altogether.                     *)
Coherent(tr) ==
  /\ \A k \in 1..Len(tr.attempts) - 1 :
        tr.attempts[k].status # "success" /\ tr.attempts[k].usage = 0
  /\ tr.status = "success" <=> Served(tr)
  /\ tr.provider = IF Served(tr) THEN LastAttempt(tr).provider ELSE NoProvider
  /\ tr.usage = IF tr.attempts = <<>> THEN 0 ELSE LastAttempt(tr).usage
=============================================================================
