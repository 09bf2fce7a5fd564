------------------------------- MODULE Ledger -------------------------------
(***************************************************************************)
(* What the SQLite store promises its callers: it is a ledger.  A write is *)
(* in it at once and whole, or never; a prompt's versions are 1, 2, 3 ...  *)
(* in the order they came in; nothing written is changed or lost; and a    *)
(* caller hears of success only when its own entry is there, and of a      *)
(* failure only when it is not.  A caller cut off by a crash hears nothing,*)
(* and one whose own context ended during a save hears only that: their    *)
(* entries may be there or not.                                            *)
(***************************************************************************)
EXTENDS Naturals

CONSTANTS Puts, Saves,  \* calls of PutPrompt, and of Save and SaveRun
          Name          \* the prompt each of Puts writes

Calls == Puts \cup Saves

VARIABLES
  versions,  \* the prompts table: [name, version, by] of each entry
  records,   \* the saves whose record is in the ledger
  answer,    \* what each call was told
  number     \* the version a successful PutPrompt was told, 0 before that

vars == <<versions, records, answer, number>>

Init ==
  /\ versions = {} /\ records = {}
  /\ answer = [c \in Calls |-> "none"]
  /\ number = [p \in Puts |-> 0]

Entries(n) == {e \in versions : e.name = n}

(* The version after the last one, 1 when there is none.                   *)
NextVersions(n) ==
  {v \in {1} \cup {e.version + 1 : e \in Entries(n)} : \A e \in Entries(n) : e.version < v}

Entered(c) == c \in records \/ \E e \in versions : e.by = c

Enter(c) ==
  /\ answer[c] = "none" /\ ~Entered(c)
  /\ \/ /\ c \in Puts
        /\ \E v \in NextVersions(Name[c]) :
             versions' = versions \cup {[name |-> Name[c], version |-> v, by |-> c]}
        /\ UNCHANGED records
     \/ c \in Saves /\ records' = records \cup {c} /\ UNCHANGED versions
  /\ UNCHANGED <<answer, number>>

Confirm(c) ==
  /\ answer[c] = "none" /\ Entered(c)
  /\ answer' = [answer EXCEPT ![c] = "ok"]
  /\ \/ /\ c \in Puts
        /\ \E e \in versions : e.by = c /\ number' = [number EXCEPT ![c] = e.version]
     \/ c \in Saves /\ UNCHANGED number
  /\ UNCHANGED <<versions, records>>

Refuse(c) ==
  /\ answer[c] = "none" /\ ~Entered(c)
  /\ answer' = [answer EXCEPT ![c] = "error"]
  /\ UNCHANGED <<versions, records, number>>

(* The saver's own context is over; a PutPrompt is refused instead.        *)
Doubt(c) ==
  /\ c \in Saves /\ answer[c] = "none"
  /\ answer' = [answer EXCEPT ![c] = "in doubt"]
  /\ UNCHANGED <<versions, records, number>>

Crash ==
  /\ \E cut \in SUBSET {c \in Calls : answer[c] = "none"} :
       answer' = [c \in Calls |-> IF c \in cut THEN "cut off" ELSE answer[c]]
  /\ UNCHANGED <<versions, records, number>>

Next == Crash \/ \E c \in Calls : Enter(c) \/ Confirm(c) \/ Refuse(c) \/ Doubt(c)

Spec == Init /\ [][Next]_vars
=============================================================================
