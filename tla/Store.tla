-------------------------------- MODULE Store --------------------------------
(***************************************************************************)
(* The SQLite store (modules/memory/sqlite): one database file behind      *)
(* database/sql's connection pool, opened and migrated by Provision, then  *)
(* used by any number of goroutines at once; the process may die at any    *)
(* moment and be started again on the same file.                           *)
(*                                                                         *)
(* Of SQLite itself, in WAL mode, the model has what its documentation     *)
(* says: one writer at a time; a transaction reads the snapshot of its     *)
(* first SELECT; BEGIN is deferred, and a transaction that has read and    *)
(* now wants to write gets SQLITE_BUSY at once, without the busy handler,  *)
(* if another one is writing or has written since; a lone INSERT waits up  *)
(* to busy_timeout; what is not committed is gone after a crash, what is   *)
(* committed is not.  Rows a file held before are left out: no statement   *)
(* changes another call's row.                                             *)
(***************************************************************************)
EXTENDS Naturals, Sequences, FiniteSets

CONSTANTS Puts,       \* calls of PutPrompt
          Saves,      \* calls of Save and SaveRun
          Name,       \* of each of Puts: the prompt it writes
          Table,      \* of each of Saves: the table it writes
          RecordOf,   \* of each of Saves: the trace or run
          Free,       \* the write lock is free
          MaxFaults   \* bound: crashes and failed starts

Calls  == Puts \cup Saves
Schema == <<"traces", "prompts", "workflow_runs">>
Tables == {Schema[k] : k \in 1..3}
Empty  == ""           \* Go's zero string ...
NULL   == "NULL"       \* ... which is stored as this

Records == [stream: BOOLEAN, text: {Empty, "text"}, detail: Seq({"part"})]

ASSUME CallsAssumption  == Puts \cap Saves = {} /\ Free \notin Calls
ASSUME SavesAssumption  == Table \in [Saves -> Tables \ {"prompts"}] /\ RecordOf \in [Saves -> Records]
ASSUME FaultsAssumption == MaxFaults \in Nat

VARIABLES
  phase,    \* of the process
  step,     \* the next statement of Provision's schema
  tables,   \* file: the tables there are
  trigger,  \* file: workflow_runs has its trigger column
  prompts,  \* file: the rows of prompts
  rows,     \* file: the rows of traces and workflow_runs
  commits,  \* file: how often it was written, the end of the WAL
  lock,     \* who holds the write lock
  pc,       \* of each call
  snap,     \* the commit a PutPrompt's snapshot was taken at
  version,  \* PutPrompt's version
  faults    \* how often the process went down

process == <<phase, step, faults>>
schema  == <<tables, trigger>>
content == <<prompts, rows, commits>>
tx      == <<snap, version>>
vars    == <<process, schema, content, lock, pc, tx>>

Refusals == {"locked", "timeout", "cancelled", "no column"}
Ended    == Refusals \cup {"ok", "cut off", "in doubt"}
Busy     == {"begun", "read", "inserted", "waiting", "writing", "committed"}

Columns == [stream: {0, 1}, text: {NULL, "text"}, detail: Seq({"part"})]

TypeOK ==
  /\ phase \in {"off", "opening", "ready"}
  /\ step \in 1..4
  /\ tables \subseteq Tables /\ trigger \in BOOLEAN
  /\ prompts \subseteq [name: {Name[p] : p \in Puts}, version: Nat, by: Puts]
  /\ rows \subseteq [id: Saves, columns: Columns]
  /\ commits \in Nat
  /\ lock \in Calls \cup {Free}
  /\ pc \in [Calls -> {"idle"} \cup Busy \cup Ended]
  /\ snap \in [Puts -> Nat] /\ version \in [Puts -> Nat]
  /\ faults \in 0..MaxFaults

(* A new file, or one from before the trigger column.                      *)
Init ==
  /\ phase = "off" /\ step = 1 /\ faults = 0
  /\ tables \in {{}, Tables} /\ trigger = FALSE
  /\ prompts = {} /\ rows = {} /\ commits = 0
  /\ lock = Free
  /\ pc = [c \in Calls |-> "idle"]
  /\ snap = [p \in Puts |-> 0] /\ version = [p \in Puts |-> 0]
-----------------------------------------------------------------------------
(* Provision: ping, the schema's statements, then the migration.           *)

Start ==
  /\ phase = "off"
  /\ phase' = "opening" /\ step' = 1
  /\ UNCHANGED <<faults, schema, content, lock, pc, tx>>

(* CREATE TABLE IF NOT EXISTS; a table that is there keeps its columns.    *)
CreateTable ==
  /\ phase = "opening" /\ step <= Len(Schema)
  /\ tables' = tables \cup {Schema[step]}
  /\ trigger' = (trigger \/ (Schema[step] = "workflow_runs" /\ Schema[step] \notin tables))
  /\ step' = step + 1
  /\ UNCHANGED <<phase, faults, content, lock, pc, tx>>

Migrated == phase = "opening" /\ step > Len(Schema)

(* A migration that takes the duplicate column for a failure.              *)
RejectDuplicate ==
  /\ Migrated
  /\ trigger' = TRUE /\ phase' = IF trigger THEN "off" ELSE "ready"
  /\ UNCHANGED <<step, faults, tables, content, lock, pc, tx>>

(* ALTER TABLE ADD COLUMN, whose "duplicate column" error is swallowed.    *)
AddColumn ==
  /\ Migrated
  /\ trigger' = TRUE /\ phase' = "ready"
  /\ UNCHANGED <<step, faults, tables, content, lock, pc, tx>>

(* The process dies, or Provision returns an error and so the process      *)
(* ends.  Open transactions and their locks are gone, and their callers.   *)
Fault ==
  /\ phase # "off" /\ faults < MaxFaults
  /\ phase' = "off" /\ faults' = faults + 1 /\ lock' = Free
  /\ pc' = [c \in Calls |-> IF pc[c] \in Busy THEN "cut off" ELSE pc[c]]
  /\ UNCHANGED <<step, schema, content, tx>>

Provision == CreateTable \/ AddColumn
-----------------------------------------------------------------------------
Go(c, place) == pc' = [pc EXCEPT ![c] = place]

(* PutPrompt.                                                              *)

BeginTx(p) ==
  /\ phase = "ready" /\ pc[p] = "idle"
  /\ Go(p, "begun")
  /\ UNCHANGED <<process, schema, content, lock, tx>>

Versions(n) == {r.version : r \in {q \in prompts : q.name = n}}

(* MAX over no rows is NULL, which scans as 0.                             *)
MaxVersion(n) == IF Versions(n) = {} THEN 0
                 ELSE CHOOSE v \in Versions(n) : \A u \in Versions(n) : u <= v

SelectMax(p) ==
  /\ pc[p] = "begun"
  /\ snap' = [snap EXCEPT ![p] = commits]
  /\ version' = [version EXCEPT ![p] = MaxVersion(Name[p]) + 1]
  /\ Go(p, "read")
  /\ UNCHANGED <<process, schema, content, lock>>

(* The INSERT needs the write lock for a snapshot that is still the newest.*)
MayWrite(p) == lock = Free /\ snap[p] = commits

Insert(p) ==
  /\ pc[p] = "read" /\ MayWrite(p)
  /\ lock' = p /\ Go(p, "inserted")
  /\ UNCHANGED <<process, schema, content, tx>>

InsertRefused(p) ==
  /\ pc[p] = "read" /\ ~MayWrite(p)
  /\ Go(p, "locked")
  /\ UNCHANGED <<process, schema, content, lock, tx>>

Commit(p) ==
  /\ pc[p] = "inserted"
  /\ prompts' = prompts \cup {[name |-> Name[p], version |-> version[p], by |-> p]}
  /\ commits' = commits + 1 /\ lock' = Free
  /\ Go(p, "committed")
  /\ UNCHANGED <<process, schema, rows, tx>>

CommitUnchecked(p) ==
  /\ pc[p] \in {"begun", "read", "inserted"}
  /\ Go(p, IF pc[p] = "inserted" THEN "ok" ELSE "cancelled")
  /\ lock' = IF lock = p THEN Free ELSE lock
  /\ UNCHANGED <<process, schema, content, tx>>

(* A PutPrompt whose deferred Rollback was forgotten.                      *)
RollbackLeaks(p) ==
  /\ pc[p] \in {"begun", "read", "inserted"}
  /\ Go(p, "cancelled")
  /\ UNCHANGED <<process, schema, content, lock, tx>>

(* The caller's context ends, or a statement fails: the next call on the   *)
(* transaction, Commit included, returns an error, and Rollback is         *)
(* deferred.  Once COMMIT runs, the context has no say any more.           *)
Rollback(p) ==
  /\ pc[p] \in {"begun", "read", "inserted"}
  /\ Go(p, "cancelled")
  /\ lock' = IF lock = p THEN Free ELSE lock
  /\ UNCHANGED <<process, schema, content, tx>>
-----------------------------------------------------------------------------
(* Save and SaveRun: a lone INSERT OR REPLACE.                             *)

boolToInt(b)     == IF b THEN 1 ELSE 0
nullStr(s)       == IF s = Empty THEN NULL ELSE s
columns(r)       == [stream |-> boolToInt(r.stream), text |-> nullStr(r.text), detail |-> r.detail]
String(s)        == IF s = NULL THEN Empty ELSE s   \* sql.NullString
scanVerbatim(c)  == [stream |-> c.stream # 0, text |-> c.text, detail |-> c.detail]
scan(c)          == [stream |-> c.stream # 0, text |-> String(c.text), detail |-> c.detail]

HasColumns(s) == Table[s] \in tables /\ (Table[s] = "workflow_runs" => trigger)

Save(s) ==
  /\ phase = "ready" /\ pc[s] = "idle"
  /\ Go(s, IF HasColumns(s) THEN "waiting" ELSE "no column")
  /\ UNCHANGED <<process, schema, content, lock, tx>>

(* The busy handler has polled for busy_timeout.                           *)
TimesOut(s) ==
  /\ pc[s] = "waiting" /\ lock # Free
  /\ Go(s, "timeout")
  /\ UNCHANGED <<process, schema, content, lock, tx>>

Lock(s) ==
  /\ pc[s] = "waiting" /\ lock = Free
  /\ lock' = s /\ Go(s, "writing")
  /\ UNCHANGED <<process, schema, content, tx>>

Write(s) ==
  /\ pc[s] = "writing"
  /\ rows' = {r \in rows : r.id # s} \cup {[id |-> s, columns |-> columns(RecordOf[s])]}
  /\ commits' = commits + 1 /\ lock' = Free
  /\ Go(s, "committed")
  /\ UNCHANGED <<process, schema, prompts, tx>>

(* Its context ends.  The statement is not in a transaction that the end   *)
(* could roll back: the caller gets the context's error, and the row may   *)
(* be there all the same.                                                  *)
Interrupt(s) ==
  /\ pc[s] \in {"waiting", "writing", "committed"}
  /\ Go(s, "in doubt")
  /\ lock' = IF lock = s THEN Free ELSE lock
  /\ UNCHANGED <<process, schema, content, tx>>

Return(c) ==
  /\ pc[c] = "committed"
  /\ Go(c, "ok")
  /\ UNCHANGED <<process, schema, content, lock, tx>>

PutStep(p)  == SelectMax(p) \/ Insert(p) \/ InsertRefused(p) \/ Commit(p) \/ Return(p)
SaveStep(s) == TimesOut(s) \/ Lock(s) \/ Write(s) \/ Return(s)

Next ==
  \/ Start \/ Provision \/ Fault
  \/ \E p \in Puts  : BeginTx(p) \/ PutStep(p) \/ Rollback(p)
  \/ \E s \in Saves : Save(s) \/ SaveStep(s) \/ Interrupt(s)

(* A started process and a started call run on; nobody must call, cancel,  *)
(* crash or restart.                                                       *)
Fairness ==
  /\ WF_vars(Provision)
  /\ \A p \in Puts : WF_vars(PutStep(p))
  /\ \A s \in Saves : WF_vars(SaveStep(s))

Spec == Init /\ [][Next]_vars /\ Fairness
-----------------------------------------------------------------------------
(* Get, List and the prompt queries read the committed rows.               *)
Get(id)             == {scan(r.columns) : r \in {q \in rows : q.id = id}}
GetVersion(n, v)    == {r \in prompts : r.name = n /\ r.version = v}
GetLatest(n)        == GetVersion(n, MaxVersion(n))
ListPrompts         == UNION {GetLatest(n) : n \in {r.name : r \in prompts}}

(* The promise of module Ledger, kept by snapshots, a lock, a unique key   *)
(* and rollbacks: writes are whole, versions have no gaps and are never    *)
(* given twice, and what a caller is told is true, across crashes.  Only   *)
(* the error of a save's own context says nothing of its row.              *)
Promise == INSTANCE Ledger WITH
  versions <- prompts,
  records  <- {r.id : r \in rows},
  answer   <- [c \in Calls |-> CASE pc[c] \in Refusals -> "error"
                                 [] pc[c] \in {"ok", "cut off", "in doubt"} -> pc[c]
                                 [] OTHER -> "none"],
  number   <- [p \in Puts |-> IF pc[p] = "ok" THEN version[p] ELSE 0]

ImplementsLedger == Promise!Spec

(* What was confirmed can be read, whatever happened since: a record as it *)
(* was handed in, a prompt under its version, and the latest prompt is one *)
(* row per name, at least as new as any that was confirmed.                *)
ConfirmedIsReadable ==
  /\ \A s \in Saves : pc[s] = "ok" => Get(s) = {RecordOf[s]}
  /\ \A p \in Puts : pc[p] = "ok" =>
       /\ GetVersion(Name[p], version[p]) = {[name |-> Name[p], version |-> version[p], by |-> p]}
       /\ \E r \in ListPrompts : r.name = Name[p] /\ r.version >= version[p]
  /\ \A r, q \in ListPrompts : r.name = q.name => r = q

(* Nobody is turned away for nobody: a call is refused the write lock, at  *)
(* once or after busy_timeout, only for another call that has it at that   *)
(* moment and is about to write, or because the file has taken an entry of *)
(* another call since it began to read.  A call that was itself refused,   *)
(* rolled back or cut off stands in nobody's way.                          *)
RefusedForAWriter ==
  [][\A c \in Calls :
       pc'[c] # pc[c] /\ pc'[c] \in {"locked", "timeout"} =>
         \/ \E d \in Calls \ {c} : pc[d] \in {"inserted", "writing"}
         \/ c \in Puts /\ snap[c] < Cardinality(prompts) + Cardinality(rows)]_vars

(* Provision can be broken off anywhere, on a new file or an old one: the  *)
(* next start that nothing disturbs succeeds, with the schema complete.    *)
StartsAgain ==
  (phase = "opening" /\ faults = MaxFaults) ~>
    (phase = "ready" /\ \A s \in Saves : HasColumns(s))
=============================================================================
