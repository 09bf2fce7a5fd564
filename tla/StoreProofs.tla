----------------------------- MODULE StoreProofs -----------------------------
(***************************************************************************)
(* What holds of the SQLite store for any number of calls, prompts and     *)
(* records, and however often the process goes down.                       *)
(***************************************************************************)
EXTENDS Store, FiniteSetTheorems, TLAPS

CallPlaces == {"idle"} \cup Busy \cup Ended
HasWritten == {"committed", "ok", "cut off", "in doubt"}

(* Each kind of call has its own places, and the write lock is held by the *)
(* one call that is about to commit.                                       *)
Locking ==
  /\ \A p \in Puts : pc[p] \notin {"waiting", "writing", "timeout", "no column"}
  /\ \A s \in Saves : pc[s] \notin {"begun", "read", "inserted", "locked"}
  /\ \A c \in Calls : pc[c] \in {"inserted", "writing"} <=> lock = c

(* The versions of a prompt are 1, 2, 3 ... without gaps or repeats.  A    *)
(* call that has read its version and whose snapshot is still the newest   *)
(* holds the next one; a row is its call's, which has committed it.        *)
Numbered(n, k) == k \in Nat /\ Versions(n) = 1..k

Row(p) == [name |-> Name[p], version |-> version[p], by |-> p]

Versioning ==
  /\ \A p \in Puts : \E k \in Nat : Numbered(Name[p], k)
  /\ \A p \in Puts : pc[p] \in {"read", "inserted"} =>
       /\ snap[p] <= commits
       /\ snap[p] = commits => version[p] \in Nat \ {0} /\ Numbered(Name[p], version[p] - 1)
  /\ \A p \in Puts : pc[p] = "inserted" => snap[p] = commits
  /\ \A r \in prompts : r.by \in Puts /\ r = Row(r.by) /\ pc[r.by] \in HasWritten
  /\ \A p \in Puts : pc[p] \in {"committed", "ok"} => Row(p) \in prompts
  /\ \A r, q \in prompts : r.name = q.name /\ r.version = q.version => r = q

(* The same for the records, which have no versions.                       *)
Record(s) == [id |-> s, columns |-> columns(RecordOf[s])]

Recording ==
  /\ \A r \in rows : r.id \in Saves /\ r = Record(r.id) /\ pc[r.id] \in HasWritten
  /\ \A s \in Saves : pc[s] \in {"committed", "ok"} => Record(s) \in rows

IInv == TypeOK /\ Locking /\ Versioning /\ Recording
-----------------------------------------------------------------------------
(* The operators of Store.                                                 *)

LEMMA MaxOfNumbered ==
  ASSUME NEW n, NEW k \in Nat, Numbered(n, k)
  PROVE  MaxVersion(n) = k
<1>1. CASE k = 0
  BY <1>1 DEF Numbered, MaxVersion
<1>2. CASE k # 0
  <2>1. Versions(n) = 1..k /\ k \in 1..k /\ \A u \in 1..k : u <= k
    BY <1>2 DEF Numbered
  <2>2. Versions(n) # {}
    BY <2>1
  <2>3. ASSUME NEW v \in Versions(n), \A u \in Versions(n) : u <= v PROVE v = k
    BY <2>1, <2>3
  <2>4. MaxVersion(n) = CHOOSE v \in Versions(n) : \A u \in Versions(n) : u <= v
    BY <2>2 DEF MaxVersion
  <2> QED  BY <2>1, <2>3, <2>4
<1> QED  BY <1>1, <1>2

(* What is read back is what was handed in.                                *)
LEMMA ScanInvertsColumns ==
  ASSUME NEW r \in Records
  PROVE  scan(columns(r)) = r
<1>1. r = [stream |-> r.stream, text |-> r.text, detail |-> r.detail]
  BY DEF Records
<1>2. (boolToInt(r.stream) # 0) = r.stream
  BY DEF Records, boolToInt
<1>3. String(nullStr(r.text)) = r.text
  BY DEF Records, String, nullStr, NULL, Empty
<1>4. scan(columns(r)) = [stream |-> boolToInt(r.stream) # 0, text |-> String(nullStr(r.text)), detail |-> r.detail]
  BY DEF scan, columns
<1> QED  BY <1>1, <1>2, <1>3, <1>4

LEMMA ColumnsType ==
  ASSUME NEW r \in Records
  PROVE  columns(r) \in Columns
BY DEF Records, columns, Columns, boolToInt, nullStr, Empty, NULL

(* Versions depends on the prompts only.                                   *)
LEMMA VersionsOfMore ==
  ASSUME NEW r, prompts' = prompts \cup {r}, NEW n
  PROVE  Versions(n)' = Versions(n) \cup (IF r.name = n THEN {r.version} ELSE {})
BY DEF Versions
-----------------------------------------------------------------------------
LEMMA InitInv == Init => IInv
<1> SUFFICES ASSUME Init PROVE IInv
  OBVIOUS
<1> USE CallsAssumption, FaultsAssumption DEF Calls
<1>1. TypeOK
  <2>1. pc \in [Calls -> {"idle"} \cup Busy \cup Ended]
    BY DEF Init
  <2>2. 0 \in 0..MaxFaults /\ 0 \in Nat /\ 1 \in 1..4
    OBVIOUS
  <2>3. tables \subseteq Tables
    BY DEF Init
  <2>4. snap \in [Puts -> Nat] /\ version \in [Puts -> Nat]
    BY <2>2 DEF Init
  <2> QED  BY <2>1, <2>2, <2>3, <2>4 DEF Init, TypeOK
<1>2. Locking
  BY DEF Init, Locking
<1>3. Versioning
  <2>1. \A n : Numbered(n, 0)
    BY DEF Init, Numbered, Versions
  <2> QED  BY <2>1 DEF Init, Versioning
<1>4. Recording
  BY DEF Init, Recording
<1> QED  BY <1>1, <1>2, <1>3, <1>4 DEF IInv

(* The next version is a number.                                           *)
LEMMA NextVersionType ==
  ASSUME IInv, NEW p \in Puts
  PROVE  \E k \in Nat : Numbered(Name[p], k) /\ MaxVersion(Name[p]) = k
BY MaxOfNumbered DEF IInv, Versioning

LEMMA TypeStep == IInv /\ [Next]_vars => TypeOK'
<1> SUFFICES ASSUME IInv, [Next]_vars PROVE TypeOK'
  OBVIOUS
<1> USE DEF process, schema, content, tx, Go
<1>1. TypeOK
  BY DEF IInv
<1>2. CASE Start
  BY <1>1, <1>2 DEF TypeOK, Start
<1>3. CASE CreateTable
  <2>1. Schema[step] \in Tables /\ step + 1 \in 1..4
    BY <1>1, <1>3 DEF TypeOK, CreateTable, Schema, Tables
  <2>2. tables' \subseteq Tables /\ trigger' \in BOOLEAN
    BY <1>1, <1>3, <2>1 DEF TypeOK, CreateTable
  <2> QED  BY <1>1, <1>3, <2>1, <2>2 DEF TypeOK, CreateTable
<1>4. CASE AddColumn
  BY <1>1, <1>4 DEF TypeOK, AddColumn, Migrated
<1>5. CASE Fault
  <2>1. pc' \in [Calls -> CallPlaces]
    <3>1. "cut off" \in CallPlaces /\ \A c \in Calls : pc[c] \in CallPlaces
      BY <1>1 DEF TypeOK, CallPlaces, Ended
    <3>2. pc' = [c \in Calls |-> IF pc[c] \in Busy THEN "cut off" ELSE pc[c]]
      BY <1>5 DEF Fault
    <3> QED  BY <3>1, <3>2
  <2>2. faults' \in 0..MaxFaults
    <3>1. faults \in 0..MaxFaults /\ faults < MaxFaults /\ faults' = faults + 1
      BY <1>1, <1>5 DEF TypeOK, Fault
    <3> QED  BY <3>1, FaultsAssumption
  <2> QED  BY <1>1, <1>5, <2>1, <2>2 DEF TypeOK, Fault, CallPlaces
<1>6. ASSUME NEW p \in Puts, BeginTx(p) \/ PutStep(p) \/ Rollback(p)
      PROVE  TypeOK'
  <2>0. p \in Calls
    BY DEF Calls
  <2>1. ASSUME NEW place \in CallPlaces, Go(p, place), UNCHANGED <<process, schema, content, tx>>,
               lock' \in {lock, p, Free}
        PROVE  TypeOK'
    <3>1. pc' \in [Calls -> CallPlaces]
      BY <1>1, <2>0, <2>1 DEF TypeOK, CallPlaces
    <3> QED  BY <1>1, <2>0, <2>1, <3>1 DEF TypeOK, CallPlaces
  <2>2. CASE BeginTx(p)
    BY <2>1, <2>2 DEF BeginTx, CallPlaces, Busy
  <2>3. CASE SelectMax(p)
    <3>1. version' \in [Puts -> Nat]
      BY <1>1, <2>3, NextVersionType DEF TypeOK, SelectMax
    <3>2. pc' \in [Calls -> CallPlaces]
      BY <1>1, <2>0, <2>3 DEF TypeOK, SelectMax, CallPlaces, Busy
    <3> QED  BY <1>1, <2>3, <3>1, <3>2 DEF TypeOK, SelectMax, CallPlaces
  <2>4. CASE Insert(p)
    BY <2>1, <2>4 DEF Insert, CallPlaces, Busy
  <2>5. CASE InsertRefused(p)
    BY <2>1, <2>5 DEF InsertRefused, CallPlaces, Ended, Refusals
  <2>6. CASE Commit(p)
    <3>1. pc' \in [Calls -> CallPlaces]
      BY <1>1, <2>0, <2>6 DEF TypeOK, Commit, CallPlaces, Busy
    <3>2. prompts' \subseteq [name: {Name[q] : q \in Puts}, version: Nat, by: Puts]
      BY <1>1, <2>6 DEF TypeOK, Commit
    <3> QED  BY <1>1, <2>6, <3>1, <3>2 DEF TypeOK, Commit, CallPlaces
  <2>7. CASE Return(p)
    BY <2>1, <2>7 DEF Return, CallPlaces, Ended
  <2>8. CASE Rollback(p)
    BY <2>1, <2>8 DEF Rollback, CallPlaces, Ended, Refusals
  <2> QED  BY <1>6, <2>2, <2>3, <2>4, <2>5, <2>6, <2>7, <2>8 DEF PutStep
<1>7. ASSUME NEW s \in Saves, Save(s) \/ SaveStep(s) \/ Interrupt(s)
      PROVE  TypeOK'
  <2>0. s \in Calls
    BY DEF Calls
  <2>1. ASSUME NEW place \in CallPlaces, Go(s, place), UNCHANGED <<process, schema, content, tx>>,
               lock' \in {lock, s, Free}
        PROVE  TypeOK'
    <3>1. pc' \in [Calls -> CallPlaces]
      BY <1>1, <2>0, <2>1 DEF TypeOK, CallPlaces
    <3> QED  BY <1>1, <2>0, <2>1, <3>1 DEF TypeOK, CallPlaces
  <2>2. CASE Save(s)
    BY <2>1, <2>2 DEF Save, CallPlaces, Busy, Ended, Refusals
  <2>3. CASE TimesOut(s)
    BY <2>1, <2>3 DEF TimesOut, CallPlaces, Ended, Refusals
  <2>4. CASE Lock(s)
    BY <2>1, <2>4 DEF Lock, CallPlaces, Busy
  <2>5. CASE Write(s)
    <3>1. pc' \in [Calls -> CallPlaces]
      BY <1>1, <2>0, <2>5 DEF TypeOK, Write, CallPlaces, Busy
    <3>2. columns(RecordOf[s]) \in Columns
      BY ColumnsType, SavesAssumption
    <3>3. rows' \subseteq [id: Saves, columns: Columns]
      BY <1>1, <2>5, <3>2 DEF TypeOK, Write
    <3> QED  BY <1>1, <2>5, <3>1, <3>3 DEF TypeOK, Write, CallPlaces
  <2>6. CASE Return(s)
    BY <2>1, <2>6 DEF Return, CallPlaces, Ended
  <2>7. CASE Interrupt(s)
    BY <2>1, <2>7 DEF Interrupt, CallPlaces, Ended, Refusals
  <2> QED  BY <1>7, <2>2, <2>3, <2>4, <2>5, <2>6, <2>7 DEF SaveStep
<1>8. CASE UNCHANGED vars
  BY <1>1, <1>8 DEF TypeOK, vars
<1> QED  BY <1>2, <1>3, <1>4, <1>5, <1>6, <1>7, <1>8 DEF Next, Provision
-----------------------------------------------------------------------------
(* The write lock.                                                         *)

LEMMA PlacesAfterGo ==
  ASSUME TypeOK, NEW c \in Calls, NEW place, Go(c, place)
  PROVE  pc'[c] = place /\ \A d \in Calls : d # c => pc'[d] = pc[d]
BY DEF TypeOK, Go

LEMMA CallsApart ==
  /\ \A p \in Puts : p \in Calls /\ p \notin Saves
  /\ \A s \in Saves : s \in Calls /\ s \notin Puts
BY CallsAssumption DEF Calls

(* A call that takes the lock when it is free, or gives back its own, or   *)
(* leaves it alone.                                                        *)
LEMMA LockMoves ==
  ASSUME TypeOK, Locking, NEW c \in Calls, NEW place, Go(c, place),
         c \in Puts => place \notin {"waiting", "writing", "timeout", "no column"},
         c \in Saves => place \notin {"begun", "read", "inserted", "locked"},
         \/ place \in {"inserted", "writing"} /\ lock = Free /\ lock' = c
         \/ place \notin {"inserted", "writing"} /\ lock' = IF lock = c THEN Free ELSE lock
  PROVE  Locking'
<1>1. pc'[c] = place /\ \A d \in Calls : d # c => pc'[d] = pc[d]
  BY PlacesAfterGo
<1>2. Puts \subseteq Calls /\ Saves \subseteq Calls
  BY DEF Calls
<1>3. \A p \in Puts : pc'[p] \notin {"waiting", "writing", "timeout", "no column"}
  BY <1>1, <1>2 DEF Locking
<1>4. \A s \in Saves : pc'[s] \notin {"begun", "read", "inserted", "locked"}
  BY <1>1, <1>2 DEF Locking
<1>5. \A d \in Calls : pc'[d] \in {"inserted", "writing"} <=> lock' = d
  BY <1>1, CallsAssumption DEF Locking
<1> QED  BY <1>3, <1>4, <1>5 DEF Locking

LEMMA LockingStep == IInv /\ [Next]_vars => Locking'
<1> SUFFICES ASSUME IInv, [Next]_vars PROVE Locking'
  OBVIOUS
<1>1. TypeOK /\ Locking
  BY DEF IInv
<1>2. CASE Start \/ CreateTable \/ AddColumn \/ UNCHANGED vars
  BY <1>1, <1>2 DEF Locking, Start, CreateTable, AddColumn, vars
<1>3. CASE Fault
  <2>1. lock' = Free /\ pc' = [c \in Calls |-> IF pc[c] \in Busy THEN "cut off" ELSE pc[c]]
    BY <1>3 DEF Fault
  <2>2. \A c \in Calls : pc'[c] \in {pc[c], "cut off"} /\ pc'[c] \notin {"inserted", "writing"}
    BY <2>1 DEF Busy
  <2>3. \A c \in Calls : lock' # c
    BY <2>1, CallsAssumption
  <2>4. Puts \subseteq Calls /\ Saves \subseteq Calls
    BY DEF Calls
  <2> QED  BY <1>1, <2>2, <2>3, <2>4 DEF Locking
<1>4. ASSUME NEW p \in Puts, BeginTx(p) \/ PutStep(p) \/ Rollback(p) PROVE Locking'
  <2>1. p \in Calls /\ p \notin Saves
    BY CallsApart
  <2>2. pc[p] \in {"inserted", "writing"} <=> lock = p
    BY <1>1, <2>1 DEF Locking
  <2>3. CASE BeginTx(p)
    BY <1>1, <2>1, <2>2, <2>3, LockMoves DEF BeginTx
  <2>4. CASE SelectMax(p)
    BY <1>1, <2>1, <2>2, <2>4, LockMoves DEF SelectMax
  <2>5. CASE Insert(p)
    BY <1>1, <2>1, <2>2, <2>5, LockMoves DEF Insert, MayWrite
  <2>6. CASE InsertRefused(p)
    BY <1>1, <2>1, <2>2, <2>6, LockMoves DEF InsertRefused
  <2>7. CASE Commit(p)
    BY <1>1, <2>1, <2>2, <2>7, LockMoves DEF Commit
  <2>8. CASE Return(p)
    BY <1>1, <2>1, <2>2, <2>8, LockMoves DEF Return
  <2>9. CASE Rollback(p)
    BY <1>1, <2>1, <2>2, <2>9, LockMoves DEF Rollback
  <2> QED  BY <1>4, <2>3, <2>4, <2>5, <2>6, <2>7, <2>8, <2>9 DEF PutStep
<1>5. ASSUME NEW s \in Saves, Save(s) \/ SaveStep(s) \/ Interrupt(s) PROVE Locking'
  <2>1. s \in Calls /\ s \notin Puts
    BY CallsApart
  <2>2. pc[s] \in {"inserted", "writing"} <=> lock = s
    BY <1>1, <2>1 DEF Locking
  <2>3. CASE Save(s)
    BY <1>1, <2>1, <2>2, <2>3, LockMoves DEF Save
  <2>4. CASE TimesOut(s)
    BY <1>1, <2>1, <2>2, <2>4, LockMoves DEF TimesOut
  <2>5. CASE Lock(s)
    BY <1>1, <2>1, <2>2, <2>5, LockMoves DEF Lock
  <2>6. CASE Write(s)
    BY <1>1, <2>1, <2>2, <2>6, LockMoves DEF Write
  <2>7. CASE Return(s)
    BY <1>1, <2>1, <2>2, <2>7, LockMoves DEF Return
  <2>8. CASE Interrupt(s)
    BY <1>1, <2>1, <2>2, <2>8, LockMoves DEF Interrupt
  <2> QED  BY <1>5, <2>3, <2>4, <2>5, <2>6, <2>7, <2>8 DEF SaveStep
<1> QED  BY <1>2, <1>3, <1>4, <1>5 DEF Next, Provision
-----------------------------------------------------------------------------
(* The rows.  Where a call may go when no row is written: it does not      *)
(* claim to have written, does not deny it, and an INSERT into prompts is  *)
(* let through for the newest snapshot only.                               *)

Honest ==
  /\ \A c \in Calls :
       /\ pc[c] \in HasWritten => pc'[c] \in HasWritten
       /\ pc'[c] \in {"committed", "ok"} => pc[c] \in {"committed", "ok"}
  /\ \A p \in Puts :
       /\ pc'[p] \in {"read", "inserted"} => pc[p] \in {"read", "inserted"}
       /\ pc'[p] = "inserted" => snap[p] = commits

LEMMA RowsKept ==
  ASSUME Versioning, Recording, Honest, UNCHANGED <<prompts, rows, commits, snap, version>>
  PROVE  Versioning' /\ Recording'
<1>1. \A n : Versions(n)' = Versions(n)
  BY DEF Versions
<1>2. \A p \in Puts : Row(p)' = Row(p)
  BY DEF Row
<1>3. Puts \subseteq Calls /\ Saves \subseteq Calls
  BY DEF Calls
<1>4. \A n, k : Numbered(n, k)' <=> Numbered(n, k)
  BY <1>1 DEF Numbered
<1>5. (\A p \in Puts : \E k \in Nat : Numbered(Name[p], k))'
  BY <1>4 DEF Versioning
<1>6. (\A p \in Puts : pc[p] \in {"read", "inserted"} =>
         /\ snap[p] <= commits
         /\ snap[p] = commits => version[p] \in Nat \ {0} /\ Numbered(Name[p], version[p] - 1))'
  BY <1>4 DEF Versioning, Honest
<1>7. (\A p \in Puts : pc[p] = "inserted" => snap[p] = commits)'
  BY DEF Honest
<1>8. (\A r \in prompts : r.by \in Puts /\ r = Row(r.by) /\ pc[r.by] \in HasWritten)'
  BY <1>2, <1>3 DEF Versioning, Honest
<1>9. (\A p \in Puts : pc[p] \in {"committed", "ok"} => Row(p) \in prompts)'
  BY <1>2, <1>3 DEF Versioning, Honest
<1>10. Recording'
  BY <1>3 DEF Recording, Honest, Record
<1> QED  BY <1>5, <1>6, <1>7, <1>8, <1>9, <1>10 DEF Versioning

(* A first SELECT: the next version is the one after the last.             *)
LEMMA SelectKeeps ==
  ASSUME IInv, NEW p \in Puts, SelectMax(p)
  PROVE  Versioning' /\ Recording'
<1> USE DEF process, schema, content
<1>1. TypeOK /\ Versioning /\ Recording /\ p \in Calls
  BY DEF IInv, Calls
<1>2. pc[p] = "begun" /\ pc'[p] = "read" /\ \A d \in Calls : d # p => pc'[d] = pc[d]
  BY <1>1, PlacesAfterGo DEF SelectMax
<1>3. PICK k \in Nat : Numbered(Name[p], k) /\ MaxVersion(Name[p]) = k
  BY NextVersionType
<1>4. snap'[p] = commits /\ version'[p] = k + 1
  BY <1>1, <1>3 DEF SelectMax, TypeOK
<1>5. \A q \in Puts : q # p => snap'[q] = snap[q] /\ version'[q] = version[q] /\ Row(q)' = Row(q)
  BY <1>1 DEF SelectMax, TypeOK, Row
<1>6. UNCHANGED <<prompts, rows, commits>>
  BY DEF SelectMax
<1>7. \A n, j : Numbered(n, j)' <=> Numbered(n, j)
  BY <1>6 DEF Numbered, Versions
<1>8. Puts \subseteq Calls /\ Saves \subseteq Calls /\ p \notin Saves
  BY CallsApart DEF Calls
<1>9. (\A q \in Puts : \E j \in Nat : Numbered(Name[q], j))'
  BY <1>1, <1>7 DEF Versioning
<1>10. (\A q \in Puts : pc[q] \in {"read", "inserted"} =>
         /\ snap[q] <= commits
         /\ snap[q] = commits => version[q] \in Nat \ {0} /\ Numbered(Name[q], version[q] - 1))'
  <2> SUFFICES ASSUME NEW q \in Puts, pc'[q] \in {"read", "inserted"}
               PROVE  (/\ snap[q] <= commits
                       /\ snap[q] = commits => version[q] \in Nat \ {0} /\ Numbered(Name[q], version[q] - 1))'
    OBVIOUS
  <2>1. CASE q = p
    <3>1. version'[q] \in Nat \ {0} /\ version'[q] - 1 = k
      BY <1>3, <1>4, <2>1
    <3>2. snap'[q] <= commits'
      BY <1>1, <1>4, <1>6, <2>1 DEF TypeOK
    <3>3. Numbered(Name[q], version[q] - 1)'
      BY <1>3, <1>7, <2>1, <3>1
    <3> QED  BY <3>1, <3>2, <3>3
  <2>2. CASE q # p
    BY <1>1, <1>2, <1>5, <1>6, <1>7, <1>8, <2>2 DEF Versioning
  <2> QED  BY <2>1, <2>2
<1>11. (\A q \in Puts : pc[q] = "inserted" => snap[q] = commits)'
  BY <1>1, <1>2, <1>5, <1>6, <1>8 DEF Versioning
<1>12. (\A r \in prompts : r.by \in Puts /\ r = Row(r.by) /\ pc[r.by] \in HasWritten)'
  BY <1>1, <1>2, <1>5, <1>6, <1>8 DEF Versioning, HasWritten
<1>13. (\A q \in Puts : pc[q] \in {"committed", "ok"} => Row(q) \in prompts)'
  BY <1>1, <1>2, <1>5, <1>6, <1>8 DEF Versioning
<1>14. (\A r, q \in prompts : r.name = q.name /\ r.version = q.version => r = q)'
  BY <1>1, <1>6 DEF Versioning
<1>15. Recording'
  BY <1>1, <1>2, <1>6, <1>8 DEF Recording, Record
<1> QED  BY <1>9, <1>10, <1>11, <1>12, <1>13, <1>14, <1>15 DEF Versioning

(* A COMMIT: the new row has the next version, and every other snapshot is *)
(* stale from now on.                                                      *)
LEMMA CommitKeeps ==
  ASSUME IInv, NEW p \in Puts, Commit(p)
  PROVE  Versioning' /\ Recording'
<1> USE DEF process, schema, content, tx
<1>1. TypeOK /\ Locking /\ Versioning /\ Recording /\ p \in Calls
  BY DEF IInv, Calls
<1>2. pc[p] = "inserted" /\ pc'[p] = "committed" /\ \A d \in Calls : d # p => pc'[d] = pc[d]
  BY <1>1, PlacesAfterGo DEF Commit
<1>3. commits' = commits + 1 /\ commits \in Nat /\ UNCHANGED <<rows, snap, version>>
  BY <1>1 DEF Commit, TypeOK
<1>4. prompts' = prompts \cup {Row(p)} /\ \A q \in Puts : Row(q)' = Row(q)
  BY DEF Commit, Row
<1>5. version[p] \in Nat \ {0} /\ Numbered(Name[p], version[p] - 1)
  BY <1>1, <1>2 DEF Versioning
<1>6. Puts \subseteq Calls /\ Saves \subseteq Calls /\ p \notin Saves
  BY CallsApart DEF Calls
<1>7. \A n : Versions(n)' = Versions(n) \cup (IF Row(p).name = n THEN {Row(p).version} ELSE {})
  BY <1>4, VersionsOfMore
<1>8. Row(p).name = Name[p] /\ Row(p).version = version[p] /\ Row(p).by = p
  BY DEF Row
<1>9. (\A q \in Puts : \E j \in Nat : Numbered(Name[q], j))'
  <2> SUFFICES ASSUME NEW q \in Puts PROVE \E j \in Nat : Numbered(Name[q], j)'
    OBVIOUS
  <2>1. CASE Name[q] = Name[p]
    <3>1. Versions(Name[q])' = (1..(version[p] - 1)) \cup {version[p]}
      BY <1>5, <1>7, <1>8, <2>1 DEF Numbered
    <3>2. Versions(Name[q])' = 1..version[p]
      BY <3>1, <1>5
    <3> QED  BY <3>2, <1>5 DEF Numbered
  <2>2. CASE Name[q] # Name[p]
    <3>1. Versions(Name[q])' = Versions(Name[q])
      BY <1>7, <1>8, <2>2
    <3> QED  BY <3>1, <1>1 DEF Versioning, Numbered
  <2> QED  BY <2>1, <2>2
<1>10. \A q \in Puts : pc'[q] \in {"read", "inserted"} => snap'[q] < commits' /\ pc'[q] # "inserted"
  <2> SUFFICES ASSUME NEW q \in Puts, pc'[q] \in {"read", "inserted"}
               PROVE  snap'[q] < commits' /\ pc'[q] # "inserted"
    OBVIOUS
  <2>1. q # p /\ pc[q] = pc'[q]
    BY <1>2, <1>6
  <2>2. snap[q] <= commits /\ snap[q] \in Nat
    BY <1>1, <2>1 DEF Versioning, TypeOK
  <2>3. pc[q] # "inserted"
    BY <1>1, <1>2, <1>6, <2>1 DEF Locking
  <2> QED  BY <1>3, <2>1, <2>2, <2>3
<1>11. (\A q \in Puts : pc[q] \in {"read", "inserted"} =>
         /\ snap[q] <= commits
         /\ snap[q] = commits => version[q] \in Nat \ {0} /\ Numbered(Name[q], version[q] - 1))'
  <2> SUFFICES ASSUME NEW q \in Puts, pc'[q] \in {"read", "inserted"}
               PROVE  snap'[q] <= commits' /\ snap'[q] # commits'
    OBVIOUS
  <2>1. snap'[q] < commits' /\ snap'[q] \in Nat /\ commits' \in Nat
    BY <1>1, <1>3, <1>10 DEF TypeOK
  <2> QED  BY <2>1
<1>12. (\A q \in Puts : pc[q] = "inserted" => snap[q] = commits)'
  BY <1>10
<1>13. (\A r \in prompts : r.by \in Puts /\ r = Row(r.by) /\ pc[r.by] \in HasWritten)'
  BY <1>1, <1>2, <1>4, <1>6, <1>8 DEF Versioning, HasWritten
<1>14. (\A q \in Puts : pc[q] \in {"committed", "ok"} => Row(q) \in prompts)'
  BY <1>1, <1>2, <1>4, <1>6 DEF Versioning
<1>15. (\A r, q \in prompts : r.name = q.name /\ r.version = q.version => r = q)'
  <2>1. ASSUME NEW r \in prompts, r.name = Name[p], r.version = version[p] PROVE FALSE
    <3>1. version[p] \in Versions(Name[p])
      BY <2>1 DEF Versions
    <3> QED  BY <3>1, <1>5 DEF Numbered
  <2> QED  BY <2>1, <1>1, <1>4, <1>8 DEF Versioning
<1>16. Recording'
  BY <1>1, <1>2, <1>3, <1>6 DEF Recording, Record
<1> QED  BY <1>9, <1>11, <1>12, <1>13, <1>14, <1>15, <1>16 DEF Versioning

(* A record is written: it too makes every open snapshot stale.            *)
LEMMA WriteKeeps ==
  ASSUME IInv, NEW s \in Saves, Write(s)
  PROVE  Versioning' /\ Recording'
<1> USE DEF process, schema, content, tx
<1>1. TypeOK /\ Locking /\ Versioning /\ Recording /\ s \in Calls /\ s \notin Puts
  BY CallsApart DEF IInv
<1>2. pc[s] = "writing" /\ pc'[s] = "committed" /\ \A d \in Calls : d # s => pc'[d] = pc[d]
  BY <1>1, PlacesAfterGo DEF Write
<1>3. commits' = commits + 1 /\ commits \in Nat /\ UNCHANGED <<prompts, snap, version>>
  BY <1>1 DEF Write, TypeOK
<1>4. Puts \subseteq Calls /\ Saves \subseteq Calls
  BY DEF Calls
<1>5. (\A q \in Puts : \E j \in Nat : Numbered(Name[q], j))'
  BY <1>1, <1>3 DEF Versioning, Numbered, Versions
<1>6. \A q \in Puts : pc'[q] \in {"read", "inserted"} => snap'[q] < commits' /\ pc'[q] # "inserted"
  <2> SUFFICES ASSUME NEW q \in Puts, pc'[q] \in {"read", "inserted"}
               PROVE  snap'[q] < commits' /\ pc'[q] # "inserted"
    OBVIOUS
  <2>1. q # s /\ pc[q] = pc'[q]
    BY <1>1, <1>2, <1>4
  <2>2. snap[q] <= commits /\ snap[q] \in Nat
    BY <1>1, <2>1 DEF Versioning, TypeOK
  <2>3. pc[q] # "inserted"
    BY <1>1, <1>2, <1>4, <2>1 DEF Locking
  <2> QED  BY <1>3, <2>1, <2>2, <2>3
<1>7. (\A q \in Puts : pc[q] \in {"read", "inserted"} =>
         /\ snap[q] <= commits
         /\ snap[q] = commits => version[q] \in Nat \ {0} /\ Numbered(Name[q], version[q] - 1))'
  <2> SUFFICES ASSUME NEW q \in Puts, pc'[q] \in {"read", "inserted"}
               PROVE  snap'[q] <= commits' /\ snap'[q] # commits'
    OBVIOUS
  <2>1. snap'[q] < commits' /\ snap'[q] \in Nat /\ commits' \in Nat
    BY <1>1, <1>3, <1>6 DEF TypeOK
  <2> QED  BY <2>1
<1>8. (\A q \in Puts : pc[q] = "inserted" => snap[q] = commits)'
  BY <1>6
<1>9. (\A r \in prompts : r.by \in Puts /\ r = Row(r.by) /\ pc[r.by] \in HasWritten)'
  BY <1>1, <1>2, <1>3, <1>4 DEF Versioning, HasWritten, Row
<1>10. (\A q \in Puts : pc[q] \in {"committed", "ok"} => Row(q) \in prompts)'
  BY <1>1, <1>2, <1>3, <1>4 DEF Versioning, Row
<1>11. (\A r, q \in prompts : r.name = q.name /\ r.version = q.version => r = q)'
  BY <1>1, <1>3 DEF Versioning
<1>12. Recording'
  <2>1. rows' = {r \in rows : r.id # s} \cup {Record(s)} /\ Record(s).id = s
    BY DEF Write, Record
  <2> QED  BY <1>1, <1>2, <1>4, <2>1 DEF Recording, Record, HasWritten
<1> QED  BY <1>5, <1>7, <1>8, <1>9, <1>10, <1>11, <1>12 DEF Versioning

LEMMA HonestGo ==
  ASSUME TypeOK, Versioning, NEW c \in Calls, NEW place, Go(c, place),
         pc[c] \in HasWritten => place \in HasWritten,
         place \in {"committed", "ok"} => pc[c] \in {"committed", "ok"},
         c \in Puts /\ place \in {"read", "inserted"} => pc[c] \in {"read", "inserted"},
         c \in Puts /\ place = "inserted" => snap[c] = commits
  PROVE  Honest
<1>1. pc'[c] = place /\ \A d \in Calls : d # c => pc'[d] = pc[d]
  BY PlacesAfterGo
<1>2. Puts \subseteq Calls
  BY DEF Calls
<1>3. \A d \in Calls :
        /\ pc[d] \in HasWritten => pc'[d] \in HasWritten
        /\ pc'[d] \in {"committed", "ok"} => pc[d] \in {"committed", "ok"}
  BY <1>1
<1>4. \A p \in Puts :
        /\ pc'[p] \in {"read", "inserted"} => pc[p] \in {"read", "inserted"}
        /\ pc'[p] = "inserted" => snap[p] = commits
  BY <1>1, <1>2 DEF Versioning
<1> QED  BY <1>3, <1>4 DEF Honest

LEMMA RowsStep == IInv /\ [Next]_vars => Versioning' /\ Recording'
<1> SUFFICES ASSUME IInv, [Next]_vars PROVE Versioning' /\ Recording'
  OBVIOUS
<1> USE DEF process, schema, content, tx, HasWritten
<1>1. TypeOK /\ Versioning /\ Recording
  BY DEF IInv
<1>2. ASSUME UNCHANGED <<prompts, rows, commits, snap, version>>, Honest PROVE Versioning' /\ Recording'
  BY <1>1, <1>2, RowsKept
<1>3. CASE Start \/ CreateTable \/ AddColumn \/ UNCHANGED vars
  BY <1>1, <1>2, <1>3 DEF Start, CreateTable, AddColumn, vars, Honest, Versioning
<1>4. CASE Fault
  <2>1. pc' = [c \in Calls |-> IF pc[c] \in Busy THEN "cut off" ELSE pc[c]]
    BY <1>4 DEF Fault
  <2>2. Honest
    BY <2>1 DEF Honest, Busy, Calls
  <2> QED  BY <1>2, <1>4, <2>2 DEF Fault
<1>5. ASSUME NEW p \in Puts, BeginTx(p) \/ PutStep(p) \/ Rollback(p)
      PROVE  Versioning' /\ Recording'
  <2>1. p \in Calls /\ Puts \subseteq Calls
    BY DEF Calls
  <2>2. CASE BeginTx(p)
    BY <1>1, <1>2, <2>1, <2>2, HonestGo DEF BeginTx
  <2>3. CASE Insert(p)
    BY <1>1, <1>2, <2>1, <2>3, HonestGo DEF Insert, MayWrite
  <2>4. CASE InsertRefused(p)
    BY <1>1, <1>2, <2>1, <2>4, HonestGo DEF InsertRefused
  <2>5. CASE Return(p)
    BY <1>1, <1>2, <2>1, <2>5, HonestGo DEF Return
  <2>6. CASE Rollback(p)
    BY <1>1, <1>2, <2>1, <2>6, HonestGo DEF Rollback
  <2> QED  BY <1>5, <2>2, <2>3, <2>4, <2>5, <2>6, SelectKeeps, CommitKeeps DEF PutStep
<1>6. ASSUME NEW s \in Saves, Save(s) \/ SaveStep(s) \/ Interrupt(s)
      PROVE  Versioning' /\ Recording'
  <2>1. s \in Calls /\ s \notin Puts /\ Puts \subseteq Calls
    BY CallsApart DEF Calls
  <2>2. CASE Save(s)
    BY <1>1, <1>2, <2>1, <2>2, HonestGo DEF Save
  <2>3. CASE TimesOut(s)
    BY <1>1, <1>2, <2>1, <2>3, HonestGo DEF TimesOut
  <2>4. CASE Lock(s)
    BY <1>1, <1>2, <2>1, <2>4, HonestGo DEF Lock
  <2>5. CASE Return(s)
    BY <1>1, <1>2, <2>1, <2>5, HonestGo DEF Return
  <2>6. CASE Interrupt(s)
    BY <1>1, <1>2, <2>1, <2>6, HonestGo DEF Interrupt
  <2> QED  BY <1>6, <2>2, <2>3, <2>4, <2>5, <2>6, WriteKeeps DEF SaveStep
<1> QED  BY <1>3, <1>4, <1>5, <1>6 DEF Next, Provision

LEMMA IInvStep == IInv /\ [Next]_vars => IInv'
BY TypeStep, LockingStep, RowsStep DEF IInv

LEMMA IInvHolds == Spec => []IInv
BY InitInv, IInvStep, PTL DEF Spec

(* TypeOK of Store: the tables, rows and places of sqlite.go.              *)
THEOREM TypeCorrect == Spec => []TypeOK
BY IInvHolds, PTL DEF IInv
-----------------------------------------------------------------------------
(* What a caller was told is in the store is read back unchanged, under    *)
(* the version it was told, and each prompt has one latest row.            *)
LEMMA Readable == IInv => ConfirmedIsReadable
<1> SUFFICES ASSUME IInv PROVE ConfirmedIsReadable
  OBVIOUS
<1>1. Versioning /\ Recording
  BY DEF IInv
<1>2. ASSUME NEW s \in Saves, pc[s] = "ok" PROVE Get(s) = {RecordOf[s]}
  <2>1. {q \in rows : q.id = s} = {Record(s)}
    BY <1>1, <1>2 DEF Recording, Record
  <2>2. Get(s) = {scan(Record(s).columns)}
    BY <2>1 DEF Get
  <2> QED  BY <2>2, ScanInvertsColumns, SavesAssumption DEF Record
<1>3. \A p \in Puts : pc[p] = "ok" => GetVersion(Name[p], version[p]) = {Row(p)}
  <2> SUFFICES ASSUME NEW p \in Puts, pc[p] = "ok" PROVE GetVersion(Name[p], version[p]) = {Row(p)}
    OBVIOUS
  <2>1. Row(p) \in prompts /\ Row(p).name = Name[p] /\ Row(p).version = version[p]
    BY <1>1 DEF Versioning, Row
  <2> QED  BY <1>1, <2>1 DEF Versioning, GetVersion
<1>4. ASSUME NEW p \in Puts, pc[p] = "ok"
      PROVE  \E r \in ListPrompts : r.name = Name[p] /\ r.version >= version[p]
  <2>1. PICK k \in Nat : Numbered(Name[p], k) /\ MaxVersion(Name[p]) = k
    BY NextVersionType
  <2>2. Row(p) \in prompts /\ Row(p).name = Name[p] /\ Row(p).version = version[p]
    BY <1>1, <1>4 DEF Versioning, Row
  <2>3. version[p] \in 1..k
    BY <2>1, <2>2 DEF Numbered, Versions
  <2>4. k \in Versions(Name[p])
    BY <2>1, <2>3 DEF Numbered
  <2>5. PICK r \in prompts : r.name = Name[p] /\ r.version = k
    BY <2>4 DEF Versions
  <2>6. r \in GetLatest(Name[p]) /\ GetLatest(Name[p]) \subseteq ListPrompts
    BY <2>1, <2>2, <2>5 DEF GetLatest, GetVersion, ListPrompts
  <2> QED  BY <2>3, <2>5, <2>6
<1>5. \A r, q \in ListPrompts : r.name = q.name => r = q
  BY <1>1 DEF ListPrompts, GetLatest, GetVersion, Versioning
<1> QED  BY <1>2, <1>3, <1>4, <1>5 DEF ConfirmedIsReadable, Row

(* ConfirmedIsReadable, for every schedule, cancellation and crash.        *)
THEOREM AlwaysReadable == Spec => []ConfirmedIsReadable
BY IInvHolds, Readable, PTL
-----------------------------------------------------------------------------
(* Nobody is turned away for nobody: the file holds one entry for each     *)
(* time it was written, and who holds the lock is about to write.          *)

Counted ==
  /\ IsFiniteSet(prompts) /\ IsFiniteSet(rows)
  /\ commits = Cardinality(prompts) + Cardinality(rows)

LEMMA InitCounted == Init => Counted
BY FS_EmptySet DEF Init, Counted

LEMMA CommitCounts ==
  ASSUME IInv, Counted, NEW p \in Puts, Commit(p)
  PROVE  Counted'
<1>1. prompts' = prompts \cup {Row(p)} /\ rows' = rows /\ commits' = commits + 1
  BY DEF Commit, Row
<1>2. Row(p) \notin prompts
  <2>1. Row(p).by = p /\ pc[p] \notin HasWritten
    BY DEF Row, Commit, HasWritten
  <2> QED  BY <2>1 DEF IInv, Versioning
<1>3. IsFiniteSet(prompts') /\ Cardinality(prompts') = Cardinality(prompts) + 1
  BY <1>1, <1>2, FS_AddElement DEF Counted
<1>4. Cardinality(prompts) \in Nat /\ Cardinality(rows) \in Nat
  BY FS_CardinalityType DEF Counted
<1> QED  BY <1>1, <1>3, <1>4 DEF Counted

LEMMA WriteCounts ==
  ASSUME IInv, Counted, NEW s \in Saves, Write(s)
  PROVE  Counted'
<1>1. prompts' = prompts /\ commits' = commits + 1
  BY DEF Write
<1>2. \A r \in rows : r.id # s
  BY DEF IInv, Recording, Write, HasWritten
<1>3. rows' = rows \cup {Record(s)} /\ Record(s) \notin rows
  <2>1. rows' = {r \in rows : r.id # s} \cup {Record(s)} /\ Record(s).id = s
    BY DEF Write, Record
  <2> QED  BY <1>2, <2>1
<1>4. IsFiniteSet(rows') /\ Cardinality(rows') = Cardinality(rows) + 1
  BY <1>3, FS_AddElement DEF Counted
<1>5. Cardinality(prompts) \in Nat /\ Cardinality(rows) \in Nat
  BY FS_CardinalityType DEF Counted
<1> QED  BY <1>1, <1>4, <1>5 DEF Counted

LEMMA CountedStep == IInv /\ Counted /\ [Next]_vars => Counted'
<1> SUFFICES ASSUME IInv, Counted, [Next]_vars PROVE Counted'
  OBVIOUS
<1>1. CASE UNCHANGED content
  BY <1>1 DEF Counted, content
<1>2. CASE \E p \in Puts : Commit(p)
  BY <1>2, CommitCounts
<1>3. CASE \E s \in Saves : Write(s)
  BY <1>3, WriteCounts
<1>4. \/ UNCHANGED content
      \/ \E p \in Puts : Commit(p)
      \/ \E s \in Saves : Write(s)
  BY DEF Next, Provision, Start, CreateTable, AddColumn, Fault, BeginTx, PutStep, SelectMax, Insert,
         InsertRefused, Return, Rollback, Save, SaveStep, TimesOut, Lock, Interrupt, vars
<1> QED  BY <1>1, <1>2, <1>3, <1>4

(* Who moves to a refusal.                                                 *)
LEMMA WhoIsRefused ==
  ASSUME IInv, [Next]_vars, NEW c \in Calls, pc'[c] # pc[c], pc'[c] \in {"locked", "timeout"}
  PROVE  (c \in Puts /\ InsertRefused(c)) \/ (c \in Saves /\ TimesOut(c))
<1>1. TypeOK
  BY DEF IInv
<1>2. ASSUME NEW d \in Calls, NEW place, Go(d, place)
      PROVE  c = d /\ place \in {"locked", "timeout"}
  BY <1>1, <1>2, PlacesAfterGo
<1>3. CASE Start \/ CreateTable \/ AddColumn \/ UNCHANGED vars
  BY <1>3 DEF Start, CreateTable, AddColumn, vars
<1>4. CASE Fault
  BY <1>4 DEF Fault
<1>5. ASSUME NEW p \in Puts, BeginTx(p) \/ PutStep(p) \/ Rollback(p)
      PROVE  c \in Puts /\ InsertRefused(c)
  <2>1. p \in Calls
    BY DEF Calls
  <2>2. CASE InsertRefused(p)
    BY <1>2, <2>1, <2>2 DEF InsertRefused
  <2>3. CASE ~InsertRefused(p)
    <3>1. \E place : Go(p, place) /\ place \notin {"locked", "timeout"}
      BY <1>5, <2>3 DEF BeginTx, PutStep, SelectMax, Insert, Commit, Return, Rollback
    <3> QED  BY <1>2, <2>1, <3>1
  <2> QED  BY <2>2, <2>3
<1>6. ASSUME NEW s \in Saves, Save(s) \/ SaveStep(s) \/ Interrupt(s)
      PROVE  c \in Saves /\ TimesOut(c)
  <2>1. s \in Calls
    BY DEF Calls
  <2>2. CASE TimesOut(s)
    BY <1>2, <2>1, <2>2 DEF TimesOut
  <2>3. CASE ~TimesOut(s)
    <3>1. \/ Go(s, "waiting") \/ Go(s, "no column") \/ Go(s, "writing")
          \/ Go(s, "committed") \/ Go(s, "ok") \/ Go(s, "in doubt")
      BY <1>6, <2>3 DEF Save, SaveStep, Lock, Write, Return, Interrupt
    <3>2. ASSUME NEW place, Go(s, place), place \notin {"locked", "timeout"} PROVE FALSE
      BY <1>2, <2>1, <3>2
    <3> QED  BY <3>1, <3>2
  <2> QED  BY <2>2, <2>3
<1> QED  BY <1>3, <1>4, <1>5, <1>6 DEF Next, Provision

(* What turned it away.                                                    *)
LEMMA RefusalHasACause ==
  ASSUME IInv, Counted, [Next]_vars, NEW c \in Calls,
         pc'[c] # pc[c], pc'[c] \in {"locked", "timeout"}
  PROVE  \/ \E d \in Calls \ {c} : pc[d] \in {"inserted", "writing"}
         \/ c \in Puts /\ snap[c] < Cardinality(prompts) + Cardinality(rows)
<1>1. TypeOK /\ Locking /\ Versioning
  BY DEF IInv
<1>2. pc[c] \in {"read", "waiting"}
  BY WhoIsRefused DEF InsertRefused, TimesOut
<1>3. CASE lock # Free
  <2>1. lock \in Calls /\ pc[lock] \in {"inserted", "writing"}
    BY <1>1, <1>3 DEF TypeOK, Locking
  <2> QED  BY <1>2, <2>1
<1>4. CASE lock = Free
  <2>1. c \in Puts /\ pc[c] = "read" /\ snap[c] # commits
    BY <1>4, WhoIsRefused DEF InsertRefused, TimesOut, MayWrite
  <2>2. snap[c] <= commits /\ snap[c] \in Nat /\ commits \in Nat
    BY <1>1, <2>1 DEF Versioning, TypeOK
  <2>3. snap[c] < commits
    BY <2>1, <2>2
  <2> QED  BY <2>1, <2>3 DEF Counted
<1> QED  BY <1>3, <1>4

(* RefusedForAWriter, for any number of calls at once: no call is turned   *)
(* away because of one that has itself ended.                              *)
THEOREM RefusedOnlyForAWriter == Spec => RefusedForAWriter
<1> DEFINE Caused == \A c \in Calls :
       pc'[c] # pc[c] /\ pc'[c] \in {"locked", "timeout"} =>
         \/ \E d \in Calls \ {c} : pc[d] \in {"inserted", "writing"}
         \/ c \in Puts /\ snap[c] < Cardinality(prompts) + Cardinality(rows)
<1>1. Spec => []Counted
  BY InitCounted, CountedStep, IInvHolds, PTL DEF Spec
<1>2. IInv /\ Counted /\ [Next]_vars => Caused
  BY RefusalHasACause
<1>3. IInv /\ Counted /\ [Next]_vars => [Caused]_vars
  BY <1>2
<1> HIDE DEF Caused
<1>4. Spec => [][Caused]_vars
  BY <1>1, <1>3, IInvHolds, PTL DEF Spec
<1> QED  BY <1>4 DEF RefusedForAWriter, Caused
-----------------------------------------------------------------------------
(* The store is a Ledger: the refinement mapping step by step.             *)

Answer(place) == CASE place \in Refusals -> "error"
                   [] place \in {"ok", "cut off", "in doubt"} -> place
                   [] OTHER -> "none"

Answers == [c \in Calls |-> Answer(pc[c])]
Numbers == [p \in Puts |-> IF pc[p] = "ok" THEN version[p] ELSE 0]

LEMMA AnswerOf ==
  /\ \A place \in Refusals : Answer(place) = "error"
  /\ \A place \in {"ok", "cut off", "in doubt"} : Answer(place) = place
  /\ \A place : place \notin Refusals \cup {"ok", "cut off", "in doubt"} => Answer(place) = "none"
BY DEF Answer, Refusals

(* A call has an entry only after its commit.                              *)
LEMMA EnteredOf ==
  ASSUME IInv, NEW c \in Calls
  PROVE  /\ pc[c] \notin HasWritten => ~Promise!Entered(c)
         /\ pc[c] \in {"committed", "ok"} => Promise!Entered(c)
<1>1. Versioning /\ Recording
  BY DEF IInv
<1>2. ASSUME Promise!Entered(c) PROVE pc[c] \in HasWritten
  <2>1. (\E r \in rows : r.id = c) \/ \E r \in prompts : r.by = c
    BY <1>2 DEF Promise!Entered
  <2> QED  BY <1>1, <2>1 DEF Versioning, Recording
<1>3. ASSUME pc[c] \in {"committed", "ok"} PROVE Promise!Entered(c)
  <2>1. CASE c \in Puts
    <3>1. Row(c) \in prompts /\ Row(c).by = c
      BY <1>1, <1>3, <2>1 DEF Versioning, Row
    <3> QED  BY <3>1 DEF Promise!Entered
  <2>2. CASE c \in Saves
    <3>1. Record(c) \in rows /\ Record(c).id = c
      BY <1>1, <1>3, <2>2 DEF Recording, Record
    <3>2. c \in {r.id : r \in rows}
      BY <3>1
    <3> QED  BY <3>2 DEF Promise!Entered
  <2> QED  BY <2>1, <2>2 DEF Calls
<1> QED  BY <1>2, <1>3

(* How the mapped answers and numbers change when one call moves.          *)
LEMMA AnswersAfterGo ==
  ASSUME TypeOK, NEW c \in Calls, NEW place, Go(c, place)
  PROVE  Answers' = [Answers EXCEPT ![c] = Answer(place)]
<1>1. pc'[c] = place /\ \A d \in Calls : d # c => pc'[d] = pc[d]
  BY PlacesAfterGo
<1>2. \A d \in Calls : Answers'[d] = IF d = c THEN Answer(place) ELSE Answers[d]
  BY <1>1 DEF Answers
<1> QED  BY <1>2 DEF Answers

LEMMA NumbersAfterGo ==
  ASSUME TypeOK, NEW c \in Calls, NEW place, Go(c, place), pc[c] # "ok",
         place = "ok" => UNCHANGED version,
         \A p \in Puts : p # c => version'[p] = version[p]
  PROVE  Numbers' = IF c \in Puts /\ place = "ok" THEN [Numbers EXCEPT ![c] = version[c]] ELSE Numbers
<1>1. pc'[c] = place /\ \A d \in Calls : d # c => pc'[d] = pc[d]
  BY PlacesAfterGo
<1>2. Puts \subseteq Calls
  BY DEF Calls
<1>3. \A p \in Puts : Numbers'[p] = IF p = c THEN (IF place = "ok" THEN version[c] ELSE 0) ELSE Numbers[p]
  BY <1>1, <1>2 DEF Numbers
<1>4. c \in Puts => Numbers[c] = 0
  BY DEF Numbers
<1> QED  BY <1>3, <1>4 DEF Numbers

(* A step that nobody outside sees.                                        *)
LEMMA Unseen ==
  ASSUME IInv, NEW c \in Calls, NEW place, Go(c, place),
         {place, pc[c]} \cap (Refusals \cup {"ok", "cut off", "in doubt"}) = {},
         UNCHANGED <<prompts, rows>>, \A p \in Puts : p # c => version'[p] = version[p]
  PROVE  UNCHANGED Promise!vars
<1>1. TypeOK
  BY DEF IInv
<1>2. Answers' = Answers
  <2>1. Answer(place) = "none" /\ Answers[c] = "none"
    BY AnswerOf DEF Answers
  <2>2. Answers' = [Answers EXCEPT ![c] = "none"]
    BY <1>1, <2>1, AnswersAfterGo
  <2> QED  BY <2>1, <2>2 DEF Answers
<1>3. Numbers' = Numbers
  BY <1>1, NumbersAfterGo
<1> QED  BY <1>2, <1>3 DEF Promise!vars, Answers, Numbers, Answer

(* A call is refused: it has no entry.                                     *)
LEMMA Refused ==
  ASSUME IInv, NEW c \in Calls, NEW place \in Refusals, Go(c, place),
         pc[c] \notin Refusals \cup HasWritten,
         UNCHANGED <<prompts, rows, version>>
  PROVE  Promise!Refuse(c)
<1>1. TypeOK
  BY DEF IInv
<1>2. Answers[c] = "none"
  BY AnswerOf DEF Answers, HasWritten
<1>3. Answers' = [Answers EXCEPT ![c] = "error"]
  <2>1. Answer(place) = "error"
    BY AnswerOf
  <2> QED  BY <1>1, <2>1, AnswersAfterGo
<1>4. Numbers' = Numbers
  BY <1>1, NumbersAfterGo DEF HasWritten, Refusals
<1>5. ~Promise!Entered(c)
  BY EnteredOf
<1> QED  BY <1>2, <1>3, <1>4, <1>5 DEF Promise!Refuse, Answers, Numbers, Answer

(* A save's context ends: nothing is said of its entry.                    *)
LEMMA Doubted ==
  ASSUME IInv, NEW s \in Saves, Interrupt(s)
  PROVE  Promise!Doubt(s)
<1>1. TypeOK /\ s \in Calls
  BY DEF IInv, Calls
<1>2. /\ pc[s] \in {"waiting", "writing", "committed"} /\ Go(s, "in doubt")
      /\ UNCHANGED <<prompts, rows, version>>
  BY DEF Interrupt, content, tx
<1>3. Answers[s] = "none"
  BY <1>1, <1>2, AnswerOf DEF Answers, Refusals
<1>4. Answers' = [Answers EXCEPT ![s] = "in doubt"]
  BY <1>1, <1>2, AnswerOf, AnswersAfterGo
<1>5. Numbers' = Numbers
  <2>1. \A p \in Puts : pc'[p] = pc[p]
    BY <1>1, <1>2, CallsApart, PlacesAfterGo
  <2> QED  BY <1>2, <2>1 DEF Numbers
<1> QED  BY <1>2, <1>3, <1>4, <1>5 DEF Promise!Doubt, Answers, Numbers, Answer

(* A call is told of its success: it has an entry, with that number.       *)
LEMMA Confirmed ==
  ASSUME IInv, NEW c \in Calls, Return(c)
  PROVE  Promise!Confirm(c)
<1>1. TypeOK /\ Versioning
  BY DEF IInv
<1>2. pc[c] = "committed" /\ Go(c, "ok") /\ UNCHANGED <<prompts, rows, version>>
  BY DEF Return, content, tx
<1>3. Answers[c] = "none"
  BY <1>2, AnswerOf DEF Answers, Refusals
<1>4. Answers' = [Answers EXCEPT ![c] = "ok"]
  BY <1>1, <1>2, AnswerOf, AnswersAfterGo
<1>5. Numbers' = IF c \in Puts THEN [Numbers EXCEPT ![c] = version[c]] ELSE Numbers
  BY <1>1, <1>2, NumbersAfterGo
<1>6. Promise!Entered(c)
  BY <1>2, EnteredOf
<1>7. \/ c \in Puts /\ \E e \in prompts : e.by = c /\ Numbers' = [Numbers EXCEPT ![c] = e.version]
      \/ c \in Saves /\ UNCHANGED Numbers
  <2>1. CASE c \in Puts
    <3>1. Row(c) \in prompts /\ Row(c).by = c /\ Row(c).version = version[c]
      BY <1>1, <1>2, <2>1 DEF Versioning, Row
    <3> QED  BY <1>5, <2>1, <3>1
  <2>2. CASE c \notin Puts
    BY <1>5, <2>2 DEF Calls
  <2> QED  BY <2>1, <2>2
<1> QED  BY <1>2, <1>3, <1>4, <1>6, <1>7 DEF Promise!Confirm, Answers, Numbers, Answer

(* A COMMIT enters the prompt under the next version.                      *)
LEMMA PromptEntered ==
  ASSUME IInv, NEW p \in Puts, Commit(p)
  PROVE  Promise!Enter(p)
<1> USE DEF process, schema, content, tx
<1>1. TypeOK /\ Versioning /\ p \in Calls
  BY DEF IInv, Calls
<1>2. pc[p] = "inserted" /\ Go(p, "committed") /\ UNCHANGED <<rows, version>>
  BY DEF Commit
<1>3. Answers[p] = "none" /\ Answers' = Answers
  <2>1. Answer("inserted") = "none" /\ Answer("committed") = "none"
    BY AnswerOf DEF Refusals
  <2> QED  BY <1>1, <1>2, <2>1, AnswersAfterGo DEF Answers
<1>4. Numbers' = Numbers
  BY <1>1, <1>2, NumbersAfterGo
<1>5. ~Promise!Entered(p)
  BY <1>1, <1>2, EnteredOf DEF HasWritten
<1>6. version[p] \in Nat \ {0} /\ Numbered(Name[p], version[p] - 1)
  BY <1>1, <1>2 DEF Versioning
<1>7. version[p] \in Promise!NextVersions(Name[p])
  <2>1. \A r \in prompts : r.name = Name[p] => r.version \in 1..(version[p] - 1)
    BY <1>6 DEF Numbered, Versions
  <2>2. version[p] # 1 => version[p] - 1 \in Versions(Name[p])
    BY <1>6 DEF Numbered
  <2>3. version[p] # 1 => \E r \in prompts : r.name = Name[p] /\ version[p] = r.version + 1
    BY <1>6, <2>2 DEF Versions
  <2>4. \A e \in Promise!Entries(Name[p]) : e.version < version[p]
    BY <1>6, <2>1 DEF Promise!Entries
  <2>5. version[p] \in {1} \cup {e.version + 1 : e \in Promise!Entries(Name[p])}
    BY <2>3 DEF Promise!Entries
  <2> QED  BY <2>4, <2>5 DEF Promise!NextVersions
<1>8. prompts' = prompts \cup {[name |-> Name[p], version |-> version[p], by |-> p]}
  BY DEF Commit
<1> QED  BY <1>2, <1>3, <1>4, <1>5, <1>7, <1>8 DEF Promise!Enter, Answers, Numbers, Answer

LEMMA RecordEntered ==
  ASSUME IInv, NEW s \in Saves, Write(s)
  PROVE  Promise!Enter(s)
<1> USE DEF process, schema, content, tx
<1>1. TypeOK /\ s \in Calls
  BY DEF IInv, Calls
<1>2. pc[s] = "writing" /\ Go(s, "committed") /\ UNCHANGED <<prompts, version>>
  BY DEF Write
<1>3. Answers[s] = "none" /\ Answers' = Answers
  <2>1. Answer("writing") = "none" /\ Answer("committed") = "none"
    BY AnswerOf DEF Refusals
  <2> QED  BY <1>1, <1>2, <2>1, AnswersAfterGo DEF Answers
<1>4. Numbers' = Numbers
  BY <1>1, <1>2, NumbersAfterGo
<1>5. ~Promise!Entered(s)
  BY <1>1, <1>2, EnteredOf DEF HasWritten
<1>6. {r.id : r \in rows'} = {r.id : r \in rows} \cup {s}
  <2>1. rows' = {r \in rows : r.id # s} \cup {Record(s)} /\ Record(s).id = s
    BY DEF Write, Record
  <2> QED  BY <2>1
<1> QED  BY <1>2, <1>3, <1>4, <1>5, <1>6 DEF Promise!Enter, Answers, Numbers, Answer

(* A crash cuts off the calls that were in the middle of something.        *)
LEMMA CutOff ==
  ASSUME IInv, Fault
  PROVE  Promise!Crash
<1> DEFINE cut == {c \in Calls : pc[c] \in Busy}
<1>1. pc' = [c \in Calls |-> IF pc[c] \in Busy THEN "cut off" ELSE pc[c]]
      /\ UNCHANGED <<prompts, rows, version>>
  BY DEF Fault, content, tx
<1>2. \A c \in cut : Answers[c] = "none"
  BY AnswerOf DEF Answers, Busy, Refusals
<1>3. Answers' = [c \in Calls |-> IF c \in cut THEN "cut off" ELSE Answers[c]]
  BY <1>1, AnswerOf DEF Answers
<1>4. Numbers' = Numbers
  BY <1>1 DEF Numbers, Busy, Calls
<1>5. cut \in SUBSET {c \in Calls : Answers[c] = "none"}
  BY <1>2
<1>6. Promise!Calls = Calls
  BY DEF Promise!Calls, Calls
<1> HIDE DEF cut
<1> QED  BY <1>1, <1>3, <1>4, <1>5, <1>6 DEF Promise!Crash, Answers, Numbers, Answer

LEMMA StepIsPromised == IInv /\ [Next]_vars => [Promise!Next]_(Promise!vars)
<1> SUFFICES ASSUME IInv, [Next]_vars PROVE Promise!Next \/ UNCHANGED Promise!vars
  OBVIOUS
<1> USE DEF process, schema, content, tx
<1>0. Promise!Calls = Calls
  BY DEF Promise!Calls, Calls
<1>1. CASE Start \/ CreateTable \/ AddColumn \/ UNCHANGED vars
  <2>1. UNCHANGED <<prompts, rows, pc, version>>
    BY <1>1 DEF Start, CreateTable, AddColumn, vars
  <2> QED  BY <2>1 DEF Promise!vars
<1>2. CASE Fault
  BY <1>2, CutOff DEF Promise!Next
<1>3. ASSUME NEW p \in Puts, BeginTx(p) \/ PutStep(p) \/ Rollback(p)
      PROVE  Promise!Next \/ UNCHANGED Promise!vars
  <2>1. p \in Calls
    BY DEF Calls
  <2>2. CASE BeginTx(p)
    BY <2>1, <2>2, Unseen DEF BeginTx, Refusals
  <2>3. CASE SelectMax(p)
    <3>1. \A q \in Puts : q # p => version'[q] = version[q]
      BY <2>3 DEF SelectMax, IInv, TypeOK
    <3> QED  BY <2>1, <2>3, <3>1, Unseen DEF SelectMax, Refusals
  <2>4. CASE Insert(p)
    BY <2>1, <2>4, Unseen DEF Insert, Refusals
  <2>5. CASE InsertRefused(p)
    <3>1. Promise!Refuse(p)
      BY <2>1, <2>5, Refused DEF InsertRefused, Refusals, HasWritten
    <3> QED  BY <1>0, <2>1, <3>1 DEF Promise!Next
  <2>6. CASE Commit(p)
    BY <1>0, <2>1, <2>6, PromptEntered DEF Promise!Next
  <2>7. CASE Return(p)
    BY <1>0, <2>1, <2>7, Confirmed DEF Promise!Next
  <2>8. CASE Rollback(p)
    <3>1. Promise!Refuse(p)
      BY <2>1, <2>8, Refused DEF Rollback, Refusals, HasWritten
    <3> QED  BY <1>0, <2>1, <3>1 DEF Promise!Next
  <2> QED  BY <1>3, <2>2, <2>3, <2>4, <2>5, <2>6, <2>7, <2>8 DEF PutStep
<1>4. ASSUME NEW s \in Saves, Save(s) \/ SaveStep(s) \/ Interrupt(s)
      PROVE  Promise!Next \/ UNCHANGED Promise!vars
  <2>1. s \in Calls
    BY DEF Calls
  <2>2. CASE Save(s)
    <3>1. CASE HasColumns(s)
      BY <2>1, <2>2, <3>1, Unseen DEF Save, Refusals
    <3>2. CASE ~HasColumns(s)
      <4>1. Promise!Refuse(s)
        BY <2>1, <2>2, <3>2, Refused DEF Save, Refusals, HasWritten
      <4> QED  BY <1>0, <2>1, <4>1 DEF Promise!Next
    <3> QED  BY <3>1, <3>2
  <2>3. CASE TimesOut(s)
    <3>1. Promise!Refuse(s)
      BY <2>1, <2>3, Refused DEF TimesOut, Refusals, HasWritten
    <3> QED  BY <1>0, <2>1, <3>1 DEF Promise!Next
  <2>4. CASE Lock(s)
    BY <2>1, <2>4, Unseen DEF Lock, Refusals
  <2>5. CASE Write(s)
    BY <1>0, <2>1, <2>5, RecordEntered DEF Promise!Next
  <2>6. CASE Return(s)
    BY <1>0, <2>1, <2>6, Confirmed DEF Promise!Next
  <2>7. CASE Interrupt(s)
    BY <1>0, <2>1, <2>7, Doubted DEF Promise!Next
  <2> QED  BY <1>4, <2>2, <2>3, <2>4, <2>5, <2>6, <2>7 DEF SaveStep
<1> QED  BY <1>1, <1>2, <1>3, <1>4 DEF Next, Provision

(* ImplementsLedger: whatever the schedule and the crashes, the store is   *)
(* the ledger it promises to be.                                           *)
THEOREM StoreIsALedger == Spec => ImplementsLedger
<1>1. Init => Promise!Init
  <2>1. Init => Answers = [c \in Calls |-> "none"] /\ Numbers = [p \in Puts |-> 0]
    BY AnswerOf DEF Init, Answers, Numbers, Refusals, Calls
  <2>2. Promise!Calls = Calls
    BY DEF Promise!Calls, Calls
  <2> QED  BY <2>1, <2>2 DEF Init, Promise!Init, Answers, Numbers, Answer
<1> QED  BY <1>1, StepIsPromised, IInvHolds, PTL DEF Spec, ImplementsLedger, Promise!Spec
=============================================================================
