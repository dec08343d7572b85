-------------------------- MODULE MigrationsProofs --------------------------
(***************************************************************************)
(* Opening the database is safe for any number of processes that migrate   *)
(* it at the same time and are killed any number of times.                 *)
(*                                                                         *)
(* Nothing locks the migrations.  Two of their statements do that work:    *)
(* the rename of pair_token succeeds once ever, so at most one process     *)
(* gets past it, and that one fills static_key.                            *)
(***************************************************************************)
EXTENDS Migrations, TLAPS

(* The columns after each statement that changes them.                     *)
Created == {"paired_with", "pair_token"}
Expiring == Created \cup {"expires_at"}
Renamed == {"paired_with", "device_token", "expires_at"}
Keyed == Renamed \cup {"static_key"}

At(p, v, i) == status[p] = "exec" /\ version[p] = v /\ stmt[p] = i
Recording(p, v) == status[p] = "record" /\ version[p] = v
Migrating(p) == status[p] \in {"check", "exec", "record"}

(* The process that renamed pair_token and has not recorded version 3.     *)
Renamer(p) ==
    \/ status[p] = "exec" /\ version[p] = 3 /\ stmt[p] # 1
    \/ Recording(p, 3)

(* A process is at a statement that its migration has.                     *)
Statements ==
    \A p \in Process :
        status[p] = "exec" => version[p] \in Version /\ stmt[p] \in 1..Len(Migration[version[p]])

(* A process is at a version when the ones before it are recorded.         *)
Recorded ==
    \A p \in Process :
        /\ Migrating(p) /\ version[p] # 1 => 1 \in recorded
        /\ Migrating(p) /\ version[p] = 3 => 2 \in recorded
        /\ status[p] = "open" => {1, 2, 3} \subseteq recorded

(* What the schema has once each part of the migrations has run.           *)
Columns ==
    /\ columns \in {{}, Created, Expiring, Renamed, Keyed}
    /\ \A p \in Process : At(p, 1, 2) \/ At(p, 1, 3) \/ Recording(p, 1) => columns # {}
    /\ \A p \in Process : Recording(p, 2) => "expires_at" \in columns
    /\ 1 \in recorded => columns # {}
    /\ 2 \in recorded => "expires_at" \in columns
    /\ 3 \in recorded => columns = Keyed
TokenIndex ==
    /\ \A p \in Process :
           At(p, 1, 3) \/ Recording(p, 1) =>
               ("pair_token" \in columns => "pair_token" \in indexes)
    /\ 1 \in recorded /\ "pair_token" \in columns => "pair_token" \in indexes
    /\ 3 \in recorded => "pair_token" \notin indexes
OtherIndexes ==
    /\ \A p \in Process : Recording(p, 1) => "paired_with" \in indexes
    /\ 1 \in recorded => "paired_with" \in indexes
    /\ 3 \in recorded => "device_token" \in indexes

(* At most one process renames, and how far it is.                         *)
OneRenamer ==
    /\ \A p, q \in Process : Renamer(p) /\ Renamer(q) => p = q
    /\ \A p \in Process : Renamer(p) => "pair_token" \notin columns /\ 3 \notin recorded
RenamerAt ==
    \A p \in Process :
        /\ At(p, 3, 2) => columns = Renamed /\ backfills = 0
        /\ At(p, 3, 3) => columns = Keyed /\ backfills = 0
        /\ At(p, 3, 4) => columns = Keyed /\ backfills = 1
        /\ At(p, 3, 5) => columns = Keyed /\ backfills = 1 /\ "pair_token" \notin indexes
        /\ Recording(p, 3) => /\ columns = Keyed /\ backfills = 1
                              /\ "pair_token" \notin indexes /\ "device_token" \in indexes
Backfills ==
    /\ backfills \in {0, 1}
    /\ backfills = 1 => "static_key" \in columns
    /\ 3 \in recorded => backfills = 1

IInv ==
    /\ TypeOK /\ Statements /\ Recorded
    /\ Columns /\ TokenIndex /\ OtherIndexes
    /\ OneRenamer /\ RenamerAt /\ Backfills

-----------------------------------------------------------------------------
(* There are three migrations; how many statements each has.               *)
LEMMA Versions ==
    /\ Version = 1..3
    /\ Len(Migration[1]) = 3 /\ Len(Migration[2]) = 1 /\ Len(Migration[3]) = 5
BY DEF Version, Migration

(* Statement by statement, when it succeeds and what it does.              *)
LEMMA Migration1 ==
    /\ Migration[1][1] = "create devices"
    /\ Migration[1][2] = "index pair_token"
    /\ Migration[1][3] = "index paired_with"
BY DEF Migration

LEMMA Migration2 == Migration[2][1] = "add expires_at"
BY DEF Migration

LEMMA Migration3 ==
    /\ Migration[3][1] = "rename pair_token"
    /\ Migration[3][2] = "add static_key"
    /\ Migration[3][3] = "backfill static_key"
    /\ Migration[3][4] = "drop index pair_token"
    /\ Migration[3][5] = "index device_token"
BY DEF Migration

(* Nothing has run at the start.                                           *)
LEMMA MigrationsInit == Init => IInv
<1> SUFFICES ASSUME Init PROVE IInv
  OBVIOUS
<1>1. \A p \in Process : status[p] = "down"
  BY DEF Init
<1>2. TypeOK
  BY Versions, CrashesAssumption DEF Init, TypeOK
<1>3. Statements /\ Recorded /\ OneRenamer /\ RenamerAt
  BY <1>1 DEF Statements, Recorded, OneRenamer, RenamerAt, Renamer, Recording, Migrating, At
<1>4. Columns /\ TokenIndex /\ OtherIndexes /\ Backfills
  BY <1>1 DEF Init, Columns, TokenIndex, OtherIndexes, Backfills, Recording, At
<1> QED BY <1>2, <1>3, <1>4 DEF IInv
-----------------------------------------------------------------------------
(* A process that starts, ends, fails, is killed, or finds a version not   *)
(* applied changes nothing but its own place, and is not in the middle of  *)
(* a migration then.                                                       *)
LEMMA MovesPreserve ==
    ASSUME IInv, NEW p \in Process,
           Open(p) \/ CheckNotApplied(p) \/ ExecFails(p) \/ Crash(p) \/ Exit(p)
    PROVE  IInv'
<1> USE Versions DEF IInv
<1>1. UNCHANGED <<columns, indexes, recorded, backfills>>
  BY DEF Open, CheckNotApplied, ExecFails, Crash, Exit, schema
<1>2. \A q \in Process \ {p} :
          status'[q] = status[q] /\ version'[q] = version[q] /\ stmt'[q] = stmt[q]
  BY DEF Open, CheckNotApplied, ExecFails, Crash, Exit, Goto, TypeOK
<1>3. /\ status'[p] \in {"down", "check", "failed", "exec"}
      /\ status'[p] = "check" => version'[p] = 1
      /\ status'[p] = "exec" =>
             status[p] = "check" /\ version'[p] = version[p] /\ stmt'[p] = 1
  BY DEF Open, CheckNotApplied, ExecFails, Crash, Exit, Goto, TypeOK
<1>4. TypeOK'
  <2>1. crashes' \in 0..MaxCrashes
    BY CrashesAssumption DEF Open, CheckNotApplied, ExecFails, Crash, Exit, TypeOK
  <2>2. /\ status' \in [Process -> {"down", "check", "exec", "record", "open", "failed"}]
        /\ version' \in [Process -> Version]
        /\ stmt' \in [Process -> 1..5]
    BY DEF Open, CheckNotApplied, ExecFails, Crash, Exit, Goto, TypeOK
  <2> QED BY <1>1, <2>1, <2>2 DEF TypeOK
<1>5. Statements' /\ Recorded'
  <2>1. ASSUME NEW v \in Version PROVE 1 \in 1..Len(Migration[v])
    <3>1. v = 1 \/ v = 2 \/ v = 3
      OBVIOUS
    <3>2. Len(Migration[v]) \in {1, 3, 5}
      BY <3>1
    <3> QED BY ONLY <3>2
  <2>2. Statements'
    BY <1>2, <1>3, <2>1 DEF Statements, TypeOK
  <2>3. Recorded'
    BY <1>1, <1>2, <1>3 DEF Recorded, Migrating
  <2> QED BY <2>2, <2>3
<1>6. \A q \in Process \ {p}, v \in 1..3, i \in 1..5 :
          (At(q, v, i)' <=> At(q, v, i)) /\ (Recording(q, v)' <=> Recording(q, v))
  BY <1>2 DEF At, Recording
<1>7. \A v \in 1..3, i \in 2..5 : ~At(p, v, i)' /\ ~Recording(p, v)'
  BY <1>3 DEF At, Recording
<1>8. Columns' /\ TokenIndex' /\ OtherIndexes'
  BY <1>1, <1>6, <1>7 DEF Columns, TokenIndex, OtherIndexes
<1>9. OneRenamer'
  BY <1>1, <1>2, <1>3 DEF OneRenamer, Renamer, Recording
<1>10. RenamerAt' /\ Backfills'
  BY <1>1, <1>6, <1>7 DEF RenamerAt, Backfills
<1> QED BY <1>4, <1>5, <1>8, <1>9, <1>10

(* On to the next version when this one is recorded.                       *)
LEMMA NextVersionMoves ==
    ASSUME TypeOK, NEW p \in Process, NextVersion(p)
    PROVE  /\ status' \in [Process -> {"down", "check", "exec", "record", "open", "failed"}]
           /\ version' \in [Process -> Version]
           /\ \A q \in Process \ {p} : status'[q] = status[q] /\ version'[q] = version[q]
           /\ \/ status'[p] = "check" /\ version[p] \in {1, 2} /\ version'[p] = version[p] + 1
              \/ status'[p] = "open" /\ version[p] = 3
BY Versions DEF NextVersion, TypeOK

(* A version is skipped or recorded: recorded is what it was, with the     *)
(* process's version in it.                                                *)
LEMMA PassesPreserve ==
    ASSUME IInv, NEW p \in Process, CheckApplied(p) \/ Record(p)
    PROVE  IInv'
<1> USE Versions, NextVersionMoves DEF IInv
<1>1. /\ UNCHANGED <<columns, indexes, backfills, stmt, crashes>> /\ NextVersion(p)
      /\ recorded' = recorded \cup {version[p]}
      /\ \/ status[p] = "check" /\ version[p] \in recorded
         \/ status[p] = "record"
  BY DEF CheckApplied, Record, schema
<1>2. TypeOK'
  <2>1. /\ status' \in [Process -> {"down", "check", "exec", "record", "open", "failed"}]
        /\ version' \in [Process -> Version]
    BY <1>1
  <2>2. version[p] \in Version /\ recorded \subseteq Version
    BY DEF TypeOK
  <2>3. recorded' \subseteq Version
    BY ONLY <1>1, <2>2
  <2> QED BY <1>1, <2>1, <2>3 DEF TypeOK
<1>3. Statements'
  BY <1>1 DEF Statements
<1>4. version[p] \in {1, 2, 3} /\ Recorded'
  BY <1>1 DEF Recorded, Migrating, TypeOK
<1>5. \A q \in Process \ {p}, v \in 1..3, i \in 1..5 :
          (At(q, v, i)' <=> At(q, v, i)) /\ (Recording(q, v)' <=> Recording(q, v))
  BY <1>1 DEF At, Recording
<1>6. \A v \in 1..3, i \in 1..5 : ~At(p, v, i)' /\ ~Recording(p, v)'
  BY <1>1 DEF At, Recording
<1>7. version[p] \in recorded \/ Recording(p, version[p])
  BY <1>1 DEF Recording
<1>8. Columns'
  BY <1>1, <1>4, <1>5, <1>6, <1>7 DEF Columns, RenamerAt
<1>9. TokenIndex' /\ OtherIndexes'
  BY <1>1, <1>4, <1>5, <1>6, <1>7 DEF TokenIndex, OtherIndexes, RenamerAt
<1>10. OneRenamer'
  <2>1. \A q \in Process : Renamer(q)' => q # p /\ Renamer(q)
    BY <1>1 DEF Renamer, Recording
  <2>2. version[p] = 3 => 3 \in recorded \/ Renamer(p)
    BY <1>7 DEF Renamer
  <2> QED BY <1>1, <2>1, <2>2 DEF OneRenamer
<1>11. RenamerAt' /\ Backfills'
  BY <1>1, <1>4, <1>5, <1>6, <1>7 DEF RenamerAt, Backfills
<1> QED BY <1>2, <1>3, <1>4, <1>8, <1>9, <1>10, <1>11
-----------------------------------------------------------------------------
(* A process is at one of nine statements ...                              *)
LEMMA NineStatements ==
    ASSUME IInv, NEW p \in Process, status[p] = "exec"
    PROVE  \/ At(p, 1, 1) \/ At(p, 1, 2) \/ At(p, 1, 3) \/ At(p, 2, 1)
           \/ At(p, 3, 1) \/ At(p, 3, 2) \/ At(p, 3, 3) \/ At(p, 3, 4) \/ At(p, 3, 5)
<1>1. version[p] = 1 \/ version[p] = 2 \/ version[p] = 3
  BY Versions DEF IInv, TypeOK
<1>2. stmt[p] \in 1..Len(Migration[version[p]])
  BY DEF IInv, Statements
<1>3. CASE version[p] = 1
  <2>1. stmt[p] \in 1..3
    BY <1>2, <1>3, Versions
  <2> QED BY <1>3, <2>1 DEF At
<1>4. CASE version[p] = 2
  <2>1. stmt[p] \in 1..1
    BY <1>2, <1>4, Versions
  <2> QED BY <1>4, <2>1 DEF At
<1>5. CASE version[p] = 3
  <2>1. stmt[p] \in 1..5
    BY <1>2, <1>5, Versions
  <2> QED BY <1>5, <2>1 DEF At
<1> QED BY <1>1, <1>3, <1>4, <1>5

(* ... and after it at the next one, or about to record the version.       *)
LEMMA ExecMoves ==
    ASSUME IInv, NEW p \in Process, Exec(p)
    PROVE  /\ status[p] = "exec" /\ UNCHANGED <<recorded, version, crashes>>
           /\ \A q \in Process \ {p} : status'[q] = status[q] /\ stmt'[q] = stmt[q]
           /\ stmt[p] = Len(Migration[version[p]]) => status'[p] = "record" /\ stmt'[p] = 1
           /\ stmt[p] # Len(Migration[version[p]]) =>
                  status'[p] = "exec" /\ stmt'[p] = stmt[p] + 1
BY DEF IInv, TypeOK, Exec, Goto

(* Its place is the only thing that TypeOK, Statements and Recorded see    *)
(* of the step, but for the types of the schema.                           *)
LEMMA ExecPlaces ==
    ASSUME IInv, NEW p \in Process, Exec(p)
    PROVE  TypeOK' /\ Statements' /\ Recorded'
<1> USE DEF IInv
<1>1. stmt'[p] \in 1..5 /\ (status'[p] = "exec" => stmt'[p] \in 1..Len(Migration[version[p]]))
  <2> DEFINE n == Len(Migration[version[p]])
             i == stmt[p]
             j == stmt'[p]
  <2>1. n \in {1, 3, 5}
    <3>1. version[p] = 1 \/ version[p] = 2 \/ version[p] = 3
      BY Versions DEF TypeOK
    <3> QED BY <3>1, Versions
  <2>2. i \in 1..n
    BY ExecMoves DEF Statements
  <2>3. (i = n => status'[p] = "record" /\ j = 1) /\ (i # n => j = i + 1)
    BY ExecMoves, Zenon
  <2>4. j \in 1..5 /\ (status'[p] = "exec" => j \in 1..n)
    <3> HIDE DEF n, i, j
    <3> QED BY ONLY <2>1, <2>2, <2>3
  <2> QED BY <2>4
<1>2. /\ status' \in [Process -> {"down", "check", "exec", "record", "open", "failed"}]
      /\ stmt' \in [Process -> 1..5]
  <2>1. stmt' = [stmt EXCEPT ![p] = stmt'[p]]
    BY DEF Exec, TypeOK
  <2>2. status' \in [Process -> {"down", "check", "exec", "record", "open", "failed"}]
    BY DEF Exec, Goto, TypeOK
  <2> QED BY <1>1, <2>1, <2>2 DEF TypeOK
<1>3. columns' \subseteq Column /\ indexes' \subseteq Index /\ backfills' \in Nat
  <2> DEFINE s == Migration[version[p]][stmt[p]]
  <2>1. columns' = ColumnsAfter(s) /\ indexes' = IndexesAfter(s)
    BY DEF Exec
  <2>2. backfills' = backfills + 1 \/ backfills' = backfills
    BY DEF Exec
  <2> HIDE DEF s
  <2>3. ColumnsAfter(s) \subseteq Column
    BY DEF ColumnsAfter, Column, TypeOK
  <2>4. IndexesAfter(s) \subseteq Index
    BY DEF IndexesAfter, Index, TypeOK
  <2> QED BY <2>1, <2>2, <2>3, <2>4 DEF TypeOK
<1>4. TypeOK'
  BY <1>2, <1>3, ExecMoves DEF TypeOK
<1>5. Statements'
  BY <1>1, ExecMoves DEF Statements, TypeOK
<1>6. Recorded'
  BY ExecMoves DEF Recorded, Migrating
<1> QED BY <1>4, <1>5, <1>6
(* What each statement needs and does.                                     *)
LEMMA ExecEffect ==
    ASSUME IInv, NEW p \in Process, Exec(p)
    PROVE  /\ At(p, 1, 1) =>
                  /\ At(p, 1, 2)' /\ UNCHANGED <<indexes, backfills>>
                  /\ columns' = (IF columns = {} THEN Created ELSE columns)
           /\ At(p, 1, 2) =>
                  /\ At(p, 1, 3)' /\ UNCHANGED <<columns, backfills>>
                  /\ "pair_token" \in indexes \cup columns /\ indexes' = indexes \cup {"pair_token"}
           /\ At(p, 1, 3) =>
                  /\ Recording(p, 1)' /\ UNCHANGED <<columns, backfills>>
                  /\ indexes' = indexes \cup {"paired_with"}
           /\ At(p, 2, 1) =>
                  /\ Recording(p, 2)' /\ UNCHANGED <<indexes, backfills>>
                  /\ columns # {} /\ "expires_at" \notin columns
                  /\ columns' = columns \cup {"expires_at"}
           /\ At(p, 3, 1) =>
                  /\ At(p, 3, 2)' /\ UNCHANGED <<indexes, backfills>>
                  /\ "pair_token" \in columns
                  /\ columns' = (columns \ {"pair_token"}) \cup {"device_token"}
           /\ At(p, 3, 2) =>
                  /\ At(p, 3, 3)' /\ UNCHANGED <<indexes, backfills>>
                  /\ columns' = columns \cup {"static_key"}
           /\ At(p, 3, 3) =>
                  /\ At(p, 3, 4)' /\ UNCHANGED <<columns, indexes>>
                  /\ backfills' = backfills + 1
           /\ At(p, 3, 4) =>
                  /\ At(p, 3, 5)' /\ UNCHANGED <<columns, backfills>>
                  /\ indexes' = indexes \ {"pair_token"}
           /\ At(p, 3, 5) =>
                  /\ Recording(p, 3)' /\ UNCHANGED <<columns, backfills>>
                  /\ indexes' = indexes \cup {"device_token"}
<1> DEFINE s == Migration[version[p]][stmt[p]]
<1>0. /\ version' = version
      /\ stmt[p] # Len(Migration[version[p]]) => status'[p] = "exec" /\ stmt'[p] = stmt[p] + 1
  BY ExecMoves
<1>1. /\ Succeeds(s) /\ columns' = ColumnsAfter(s) /\ indexes' = IndexesAfter(s)
      /\ backfills' = IF s = "backfill static_key" THEN backfills + 1 ELSE backfills
  BY DEF Exec
<1> HIDE DEF s
<1>2. ASSUME At(p, 1, 1)
      PROVE  /\ At(p, 1, 2)' /\ UNCHANGED <<indexes, backfills>>
             /\ columns' = (IF columns = {} THEN Created ELSE columns)
  <2>1. s = "create devices"
    BY <1>2, Migration1 DEF At, s
  <2>2. At(p, 1, 2)'
    BY <1>2, ExecMoves, Versions DEF At
  <2> QED BY <1>1, <2>1, <2>2 DEF Succeeds, ColumnsAfter, IndexesAfter, IndexedOn, Created
<1>3. ASSUME At(p, 1, 2)
      PROVE  /\ At(p, 1, 3)' /\ UNCHANGED <<columns, backfills>>
             /\ "pair_token" \in indexes \cup columns /\ indexes' = indexes \cup {"pair_token"}
  <2>1. s = "index pair_token"
    BY <1>3, Migration1 DEF At, s
  <2>2. At(p, 1, 3)'
    BY <1>3, ExecMoves, Versions DEF At
  <2> QED BY <1>1, <2>1, <2>2 DEF Succeeds, ColumnsAfter, IndexesAfter, IndexedOn
<1>4. ASSUME At(p, 1, 3)
      PROVE  /\ Recording(p, 1)' /\ UNCHANGED <<columns, backfills>>
             /\ indexes' = indexes \cup {"paired_with"}
  <2>1. s = "index paired_with"
    BY <1>4, Migration1 DEF At, s
  <2>2. Recording(p, 1)'
    BY <1>4, ExecMoves, Versions DEF At, Recording
  <2> QED BY <1>1, <2>1, <2>2 DEF Succeeds, ColumnsAfter, IndexesAfter, IndexedOn
<1>5. ASSUME At(p, 2, 1)
      PROVE  /\ Recording(p, 2)' /\ UNCHANGED <<indexes, backfills>>
             /\ columns # {} /\ "expires_at" \notin columns
             /\ columns' = columns \cup {"expires_at"}
  <2>1. s = "add expires_at"
    BY <1>5, Migration2 DEF At, s
  <2>2. Recording(p, 2)'
    BY <1>5, ExecMoves, Versions DEF At, Recording
  <2> QED BY <1>1, <2>1, <2>2 DEF Succeeds, ColumnsAfter, IndexesAfter, IndexedOn
<1>6. ASSUME At(p, 3, 1)
      PROVE  /\ At(p, 3, 2)' /\ UNCHANGED <<indexes, backfills>>
             /\ "pair_token" \in columns
             /\ columns' = (columns \ {"pair_token"}) \cup {"device_token"}
  <2>1. s = "rename pair_token"
    BY <1>6, Migration3 DEF At, s
  <2>2. At(p, 3, 2)'
    <3>1. version[p] = 3 /\ stmt[p] = 1 /\ Len(Migration[version[p]]) = 5
      BY <1>6, Versions DEF At
    <3>2. status'[p] = "exec" /\ stmt'[p] = 1 + 1 /\ version'[p] = 3
      BY ONLY <1>0, <3>1
    <3> QED BY <3>2 DEF At
  <2> QED BY <1>1, <2>1, <2>2 DEF Succeeds, ColumnsAfter, IndexesAfter, IndexedOn
<1>7. ASSUME At(p, 3, 2)
      PROVE  /\ At(p, 3, 3)' /\ UNCHANGED <<indexes, backfills>>
             /\ columns' = columns \cup {"static_key"}
  <2>1. s = "add static_key"
    BY <1>7, Migration3 DEF At, s
  <2>2. At(p, 3, 3)'
    <3>1. version[p] = 3 /\ stmt[p] = 2 /\ Len(Migration[version[p]]) = 5
      BY <1>7, Versions DEF At
    <3>2. status'[p] = "exec" /\ stmt'[p] = 2 + 1 /\ version'[p] = 3
      BY ONLY <1>0, <3>1
    <3> QED BY <3>2 DEF At
  <2> QED BY <1>1, <2>1, <2>2 DEF Succeeds, ColumnsAfter, IndexesAfter, IndexedOn
<1>8. ASSUME At(p, 3, 3)
      PROVE  /\ At(p, 3, 4)' /\ UNCHANGED <<columns, indexes>>
             /\ backfills' = backfills + 1
  <2>1. s = "backfill static_key"
    BY <1>8, Migration3 DEF At, s
  <2>2. At(p, 3, 4)'
    <3>1. version[p] = 3 /\ stmt[p] = 3 /\ Len(Migration[version[p]]) = 5
      BY <1>8, Versions DEF At
    <3>2. status'[p] = "exec" /\ stmt'[p] = 3 + 1 /\ version'[p] = 3
      BY ONLY <1>0, <3>1
    <3> QED BY <3>2 DEF At
  <2> QED BY <1>1, <2>1, <2>2 DEF Succeeds, ColumnsAfter, IndexesAfter, IndexedOn
<1>9. ASSUME At(p, 3, 4)
      PROVE  /\ At(p, 3, 5)' /\ UNCHANGED <<columns, backfills>>
             /\ indexes' = indexes \ {"pair_token"}
  <2>1. s = "drop index pair_token"
    BY <1>9, Migration3 DEF At, s
  <2>2. At(p, 3, 5)'
    <3>1. version[p] = 3 /\ stmt[p] = 4 /\ Len(Migration[version[p]]) = 5
      BY <1>9, Versions DEF At
    <3>2. status'[p] = "exec" /\ stmt'[p] = 4 + 1 /\ version'[p] = 3
      BY ONLY <1>0, <3>1
    <3> QED BY <3>2 DEF At
  <2> QED BY <1>1, <2>1, <2>2 DEF Succeeds, ColumnsAfter, IndexesAfter, IndexedOn
<1>10. ASSUME At(p, 3, 5)
      PROVE  /\ Recording(p, 3)' /\ UNCHANGED <<columns, backfills>>
             /\ indexes' = indexes \cup {"device_token"}
  <2>1. s = "index device_token"
    BY <1>10, Migration3 DEF At, s
  <2>2. Recording(p, 3)'
    BY <1>10, ExecMoves, Versions DEF At, Recording
  <2> QED BY <1>1, <2>1, <2>2 DEF Succeeds, ColumnsAfter, IndexesAfter, IndexedOn
<1> QED BY <1>2, <1>3, <1>4, <1>5, <1>6, <1>7, <1>8, <1>9, <1>10
(* The conjuncts about the schema, and how a step of p reduces to the      *)
(* places of p before and after it: no other process moves.                *)
Schema ==
    /\ Columns /\ TokenIndex /\ OtherIndexes
    /\ OneRenamer /\ RenamerAt /\ Backfills

LEMMA OthersStay ==
    ASSUME IInv, NEW p \in Process, Exec(p)
    PROVE  /\ recorded' = recorded
           /\ \A q \in Process \ {p}, v \in 1..3, i \in 1..5 :
                  (At(q, v, i)' <=> At(q, v, i)) /\ (Recording(q, v)' <=> Recording(q, v))
           /\ \A q \in Process \ {p} : Renamer(q)' <=> Renamer(q)
BY ExecMoves DEF At, Recording, Renamer

(* The columns that tell how far the migrations are.                       *)
LEMMA Chain ==
    /\ Created # {} /\ Expiring # {} /\ Renamed # {} /\ Keyed # {}
    /\ "pair_token" \in Created /\ "pair_token" \in Expiring
    /\ "pair_token" \notin Renamed /\ "pair_token" \notin Keyed
    /\ "expires_at" \notin Created /\ "expires_at" \in Expiring
    /\ "expires_at" \in Renamed /\ "expires_at" \in Keyed
    /\ "static_key" \notin Created /\ "static_key" \notin Expiring
    /\ "static_key" \notin Renamed /\ "static_key" \in Keyed
BY DEF Created, Expiring, Renamed, Keyed

(* Creating the table twice does nothing.                                *)
LEMMA CreateDevices ==
    ASSUME IInv, NEW p \in Process, Exec(p), At(p, 1, 1)
    PROVE  Schema'
<1>1. Columns /\ TokenIndex /\ OtherIndexes /\ OneRenamer /\ RenamerAt /\ Backfills
  BY DEF IInv
<1>2. /\ UNCHANGED <<indexes, backfills>>
      /\ columns' = (IF columns = {} THEN Created ELSE columns)
  BY ExecEffect
<1>3. /\ \A v \in 1..3, i \in 1..5 : (At(p, v, i)' <=> (v = 1 /\ i = 2)) /\ ~Recording(p, v)'
      /\ ~Renamer(p)'
  BY ExecEffect DEF At, Recording, Renamer
<1>4. /\ recorded' = recorded
      /\ \A q \in Process \ {p}, v \in 1..3, i \in 1..5 :
             (At(q, v, i)' <=> At(q, v, i)) /\ (Recording(q, v)' <=> Recording(q, v))
      /\ \A q \in Process \ {p} : Renamer(q)' <=> Renamer(q)
  BY OthersStay
<1>5. Columns'
  BY ONLY <1>1, <1>2, <1>3, <1>4, p \in Process, At(p, 1, 1), Chain DEF Columns
<1>6. TokenIndex'
  BY ONLY <1>1, <1>2, <1>3, <1>4, p \in Process, At(p, 1, 1), Chain
     DEF TokenIndex, Columns
<1>7. OtherIndexes'
  BY ONLY <1>1, <1>2, <1>3, <1>4, p \in Process, At(p, 1, 1), Chain
     DEF OtherIndexes
<1>8. OneRenamer'
  <2>1. \A q \in Process : Renamer(q) => columns # {}
    BY <1>1 DEF IInv, Recorded, Migrating, Renamer, Recording, Columns
  <2> QED BY ONLY <1>1, <1>2, <1>3, <1>4, <2>1, p \in Process, Chain DEF OneRenamer, Columns
<1>9. RenamerAt'
  BY ONLY <1>1, <1>2, <1>3, <1>4, p \in Process, Chain
     DEF RenamerAt, Columns
<1>10. Backfills'
  BY ONLY <1>1, <1>2, <1>3, <1>4, p \in Process, Chain
     DEF Backfills, Columns
<1> QED BY <1>5, <1>6, <1>7, <1>8, <1>9, <1>10 DEF Schema

(* Once dropped, the index on pair_token does not come back.             *)
LEMMA IndexPairToken ==
    ASSUME IInv, NEW p \in Process, Exec(p), At(p, 1, 2)
    PROVE  Schema'
<1>1. Columns /\ TokenIndex /\ OtherIndexes /\ OneRenamer /\ RenamerAt /\ Backfills
  BY DEF IInv
<1>2. /\ UNCHANGED <<columns, backfills>>
      /\ "pair_token" \in columns \/ "pair_token" \in indexes
      /\ indexes' = indexes \cup {"pair_token"}
  BY ExecEffect
<1>3. /\ \A v \in 1..3, i \in 1..5 : (At(p, v, i)' <=> (v = 1 /\ i = 3)) /\ ~Recording(p, v)'
      /\ ~Renamer(p)'
  BY ExecEffect DEF At, Recording, Renamer
<1>4. /\ recorded' = recorded
      /\ \A q \in Process \ {p}, v \in 1..3, i \in 1..5 :
             (At(q, v, i)' <=> At(q, v, i)) /\ (Recording(q, v)' <=> Recording(q, v))
      /\ \A q \in Process \ {p} : Renamer(q)' <=> Renamer(q)
  BY OthersStay
<1>5. Columns'
  BY ONLY <1>1, <1>2, <1>3, <1>4, p \in Process, At(p, 1, 2), Chain DEF Columns
<1>6. TokenIndex'
  BY ONLY <1>1, <1>2, <1>3, <1>4, p \in Process, At(p, 1, 2), Chain
     DEF TokenIndex, Columns
<1>7. OtherIndexes'
  BY ONLY <1>1, <1>2, <1>3, <1>4, p \in Process, At(p, 1, 2), Chain
     DEF OtherIndexes
<1>8. OneRenamer'
  BY ONLY <1>1, <1>2, <1>3, <1>4, p \in Process, Chain DEF OneRenamer, Columns
<1>9. RenamerAt'
  BY ONLY <1>1, <1>2, <1>3, <1>4, p \in Process, Chain
     DEF RenamerAt, Columns
<1>10. Backfills'
  BY ONLY <1>1, <1>2, <1>3, <1>4, p \in Process, Chain
     DEF Backfills, Columns
<1> QED BY <1>5, <1>6, <1>7, <1>8, <1>9, <1>10 DEF Schema

(* The index on paired_with stays.                                       *)
LEMMA IndexPairedWith ==
    ASSUME IInv, NEW p \in Process, Exec(p), At(p, 1, 3)
    PROVE  Schema'
<1>1. Columns /\ TokenIndex /\ OtherIndexes /\ OneRenamer /\ RenamerAt /\ Backfills
  BY DEF IInv
<1>2. /\ UNCHANGED <<columns, backfills>>
      /\ indexes' = indexes \cup {"paired_with"}
  BY ExecEffect
<1>3. /\ \A v \in 1..3, i \in 1..5 : ~At(p, v, i)' /\ (Recording(p, v)' <=> v = 1)
      /\ ~Renamer(p)'
  BY ExecEffect DEF At, Recording, Renamer
<1>4. /\ recorded' = recorded
      /\ \A q \in Process \ {p}, v \in 1..3, i \in 1..5 :
             (At(q, v, i)' <=> At(q, v, i)) /\ (Recording(q, v)' <=> Recording(q, v))
      /\ \A q \in Process \ {p} : Renamer(q)' <=> Renamer(q)
  BY OthersStay
<1>5. Columns'
  BY ONLY <1>1, <1>2, <1>3, <1>4, p \in Process, At(p, 1, 3), Chain DEF Columns
<1>6. TokenIndex'
  BY ONLY <1>1, <1>2, <1>3, <1>4, p \in Process, At(p, 1, 3), Chain
     DEF TokenIndex, Columns
<1>7. OtherIndexes'
  BY ONLY <1>1, <1>2, <1>3, <1>4, p \in Process, At(p, 1, 3), Chain
     DEF OtherIndexes
<1>8. OneRenamer'
  BY ONLY <1>1, <1>2, <1>3, <1>4, p \in Process, Chain DEF OneRenamer, Columns
<1>9. RenamerAt'
  BY ONLY <1>1, <1>2, <1>3, <1>4, p \in Process, Chain
     DEF RenamerAt, Columns
<1>10. Backfills'
  BY ONLY <1>1, <1>2, <1>3, <1>4, p \in Process, Chain
     DEF Backfills, Columns
<1> QED BY <1>5, <1>6, <1>7, <1>8, <1>9, <1>10 DEF Schema

(* A process past the first statement of migration 3 is its renamer.       *)
LEMMA RenamerPlaces ==
    \A p \in Process :
        At(p, 3, 2) \/ At(p, 3, 3) \/ At(p, 3, 4) \/ At(p, 3, 5) \/ Recording(p, 3) => Renamer(p)
BY DEF At, Recording, Renamer

(* expires_at can only be added once.                                      *)
LEMMA AddExpiresAt ==
    ASSUME IInv, NEW p \in Process, Exec(p), At(p, 2, 1)
    PROVE  Schema'
<1>1. Columns /\ TokenIndex /\ OtherIndexes /\ OneRenamer /\ RenamerAt /\ Backfills
  BY DEF IInv
<1>2. /\ UNCHANGED <<indexes, backfills>>
      /\ columns = Created /\ columns' = Expiring
  BY <1>1, ExecEffect, Chain DEF Columns, Created, Expiring
<1>3. /\ \A v \in 1..3, i \in 1..5 : ~At(p, v, i)' /\ (Recording(p, v)' <=> v = 2)
      /\ ~Renamer(p)'
  BY ExecEffect DEF At, Recording, Renamer
<1>4. /\ recorded' = recorded
      /\ \A q \in Process \ {p}, v \in 1..3, i \in 1..5 :
             (At(q, v, i)' <=> At(q, v, i)) /\ (Recording(q, v)' <=> Recording(q, v))
      /\ \A q \in Process \ {p} : Renamer(q)' <=> Renamer(q)
  BY OthersStay
<1>5. Columns'
  BY ONLY <1>1, <1>2, <1>3, <1>4, p \in Process, Chain DEF Columns
<1>6. TokenIndex'
  BY ONLY <1>1, <1>2, <1>3, <1>4, p \in Process, Chain
     DEF TokenIndex, Columns
<1>7. OtherIndexes'
  BY ONLY <1>1, <1>2, <1>3, <1>4, p \in Process, Chain
     DEF OtherIndexes
<1>8. OneRenamer'
  BY ONLY <1>1, <1>2, <1>3, <1>4, p \in Process, Chain DEF OneRenamer, Columns
<1>9. RenamerAt'
  BY ONLY <1>1, <1>2, <1>3, <1>4, p \in Process, Chain
     DEF RenamerAt, Columns, OneRenamer
<1>10. Backfills'
  BY ONLY <1>1, <1>2, <1>3, <1>4, p \in Process, Chain
     DEF Backfills, Columns
<1> QED BY <1>5, <1>6, <1>7, <1>8, <1>9, <1>10 DEF Schema

(* Only a process that no other has preceded renames pair_token.           *)
LEMMA RenamePairToken ==
    ASSUME IInv, NEW p \in Process, Exec(p), At(p, 3, 1)
    PROVE  Schema'
<1>1. Columns /\ TokenIndex /\ OtherIndexes /\ OneRenamer /\ RenamerAt /\ Backfills
  BY DEF IInv
<1>2. /\ UNCHANGED <<indexes, backfills>>
      /\ columns = Expiring /\ columns' = Renamed
  <2>1. /\ "pair_token" \in columns /\ UNCHANGED <<indexes, backfills>>
        /\ columns' = (columns \ {"pair_token"}) \cup {"device_token"}
    BY ExecEffect
  <2>2. "expires_at" \in columns
    BY <1>1 DEF IInv, Recorded, Migrating, At, Columns
  <2>3. columns = Expiring
    BY <1>1, <2>1, <2>2, Chain DEF Columns
  <2> QED BY <2>1, <2>3 DEF Created, Expiring, Renamed
<1>3. /\ \A v \in 1..3, i \in 1..5 : (At(p, v, i)' <=> (v = 3 /\ i = 2)) /\ ~Recording(p, v)'
      /\ Renamer(p)'
  BY ExecEffect DEF At, Recording, Renamer
<1>4. /\ recorded' = recorded
      /\ \A q \in Process \ {p}, v \in 1..3, i \in 1..5 :
             (At(q, v, i)' <=> At(q, v, i)) /\ (Recording(q, v)' <=> Recording(q, v))
      /\ \A q \in Process \ {p} : Renamer(q)' <=> Renamer(q)
  BY OthersStay
<1>5. Columns'
  BY ONLY <1>1, <1>2, <1>3, <1>4, p \in Process, Chain DEF Columns
<1>6. TokenIndex'
  BY ONLY <1>1, <1>2, <1>3, <1>4, p \in Process, Chain
     DEF TokenIndex, Columns
<1>7. OtherIndexes'
  BY ONLY <1>1, <1>2, <1>3, <1>4, p \in Process, Chain
     DEF OtherIndexes
<1>8. OneRenamer'
  BY ONLY <1>1, <1>2, <1>3, <1>4, p \in Process, Chain, RenamerPlaces DEF OneRenamer, Columns
<1>9. RenamerAt'
  <2>1. \A q \in Process \ {p} :
            ~At(q, 3, 2) /\ ~At(q, 3, 3) /\ ~At(q, 3, 4) /\ ~At(q, 3, 5) /\ ~Recording(q, 3)
    BY ONLY <1>1, <1>2, <1>3, p \in Process, Chain, RenamerPlaces DEF OneRenamer
  <2>2. backfills = 0
    BY ONLY <1>1, <1>2, Chain DEF Backfills
  <2> QED BY ONLY <1>2, <1>3, <1>4, <2>1, <2>2, p \in Process DEF RenamerAt
<1>10. Backfills'
  BY ONLY <1>1, <1>2, <1>3, <1>4, p \in Process, Chain
     DEF Backfills, Columns
<1> QED BY <1>5, <1>6, <1>7, <1>8, <1>9, <1>10 DEF Schema

(* That process alone adds static_key ...                                  *)
LEMMA AddStaticKey ==
    ASSUME IInv, NEW p \in Process, Exec(p), At(p, 3, 2)
    PROVE  Schema'
<1>1. Columns /\ TokenIndex /\ OtherIndexes /\ OneRenamer /\ RenamerAt /\ Backfills
  BY DEF IInv
<1>2. /\ UNCHANGED <<indexes, backfills>>
      /\ columns = Renamed /\ columns' = Keyed /\ backfills = 0
  BY <1>1, ExecEffect DEF RenamerAt, Keyed
<1>3. /\ \A v \in 1..3, i \in 1..5 : (At(p, v, i)' <=> (v = 3 /\ i = 3)) /\ ~Recording(p, v)'
      /\ Renamer(p)' /\ Renamer(p)
  BY ExecEffect DEF At, Recording, Renamer
<1>4. /\ recorded' = recorded
      /\ \A q \in Process \ {p}, v \in 1..3, i \in 1..5 :
             (At(q, v, i)' <=> At(q, v, i)) /\ (Recording(q, v)' <=> Recording(q, v))
      /\ \A q \in Process \ {p} : Renamer(q)' <=> Renamer(q)
  BY OthersStay
<1>5. Columns'
  BY ONLY <1>1, <1>2, <1>3, <1>4, p \in Process, Chain DEF Columns
<1>6. TokenIndex'
  BY ONLY <1>1, <1>2, <1>3, <1>4, p \in Process, Chain
     DEF TokenIndex, Columns
<1>7. OtherIndexes'
  BY ONLY <1>1, <1>2, <1>3, <1>4, p \in Process, Chain
     DEF OtherIndexes
<1>8. OneRenamer'
  BY ONLY <1>1, <1>2, <1>3, <1>4, p \in Process, Chain, RenamerPlaces DEF OneRenamer, Columns
<1>9. RenamerAt'
  <2>1. \A q \in Process \ {p} :
            ~At(q, 3, 2) /\ ~At(q, 3, 3) /\ ~At(q, 3, 4) /\ ~At(q, 3, 5) /\ ~Recording(q, 3)
    BY ONLY <1>1, <1>2, <1>3, p \in Process, Chain, RenamerPlaces DEF OneRenamer
  <2> QED BY ONLY <1>2, <1>3, <1>4, <2>1, p \in Process DEF RenamerAt
<1>10. Backfills'
  BY ONLY <1>1, <1>2, <1>3, <1>4, p \in Process, Chain
     DEF Backfills, Columns
<1> QED BY <1>5, <1>6, <1>7, <1>8, <1>9, <1>10 DEF Schema

(* ... fills it ...                                                        *)
LEMMA BackfillStaticKey ==
    ASSUME IInv, NEW p \in Process, Exec(p), At(p, 3, 3)
    PROVE  Schema'
<1>1. Columns /\ TokenIndex /\ OtherIndexes /\ OneRenamer /\ RenamerAt /\ Backfills
  BY DEF IInv
<1>2. /\ UNCHANGED <<columns, indexes>>
      /\ columns = Keyed /\ backfills = 0 /\ backfills' = 1
  BY <1>1, ExecEffect DEF RenamerAt
<1>3. /\ \A v \in 1..3, i \in 1..5 : (At(p, v, i)' <=> (v = 3 /\ i = 4)) /\ ~Recording(p, v)'
      /\ Renamer(p)' /\ Renamer(p)
  BY ExecEffect DEF At, Recording, Renamer
<1>4. /\ recorded' = recorded
      /\ \A q \in Process \ {p}, v \in 1..3, i \in 1..5 :
             (At(q, v, i)' <=> At(q, v, i)) /\ (Recording(q, v)' <=> Recording(q, v))
      /\ \A q \in Process \ {p} : Renamer(q)' <=> Renamer(q)
  BY OthersStay
<1>5. Columns'
  BY ONLY <1>1, <1>2, <1>3, <1>4, p \in Process, Chain DEF Columns
<1>6. TokenIndex'
  BY ONLY <1>1, <1>2, <1>3, <1>4, p \in Process, Chain
     DEF TokenIndex, Columns
<1>7. OtherIndexes'
  BY ONLY <1>1, <1>2, <1>3, <1>4, p \in Process, Chain
     DEF OtherIndexes
<1>8. OneRenamer'
  BY ONLY <1>1, <1>2, <1>3, <1>4, p \in Process, Chain, RenamerPlaces DEF OneRenamer, Columns
<1>9. RenamerAt'
  <2>1. \A q \in Process \ {p} :
            ~At(q, 3, 2) /\ ~At(q, 3, 3) /\ ~At(q, 3, 4) /\ ~At(q, 3, 5) /\ ~Recording(q, 3)
    BY ONLY <1>1, <1>2, <1>3, p \in Process, Chain, RenamerPlaces DEF OneRenamer
  <2> QED BY ONLY <1>2, <1>3, <1>4, <2>1, p \in Process DEF RenamerAt
<1>10. Backfills'
  BY ONLY <1>1, <1>2, <1>3, <1>4, p \in Process, Chain
     DEF Backfills, Columns
<1> QED BY <1>5, <1>6, <1>7, <1>8, <1>9, <1>10 DEF Schema

(* ... drops the old index ...                                             *)
LEMMA DropIndexPairToken ==
    ASSUME IInv, NEW p \in Process, Exec(p), At(p, 3, 4)
    PROVE  Schema'
<1>1. Columns /\ TokenIndex /\ OtherIndexes /\ OneRenamer /\ RenamerAt /\ Backfills
  BY DEF IInv
<1>2. /\ UNCHANGED <<columns, backfills>>
      /\ columns = Keyed /\ backfills = 1 /\ indexes' = indexes \ {"pair_token"}
  BY <1>1, ExecEffect DEF RenamerAt
<1>3. /\ \A v \in 1..3, i \in 1..5 : (At(p, v, i)' <=> (v = 3 /\ i = 5)) /\ ~Recording(p, v)'
      /\ Renamer(p)' /\ Renamer(p)
  BY ExecEffect DEF At, Recording, Renamer
<1>4. /\ recorded' = recorded
      /\ \A q \in Process \ {p}, v \in 1..3, i \in 1..5 :
             (At(q, v, i)' <=> At(q, v, i)) /\ (Recording(q, v)' <=> Recording(q, v))
      /\ \A q \in Process \ {p} : Renamer(q)' <=> Renamer(q)
  BY OthersStay
<1>5. Columns'
  BY ONLY <1>1, <1>2, <1>3, <1>4, p \in Process, Chain DEF Columns
<1>6. TokenIndex'
  BY ONLY <1>1, <1>2, <1>3, <1>4, p \in Process, Chain
     DEF TokenIndex, Columns
<1>7. OtherIndexes'
  BY ONLY <1>1, <1>2, <1>3, <1>4, p \in Process, Chain
     DEF OtherIndexes
<1>8. OneRenamer'
  BY ONLY <1>1, <1>2, <1>3, <1>4, p \in Process, Chain, RenamerPlaces DEF OneRenamer, Columns
<1>9. RenamerAt'
  <2>1. \A q \in Process \ {p} :
            ~At(q, 3, 2) /\ ~At(q, 3, 3) /\ ~At(q, 3, 4) /\ ~At(q, 3, 5) /\ ~Recording(q, 3)
    BY ONLY <1>1, <1>2, <1>3, p \in Process, Chain, RenamerPlaces DEF OneRenamer
  <2> QED BY ONLY <1>2, <1>3, <1>4, <2>1, p \in Process DEF RenamerAt
<1>10. Backfills'
  BY ONLY <1>1, <1>2, <1>3, <1>4, p \in Process, Chain
     DEF Backfills, Columns
<1> QED BY <1>5, <1>6, <1>7, <1>8, <1>9, <1>10 DEF Schema

(* ... and makes the new one.                                              *)
LEMMA IndexDeviceToken ==
    ASSUME IInv, NEW p \in Process, Exec(p), At(p, 3, 5)
    PROVE  Schema'
<1>1. Columns /\ TokenIndex /\ OtherIndexes /\ OneRenamer /\ RenamerAt /\ Backfills
  BY DEF IInv
<1>2. /\ UNCHANGED <<columns, backfills>>
      /\ columns = Keyed /\ backfills = 1 /\ "pair_token" \notin indexes
      /\ indexes' = indexes \cup {"device_token"}
  BY <1>1, ExecEffect DEF RenamerAt
<1>3. /\ \A v \in 1..3, i \in 1..5 : ~At(p, v, i)' /\ (Recording(p, v)' <=> v = 3)
      /\ Renamer(p)' /\ Renamer(p)
  BY ExecEffect DEF At, Recording, Renamer
<1>4. /\ recorded' = recorded
      /\ \A q \in Process \ {p}, v \in 1..3, i \in 1..5 :
             (At(q, v, i)' <=> At(q, v, i)) /\ (Recording(q, v)' <=> Recording(q, v))
      /\ \A q \in Process \ {p} : Renamer(q)' <=> Renamer(q)
  BY OthersStay
<1>5. Columns'
  BY ONLY <1>1, <1>2, <1>3, <1>4, p \in Process, Chain DEF Columns
<1>6. TokenIndex'
  BY ONLY <1>1, <1>2, <1>3, <1>4, p \in Process, Chain
     DEF TokenIndex, Columns
<1>7. OtherIndexes'
  BY ONLY <1>1, <1>2, <1>3, <1>4, p \in Process, Chain
     DEF OtherIndexes
<1>8. OneRenamer'
  BY ONLY <1>1, <1>2, <1>3, <1>4, p \in Process, Chain, RenamerPlaces DEF OneRenamer, Columns
<1>9. RenamerAt'
  <2>1. \A q \in Process \ {p} :
            ~At(q, 3, 2) /\ ~At(q, 3, 3) /\ ~At(q, 3, 4) /\ ~At(q, 3, 5) /\ ~Recording(q, 3)
    BY ONLY <1>1, <1>2, <1>3, p \in Process, Chain, RenamerPlaces DEF OneRenamer
  <2> QED BY ONLY <1>2, <1>3, <1>4, <2>1, p \in Process DEF RenamerAt
<1>10. Backfills'
  BY ONLY <1>1, <1>2, <1>3, <1>4, p \in Process, Chain
     DEF Backfills, Columns
<1> QED BY <1>5, <1>6, <1>7, <1>8, <1>9, <1>10 DEF Schema
-----------------------------------------------------------------------------
(* Every step keeps the invariant.                                         *)
LEMMA MigrationsNext == IInv /\ [Next]_vars => IInv'
<1> SUFFICES ASSUME IInv, [Next]_vars PROVE IInv'
  OBVIOUS
<1>1. ASSUME NEW p \in Process, Exec(p) PROVE IInv'
  <2>1. status[p] = "exec"
    BY <1>1 DEF Exec, Goto
  <2>2. Schema'
    BY <1>1, <2>1, NineStatements, CreateDevices, IndexPairToken, IndexPairedWith,
       AddExpiresAt, RenamePairToken, AddStaticKey, BackfillStaticKey,
       DropIndexPairToken, IndexDeviceToken
  <2>3. TypeOK' /\ Statements' /\ Recorded'
    BY <1>1, ExecPlaces
  <2> QED BY <2>2, <2>3 DEF IInv, Schema
<1>2. ASSUME NEW p \in Process, CheckApplied(p) \/ Record(p) PROVE IInv'
  BY <1>2, PassesPreserve
<1>3. ASSUME NEW p \in Process,
             Open(p) \/ CheckNotApplied(p) \/ ExecFails(p) \/ Crash(p) \/ Exit(p)
      PROVE  IInv'
  BY <1>3, MovesPreserve
<1>4. CASE UNCHANGED vars
  <2> USE <1>4 DEF vars, schema
  <2>1. TypeOK' /\ Statements' /\ Recorded'
    BY DEF IInv, TypeOK, Statements, Recorded, Migrating
  <2>2. Columns' /\ TokenIndex' /\ OtherIndexes'
    BY DEF IInv, Columns, TokenIndex, OtherIndexes, At, Recording
  <2>3. OneRenamer'
    BY DEF IInv, OneRenamer, Renamer, Recording
  <2>4. RenamerAt' /\ Backfills'
    BY DEF IInv, RenamerAt, Backfills, At, Recording
  <2> QED BY <2>1, <2>2, <2>3, <2>4 DEF IInv
<1> QED
  BY <1>1, <1>2, <1>3, <1>4 DEF Next, Step

(* The invariant always holds.                                             *)
THEOREM MigrationsInvariant == Spec => []IInv
BY MigrationsInit, MigrationsNext, PTL DEF Spec

(* The variables have their types.                                         *)
THEOREM MigrationsTyping == Spec => []TypeOK
<1>1. IInv => TypeOK
  BY DEF IInv
<1> QED BY <1>1, MigrationsInvariant, PTL

(* Open returns only when the schema is complete, however many processes   *)
(* migrate the database, fail or are killed at the same time (migrate).    *)
THEOREM MigrationsComplete == Spec => []OpenIsComplete
<1>1. IInv => OpenIsComplete
  <2> SUFFICES ASSUME IInv, NEW p \in Process, status[p] = "open" PROVE Complete
    BY DEF OpenIsComplete
  <2>1. {1, 2, 3} \subseteq recorded
    BY DEF IInv, Recorded
  <2>2. columns = {"paired_with", "device_token", "expires_at", "static_key"}
    BY <2>1 DEF IInv, Columns, Keyed, Renamed
  <2>3. indexes = {"paired_with", "device_token"}
    BY <2>1 DEF IInv, TokenIndex, OtherIndexes, TypeOK, Index
  <2> QED BY <2>2, <2>3 DEF Complete
<1> QED BY <1>1, MigrationsInvariant, PTL

(* static_key is filled from public_key once ever, and before any process  *)
(* has opened the database: no announced key is overwritten.               *)
THEOREM MigrationsBackfillOnce == Spec => []BackfilledOnce
<1>1. IInv => BackfilledOnce
  BY DEF IInv, Backfills, Recorded, BackfilledOnce
<1> QED BY <1>1, MigrationsInvariant, PTL

(* A version that is recorded was applied in full: a slower process that   *)
(* is still in it changes nothing more.                                    *)
THEOREM MigrationsRecordedApplied == Spec => []RecordedMeansApplied
<1>1. IInv => RecordedMeansApplied
  <2> DEFINE Noop(s) == Succeeds(s) => ColumnsAfter(s) = columns /\ IndexesAfter(s) = indexes
  <2> SUFFICES ASSUME IInv, NEW p \in Process, status[p] = "exec", version[p] \in recorded
               PROVE  Noop(Migration[version[p]][stmt[p]])
    BY DEF RecordedMeansApplied
  <2>1. CASE At(p, 1, 1)
    <3>1. Migration[version[p]][stmt[p]] = "create devices" /\ columns # {}
      BY <2>1, Migration1 DEF At, IInv, Columns
    <3> QED BY <3>1 DEF ColumnsAfter, IndexesAfter
  <2>2. CASE At(p, 1, 2)
    <3>1. Migration[version[p]][stmt[p]] = "index pair_token"
      BY <2>2, Migration1 DEF At
    <3>2. "pair_token" \in columns => "pair_token" \in indexes
      BY <2>2 DEF At, IInv, TokenIndex
    <3> QED BY <3>1, <3>2 DEF Succeeds, ColumnsAfter, IndexesAfter, IndexedOn
  <2>3. CASE At(p, 1, 3)
    <3>1. Migration[version[p]][stmt[p]] = "index paired_with" /\ "paired_with" \in indexes
      BY <2>3, Migration1 DEF At, IInv, OtherIndexes
    <3> QED BY <3>1 DEF ColumnsAfter, IndexesAfter
  <2>4. CASE At(p, 2, 1)
    <3>1. Migration[version[p]][stmt[p]] = "add expires_at" /\ "expires_at" \in columns
      BY <2>4, Migration2 DEF At, IInv, Columns
    <3> QED BY <3>1 DEF Succeeds
  <2>5. CASE At(p, 3, 1)
    <3>1. Migration[version[p]][stmt[p]] = "rename pair_token" /\ "pair_token" \notin columns
      BY <2>5, Migration3, Chain DEF At, IInv, Columns
    <3> QED BY <3>1 DEF Succeeds
  <2>6. CASE At(p, 3, 2) \/ At(p, 3, 3) \/ At(p, 3, 4) \/ At(p, 3, 5)
    BY <2>6, RenamerPlaces DEF At, IInv, OneRenamer
  <2> QED BY <2>1, <2>2, <2>3, <2>4, <2>5, <2>6, NineStatements
<1> QED BY <1>1, MigrationsInvariant, PTL
=============================================================================
