----------------------------- MODULE Migrations -----------------------------
(***************************************************************************)
(* Opening the database (internal/database/db.go): the migrations, run by  *)
(* the server and by CLI commands, which may start at the same time on the *)
(* same file and may be killed at any point.                               *)
(*                                                                         *)
(* db.Exec runs the statements of a migration one by one, each its own     *)
(* transaction, and records the version in one more.  The schema is the    *)
(* set of columns and indexes that the migrations touch.                   *)
(***************************************************************************)
EXTENDS Naturals, Sequences

CONSTANTS
    Process,       \* the processes that open the database
    MaxCrashes     \* bound: how often a process is killed while it migrates

ASSUME CrashesAssumption == MaxCrashes \in Nat

VARIABLES
    columns,       \* of table devices; none while there is no table
    indexes,
    recorded,      \* the versions in schema_migrations
    backfills,     \* ghost: how often static_key was filled from public_key
    status,        \* what each process is doing
    version,       \* the migration each process is at
    stmt,          \* the statement of it that is next
    crashes

schema == <<columns, indexes>>
vars == <<schema, recorded, backfills, status, version, stmt, crashes>>

(* Faulty variant: static_key is added by the migration before the one     *)
(* that fills it, so nothing stops a second process from filling it again. *)
MigrationAddsEarly == <<
    <<"create devices", "index pair_token", "index paired_with">>,
    <<"add expires_at", "add static_key">>,
    <<"backfill static_key", "rename pair_token",
      "drop index pair_token", "index device_token">> >>

(* The statements of migration1SQL, migration2SQL and migration3SQL.       *)
Migration == <<
    <<"create devices", "index pair_token", "index paired_with">>,
    <<"add expires_at">>,
    <<"rename pair_token", "add static_key", "backfill static_key",
      "drop index pair_token", "index device_token">> >>

Version == DOMAIN Migration
Statement == UNION {{Migration[v][i] : i \in DOMAIN Migration[v]} : v \in Version}
Column == {"paired_with", "pair_token", "device_token", "expires_at", "static_key"}
Index == {"pair_token", "paired_with", "device_token"}

TypeOK ==
    /\ columns \subseteq Column
    /\ indexes \subseteq Index
    /\ recorded \subseteq Version
    /\ backfills \in Nat
    /\ status \in [Process -> {"down", "check", "exec", "record", "open", "failed"}]
    /\ version \in [Process -> Version]
    /\ stmt \in [Process -> 1..5]
    /\ crashes \in 0..MaxCrashes

Init ==
    /\ columns = {}
    /\ indexes = {}
    /\ recorded = {}
    /\ backfills = 0
    /\ status = [p \in Process |-> "down"]
    /\ version = [p \in Process |-> 1]
    /\ stmt = [p \in Process |-> 1]
    /\ crashes = 0

-----------------------------------------------------------------------------
(* SQLite: whether a statement succeeds, and the schema after it.          *)
IndexedOn(i) == i \in indexes \/ i \in columns

Succeeds(s) ==
    CASE s = "index pair_token"    -> IndexedOn("pair_token")
      [] s = "index paired_with"   -> IndexedOn("paired_with")
      [] s = "add expires_at"      -> columns # {} /\ "expires_at" \notin columns
      [] s = "rename pair_token"   -> "pair_token" \in columns
      [] s = "add static_key"      -> columns # {} /\ "static_key" \notin columns
      [] s = "backfill static_key" -> "static_key" \in columns
      [] s = "index device_token"  -> IndexedOn("device_token")
      [] OTHER                     -> TRUE

ColumnsAfter(s) ==
    CASE s = "create devices" /\ columns = {} -> {"paired_with", "pair_token"}
      [] s = "add expires_at"    -> columns \cup {"expires_at"}
      [] s = "rename pair_token" -> (columns \ {"pair_token"}) \cup {"device_token"}
      [] s = "add static_key"    -> columns \cup {"static_key"}
      [] OTHER                   -> columns

IndexesAfter(s) ==
    CASE s = "index pair_token"      -> indexes \cup {"pair_token"}
      [] s = "index paired_with"     -> indexes \cup {"paired_with"}
      [] s = "drop index pair_token" -> indexes \ {"pair_token"}
      [] s = "index device_token"    -> indexes \cup {"device_token"}
      [] OTHER                       -> indexes

-----------------------------------------------------------------------------
Goto(p, from, to) == status[p] = from /\ status' = [status EXCEPT ![p] = to]

(* Open, and migrate from the first version on.                            *)
Open(p) ==
    /\ status[p] \in {"down", "failed"}
    /\ status' = [status EXCEPT ![p] = "check"]
    /\ version' = [version EXCEPT ![p] = 1]
    /\ stmt' = [stmt EXCEPT ![p] = 1]
    /\ UNCHANGED <<schema, recorded, backfills, crashes>>

(* Faulty variant: the loop runs past the last migration.                  *)
NextVersionPastEnd(p) ==
    /\ status' = [status EXCEPT ![p] = "check"]
    /\ version' = [version EXCEPT ![p] = @ + 1]

(* On to the next version, or done.                                        *)
NextVersion(p) ==
    IF version[p] + 1 \in Version
    THEN /\ status' = [status EXCEPT ![p] = "check"]
         /\ version' = [version EXCEPT ![p] = @ + 1]
    ELSE /\ status' = [status EXCEPT ![p] = "open"]
         /\ UNCHANGED version

(* SELECT COUNT of the version: applied, skip it; otherwise run it.        *)
CheckApplied(p) ==
    /\ status[p] = "check"
    /\ version[p] \in recorded
    /\ NextVersion(p)
    /\ UNCHANGED <<schema, recorded, backfills, stmt, crashes>>

(* Faulty variant: the version is recorded before its statements run.      *)
CheckNotAppliedRecords(p) ==
    /\ Goto(p, "check", "exec")
    /\ version[p] \notin recorded
    /\ recorded' = recorded \cup {version[p]}
    /\ stmt' = [stmt EXCEPT ![p] = 1]
    /\ UNCHANGED <<schema, backfills, version, crashes>>

CheckNotApplied(p) ==
    /\ Goto(p, "check", "exec")
    /\ version[p] \notin recorded
    /\ stmt' = [stmt EXCEPT ![p] = 1]
    /\ UNCHANGED <<schema, recorded, backfills, version, crashes>>

(* db.Exec(m.sql), one statement.                                          *)
Exec(p) ==
    LET s == Migration[version[p]][stmt[p]]
        last == stmt[p] = Len(Migration[version[p]])
    IN
    /\ Goto(p, "exec", IF last THEN "record" ELSE "exec")
    /\ Succeeds(s)
    /\ columns' = ColumnsAfter(s)
    /\ indexes' = IndexesAfter(s)
    /\ backfills' = IF s = "backfill static_key" THEN backfills + 1 ELSE backfills
    /\ stmt' = [stmt EXCEPT ![p] = IF last THEN 1 ELSE @ + 1]
    /\ UNCHANGED <<recorded, version, crashes>>

(* A statement fails, and with it Open.                                    *)
ExecFails(p) ==
    /\ Goto(p, "exec", "failed")
    /\ ~Succeeds(Migration[version[p]][stmt[p]])
    /\ UNCHANGED <<schema, recorded, backfills, version, stmt, crashes>>

(* INSERT OR IGNORE INTO schema_migrations.                                *)
Record(p) ==
    /\ status[p] = "record"
    /\ recorded' = recorded \cup {version[p]}
    /\ NextVersion(p)
    /\ UNCHANGED <<schema, backfills, stmt, crashes>>

(* The process is killed while it migrates, or ends.                       *)
Crash(p) ==
    /\ status[p] \in {"check", "exec", "record"}
    /\ crashes < MaxCrashes
    /\ crashes' = crashes + 1
    /\ status' = [status EXCEPT ![p] = "down"]
    /\ UNCHANGED <<schema, recorded, backfills, version, stmt>>

Exit(p) ==
    /\ Goto(p, "open", "down")
    /\ UNCHANGED <<schema, recorded, backfills, version, stmt, crashes>>

Step(p) ==
    Open(p) \/ CheckApplied(p) \/ CheckNotApplied(p) \/ Exec(p) \/ ExecFails(p) \/ Record(p)

Next == \E p \in Process : Step(p) \/ Crash(p) \/ Exit(p)

(* Processes run, and a command that failed is tried again.                *)
Spec == Init /\ [][Next]_vars /\ \A p \in Process : WF_vars(Step(p))

-----------------------------------------------------------------------------
(* Open returns a database with the schema the server works on, whatever   *)
(* other processes migrate, fail or die at the same time (migrate).        *)
Complete ==
    /\ columns = {"paired_with", "device_token", "expires_at", "static_key"}
    /\ indexes = {"paired_with", "device_token"}
OpenIsComplete == \A p \in Process : status[p] = "open" => Complete

(* Keys announced since are never overwritten: static_key is filled from   *)
(* public_key once ever, and not after a process has opened the database.  *)
BackfilledOnce ==
    /\ backfills <= 1
    /\ (\E p \in Process : status[p] = "open") => backfills = 1

(* A version that is recorded was applied in full: no process has          *)
(* statements of it left to run that would succeed.                        *)
RecordedMeansApplied ==
    \A p \in Process :
        status[p] = "exec" /\ version[p] \in recorded =>
            LET s == Migration[version[p]][stmt[p]] IN
            Succeeds(s) => ColumnsAfter(s) = columns /\ IndexesAfter(s) = indexes

(* A process that is killed while it migrates can be started again.        *)
RestartOpens == \A p \in Process : status[p] = "down" ~> status[p] = "open"
=============================================================================
