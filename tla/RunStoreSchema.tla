---------------------------- MODULE RunStoreSchema ----------------------------
(***************************************************************************)
(* SQLiteStore.__init__ and close (sqlite_store.py): processes that open   *)
(* the run store of one file, whichever release of the program wrote it,   *)
(* and that may die at any point of it.  A migration is one transaction;   *)
(* the statements that create a schema are committed one by one.  The file *)
(* is its user_version, its tables, and the columns later releases added   *)
(* to two of them.                                                         *)
(***************************************************************************)
EXTENDS Naturals, Sequences

CONSTANTS Processes, None

VARIABLES
    opener,   \* each process: where it is, the version it read, its next statement
    lock,     \* the process that holds the lock file
    file      \* the database

schemaVars == <<opener, lock, file>>

Current == 4

\* _create_schema in its order; the index and the triggers go with their table.
Script == <<"runs", "events", "checkpoints", "accepted_replies", "tool_calls",
            "approvals", "artifacts", "append_only", "immutable">>
Statements == {Script[i] : i \in DOMAIN Script}
AddedIn(n) == IF n = 2 THEN {"tool_revision"} ELSE IF n = 3 THEN {"app_id"} ELSE {}
Columns(n) == UNION {AddedIn(k) : k \in 0 .. n}

\* What a release left behind that wrote version n; 0 is a file without a schema.
Database(n) ==
    [version |-> n,
     tables  |-> IF n = 0 THEN {} ELSE IF n < 4 THEN Statements \ {"artifacts", "immutable"}
                 ELSE Statements,
     columns |-> IF n = 0 THEN {} ELSE Columns(n)]

Outside == [at |-> "out", version |-> 0, next |-> 1]

Init ==
    /\ opener = [p \in Processes |-> Outside]
    /\ lock = None
    /\ file \in {Database(n) : n \in 0 .. Current + 1}

\* The lock file admits one process; the others get ConcurrentRunError.
Acquire(p) ==
    /\ opener[p].at = "out" /\ lock = None
    /\ lock' = p
    /\ opener' = [opener EXCEPT ![p].at = "connect"]
    /\ UNCHANGED file

\* An error, close(), or the death of the process: whatever was not committed
\* is rolled back and the lock is free.
Leave(p) ==
    /\ opener[p].at # "out"
    /\ opener' = [opener EXCEPT ![p] = Outside]
    /\ lock' = IF lock = p THEN None ELSE lock
    /\ UNCHANGED file

\* A version of a later release is refused and left alone.
ReadVersion(p) ==
    /\ opener[p].at = "connect" /\ file.version \in 0 .. Current
    /\ opener' = [opener EXCEPT ![p].at = "schema", ![p].version = file.version]
    /\ UNCHANGED <<lock, file>>

\* _migrate_v1, _migrate_v2 and _migrate_v3.
Migrated(db, to) ==
    [version |-> to,
     tables  |-> IF to = 4 THEN db.tables \cup {"artifacts", "immutable"} ELSE db.tables,
     columns |-> db.columns \cup AddedIn(to)]

Migrate(p) ==
    /\ opener[p].at = "schema" /\ opener[p].version \in 1 .. Current - 1
    /\ file' = Migrated(file, opener[p].version + 1)
    /\ opener' = [opener EXCEPT ![p].version = @ + 1]
    /\ UNCHANGED lock

\* IF NOT EXISTS: a table that is there stays as it is, columns and all.
ColumnsOf(table) ==
    IF table = "tool_calls" THEN {"tool_revision"} ELSE IF table = "runs" THEN {"app_id"} ELSE {}
Created_Stamped(db, table) ==
    IF table \in db.tables THEN db
    ELSE [version |-> Current, tables |-> db.tables \cup {table},
          columns |-> db.columns \cup ColumnsOf(table)]
Created(db, table) ==
    IF table \in db.tables THEN db
    ELSE [db EXCEPT !.tables = @ \cup {table}, !.columns = @ \cup ColumnsOf(table)]

Settled(p) == opener[p].at = "schema" /\ opener[p].version \in {0, Current}

Create(p) ==
    /\ Settled(p) /\ opener[p].next \in DOMAIN Script
    /\ file' = Created(file, Script[opener[p].next])
    /\ opener' = [opener EXCEPT ![p].next = @ + 1]
    /\ UNCHANGED lock

\* The version of a new file is written last.
Open(p) ==
    /\ Settled(p) /\ opener[p].next \notin DOMAIN Script
    /\ file' = IF opener[p].version = 0 THEN [file EXCEPT !.version = Current] ELSE file
    /\ opener' = [opener EXCEPT ![p] = [Outside EXCEPT !.at = "open"]]
    /\ UNCHANGED lock

Next == \E p \in Processes :
    Acquire(p) \/ Leave(p) \/ ReadVersion(p) \/ Migrate(p) \/ Create(p) \/ Open(p)

Spec == Init /\ [][Next]_schemaVars
-----------------------------------------------------------------------------
\* Whatever died in between, the file never claims a version it has not got the
\* tables and columns of, so that the next start finds what to do; a process
\* that has the store open has all of them, and has it alone.
SchemaIsWhole ==
    /\ file.version # 0 =>
         /\ Database(file.version).tables \subseteq file.tables
         /\ Database(file.version).columns \subseteq file.columns
    /\ \A p \in Processes : opener[p].at = "open" =>
         /\ file = Database(Current)
         /\ \A q \in Processes \ {p} : opener[q].at = "out"
=============================================================================
