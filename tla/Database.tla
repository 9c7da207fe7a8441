------------------------------ MODULE Database ------------------------------
(***************************************************************************)
(* Opening the database (Storage.open, _connect, _migrate and close): the  *)
(* check, the migrations, and the quarantine of a database that raises.    *)
(* SQLite is external: a database is a main file and a write-ahead log of  *)
(* rows that are committed and not yet in the main file; a log without a   *)
(* main file is discarded.  The process may die between any two steps.     *)
(***************************************************************************)
EXTENDS Naturals

CONSTANTS
    Absent,        \* no file
    Rows,          \* rows of the history
    CurrentSchema  \* CURRENT_DB_SCHEMA

ASSUME SchemaAssumption == CurrentSchema \in Nat \ {0}

\* Schema 0 is an empty file; a schema above CurrentSchema is of a later version.
Main == [schema : 0 .. CurrentSchema + 1, rows : SUBSET Rows, sound : BOOLEAN]
Log  == (SUBSET Rows) \cup {Absent}

ASSUME AbsentAssumption == Absent \notin Main /\ \A rows \in SUBSET Rows : rows # Absent

VARIABLES
    db,        \* guardian.db
    wal,       \* guardian.db-wal
    shelf,     \* the guardian.corrupt-*.db files, with their logs
    history,   \* history: every row committed
    halfway,   \* history: a quarantine was left between its two moves
    dstep      \* where open is

dbVars == <<db, wal, shelf, history, halfway, dstep>>

DbSteps == {"closed", "connect", "migrate", "move", "move_wal", "reconnect", "recreate",
            "open", "failed"}
NoRows == [schema |-> 0, rows |-> {}, sound |-> TRUE]
LogRows == IF wal = Absent THEN {} ELSE wal

DbTypeOK ==
    /\ db \in Main \cup {Absent}
    /\ wal \in Log
    /\ shelf \subseteq [main : Main, wal : Log]
    /\ history \subseteq Rows
    /\ halfway \in BOOLEAN
    /\ dstep \in DbSteps

\* What is found at the first start: nothing, or the database of an earlier or
\* later version.
DbInit ==
    /\ db \in [schema : {1, CurrentSchema, CurrentSchema + 1}, rows : {{}}, sound : {TRUE}]
              \cup {Absent}
    /\ wal = Absent
    /\ shelf = {}
    /\ history = {}
    /\ halfway = FALSE
    /\ dstep = "closed"

-----------------------------------------------------------------------------
\* _connect and quick_check, the second time without the check.
Connect ==
    /\ dstep \in {"connect", "reconnect"}
    /\ \/ /\ db = Absent
          /\ db' = NoRows /\ wal' = {}
          /\ dstep' = IF dstep = "connect" THEN "migrate" ELSE "recreate"
       \/ /\ db # Absent /\ db.sound
          /\ wal' = LogRows
          /\ dstep' = IF dstep = "connect" THEN "migrate" ELSE "recreate"
          /\ UNCHANGED db
       \/ /\ db # Absent /\ ~db.sound
          /\ dstep' = "move"
          /\ UNCHANGED <<db, wal>>
    /\ UNCHANGED <<shelf, history, halfway>>

\* _migrate, one transaction at a time.  A newer schema is refused.
Migrate ==
    /\ dstep \in {"migrate", "recreate"}
    /\ IF db.schema > CurrentSchema THEN dstep' = "failed" /\ UNCHANGED db
       ELSE IF db.schema = CurrentSchema THEN dstep' = "open" /\ UNCHANGED db
       ELSE db' = [db EXCEPT !.schema = @ + 1] /\ UNCHANGED dstep
    /\ UNCHANGED <<wal, shelf, history, halfway>>

\* Any other sqlite3.DatabaseError while opening: a lock held for more than 5 s, no
\* space for a migration, an I/O error.  The second time it is not caught.
OpenFails ==
    /\ dstep \in {"connect", "migrate", "reconnect", "recreate"}
    /\ dstep' = IF dstep \in {"connect", "migrate"} THEN "move" ELSE "failed"
    /\ UNCHANGED <<db, wal, shelf, history, halfway>>

\* Faulty variant: the database is copied and stays.
MoveMainCopied ==
    /\ dstep = "move"
    /\ shelf' = IF db = Absent THEN shelf ELSE shelf \cup {[main |-> db, wal |-> Absent]}
    /\ dstep' = "move_wal"
    /\ UNCHANGED <<db, wal, history, halfway>>

\* The quarantine.  Closing the connection may have emptied the log of a sound
\* database into its main file.
MoveMain ==
    /\ dstep = "move"
    /\ \E flushed \in {FALSE} \cup (IF db # Absent /\ db.sound THEN {TRUE} ELSE {}) :
        /\ shelf' = IF db = Absent THEN shelf
                    ELSE shelf \cup {[main |-> IF flushed THEN [db EXCEPT !.rows = @ \cup LogRows]
                                               ELSE db, wal |-> Absent]}
        /\ wal' = IF flushed THEN Absent ELSE wal
    /\ db' = Absent
    /\ dstep' = "move_wal"
    /\ UNCHANGED <<history, halfway>>

\* Faulty variant: the log is not moved with its database.
MoveWalNot ==
    /\ dstep = "move_wal"
    /\ dstep' = "reconnect"
    /\ UNCHANGED <<db, wal, shelf, history, halfway>>

MoveWal ==
    /\ dstep = "move_wal"
    /\ shelf' = IF wal = Absent THEN shelf
                ELSE shelf \cup {[main |-> NoRows, wal |-> wal]}
    /\ wal' = Absent
    /\ dstep' = "reconnect"
    /\ UNCHANGED <<db, history, halfway>>

\* OSError while moving: DatabaseError, open raises.
MoveFails ==
    /\ dstep \in {"move", "move_wal"}
    /\ dstep' = "failed"
    /\ halfway' = (halfway \/ dstep = "move_wal")
    /\ UNCHANGED <<db, wal, shelf, history>>

\* A handler commits a row; SQLite moves the log into the main file.
Commit ==
    /\ \E r \in Rows \ history : wal' = wal \cup {r} /\ history' = history \cup {r}
    /\ UNCHANGED <<db, shelf, halfway, dstep>>

Checkpoint ==
    /\ dstep = "open" /\ wal # {}
    /\ db' = [db EXCEPT !.rows = @ \cup wal]
    /\ wal' = {}
    /\ UNCHANGED <<shelf, history, halfway, dstep>>

\* Storage.close
CloseStorage ==
    /\ db' = [db EXCEPT !.rows = @ \cup wal]
    /\ wal' = Absent
    /\ dstep' = "closed"
    /\ UNCHANGED <<shelf, history, halfway>>

\* The process ends.
DatabaseLost ==
    /\ dstep' = "closed"
    /\ halfway' = (halfway \/ dstep = "move_wal")
    /\ UNCHANGED <<db, wal, shelf, history>>

\* The main file is damaged while nobody has it open.
Damaged ==
    /\ dstep = "closed" /\ db # Absent /\ db.sound
    /\ db' = [db EXCEPT !.sound = FALSE]
    /\ UNCHANGED <<wal, shelf, history, halfway, dstep>>

DbStep == Connect \/ Migrate \/ MoveMain \/ MoveWal

=============================================================================
