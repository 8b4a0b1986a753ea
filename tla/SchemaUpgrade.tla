---------------------------- MODULE SchemaUpgrade ----------------------------
(***************************************************************************)
(* flask init-db and flask db-upgrade: both run _run_alembic_upgrade, in a *)
(* process of its own that the installer kills after 120 seconds and then  *)
(* offers to run again.  The only migration creates the tables one after   *)
(* the other and ends by recording its revision in alembic_version.        *)
(*                                                                         *)
(* Alembic is external.  On PostgreSQL the upgrade is one transaction; on  *)
(* SQLite and MySQL every CREATE TABLE takes effect at once, and so does   *)
(* the creation of alembic_version that comes before them.                 *)
(***************************************************************************)
EXTENDS Naturals

CONSTANTS Processes,   \* invocations of either command
          NumTables    \* the tables of revision 0001, created in this order

ASSUME NumTablesAssumption == NumTables \in Nat \ {0}

VARIABLES transactional,  \* external: does the database roll DDL back?
          created,        \* how many tables there are
          versioned,      \* is there a table alembic_version?
          head,           \* is revision 0001 recorded in it?
          proc,           \* where each process is, and the table it is at
          interrupted     \* history: has a command been cut short?

schemaVars == <<transactional, created, versioned, head, proc, interrupted>>

Running == {"inspect", "stamp_first", "upgrade", "transact", "create",
            "record", "stamp"}
Ended == {"ok", "error"}

(* A fresh database, or one whose tables were made before Alembic was used. *)
SchemaInit == /\ transactional \in BOOLEAN
        /\ created \in {0, NumTables}
        /\ versioned = FALSE
        /\ head = FALSE
        /\ proc = [p \in Processes |-> [at |-> "ok", table |-> 1]]
        /\ interrupted = FALSE

At(p, at) == proc[p].at = at

Goto(p, at) == proc' = [proc EXCEPT ![p].at = at]

Start(p) == /\ proc[p].at \in Ended
            /\ proc' = [proc EXCEPT ![p] = [at |-> "inspect", table |-> 1]]
            /\ UNCHANGED <<transactional, created, versioned, head, interrupted>>

Inspect(p) ==
  /\ At(p, "inspect")
  /\ Goto(p, IF created > 0 /\ ~versioned THEN "stamp_first" ELSE "upgrade")
  /\ UNCHANGED <<transactional, created, versioned, head, interrupted>>

(* Mutant: a version table is taken for a recorded version.                *)
StampUnversioned(p) ==
  /\ At(p, "stamp_first") \/ At(p, "stamp")
  /\ versioned' = TRUE
  /\ head' = (head \/ ~versioned)
  /\ Goto(p, IF At(p, "stamp") THEN "ok" ELSE "upgrade")
  /\ UNCHANGED <<transactional, created, interrupted>>

(* alembic stamp head                                                      *)
Stamp(p) ==
  /\ At(p, "stamp_first") \/ At(p, "stamp")
  /\ versioned' = TRUE
  /\ head' = TRUE
  /\ Goto(p, IF At(p, "stamp") THEN "ok" ELSE "upgrade")
  /\ UNCHANGED <<transactional, created, interrupted>>

-----------------------------------------------------------------------------
(* alembic upgrade head                                                    *)

NothingToDo(p) ==
  /\ At(p, "upgrade") /\ head
  /\ Goto(p, "ok")
  /\ UNCHANGED <<transactional, created, versioned, head, interrupted>>

BeginTransaction(p) ==
  /\ At(p, "upgrade") /\ ~head /\ transactional
  /\ Goto(p, "transact")
  /\ UNCHANGED <<transactional, created, versioned, head, interrupted>>

(* The first CREATE TABLE waits for a transaction that has created it.     *)
UpgradeInTransaction(p) ==
  /\ At(p, "transact")
  /\ IF created > 0
       THEN /\ Goto(p, "stamp")          \* "already exists", and a rollback
            /\ UNCHANGED <<created, versioned, head>>
       ELSE /\ created' = NumTables
            /\ versioned' = TRUE
            /\ head' = TRUE
            /\ Goto(p, "ok")
  /\ UNCHANGED <<transactional, interrupted>>

EnsureVersionTable(p) ==
  /\ At(p, "upgrade") /\ ~head /\ ~transactional
  /\ versioned' = TRUE
  /\ Goto(p, "create")
  /\ UNCHANGED <<transactional, created, head, interrupted>>

(* Mutant: CREATE TABLE IF NOT EXISTS.                                     *)
CreateTableIfMissing(p) ==
  LET t == proc[p].table IN
  /\ At(p, "create")
  /\ created' = IF created >= t THEN created ELSE t
  /\ proc' = [proc EXCEPT ![p] =
                [at |-> IF t = NumTables THEN "record" ELSE "create",
                 table |-> IF t = NumTables THEN t ELSE t + 1]]
  /\ UNCHANGED <<transactional, versioned, head, interrupted>>

(* Mutant: the list of tables is left one step too late.                   *)
CreateTableByOne(p) ==
  LET t == proc[p].table IN
  /\ At(p, "create")
  /\ created' = t
  /\ proc' = [proc EXCEPT ![p] =
                [at |-> IF t > NumTables THEN "record" ELSE "create", table |-> t + 1]]
  /\ UNCHANGED <<transactional, versioned, head, interrupted>>

CreateTable(p) ==
  LET t == proc[p].table IN
  /\ At(p, "create")
  /\ IF created >= t
       THEN /\ Goto(p, "stamp")          \* "already exists"
            /\ created' = created
       ELSE /\ created' = t
            /\ proc' = [proc EXCEPT ![p] =
                          [at |-> IF t = NumTables THEN "record" ELSE "create",
                           table |-> IF t = NumTables THEN t ELSE t + 1]]
  /\ UNCHANGED <<transactional, versioned, head, interrupted>>

(* The revision is the table's primary key: if another process has stamped *)
(* it, the insert fails, and not with "already exists".                    *)
RecordVersion(p) ==
  /\ At(p, "record")
  /\ head' = TRUE
  /\ Goto(p, IF head THEN "error" ELSE "ok")
  /\ UNCHANGED <<transactional, created, versioned, interrupted>>

(* Mutant: every exception of the upgrade is answered by a stamp.          *)
InterruptAndStamp(p) ==
  /\ proc[p].at \in Running
  /\ Goto(p, IF At(p, "transact") THEN "stamp" ELSE "error")
  /\ interrupted' = TRUE
  /\ UNCHANGED <<transactional, created, versioned, head>>

(* The process is killed, or gets an error that is raised: a lost          *)
(* connection, a locked database, a full disk.                             *)
Interrupt(p) ==
  /\ proc[p].at \in Running
  /\ Goto(p, "error")
  /\ interrupted' = TRUE
  /\ UNCHANGED <<transactional, created, versioned, head>>

SchemaNext == \E p \in Processes :
          \/ Start(p)
          \/ Inspect(p)
          \/ Stamp(p)
          \/ NothingToDo(p)
          \/ BeginTransaction(p)
          \/ UpgradeInTransaction(p)
          \/ EnsureVersionTable(p)
          \/ CreateTable(p)
          \/ RecordVersion(p)
          \/ Interrupt(p)

SchemaSpec == SchemaInit /\ [][SchemaNext]_schemaVars

-----------------------------------------------------------------------------
(* Every variable keeps its shape.                                          *)
SchemaTypeOK ==
  /\ transactional \in BOOLEAN
  /\ created \in 0 .. NumTables
  /\ versioned \in BOOLEAN
  /\ head \in BOOLEAN
  /\ proc \in [Processes -> [at : Running \cup Ended, table : 1 .. NumTables]]
  /\ interrupted \in BOOLEAN

(* A process with tables still to create is the only one that creates: the  *)
(* others stop at the first of them (cli.py:117).                           *)
SoleCreator ==
  \A p, q \in Processes :
    (/\ At(p, "create") /\ proc[p].table > 1
     /\ At(q, "create") /\ proc[q].table > 1) => p = q

(* Once nobody is at work, a database recorded at head has all its tables,  *)
(* whatever commands overlapped and, where DDL is transactional, wherever   *)
(* they were cut short (cli.py:112-124).                                    *)
HeadIsComplete ==
  (/\ head
   /\ \A p \in Processes : proc[p].at \notin Running
   /\ transactional \/ ~interrupted) => created = NumTables

(* A command that reports success leaves the schema recorded at head        *)
(* (cli.py:65, cli.py:73).                                                  *)
SuccessRecorded ==
  [][\A p \in Processes :
       (proc[p].at \in Running /\ proc'[p].at = "ok") => head']_schemaVars

(* cli.py:121: "The tables are intact — record the current state and        *)
(* continue.": when "already exists" leads to a stamp, no table is missing. *)
StampedIntact ==
  [][\A p \in Processes : (Stamp(p) /\ At(p, "stamp")) => created = NumTables]_schemaVars
=============================================================================
