----------------------------- MODULE LedgerOpen -----------------------------
(***************************************************************************)
(* How the file of the ledger comes into being: opening (Ledger.__init__,  *)
(* _open_or_initialize, _create_schema) and migrating it (migrate_v1) by   *)
(* several processes at once.  Whether the path exists is asked before the *)
(* connection is made; making it creates an empty file; the schema appears *)
(* in a transaction of its own.  Each of these is a step, and a process    *)
(* may die after each.                                                     *)
(*                                                                         *)
(* The content of the database is abstracted to its version, which tables  *)
(* it has and how many rows were written to it.                            *)
(***************************************************************************)
EXTENDS Naturals

CONSTANTS
  Openers,    \* processes that open the ledger
  MaxRows     \* bound on the rows written

ASSUME OpenAssumption == MaxRows \in Nat

VARIABLES
  db,         \* the file: does it exist, user_version, tables, rows
  opener,     \* per process: where it is, and what path.exists() answered
  found       \* the database as the processes found it, for the properties

openVars == <<db, opener, found>>

File(exists, version, tables, rows) ==
  [exists |-> exists, version |-> version, tables |-> tables, rows |-> rows]

Missing  == File(FALSE, 0, "none", 0)
Empty    == File(TRUE, 0, "none", 0)     \* left behind by a dead process
First    == File(TRUE, 1, "v1", 1)       \* a ledger of the first version
Complete == File(TRUE, 2, "v2", 1)
Halfway  == File(TRUE, 1, "v2", 1)       \* version 1 with tables of version 2
Broken   == File(TRUE, 2, "none", 0)     \* tables are missing

Files ==
  [exists : BOOLEAN, version : 0..2, tables : {"none", "v1", "v2"},
   rows : 0..(MaxRows + 1)]

OpenInit ==
  /\ db \in {Missing, Empty, First, Complete, Halfway, Broken}
  /\ found = db
  /\ opener = [o \in Openers |-> [pc |-> "idle", existed |-> FALSE]]

OpenerAt(o, pc) == opener[o].pc = pc
OpenerGoto(o, pc) == opener' = [opener EXCEPT ![o].pc = pc]

\* Mutant: the tables are not compared.
ValidIgnoringTables(file) == file.version = 2

\* _validate_v2_connection, for a database that says it has version 2.
Valid(file) == file.version = 2 /\ file.tables = "v2"

\* existed = self.path.exists()
check_path(o) ==
  /\ OpenerAt(o, "idle")
  /\ opener' = [opener EXCEPT ![o] = [pc |-> "connect", existed |-> db.exists]]
  /\ UNCHANGED <<db, found>>

\* connect_sqlite creates the file if there is none.
connect(o) ==
  /\ OpenerAt(o, "connect")
  /\ db' = [db EXCEPT !.exists = TRUE]
  /\ OpenerGoto(o, "opening")
  /\ UNCHANGED found

\* _open_or_initialize: what existed must be a complete ledger; what did not
\* must still be without a version.
open_existing(o) ==
  /\ OpenerAt(o, "opening") /\ opener[o].existed
  /\ OpenerGoto(o, IF Valid(db) THEN "open" ELSE "refused")
  /\ UNCHANGED <<db, found>>

initialize(o) ==
  /\ OpenerAt(o, "opening") /\ ~opener[o].existed
  /\ OpenerGoto(o, IF db.version = 0 THEN "creating" ELSE "refused")
  /\ UNCHANGED <<db, found>>

\* _create_schema looks again inside its transaction and uses a ledger that
\* somebody else completed in the meantime.  It refuses anything else, which
\* no process of this program can have put there.
create_schema(o) ==
  /\ OpenerAt(o, "creating")
  /\ \/ /\ Valid(db)
        /\ OpenerGoto(o, "open") /\ UNCHANGED db
     \/ /\ db.version = 0 /\ db.tables = "none"
        /\ db' = File(TRUE, 2, "v2", 0)
        /\ OpenerGoto(o, "open")
  /\ UNCHANGED found

\* _validate_v1_connection: exactly the tables of version 1.
Migratable(file) == file.version = 1 /\ file.tables = "v1"

\* migrate_v1 is one transaction, and refuses everything else unchanged.
migrate_v1(o) ==
  /\ OpenerAt(o, "idle") /\ Migratable(db)
  /\ db' = [db EXCEPT !.version = 2, !.tables = "v2"]
  /\ UNCHANGED <<opener, found>>

\* The process works with its ledger.
write(o) ==
  /\ OpenerAt(o, "open") /\ db.rows <= MaxRows
  /\ db' = [db EXCEPT !.rows = @ + 1]
  /\ UNCHANGED <<opener, found>>

\* An error or the end of the process closes the connection.
leave(o) ==
  /\ ~OpenerAt(o, "idle")
  /\ opener' = [opener EXCEPT ![o] = [pc |-> "idle", existed |-> FALSE]]
  /\ UNCHANGED <<db, found>>

OpenNext ==
  \E o \in Openers :
    \/ check_path(o) \/ connect(o) \/ open_existing(o) \/ initialize(o)
    \/ create_schema(o) \/ migrate_v1(o) \/ write(o) \/ leave(o)

OpenSpec == OpenInit /\ [][OpenNext]_openVars

-----------------------------------------------------------------------------
(* Properties.                                                             *)

\* Whoever has the ledger open has a complete one, however many processes
\* create, open and migrate it at the same time.
OpenIsComplete ==
  \A o \in Openers : OpenerAt(o, "open") => db.version = 2 /\ db.tables = "v2"

\* Nothing that was stored is lost and nothing is repaired: neither an
\* initialisation that lost the race nor a migration wipes rows or takes a
\* version back, and an empty file, a half migrated and a damaged database
\* stay as they were found.
ContentKeptStep ==
  /\ db'.rows >= db.rows /\ db'.version >= db.version
  /\ found \in {Empty, Halfway, Broken} => db' = found
=============================================================================
