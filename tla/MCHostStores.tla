---------------------------- MODULE MCHostStores ----------------------------
(* The stores on a host that share no file and no lock with each other: the *)
(* documents of a bounded directory, the file of the ledger while it is     *)
(* opened, the permission store while it is migrated, the journal of the    *)
(* Docker supervisor, here with a stale owner and a foreign container, the  *)
(* uploads of corpora and plans, a storage budget shared by threads, and    *)
(* the record of the first capacity failure of a run.                       *)
EXTENDS BoundedFiles, LedgerOpen, StoreMigration, ExecutionJournal, MCPartitionStores,
        StorageBudget, FailureSink

CONSTANTS h1, h2, f1, c1, c2, w1, w2, a1, a2,
          d1, d2, t1, t2, n1, n2, n3, k1, e1, e2, x1, x2, q1, q2

\* A content is named by its length.
MCLength(x) == x

HostInit ==
  /\ FilesInit /\ OpenInit /\ MigrationInit /\ JournalInit /\ PartitionInit
  /\ BudgetInit /\ SinkInit

OpenAtRest == db = Missing /\ db = found /\ \A o \in Openers : opener[o].pc = "idle"

SinkAtRest == SinkInit /\ sink = "absent"

\* Bound: of stores that cannot disturb each other only one is used, and the
\* ledger and the sink, unless they are the one, are not there.
HostNext ==
  \/ /\ OpenAtRest /\ MigrationInit /\ JournalInit /\ PartitionInit
     /\ BudgetInit /\ SinkAtRest
     /\ FilesNext
     /\ UNCHANGED <<openVars, migrationVars, journal, partitionVars, budgetVars, sinkVars>>
  \/ /\ FilesInit /\ MigrationInit /\ JournalInit /\ PartitionInit
     /\ BudgetInit /\ SinkAtRest
     /\ OpenNext
     /\ UNCHANGED <<fileVars, migrationVars, journal, partitionVars, budgetVars, sinkVars>>
  \/ /\ FilesInit /\ OpenAtRest /\ JournalInit /\ PartitionInit
     /\ BudgetInit /\ SinkAtRest
     /\ MigrationNext
     /\ UNCHANGED <<fileVars, openVars, journal, partitionVars, budgetVars, sinkVars>>
  \/ /\ FilesInit /\ OpenAtRest /\ MigrationInit /\ PartitionInit
     /\ BudgetInit /\ SinkAtRest
     /\ JournalNext
     /\ UNCHANGED <<fileVars, openVars, migrationVars, partitionVars, budgetVars, sinkVars>>
  \/ /\ FilesInit /\ OpenAtRest /\ MigrationInit /\ JournalInit
     /\ BudgetInit /\ SinkAtRest
     /\ PartitionNext
     /\ UNCHANGED <<fileVars, openVars, migrationVars, journal, budgetVars, sinkVars>>
  \/ /\ FilesInit /\ OpenAtRest /\ MigrationInit /\ JournalInit
     /\ PartitionInit /\ SinkAtRest
     /\ BudgetNext
     /\ UNCHANGED <<fileVars, openVars, migrationVars, journal, partitionVars, sinkVars>>
  \/ /\ FilesInit /\ OpenAtRest /\ MigrationInit /\ JournalInit
     /\ PartitionInit /\ BudgetInit
     /\ SinkNext
     /\ UNCHANGED <<fileVars, openVars, migrationVars, journal, partitionVars, budgetVars>>

hostVars ==
  <<fileVars, openVars, migrationVars, journal, partitionVars, budgetVars, sinkVars>>

HostSpec == HostInit /\ [][HostNext]_hostVars

\* What write_bounded, StorageBudget and FailureSink promise of the space on a
\* host and of the record that it ran out: acknowledged documents stay, limits
\* and accounts hold through every failure, and the first record stands.
CapacityHolds == DirectoryHolds /\ BudgetHolds /\ SinkHolds

\* What a store holds is never taken back: rows of the journal only move
\* forward (ExecutionJournal.advance, finish), a ledger keeps its rows and its
\* version, or stays as it was found (_create_schema, migrate_v1), and what was
\* committed of an upload stays whole (the cleanup of expired uploads).
StoresOnlyGrow ==
  [][OneWayStep /\ ContentKeptStep /\ CommitsKeptStep]_<<journal, openVars, partitionVars>>

\* Bounds: a second preview comes only while nothing else disturbs; of a crash
\* and a write of the runtime one comes, with two applies either that or a later
\* second; and only one of the two stores of uploads is used.
AllApplied == \A q \in Applies : operations[q] # Nothing
OnePlanOrCalm ==
  /\ OneStore
  /\ crashes + store.writes <= 1
  /\ AllApplied => crashes + store.writes + seconds <= 1
  /\ \/ \E p \in Previews : \A o \in Previews \ {p} : operations[o] = Nothing
     \/ crashes = 0 /\ store.writes = 0 /\ seconds = 0

MCSymmetry ==
  Permutations(Processes) \cup Permutations(Applies) \cup Permutations(Previews)
=============================================================================
