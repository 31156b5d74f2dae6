---------------------------- MODULE StoreMigration ----------------------------
(***************************************************************************)
(* Migration of the permission store to the present format:                *)
(* operations_migration.py (preview, apply), its journal of requests,      *)
(* productization_journal.py, and adoption_migrations.py.                  *)
(*                                                                         *)
(* Any number of processes work on one workspace.  Between two steps of a  *)
(* request other requests run, the runtime writes to the store, a second   *)
(* passes or the process dies.  The transport lock is the operating        *)
(* system's: it ends with its holder.                                      *)
(*                                                                         *)
(* A plan is named by the preview request that made it, and the store is   *)
(* its format and the number of writes it holds; migratedBy is not stored  *)
(* anywhere, it remembers which request migrated the store.                *)
(***************************************************************************)
EXTENDS Naturals

CONSTANTS
  Processes,
  Previews,        \* request ids of previews, which name their plans
  Applies,         \* request ids of applies
  PlanTtl,         \* MIGRATION_PLAN_TTL_SECONDS
  MaxSeconds,      \* bound: the last second of the clock
  MaxWrites,       \* bound: writes of the runtime
  MaxCrashes,      \* bound: processes that die
  Nothing

ASSUME MigrationAssumption ==
  /\ PlanTtl \in Nat \ {0} /\ {MaxSeconds, MaxWrites, MaxCrashes} \subseteq Nat
  /\ Nothing \notin Processes \cup Previews \cup Applies
  /\ Previews \cap Applies = {}

VARIABLES
  seconds,        \* the clock of the host
  store,          \* [format, writes] of the database
  migratedBy,     \* Nothing or [request, plan, writes]
  plans,          \* preview -> Nothing or [source, created]
  operations,     \* the journal: request -> Nothing or [plan, created, result]
  commits,        \* apply -> Nothing or the commit receipt [plan, result]
  transport,      \* holder of the transport lock, or Nothing
  process,        \* what each process is doing
  answered,       \* request -> the results given to its clients so far
  crashes

migrationVars == <<seconds, store, migratedBy, plans, operations, commits, transport,
                   process, answered, crashes>>

\* An operation result: its status, its reason and its checked_at.
Result(status, reason, at) == [status |-> status, reason |-> reason, at |-> at]

Completed(at) == Result("COMPLETED", "NONE", at)
Unknown(at) == Result("INCOMPLETE", "OPERATION_UNKNOWN", at)

\* _status_reason.
OperationError(code, at) ==
  CASE code \in {"OWNER_ACTIVE", "OPERATION_UNKNOWN"} -> Unknown(at)
    [] code \in {"BINDING_MISMATCH", "PLAN_EXPIRED", "SCHEMA_UNSUPPORTED"} ->
         Result("REJECTED", code, at)
    [] OTHER -> Result("INCOMPLETE", "IO_ERROR", at)

\* What the tables hold.
MigrationResults ==
  [status : {"COMPLETED", "INCOMPLETE", "REJECTED"},
   reason : {"NONE", "OPERATION_UNKNOWN", "IO_ERROR", "BINDING_MISMATCH", "PLAN_EXPIRED",
             "SCHEMA_UNSUPPORTED", "IDEMPOTENCY_CONFLICT"},
   at : Nat]

JournalRows == [plan : Previews, created : Nat, result : MigrationResults \cup {Nothing}]
CommitRows == [plan : Previews, result : MigrationResults]
PlanRows == [source : [format : {"old", "new"}, writes : Nat], created : Nat]
MigrationRows == [request : Applies, plan : Previews, writes : Nat]

ASSUME NothingAssumption ==
  Nothing \notin MigrationResults \cup JournalRows \cup CommitRows \cup PlanRows \cup MigrationRows

Idle == [at |-> "idle", request |-> Nothing, plan |-> Nothing, now |-> 0, result |-> Nothing]

MigrationInit ==
  /\ seconds = 0 /\ crashes = 0
  /\ store = [format |-> "old", writes |-> 0] /\ migratedBy = Nothing
  /\ plans = [p \in Previews |-> Nothing]
  /\ operations = [q \in Previews \cup Applies |-> Nothing]
  /\ commits = [q \in Applies |-> Nothing]
  /\ transport = Nothing
  /\ process = [c \in Processes |-> Idle]
  /\ answered = [q \in Previews \cup Applies |-> {}]

At(c, place) == process[c].at = place

Goto(c, place) == process' = [process EXCEPT ![c].at = place]

\* The request fails with this code, which the journal has yet to learn.
Fail(c, code) ==
  process' = [process EXCEPT ![c].at = "finish",
                             ![c].result = OperationError(code, process[c].now)]

\* The client gets this answer.
Answer(c, result) ==
  /\ answered' = [answered EXCEPT ![process[c].request] = @ \cup {result}]
  /\ process' = [process EXCEPT ![c] = Idle]

\* The store holds what the plan was made from; the format alone is not it.
SourceUnchanged(p) == store = plans[p].source

-----------------------------------------------------------------------------
(* The beginning of both commands.                                          *)

\* The time of the request is read before the journal is opened.
Ask(c, q, p) ==
  /\ At(c, "idle")
  /\ q \in Applies => plans[p] # Nothing
  /\ q \in Previews => p = q
  /\ process' = [process EXCEPT ![c] =
       [at |-> "begin", request |-> q, plan |-> p, now |-> seconds, result |-> Nothing]]
  /\ UNCHANGED <<seconds, store, migratedBy, plans, operations, commits, transport,
                 answered, crashes>>

\* OperationJournal.begin of a request the journal has not seen; it reads the
\* clock again.
BeginCreated(c) ==
  LET q == process[c].request
  IN /\ At(c, "begin") /\ operations[q] = Nothing
     /\ operations' = [operations EXCEPT ![q] =
          [plan |-> process[c].plan, created |-> seconds, result |-> Nothing]]
     /\ Goto(c, IF q \in Previews THEN "preview" ELSE "check")
     /\ UNCHANGED <<seconds, store, migratedBy, plans, commits, transport, answered, crashes>>

\* begin of a request with the same or another plan that the journal knows.
BeginAgain(c) ==
  LET q == process[c].request
      op == operations[q]
  IN /\ At(c, "begin") /\ op # Nothing
     /\ \/ /\ op.plan # process[c].plan
           /\ Answer(c, Result("REJECTED", "IDEMPOTENCY_CONFLICT", seconds))
        \/ /\ op.plan = process[c].plan /\ op.result # Nothing
           /\ Answer(c, op.result)
        \/ /\ op.plan = process[c].plan /\ op.result = Nothing
           /\ IF q \in Previews THEN Answer(c, Unknown(process[c].now))
              ELSE Goto(c, "recover") /\ UNCHANGED answered
     /\ UNCHANGED <<seconds, store, migratedBy, plans, operations, commits, transport, crashes>>

\* operation_lock does not wait: a lock that is held is OWNER_ACTIVE.
LockBusy(c) ==
  /\ At(c, "preview") \/ At(c, "lock")
  /\ transport # Nothing
  /\ Fail(c, "OWNER_ACTIVE")
  /\ UNCHANGED <<seconds, store, migratedBy, plans, operations, commits, transport,
                 answered, crashes>>

-----------------------------------------------------------------------------
(* preview: the plan is tried on a copy and saved.                          *)

PreviewLock(c) ==
  /\ At(c, "preview") /\ transport = Nothing
  /\ transport' = c
  /\ Goto(c, "copy")
  /\ UNCHANGED <<seconds, store, migratedBy, plans, operations, commits, answered, crashes>>

\* _preview_impl up to the saved plan.  A store that is written to while it is
\* copied, a full disk and a failing migration are refusals.
PreviewPlan(c) ==
  /\ At(c, "copy")
  /\ transport' = Nothing
  /\ \/ /\ store.format = "old"
        /\ plans' = [plans EXCEPT ![process[c].request] =
                       [source |-> store, created |-> process[c].now]]
        /\ process' = [process EXCEPT ![c].at = "finish",
                                      ![c].result = Completed(process[c].now)]
     \/ /\ store.format = "new" /\ Fail(c, "SCHEMA_UNSUPPORTED") /\ UNCHANGED plans
     \/ Fail(c, "IO_ERROR") /\ UNCHANGED plans
  /\ UNCHANGED <<seconds, store, migratedBy, operations, commits, answered, crashes>>

-----------------------------------------------------------------------------
(* apply: the checks, the one transaction and the proofs of it.             *)

\* _apply_impl before the lock.
ApplyCheck(c) ==
  LET p == process[c].plan
  IN /\ At(c, "check")
     /\ \/ process[c].now >= plans[p].created + PlanTtl /\ Fail(c, "PLAN_EXPIRED")
        \/ /\ process[c].now < plans[p].created + PlanTtl
           /\ IF SourceUnchanged(p) THEN Goto(c, "lock") ELSE Fail(c, "BINDING_MISMATCH")
     /\ UNCHANGED <<seconds, store, migratedBy, plans, operations, commits, transport,
                    answered, crashes>>

\* The store is compared again under the lock, which the runtime's own writers
\* need not hold.
ApplyLock(c) ==
  /\ At(c, "lock") /\ transport = Nothing
  /\ IF SourceUnchanged(process[c].plan)
       THEN transport' = c /\ Goto(c, "migrate")
       ELSE /\ transport' = Nothing
            /\ Fail(c, IF store.format = "new" THEN "SCHEMA_UNSUPPORTED" ELSE "BINDING_MISMATCH")
  /\ UNCHANGED <<seconds, store, migratedBy, plans, operations, commits, answered, crashes>>

\* _verify_expected_migration_state, in the transaction itself.
Expected(p) == SourceUnchanged(p)

\* migrate_evaluation_store: it commits, or rolls back and fails.
Migrate(c) ==
  LET p == process[c].plan
  IN /\ At(c, "migrate")
     /\ \/ /\ Expected(p)
           /\ store' = [store EXCEPT !.format = "new"]
           /\ migratedBy' = [request |-> process[c].request, plan |-> p,
                             writes |-> store.writes]
           /\ Goto(c, "inspect") /\ UNCHANGED transport
        \/ /\ transport' = Nothing
           /\ Fail(c, IF Expected(p) THEN "MIGRATION_FAILED" ELSE "BINDING_MISMATCH")
           /\ UNCHANGED <<store, migratedBy>>
     /\ UNCHANGED <<seconds, plans, operations, commits, answered, crashes>>

\* Mutant of AfterMismatch: the comparison's own code is kept.
AfterMismatchKept == "BINDING_MISMATCH"

\* The migration has committed, so that no failure from here on is a refusal.
AfterMismatch == "OPERATION_UNKNOWN"

\* The store is inspected, and may have been written to since.
ApplyInspect(c) ==
  /\ At(c, "inspect")
  /\ transport' = Nothing
  /\ \/ /\ store = [plans[process[c].plan].source EXCEPT !.format = "new"]
        /\ Goto(c, "save")
     \/ /\ store # [plans[process[c].plan].source EXCEPT !.format = "new"]
        /\ Fail(c, AfterMismatch)
  /\ UNCHANGED <<seconds, store, migratedBy, plans, operations, commits, answered, crashes>>

\* _save_result and _save_commit; each write may fail.
SaveCommit(c) ==
  LET q == process[c].request
  IN /\ At(c, "save")
     /\ \/ /\ commits' = [commits EXCEPT ![q] =
                [plan |-> process[c].plan, result |-> Completed(process[c].now)]]
           /\ process' = [process EXCEPT ![c].at = "finish",
                                         ![c].result = Completed(process[c].now)]
        \/ Fail(c, "OPERATION_UNKNOWN") /\ UNCHANGED commits
     /\ UNCHANGED <<seconds, store, migratedBy, plans, operations, transport, answered, crashes>>

-----------------------------------------------------------------------------
(* The end of both commands.                                                *)

\* An apply that does not know its own outcome is left open in the journal.
LeaveOpen(c) ==
  /\ At(c, "finish")
  /\ process[c].request \in Applies /\ process[c].result.reason = "OPERATION_UNKNOWN"
  /\ Answer(c, process[c].result)
  /\ UNCHANGED <<seconds, store, migratedBy, plans, operations, commits, transport, crashes>>

\* OperationJournal.finish accepts a result that was checked after the request
\* was created, or the one it has.
Finishable(op, result) ==
  IF op.result # Nothing THEN op.result = result
  ELSE op.created <= result.at /\ result.at <= seconds

\* _finish, and the answer; a result the journal refuses is not the answer.
Finish(c) ==
  LET q == process[c].request
      result == process[c].result
  IN /\ At(c, "finish")
     /\ ~(q \in Applies /\ result.reason = "OPERATION_UNKNOWN")
     /\ IF Finishable(operations[q], result)
          THEN /\ operations' = [operations EXCEPT ![q].result = result]
               /\ Answer(c, result)
          ELSE /\ Answer(c, OperationError("BINDING_MISMATCH", process[c].now))
               /\ UNCHANGED operations
     /\ UNCHANGED <<seconds, store, migratedBy, plans, commits, transport, crashes>>

\* The commit receipt of this very request and plan.
Proved(q, p) == commits[q] # Nothing /\ commits[q].plan = p

\* _recover_apply of a request that began before; nothing is executed again.
Recover(c) ==
  LET q == process[c].request
  IN /\ At(c, "recover")
     /\ \/ /\ Proved(q, process[c].plan)
           /\ LET result == commits[q].result
              IN /\ operations' = IF Finishable(operations[q], result)
                                    THEN [operations EXCEPT ![q].result = result]
                                    ELSE operations
                 /\ Answer(c, result)
        \/ /\ ~Proved(q, process[c].plan)
           /\ Answer(c, Unknown(process[c].now)) /\ UNCHANGED operations
     /\ UNCHANGED <<seconds, store, migratedBy, plans, commits, transport, crashes>>

-----------------------------------------------------------------------------
(* The environment.                                                         *)

\* A process dies; its client gets no answer.
Crash(c) ==
  /\ ~At(c, "idle") /\ crashes < MaxCrashes
  /\ crashes' = crashes + 1
  /\ transport' = IF transport = c THEN Nothing ELSE transport
  /\ process' = [process EXCEPT ![c] = Idle]
  /\ UNCHANGED <<seconds, store, migratedBy, plans, operations, commits, answered>>

\* A transaction of the runtime.
RuntimeWrite ==
  /\ store.writes < MaxWrites
  /\ store' = [store EXCEPT !.writes = @ + 1]
  /\ UNCHANGED <<seconds, migratedBy, plans, operations, commits, transport, process,
                 answered, crashes>>

Second ==
  /\ seconds < MaxSeconds
  /\ seconds' = seconds + 1
  /\ UNCHANGED <<store, migratedBy, plans, operations, commits, transport, process,
                 answered, crashes>>

MigrationNext ==
  \/ RuntimeWrite \/ Second
  \/ \E c \in Processes :
       \/ \E q \in Previews \cup Applies, p \in Previews : Ask(c, q, p)
       \/ BeginCreated(c) \/ BeginAgain(c) \/ LockBusy(c)
       \/ PreviewLock(c) \/ PreviewPlan(c)
       \/ ApplyCheck(c) \/ ApplyLock(c) \/ Migrate(c) \/ ApplyInspect(c) \/ SaveCommit(c)
       \/ LeaveOpen(c) \/ Finish(c) \/ Recover(c) \/ Crash(c)

MigrationSpec == MigrationInit /\ [][MigrationNext]_migrationVars

-----------------------------------------------------------------------------
(* Properties.                                                              *)

\* Whoever is told that an apply is complete can rely on it: this request, no
\* other, migrated the store, from exactly the state that its plan describes,
\* whatever was retried, crashed or written in between (_recover_apply).
CompletedIsProved ==
  \A q \in Applies : \A result \in answered[q] :
    result.status = "COMPLETED" =>
      /\ migratedBy # Nothing /\ migratedBy.request = q
      /\ plans[migratedBy.plan].source = [format |-> "old", writes |-> migratedBy.writes]

\* What the journal keeps for good as refused or failed did not migrate the
\* store (the error codes of _apply_impl after the commit).
StoredRefusalIsTrue ==
  \A q \in Applies :
    operations[q] # Nothing /\ operations[q].result # Nothing =>
      (operations[q].result.status = "COMPLETED"
       <=> migratedBy # Nothing /\ migratedBy.request = q)

\* Both kinds of answers to an apply tell what became of the store.
StoredAnswersAreTrue == CompletedIsProved /\ StoredRefusalIsTrue

\* An apply that is answered as REJECTED left the store as it was
\* (docs/productization-operations-spec.md: a mismatch is rolled back before
\* the commit and answered BINDING_MISMATCH).
RejectedLeftTheStore ==
  \A q \in Applies : \A result \in answered[q] :
    result.status = "REJECTED" /\ result.reason = "BINDING_MISMATCH" =>
      migratedBy = Nothing \/ migratedBy.request # q
=============================================================================
