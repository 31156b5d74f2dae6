------------------------------- MODULE Ledger -------------------------------
(***************************************************************************)
(* The persistent run ledger of src/src/gah/ledger.py, with the terminal   *)
(* decision of src/src/gah/termination.py.                                 *)
(*                                                                         *)
(* The ledger is one SQLite database shared by any number of processes.    *)
(* Every method is one BEGIN IMMEDIATE transaction, so every method is one *)
(* action here; a method that raises rolls back completely (the stored     *)
(* clock included), so a refused call is a stuttering step.  The two       *)
(* exceptions are the settlement errors of settle, which are committed     *)
(* before they are raised, and appear as state changes.                    *)
(*                                                                         *)
(* The wall clock is read at the start of each transaction: it is the      *)
(* argument now of every action, any value not below the stored clock.     *)
(*                                                                         *)
(* An amount of money is a number of sub-micro units, Scale of which make  *)
(* one micro-dollar; 0 is the text "0".  Micros is the accounting          *)
(* round-up.  Tables are functions whose domain is the set of stored keys. *)
(***************************************************************************)
EXTENDS Integers, FiniteSets, FiniteSetsExt

CONSTANTS
  Runs,         \* run identifiers callers may use
  Owners,       \* lease owners (supervisors)
  NoOwner,      \* SQL NULL in the owner column
  Operations,   \* operation identifiers
  Requests,     \* report request identifiers
  Reports,      \* report contents
  Amounts,      \* the USD texts callers may pass, in sub-micro units
  Scale,        \* sub-micro units per micro-dollar
  RunLimits,    \* _RUN_LIMITS: profile -> micros
  GlobalLimit,  \* _GLOBAL_LIMIT, micros
  Durations,    \* profile -> seconds to the deadline
  LeaseSeconds, \* _LEASE_SECONDS
  Window,       \* _WINDOW_SECONDS
  MaxInt,       \* _MAX_INT64 for sums and epochs
  MaxTime,      \* _MAX_TIME
  MaxClock      \* bound: the last second the model lets the clock show

Profiles == {"pr", "full"}
Assurances == {"HEALTHY", "WARNING", "DEGRADED", "UNKNOWN", "HOLD"}
Kinds == {"execution", "recovery"}

Null == -1      \* SQL NULL in a numeric column

ASSUME LedgerAssumption ==
  /\ NoOwner \notin Owners
  /\ Scale \in Nat \ {0}
  /\ Amounts \subseteq Nat
  /\ RunLimits \in [Profiles -> Nat]
  /\ GlobalLimit \in Nat
  /\ Durations \in [Profiles -> Nat \ {0}]
  /\ LeaseSeconds \in Nat \ {0}
  /\ Window \in Nat \ {0}
  /\ MaxInt \in Nat
  /\ MaxTime \in Nat
  /\ MaxClock \in 0 .. MaxTime

VARIABLES
  lastClock,    \* ledger_meta.last_clock
  runs,         \* table runs
  ops,          \* table operations
  terminal,     \* table terminal_records
  claims,       \* the lease grants recorded in table run_events
  reports       \* table reports

vars == <<lastClock, runs, ops, terminal, claims, reports>>

-----------------------------------------------------------------------------
(* Rows.  Timestamps that no condition of the code reads back are dropped; *)
(* cancel_requested_at and stop_confirmed_at are tested for NULL only.      *)

RunRow ==
  [profile : Profiles, deadline : Nat, owner : Owners \cup {NoOwner},
   epoch : Nat, lease : Nat, kind : Kinds,
   cancel : BOOLEAN, stop : BOOLEAN, hold : BOOLEAN]

OpRow ==
  [run : Runs, owner : Owners, epoch : Nat, reserved : Amounts,
   status : {"reserved", "settled"}, settled : Amounts \cup {Null},
   settledAt : Nat \cup {Null},
   exposure : Amounts \cup {Null}, exposureMicros : Nat \cup {Null}]

TerminalRow ==
  [status : {"COMPLETED", "CANCELLED", "FAILED"}, assurance : Assurances,
   hold : BOOLEAN, closed : BOOLEAN]

\* Of the audit trail only the lease grants are kept: every other event
\* repeats a change that the tables show.
ClaimRow == [kind : Kinds, run : Runs, owner : Owners, epoch : Nat]

Grant(k, r, o, e) == [kind |-> k, run |-> r, owner |-> o, epoch |-> e]

\* A table: a function from some of the keys to rows.
IsTable(t, K, Row) == DOMAIN t \subseteq K /\ t \in [DOMAIN t -> Row]

\* INSERT of a row under a fresh key.
Insert(t, k, row) ==
  [x \in DOMAIN t \cup {k} |-> IF x = k THEN row ELSE t[x]]

-----------------------------------------------------------------------------
(* Money.                                                                   *)

\* _parse_usd: the accounting amount is rounded up to a whole micro-dollar.
Micros(usd) == (usd + Scale - 1) \div Scale

OrZero(x) == IF x = Null THEN 0 ELSE x

Larger(a, b) == IF a >= b THEN a ELSE b
Smaller(a, b) == IF a <= b THEN a ELSE b

\* What one operation costs: its reservation until it is settled, then the
\* larger of the settled amount and the largest disputed amount.
Accounted(op) ==
  IF op.status = "settled"
    THEN Larger(Micros(op.settled), OrZero(op.exposureMicros))
    ELSE Micros(op.reserved)

OpsOf(r) == {p \in DOMAIN ops : ops[p].run = r}

RunAccounted(r) == MapThenSumSet(LAMBDA p : Accounted(ops[p]), OpsOf(r))

\* Does an operation count in the rolling window that ends at now?
InWindow(op, now) ==
  \/ op.status = "reserved"
  \/ op.exposureMicros # Null
  \/ op.settledAt > now - Window /\ op.settledAt <= now

GlobalAccounted(now) ==
  MapThenSumSet(LAMBDA p : Accounted(ops[p]),
                {p \in DOMAIN ops : InWindow(ops[p], now)})

\* The sums are refused as invalid_database beyond 64 bits.
Summable(r, now) == RunAccounted(r) <= MaxInt /\ GlobalAccounted(now) <= MaxInt

\* _budget_closure: CLOSED iff nothing is reserved and nothing is disputed.
BudgetClosed(r) ==
  \A p \in OpsOf(r) :
    ops[p].status = "settled" /\ ops[p].exposureMicros = Null

-----------------------------------------------------------------------------
(* Clock and leases.                                                        *)

\* _now: a clock below the stored one is refused; the reading is stored.
Clock(now) == now >= lastClock /\ lastClock' = now

Known(r) == r \in DOMAIN runs

LeaseValid(r, now) == runs[r].owner # NoOwner /\ now < runs[r].lease

\* Execution is over: cancelled, stopped, on hold or terminal.
Closed(r) ==
  runs[r].cancel \/ runs[r].stop \/ runs[r].hold \/ r \in DOMAIN terminal

\* A holder keeps its epoch while the lease is valid, and every other claim
\* starts a new one.
ClaimEpoch(r, now) ==
  IF LeaseValid(r, now) THEN runs[r].epoch ELSE runs[r].epoch + 1

\* Mutant: the switch to a recovery lease keeps a valid lease's epoch.
RecoveryEpochKept(r, now) ==
  IF LeaseValid(r, now) THEN runs[r].epoch ELSE runs[r].epoch + 1

\* Switching from an execution to a recovery lease also starts a new epoch.
RecoveryEpoch(r, now) ==
  IF LeaseValid(r, now) /\ runs[r].kind = "recovery"
    THEN runs[r].epoch ELSE runs[r].epoch + 1

\* _require_lease: owner and epoch match, the lease has not expired, and past
\* the deadline only the calls that allow it, under a recovery lease.
RequireLease(r, o, e, now, afterDeadline) ==
  /\ Known(r)
  /\ e >= 1
  /\ runs[r].owner = o /\ runs[r].epoch = e
  /\ now < runs[r].lease
  /\ now >= runs[r].deadline => afterDeadline /\ runs[r].kind = "recovery"

-----------------------------------------------------------------------------
(* The terminal decision (termination.decide_terminal).                     *)

\* Mutant: an unsettled budget does not stop a run from completing.
DecideStatusOpenBudget(cancelled, stopped, late, complete, failure, closed) ==
  CASE failure -> "FAILED"
    [] ~failure /\ cancelled ->
         IF stopped THEN "CANCELLED"
         ELSE IF late THEN "FAILED" ELSE "WAITING"
    [] ~failure /\ ~cancelled ->
         IF late THEN "FAILED"
         ELSE IF stopped /\ complete THEN "COMPLETED" ELSE "WAITING"

\* Execution status; the reasons list and the exit code are functions of it
\* and of the inputs, and are left out.
DecideStatus(cancelled, stopped, late, complete, failure, closed) ==
  CASE failure -> "FAILED"
    [] ~failure /\ cancelled ->
         IF stopped THEN "CANCELLED"
         ELSE IF late THEN "FAILED" ELSE "WAITING"
    [] ~failure /\ ~cancelled ->
         IF late THEN "FAILED"
         ELSE IF stopped /\ complete /\ closed
           THEN "COMPLETED" ELSE "WAITING"

\* finalize stores nothing for a WAITING decision.
IsFinal(status) == status # "WAITING"

\* A favourable assurance is lowered to UNKNOWN when something is missing.
DecideAssurance(stopped, workComplete, budgetClosed, assurance) ==
  IF ~(stopped /\ workComplete /\ budgetClosed)
     /\ assurance \in {"HEALTHY", "WARNING"}
    THEN "UNKNOWN" ELSE assurance

-----------------------------------------------------------------------------
(* Operations of the ledger.                                                *)

Init ==
  /\ lastClock = 0
  /\ runs = [r \in {} |-> {}]
  /\ ops = [p \in {} |-> {}]
  /\ terminal = [r \in {} |-> {}]
  /\ claims = {}
  /\ reports = [q \in {} |-> {}]

create_run(now, r, profile) ==
  /\ Clock(now)
  /\ now + Durations[profile] <= MaxTime
  /\ ~Known(r)
  /\ runs' = Insert(runs, r,
       [profile |-> profile, deadline |-> now + Durations[profile],
        owner |-> NoOwner, epoch |-> 0, lease |-> 0, kind |-> "execution",
        cancel |-> FALSE, stop |-> FALSE, hold |-> FALSE])
  /\ UNCHANGED <<ops, terminal, claims, reports>>

\* An execution lease: never past the deadline, renewed under the same epoch
\* by the holder, taken over under the next epoch once it has expired.
claim(now, r, o) ==
  /\ Clock(now)
  /\ Known(r)
  /\ now < runs[r].deadline
  /\ runs[r].kind = "execution"
  /\ ~Closed(r)
  /\ LeaseValid(r, now) => runs[r].owner = o
  /\ ClaimEpoch(r, now) <= MaxInt
  /\ runs' = [runs EXCEPT
       ![r].owner = o, ![r].epoch = ClaimEpoch(r, now),
       ![r].lease = Smaller(runs[r].deadline, now + LeaseSeconds)]
  /\ claims' = claims \cup {Grant("execution", r, o, ClaimEpoch(r, now))}
  /\ UNCHANGED <<ops, terminal, reports>>

\* Mutant: a confirmed stop does not end the right to reserve.
MayReserveAfterStop(r) ==
  runs[r].kind = "execution" /\ ~runs[r].cancel /\ r \notin DOMAIN terminal

\* The conditions reserve checks before it looks the operation up; the hold
\* is checked only for a fresh operation.
MayReserve(r) ==
  /\ runs[r].kind = "execution"
  /\ ~runs[r].cancel /\ ~runs[r].stop
  /\ r \notin DOMAIN terminal

FitsRun(r, micros) == RunAccounted(r) + micros <= RunLimits[runs[r].profile]

\* Mutant: only settled amounts count against the global limit.
FitsGlobalSettled(now, micros) ==
  LET settled == {p \in DOMAIN ops : ops[p].status = "settled"
                                     /\ InWindow(ops[p], now)}
  IN MapThenSumSet(LAMBDA p : Accounted(ops[p]), settled) + micros
       <= GlobalLimit

FitsGlobal(now, micros) == GlobalAccounted(now) + micros <= GlobalLimit

\* The redelivery branch returns the stored row (only the clock advances);
\* the fresh branch checks the hold and both budgets in the same transaction.
reserve(now, r, o, e, p, usd) ==
  /\ Clock(now)
  /\ Micros(usd) <= MaxInt
  /\ RequireLease(r, o, e, now, FALSE)
  /\ MayReserve(r)
  /\ \/ /\ p \in DOMAIN ops
        /\ ops[p].run = r /\ ops[p].reserved = usd
        /\ UNCHANGED ops
     \/ /\ p \notin DOMAIN ops
        /\ ~runs[r].hold
        /\ Summable(r, now)
        /\ FitsRun(r, Micros(usd)) /\ FitsGlobal(now, Micros(usd))
        /\ ops' = Insert(ops, p,
             [run |-> r, owner |-> o, epoch |-> e, reserved |-> usd,
              status |-> "reserved", settled |-> Null, settledAt |-> Null,
              exposure |-> Null, exposureMicros |-> Null])
  /\ UNCHANGED <<runs, terminal, claims, reports>>

\* Mutant: reaching the reservation counts as exceeding it.
OverReservationOrEqual(op, usd) == Micros(usd) >= Micros(op.reserved)

OverReservation(op, usd) == Micros(usd) > Micros(op.reserved)

\* First settlement of a reserved operation; an amount above the reservation
\* is stored, puts the run on hold, and only then is reported as an error.
SettleFirst(now, r, p, usd) ==
  /\ ops[p].status = "reserved"
  /\ ops' = [ops EXCEPT ![p].status = "settled", ![p].settled = usd,
                        ![p].settledAt = now]
  /\ runs' = IF OverReservation(ops[p], usd)
               THEN [runs EXCEPT ![r].hold = TRUE] ELSE runs

\* The largest amount seen for a settled operation.
LargestClaim(op, usd) ==
  Larger(Larger(Micros(op.settled), OrZero(op.exposureMicros)), Micros(usd))

\* Mutant: the newest text is stored with the largest amount.
ExposureTextNewest(op, usd) == usd

\* The text that the largest amount came from.
ExposureText(op, usd) ==
  CASE LargestClaim(op, usd) = Micros(usd) -> usd
    [] LargestClaim(op, usd) # Micros(usd)
       /\ LargestClaim(op, usd) = Micros(op.settled) -> op.settled
    [] OTHER -> op.exposure

\* A second settlement: the same amount is a redelivery; another amount keeps
\* the settled one, remembers the largest amount disputed and holds the run.
SettleAgain(r, p, usd) ==
  /\ ops[p].status = "settled"
  /\ \/ ops[p].settled = usd /\ UNCHANGED <<ops, runs>>
     \/ /\ ops[p].settled # usd
        /\ ops' = [ops EXCEPT
             ![p].exposure = ExposureText(ops[p], usd),
             ![p].exposureMicros = LargestClaim(ops[p], usd)]
        /\ runs' = [runs EXCEPT ![r].hold = TRUE]

settle(now, r, o, e, p, usd) ==
  /\ Clock(now)
  /\ Micros(usd) <= MaxInt
  /\ RequireLease(r, o, e, now, TRUE)
  /\ p \in OpsOf(r)
  /\ SettleFirst(now, r, p, usd) \/ SettleAgain(r, p, usd)
  /\ UNCHANGED <<terminal, claims, reports>>

\* The recovery lease: for runs whose execution is over in some way.  A
\* holder that switches from an execution lease gets a new epoch.
claim_recovery(now, r, o) ==
  /\ Clock(now)
  /\ Known(r)
  /\ now >= runs[r].deadline \/ Closed(r)
  /\ LeaseValid(r, now) => runs[r].owner = o
  /\ RecoveryEpoch(r, now) <= MaxInt
  /\ now + LeaseSeconds <= MaxTime
  /\ runs' = [runs EXCEPT
       ![r].owner = o, ![r].epoch = RecoveryEpoch(r, now),
       ![r].lease = now + LeaseSeconds, ![r].kind = "recovery"]
  /\ claims' = claims \cup {Grant("recovery", r, o, RecoveryEpoch(r, now))}
  /\ UNCHANGED <<ops, terminal, reports>>

\* After the terminal record a cancel or a stop is only noted in the audit
\* trail; a repeated one changes nothing.
request_cancel(now, r, o, e) ==
  /\ Clock(now)
  /\ RequireLease(r, o, e, now, TRUE)
  /\ \/ r \in DOMAIN terminal /\ UNCHANGED runs
     \/ r \notin DOMAIN terminal /\ runs' = [runs EXCEPT ![r].cancel = TRUE]
  /\ UNCHANGED <<ops, terminal, claims, reports>>

confirm_stopped(now, r, o, e) ==
  /\ Clock(now)
  /\ RequireLease(r, o, e, now, TRUE)
  /\ \/ r \in DOMAIN terminal /\ UNCHANGED runs
     \/ r \notin DOMAIN terminal /\ runs' = [runs EXCEPT ![r].stop = TRUE]
  /\ UNCHANGED <<ops, terminal, claims, reports>>

\* The decision and the record are one transaction.  A run that already has
\* a terminal record gets it back; a WAITING decision stores nothing.
finalize(now, r, o, e, assurance, workComplete, requiredFailure) ==
  /\ Clock(now)
  /\ RequireLease(r, o, e, now, TRUE)
  /\ LET run == runs[r]
         status == DecideStatus(run.cancel, run.stop, now >= run.deadline,
                     workComplete, requiredFailure, BudgetClosed(r))
         effective == IF run.hold THEN "HOLD" ELSE assurance
     IN \/ /\ r \in DOMAIN terminal
           /\ UNCHANGED terminal
        \/ /\ r \notin DOMAIN terminal
           /\ Summable(r, now)
           /\ ~IsFinal(status)
           /\ UNCHANGED terminal
        \/ /\ r \notin DOMAIN terminal
           /\ Summable(r, now)
           /\ IsFinal(status)
           /\ terminal' = Insert(terminal, r,
                [status |-> status,
                 assurance |-> DecideAssurance(run.stop, workComplete,
                                 BudgetClosed(r), effective),
                 hold |-> run.hold, closed |-> BudgetClosed(r)])
  /\ UNCHANGED <<runs, ops, claims, reports>>

\* Mutant: a second report for a request replaces the first.
store_report_overwrite(now, q, content) ==
  /\ Clock(now)
  /\ reports' = Insert(reports, q, content)
  /\ UNCHANGED <<runs, ops, terminal, claims>>

\* store_report keeps the first content of a request and accepts only it.
store_report(now, q, content) ==
  /\ Clock(now)
  /\ \/ q \in DOMAIN reports /\ reports[q] = content /\ UNCHANGED reports
     \/ q \notin DOMAIN reports /\ reports' = Insert(reports, q, content)
  /\ UNCHANGED <<runs, ops, terminal, claims>>

\* budget_closure, snapshot, get_terminal and get_report: the answer is a
\* function of the tables, and the only write is the clock.
Query(now) ==
  /\ Clock(now)
  /\ \/ \E r \in DOMAIN runs : Summable(r, now)
     \/ DOMAIN terminal # {}
     \/ DOMAIN reports # {}
  /\ UNCHANGED <<runs, ops, terminal, claims, reports>>

-----------------------------------------------------------------------------

Times == 0 .. MaxClock

RunStep(now, r) ==
  \/ \E profile \in Profiles : create_run(now, r, profile)
  \/ \E o \in Owners : claim(now, r, o) \/ claim_recovery(now, r, o)
  \/ \E o \in Owners, e \in 1 .. MaxInt :
       \/ \E p \in Operations, usd \in Amounts :
            reserve(now, r, o, e, p, usd) \/ settle(now, r, o, e, p, usd)
       \/ request_cancel(now, r, o, e)
       \/ confirm_stopped(now, r, o, e)
       \/ \E a \in Assurances, w, f \in BOOLEAN :
            finalize(now, r, o, e, a, w, f)

Next ==
  \E now \in Times :
    \/ \E r \in Runs : RunStep(now, r)
    \/ \E q \in Requests, content \in Reports : store_report(now, q, content)
    \/ Query(now)

\* Nothing obliges a caller to call; this is the safety specification.
Spec == Init /\ [][Next]_vars

-----------------------------------------------------------------------------
(* Properties.                                                              *)

\* Every stored row has the shape the schema and _validate_operation_row
\* demand: a settlement is complete or absent, and so is a dispute.
TypeOK ==
  /\ lastClock \in Nat
  /\ IsTable(runs, Runs, RunRow)
  /\ IsTable(ops, Operations, OpRow)
  /\ IsTable(terminal, Runs, TerminalRow)
  /\ claims \subseteq ClaimRow
  /\ IsTable(reports, Requests, Reports)

\* The row checks that every accounting query repeats (invalid_database
\* otherwise): a row is reserved without any settlement, or settled with all
\* of it; a disputed amount is the one its text rounds up to and is never
\* below the settled amount.
RowsStayReadable ==
  \A p \in DOMAIN ops :
    LET op == ops[p] IN
    /\ op.status = "reserved" =>
         op.settled = Null /\ op.settledAt = Null /\ op.exposureMicros = Null
    /\ op.status = "settled" => op.settled # Null /\ op.settledAt # Null
    /\ (op.exposure = Null) <=> (op.exposureMicros = Null)
    /\ op.exposureMicros # Null =>
         /\ op.exposureMicros = Micros(op.exposure)
         /\ op.exposureMicros >= Micros(op.settled)

\* Every table can be read again: its rows have the shape of the schema and
\* pass the checks of _validate_operation_row.
RowsSound == TypeOK /\ RowsStayReadable

\* A run that is not on hold never has more accounted than its profile
\* allows, whatever mixture of reservations, redeliveries, take-overs and
\* settlements led here (reserve's check stays true after later settlements).
RunWithinLimit ==
  \A r \in DOMAIN runs :
    ~runs[r].hold => RunAccounted(r) <= RunLimits[runs[r].profile]

\* While no run is on hold, the rolling window holds at most the global
\* limit, now and at every later reading of the clock.
GlobalWithinLimit ==
  (\A r \in DOMAIN runs : ~runs[r].hold) =>
    \A now \in lastClock .. MaxClock : GlobalAccounted(now) <= GlobalLimit

\* What reserve admitted stays within the limits of the runs and of the
\* rolling window.
WithinLimits == RunWithinLimit /\ GlobalWithinLimit

\* A run is on hold exactly when one of its settlements is disputed or above
\* its reservation: an error that settle reports is never lost, and no run
\* is stopped for nothing.
HoldIffDisputed ==
  \A r \in DOMAIN runs :
    runs[r].hold <=>
      \E p \in OpsOf(r) :
        \/ ops[p].exposureMicros # Null
        \/ ops[p].status = "settled"
           /\ Micros(ops[p].settled) > Micros(ops[p].reserved)

\* Fencing: an epoch of a run is granted to one owner, for one kind of lease,
\* so an owner and epoch pair left over from an expired lease can never pass
\* _require_lease for somebody else's lease.
EpochFencing ==
  \A a, b \in claims :
    a.run = b.run /\ a.epoch = b.epoch => a.owner = b.owner /\ a.kind = b.kind

\* Why fencing holds: no grant is ahead of the run's epoch, the grants of the
\* current epoch are the current lease, and the current lease was granted.
ClaimsTrackLease ==
  /\ \A c \in claims :
       /\ c.run \in DOMAIN runs
       /\ c.epoch <= runs[c.run].epoch
       /\ c.epoch = runs[c.run].epoch =>
            c.owner = runs[c.run].owner /\ c.kind = runs[c.run].kind
  /\ \A r \in DOMAIN runs :
       runs[r].owner # NoOwner =>
         Grant(runs[r].kind, r, runs[r].owner, runs[r].epoch) \in claims

\* Every operation was reserved under an epoch that had been granted as an
\* execution lease to the owner recorded in its row.
ReservedUnderExecution ==
  \A p \in DOMAIN ops :
    Grant("execution", ops[p].run, ops[p].owner, ops[p].epoch) \in claims

\* What a terminal record says stays true of the tables it was derived from:
\* COMPLETED means stopped, never cancelled and every operation settled, then
\* and now; CANCELLED means cancelled and stopped; and a favourable assurance
\* was given to a run with nothing missing and no hold.
TerminalFaithful ==
  \A r \in DOMAIN terminal :
    LET t == terminal[r] IN
    /\ r \in DOMAIN runs
    /\ t.status = "COMPLETED" =>
         /\ runs[r].stop /\ ~runs[r].cancel
         /\ \A p \in OpsOf(r) : ops[p].status = "settled"
    /\ t.status = "CANCELLED" => runs[r].cancel /\ runs[r].stop
    /\ t.assurance \in {"HEALTHY", "WARNING"} => runs[r].stop /\ t.closed /\ ~t.hold

\* The inductive invariant behind the safety theorems.
LedgerInv ==
  /\ RowsStayReadable
  /\ HoldIffDisputed
  /\ EpochFencing
  /\ ClaimsTrackLease
  /\ ReservedUnderExecution
  /\ TerminalFaithful

RecordsStep ==
  /\ \A r \in DOMAIN terminal :
       r \in DOMAIN terminal' /\ terminal'[r] = terminal[r]
  /\ \A q \in DOMAIN reports :
       q \in DOMAIN reports' /\ reports'[q] = reports[q]

\* Records are written once: no step changes or removes a terminal record or
\* a stored report.
RecordsImmutable == [][RecordsStep]_vars

ClosedStep ==
  \A r \in DOMAIN runs :
    Closed(r) \/ lastClock >= runs[r].deadline =>
      /\ r \in DOMAIN runs'
      /\ Closed(r)' \/ lastClock' >= runs'[r].deadline
      /\ OpsOf(r)' = OpsOf(r)
      /\ \A c \in claims' \ claims : c.run = r => c.kind = "recovery"

\* Once a run is cancelled, stopped, on hold, terminal or past its deadline
\* by the stored clock, no step reserves an operation for it or grants an
\* execution lease, and the run stays in that condition.
ExecutionStaysClosed == [][ClosedStep]_vars
=============================================================================
