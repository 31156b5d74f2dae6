---------------------------- MODULE ResourceBook ----------------------------
(***************************************************************************)
(* The resource book of src/src/gah/resources.py: the reservations, the    *)
(* dispatch intents and the observed usage of the evaluation runs, kept in *)
(* the management database.                                                *)
(*                                                                         *)
(* Every method runs inside a BEGIN IMMEDIATE transaction of its caller    *)
(* and a refused call rolls back, so a method is one action and a refusal  *)
(* a stuttering step.  The broker passes the time: the argument now.       *)
(*                                                                         *)
(* Two kinds of callers act on the book.  An operator acts for an owner of *)
(* a run and has to present an owner and an epoch that an earlier answer   *)
(* gave it (grants).  An observer reports, at any time, in any order and   *)
(* possibly more than once, that an operation stopped and what it used.    *)
(*                                                                         *)
(* Stored JSON with its digest is the value it encodes; the two caches in  *)
(* front of the decoder return what a fresh decoding returns.  Money       *)
(* in a usage report is in sub-micro units, Scale of which make a          *)
(* micro-dollar; everywhere else it is in micro-dollars.                   *)
(***************************************************************************)
EXTENDS Integers, FiniteSets, FiniteSetsExt

CONSTANTS
  Runs,         \* run identifiers
  Owners,       \* owner identifiers
  Operations,   \* operation identifiers
  Events,       \* observation event identifiers
  Reservations, \* the reservations callers ask for
  Usages,       \* the usages observers report
  NoUsage,      \* no usage in a report or a row (NULL)
  Profiles,     \* the policy profiles of the runs
  Limits,       \* profile -> its limits
  PerCall,      \* the per_call token limits of the policies
  Scale,        \* sub-micro units per micro-dollar
  LeaseSeconds, \* 60
  Window,       \* 86400
  MaxInteger,   \* MAX_INTEGER
  MaxClock      \* bound: the last second the model lets the clock show

Null == -1      \* SQL NULL in a numeric column

LimitRow ==
  [concurrent : Nat, trials : Nat, calls : Nat, cost : Nat, tokens : Nat,
   global : Nat, elapsed : Nat]

ReservationRow ==
  [trials : Nat, calls : Nat, input : Nat, output : Nat, cost : Nat]

UsageRow == [input : Nat, output : Nat, cost : Nat]

ASSUME BookAssumption ==
  /\ Reservations \subseteq ReservationRow
  /\ Usages \subseteq UsageRow
  /\ NoUsage \notin Usages
  /\ Limits \in [Profiles -> LimitRow]
  /\ PerCall \in [input : Nat, output : Nat]
  /\ Scale \in Nat \ {0}
  /\ LeaseSeconds \in Nat \ {0}
  /\ Window \in Nat \ {0}
  /\ MaxInteger \in Nat
  /\ MaxClock \in 0 .. MaxInteger

VARIABLES
  lastClock,    \* resource_meta.last_clock, -1 before the first call
  runs,         \* table resource_runs
  ops,          \* table resource_operations
  events,       \* table resource_events
  grants        \* the (run, owner, epoch) answers the callers have received

bookVars == <<lastClock, runs, ops, events, grants>>

-----------------------------------------------------------------------------
(* Rows and tables.                                                         *)

RunRow ==
  [profile : Profiles, created : Nat, deadline : Nat, owner : Owners,
   epoch : Nat, lease : Nat,
   cancelled : BOOLEAN, breached : BOOLEAN, closed : BOOLEAN]

OpRow ==
  [run : Runs, epoch : Nat, reserved : Reservations,
   intended : Nat \cup {Null}, stopped : Nat \cup {Null},
   released : BOOLEAN, usage : Usages \cup {NoUsage},
   settledAt : Nat \cup {Null}, cost : Nat \cup {Null},
   conflicted : BOOLEAN, exposure : Nat]

\* The content an event identifier stands for; the run is the operation's.
EventRow ==
  [op : Operations, stopped : BOOLEAN, usage : Usages \cup {NoUsage}]

GrantRow == [run : Runs, owner : Owners, epoch : Nat]

IsTable(t, K, Row) == DOMAIN t \subseteq K /\ t \in [DOMAIN t -> Row]

Insert(t, k, row) ==
  [x \in DOMAIN t \cup {k} |-> IF x = k THEN row ELSE t[x]]

Larger(a, b) == IF a >= b THEN a ELSE b
Smaller(a, b) == IF a <= b THEN a ELSE b
OrZero(x) == IF x = Null THEN 0 ELSE x

-----------------------------------------------------------------------------
(* Accounting (_totals).  A released reservation counts nowhere.            *)

\* The ledger's _parse_usd rounds up to a whole micro-dollar.
Micros(usd) == (usd + Scale - 1) \div Scale

Settled(op) == op.usage # NoUsage /\ ~op.conflicted

\* The settled cost, else the larger of the reservation and the exposure.
Cost(op) ==
  IF Settled(op) THEN op.cost ELSE Larger(op.reserved.cost, op.exposure)

Tokens(op) ==
  CASE Settled(op) -> op.usage.input + op.usage.output
    [] ~Settled(op) /\ op.usage = NoUsage ->
         op.reserved.input + op.reserved.output
    [] ~Settled(op) /\ op.usage # NoUsage ->
         Larger(op.reserved.input, op.usage.input)
           + Larger(op.reserved.output, op.usage.output)

OpsOf(r) == {p \in DOMAIN ops : ops[p].run = r}
Counted(r) == {p \in OpsOf(r) : ~ops[p].released}

Slots(r) == Cardinality({p \in Counted(r) : ops[p].stopped = Null})
Unsettled(r) == {p \in Counted(r) : ~Settled(ops[p])}
Trials(r) == MapThenSumSet(LAMBDA p : ops[p].reserved.trials, Counted(r))
Calls(r) == MapThenSumSet(LAMBDA p : ops[p].reserved.calls, Counted(r))
RunCost(r) == MapThenSumSet(LAMBDA p : Cost(ops[p]), Counted(r))
TotalTokens(r) == MapThenSumSet(LAMBDA p : Tokens(ops[p]), Counted(r))

\* Unsettled amounts stay in the rolling window for ever.
InWindow(op, now) ==
  ~op.released /\ (~Settled(op) \/ op.settledAt > now - Window)

GlobalCost(now) ==
  MapThenSumSet(LAMBDA p : Cost(ops[p]),
                {p \in DOMAIN ops : InWindow(ops[p], now)})

\* snapshot: slots free, everything settled, no breach.
BudgetClosure(r) == Slots(r) = 0 /\ Unsettled(r) = {} /\ ~runs[r].breached

-----------------------------------------------------------------------------
(* Guards shared by the methods.                                            *)

\* _touch: the clock never goes back, and the reading is stored.
Touch(now) == now >= lastClock /\ lastClock' = now

Known(r) == r \in DOMAIN runs

\* _owner: the presented owner and epoch are current, the lease has not
\* expired.
Owner(r, o, e, now) ==
  runs[r].owner = o /\ runs[r].epoch = e /\ now < runs[r].lease

\* _owner(start=True), and claim's start_denied.
StartDenied(r, now) ==
  now >= runs[r].deadline \/ runs[r].cancelled \/ runs[r].breached

OwnerStart(r, o, e, now) ==
  Owner(r, o, e, now) /\ ~runs[r].closed /\ ~StartDenied(r, now)

\* A new epoch begins exactly when the lease had expired.
ClaimEpoch(r, now) ==
  IF now >= runs[r].lease THEN runs[r].epoch + 1 ELSE runs[r].epoch

\* _claim_owner: nobody takes a valid lease from its owner.
Claimable(r, o, now) ==
  /\ now < runs[r].lease => runs[r].owner = o
  /\ ClaimEpoch(r, now) <= MaxInteger /\ now <= MaxInteger - LeaseSeconds

\* _claim_owner's update of the row.
ClaimedRow(r, o, now) ==
  [runs[r] EXCEPT !.owner = o, !.epoch = ClaimEpoch(r, now),
                  !.lease = now + LeaseSeconds]

Granted(r, o, e) == grants \cup {[run |-> r, owner |-> o, epoch |-> e]}

\* _reservation: at most one trial and one call, tokens only for a call and
\* within the per-call limits.  A zero cost is the non-billed mode.
ValidReservation(res) ==
  /\ res.trials <= 1 /\ res.calls <= 1
  /\ res.input <= PerCall.input /\ res.output <= PerCall.output
  /\ res.calls = 0 => res.input = 0 /\ res.output = 0

HasSlot(r) == Slots(r) < Limits[runs[r].profile].concurrent

FitsRun(r, res) ==
  LET limits == Limits[runs[r].profile] IN
  /\ Trials(r) + res.trials <= limits.trials
  /\ Calls(r) + res.calls <= limits.calls
  /\ RunCost(r) + res.cost <= limits.cost
  /\ TotalTokens(r) + res.input + res.output <= limits.tokens

FitsGlobal(r, res, now) ==
  GlobalCost(now) + res.cost <= Limits[runs[r].profile].global

NewOp(r, e, res) ==
  [run |-> r, epoch |-> e, reserved |-> res, intended |-> Null,
   stopped |-> Null, released |-> FALSE, usage |-> NoUsage,
   settledAt |-> Null, cost |-> Null, conflicted |-> FALSE, exposure |-> 0]

-----------------------------------------------------------------------------
(* Methods.                                                                 *)

BookInit ==
  /\ lastClock = -1
  /\ runs = [r \in {} |-> {}]
  /\ ops = [p \in {} |-> {}]
  /\ events = [v \in {} |-> {}]
  /\ grants = {}

create_run(now, r, profile, o, deadline) ==
  /\ Touch(now)
  /\ now < deadline
  /\ deadline <= Smaller(MaxInteger, now + Limits[profile].elapsed)
  /\ ~Known(r)
  /\ runs' = Insert(runs, r,
       [profile |-> profile, created |-> now, deadline |-> deadline,
        owner |-> o, epoch |-> 1,
        lease |-> Smaller(MaxInteger, now + LeaseSeconds),
        cancelled |-> FALSE, breached |-> FALSE, closed |-> FALSE])
  /\ grants' = Granted(r, o, 1)
  /\ UNCHANGED <<ops, events>>

\* A claim to start work is refused exactly when a claim to recover (to
\* observe, cancel and close) is allowed.
claim(now, r, o, recovery) ==
  /\ Touch(now)
  /\ Known(r)
  /\ ~runs[r].closed
  /\ recovery <=> StartDenied(r, now)
  /\ Claimable(r, o, now)
  /\ runs' = [runs EXCEPT ![r] = ClaimedRow(r, o, now)]
  /\ grants' = Granted(r, o, ClaimEpoch(r, now))
  /\ UNCHANGED <<ops, events>>

\* A known operation is only confirmed, to the epoch that reserved it.
reserve(now, r, o, e, p, res) ==
  /\ Touch(now)
  /\ Known(r) /\ OwnerStart(r, o, e, now)
  /\ ValidReservation(res)
  /\ \/ /\ p \in DOMAIN ops
        /\ ops[p].run = r /\ ops[p].reserved = res /\ ops[p].epoch = e
        /\ UNCHANGED ops
     \/ /\ p \notin DOMAIN ops
        /\ HasSlot(r) /\ FitsRun(r, res) /\ FitsGlobal(r, res, now)
        /\ ops' = Insert(ops, p, NewOp(r, e, res))
  /\ UNCHANGED <<runs, events, grants>>

\* Mutant: the operation may stem from an earlier owner epoch.
ProvablyNewAnyEpoch(op, e) == op.intended = Null /\ ~op.released

ProvablyNew(op, e) == op.epoch = e /\ op.intended = Null /\ ~op.released

dispatch_intent(now, r, o, e, p) ==
  /\ Touch(now)
  /\ Known(r) /\ OwnerStart(r, o, e, now)
  /\ p \in OpsOf(r) /\ ProvablyNew(ops[p], e)
  /\ ops' = [ops EXCEPT ![p].intended = now]
  /\ UNCHANGED <<runs, events, grants>>

\* What a cancellation releases: the reservations never dispatched.
ReleasedByCancel(p, r) == ops[p].run = r /\ ops[p].intended = Null

ReleasedOps(r) ==
  [p \in DOMAIN ops |->
    IF ReleasedByCancel(p, r) THEN [ops[p] EXCEPT !.released = TRUE]
                              ELSE ops[p]]

\* terminal_pending: the caller knows that no receipt has been issued for a
\* closed run yet.
cancel(now, r, o, e, terminalPending) ==
  /\ Touch(now)
  /\ Known(r)
  /\ ~runs[r].closed \/ terminalPending
  /\ Owner(r, o, e, now)
  /\ runs' = [runs EXCEPT ![r].cancelled = TRUE]
  /\ ops' = ReleasedOps(r)
  /\ UNCHANGED <<events, grants>>

\* Takes the expired lease over and cancels, in one step.
claim_for_cancel(now, r, o, terminalPending) ==
  /\ Touch(now)
  /\ Known(r)
  /\ ~runs[r].closed \/ terminalPending
  /\ Claimable(r, o, now)
  /\ runs' = [runs EXCEPT
       ![r] = [ClaimedRow(r, o, now) EXCEPT !.cancelled = TRUE]]
  /\ ops' = ReleasedOps(r)
  /\ grants' = Granted(r, o, ClaimEpoch(r, now))
  /\ UNCHANGED events

\* Mutant: a run is closed while its usage is still unsettled.
MayCloseUnsettled(r) == Slots(r) = 0

MayClose(r) == Slots(r) = 0 /\ Unsettled(r) = {}

\* A second close answers without a change.
close(now, r, o, e) ==
  /\ Touch(now)
  /\ Known(r) /\ Owner(r, o, e, now)
  /\ runs[r].closed \/ MayClose(r)
  /\ runs' = [runs EXCEPT ![r].closed = TRUE]
  /\ UNCHANGED <<ops, events, grants>>

-----------------------------------------------------------------------------
(* Observations.                                                            *)

CostOf(usage) == IF usage = NoUsage THEN 0 ELSE Micros(usage.cost)

\* Mutant: the cost stored with the first report is forgotten.
ExposureNewest(op, usage) ==
  Larger(Larger(op.reserved.cost, op.exposure), CostOf(usage))

\* The exposure of a disputed operation never falls below any claim made.
Exposure(op, usage) ==
  Larger(Larger(op.reserved.cost, op.exposure),
         Larger(CostOf(usage), OrZero(op.cost)))

Disputed(op, usage) ==
  [op EXCEPT !.conflicted = TRUE, !.exposure = Exposure(op, usage)]

\* What every observation is checked for: a dispatched operation, something
\* to report, and a zero cost only under a non-billed reservation.
Observable(p, stopped, usage) ==
  /\ stopped \/ usage # NoUsage
  /\ ops[p].intended # Null /\ ~ops[p].released
  /\ usage # NoUsage /\ CostOf(usage) = 0 => ops[p].reserved.cost = 0

\* The operations a reused event identifier casts doubt on.
Affected(p, v) == {p, events[v].op}

\* An event identifier that was used for other content: both operations are
\* disputed and their runs breached; the event itself is not stored.
EventConflict(p, v, stopped, usage) ==
  /\ events[v] # [op |-> p, stopped |-> stopped, usage |-> usage]
  /\ ops' = [q \in DOMAIN ops |->
       IF q \in Affected(p, v) THEN Disputed(ops[q], usage) ELSE ops[q]]
  /\ runs' = [r \in DOMAIN runs |->
       [runs[r] EXCEPT !.breached =
          @ \/ \E q \in Affected(p, v) : ops[q].run = r]]
  /\ UNCHANGED events

\* A redelivered event: the stored answer, no change.
EventReplay(p, v, stopped, usage) ==
  /\ events[v] = [op |-> p, stopped |-> stopped, usage |-> usage]
  /\ UNCHANGED <<runs, ops, events>>

\* A usage that differs from the one stored first.
Conflict(op, usage) ==
  op.conflicted \/ (usage # NoUsage /\ op.usage # NoUsage
                    /\ op.usage # usage)

Exceeds(op, usage) ==
  usage # NoUsage /\ (\/ usage.input > op.reserved.input
                      \/ usage.output > op.reserved.output
                      \/ CostOf(usage) > op.reserved.cost)

\* A report after the deadline is an overrun as well.
Overrun(op, deadline, now, usage) == now > deadline \/ Exceeds(op, usage)

\* The first usage is stored whether it fits the reservation or not.
WithUsage(op, now, usage) ==
  IF usage # NoUsage /\ op.usage = NoUsage
    THEN [op EXCEPT !.usage = usage, !.settledAt = now,
                    !.cost = CostOf(usage)]
    ELSE op

WithStop(op, now, stopped) ==
  IF stopped /\ op.stopped = Null THEN [op EXCEPT !.stopped = now] ELSE op

\* A new event.  The exposure is computed from the row read at the start.
EventNew(now, p, v, stopped, usage) ==
  LET op == ops[p]
      r == op.run
      seen == WithStop(WithUsage(op, now, usage), now, stopped)
      conflict == Conflict(op, usage)
  IN /\ ops' = [ops EXCEPT ![p] =
          IF conflict
            THEN [seen EXCEPT !.conflicted = TRUE,
                              !.exposure = Exposure(op, usage)]
            ELSE seen]
     /\ runs' = [runs EXCEPT ![r].breached =
          @ \/ conflict \/ Overrun(op, runs[r].deadline, now, usage)]
     /\ events' = Insert(events, v,
          [op |-> p, stopped |-> stopped, usage |-> usage])

\* Any observer, whatever became of the owner that dispatched.
observe(now, p, v, stopped, usage) ==
  /\ Touch(now)
  /\ p \in DOMAIN ops /\ Observable(p, stopped, usage)
  /\ \/ v \in DOMAIN events /\ EventConflict(p, v, stopped, usage)
     \/ v \in DOMAIN events /\ EventReplay(p, v, stopped, usage)
     \/ v \notin DOMAIN events /\ EventNew(now, p, v, stopped, usage)
  /\ UNCHANGED grants

\* snapshot and inspect_operation only move the clock.
snapshot(now, r) ==
  /\ Touch(now)
  /\ Known(r)
  /\ UNCHANGED <<runs, ops, events, grants>>

-----------------------------------------------------------------------------
Times == 0 .. MaxClock
Reports == [op : Operations, stopped : BOOLEAN, usage : Usages \cup {NoUsage}]

BookNext ==
  \E now \in Times :
    \/ \E r \in Runs, o \in Owners :
         \/ \E profile \in Profiles, deadline \in now .. now + MaxClock :
              create_run(now, r, profile, o, deadline)
         \/ \E recovery \in BOOLEAN : claim(now, r, o, recovery)
         \/ \E pending \in BOOLEAN : claim_for_cancel(now, r, o, pending)
    \/ \E g \in grants :
         \/ \E p \in Operations :
              \/ \E res \in Reservations :
                   reserve(now, g.run, g.owner, g.epoch, p, res)
              \/ dispatch_intent(now, g.run, g.owner, g.epoch, p)
         \/ \E pending \in BOOLEAN :
              cancel(now, g.run, g.owner, g.epoch, pending)
         \/ close(now, g.run, g.owner, g.epoch)
    \/ \E v \in Events, m \in Reports :
         observe(now, m.op, v, m.stopped, m.usage)
    \/ \E r \in Runs : snapshot(now, r)

BookSpec == BookInit /\ [][BookNext]_bookVars

-----------------------------------------------------------------------------
(* Properties.                                                              *)

\* The tables hold rows of their types, and rows refer to rows that exist.
TypeOK ==
  /\ lastClock \in Nat \cup {-1}
  /\ IsTable(runs, Runs, RunRow)
  /\ IsTable(ops, Operations, OpRow)
  /\ IsTable(events, Events, EventRow)
  /\ grants \subseteq GrantRow
  /\ \A p \in DOMAIN ops : ops[p].run \in DOMAIN runs
  /\ \A v \in DOMAIN events : events[v].op \in DOMAIN ops

\* resource_operation.inspect_operation re-checks a stored row against its
\* run before it answers, and calls any mismatch STORAGE_CORRUPT.  No order
\* of legal calls ever brings a row into such a state.
Inspectable ==
  \A p \in DOMAIN ops :
    LET op == ops[p]
        run == runs[op.run]
    IN /\ ValidReservation(op.reserved)
       /\ op.epoch \in 1 .. run.epoch
       /\ \A t \in {op.intended, op.stopped, op.settledAt} \ {Null} :
            t \in run.created .. lastClock
       /\ op.released => op.intended = Null
       /\ op.stopped # Null => op.intended # Null /\ op.stopped >= op.intended
       /\ op.settledAt # Null =>
            op.intended # Null /\ op.settledAt >= op.intended
       /\ op.conflicted => op.intended # Null
       /\ ~op.conflicted => op.exposure = 0
       /\ (op.usage = NoUsage) = (op.settledAt = Null)
       /\ (op.usage = NoUsage) = (op.cost = Null)
       /\ op.usage # NoUsage =>
            /\ op.cost = Micros(op.usage.cost)
            /\ op.cost = 0 => op.reserved.cost = 0

\* Unless an observation has breached the run, what reserve admitted and the
\* observers reported never exceeds any limit of the run's profile.
RunWithinLimits ==
  \A r \in DOMAIN runs : ~runs[r].breached =>
    LET limits == Limits[runs[r].profile] IN
    /\ Trials(r) <= limits.trials
    /\ Calls(r) <= limits.calls
    /\ RunCost(r) <= limits.cost
    /\ TotalTokens(r) <= limits.tokens

\* The rolling cost over all runs stays within the largest global budget of
\* their policies as long as no run is breached.
GlobalWithinLimit ==
  (\A r \in DOMAIN runs : ~runs[r].breached) /\ DOMAIN runs # {} =>
    \E r \in DOMAIN runs :
      GlobalCost(lastClock) <= Limits[runs[r].profile].global

\* The operations of a run that may still be executing never outnumber its
\* concurrency limit, breached, cancelled or taken over.
SlotsBounded ==
  \A r \in DOMAIN runs : Slots(r) <= Limits[runs[r].profile].concurrent

\* What reserve admitted stays within every limit, now and after later
\* observations.
WithinLimits == RunWithinLimits /\ GlobalWithinLimit /\ SlotsBounded

\* Two owners never hold the same epoch of a run: the epoch identifies the
\* owner in every later check (_claim_owner).
EpochFencing ==
  \A g, h \in grants : g.run = h.run /\ g.epoch = h.epoch => g.owner = h.owner

\* A closed run that is not breached has every slot free and every usage
\* settled: a late or disputed observation after close cannot re-open its
\* account without marking the breach.
ClosedAccounted ==
  \A r \in DOMAIN runs : runs[r].closed /\ ~runs[r].breached =>
    Slots(r) = 0 /\ Unsettled(r) = {}

\* A disputed operation is charged at least every cost reported for it in a
\* stored observation.
DisputeCharged ==
  \A v \in DOMAIN events :
    ops[events[v].op].conflicted =>
      Cost(ops[events[v].op]) >= CostOf(events[v].usage)

\* What was admitted and what was reported is charged, and within its limits.
AccountsHold == WithinLimits /\ DisputeCharged

\* Breach bookkeeping: an operation disputed or above its reservation always
\* leaves its run breached, and a run is breached for no other reason than
\* these and reports after the deadline.
Suspect(p) == ops[p].conflicted \/ Exceeds(ops[p], ops[p].usage)
BreachExplained ==
  \A r \in DOMAIN runs :
    /\ (\E p \in OpsOf(r) : Suspect(p)) => runs[r].breached
    /\ runs[r].breached =>
         (\E p \in OpsOf(r) : Suspect(p)) \/ lastClock > runs[r].deadline

\* The book of a run is in order whatever its owners and observers did: rows can
\* be inspected, epochs tell owners apart, and a close and a breach are explained.
BookInOrder == Inspectable /\ EpochFencing /\ ClosedAccounted /\ BreachExplained

\* An operation left undispatched by an earlier owner epoch is never
\* dispatched, and an operation is dispatched once and for ever.
DispatchStep ==
  \A p \in DOMAIN ops :
    ops'[p].intended # ops[p].intended =>
      /\ ops[p].intended = Null
      /\ ops[p].epoch = runs[ops[p].run].epoch
      /\ ~StartDenied(ops[p].run, lastClock')

\* A closed, cancelled or breached run never starts anything again.
StoppedStep ==
  \A r \in DOMAIN runs :
    runs[r].closed \/ runs[r].cancelled \/ runs[r].breached =>
      /\ runs'[r].closed \/ runs'[r].cancelled \/ runs'[r].breached
      /\ \A p \in DOMAIN ops' : ops'[p].run = r =>
           /\ p \in DOMAIN ops
           /\ ops'[p].intended = ops[p].intended
=============================================================================
