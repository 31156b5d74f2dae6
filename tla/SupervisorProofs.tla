--------------------------- MODULE SupervisorProofs ---------------------------
(***************************************************************************)
(* Proofs about the supervisors of a regression run and of an LLM run and  *)
(* about the diagnosis of one entry: for any plan, any number of owners    *)
(* and operations, any limits and any number of deaths.                    *)
(*                                                                         *)
(* The supervisor, the authority and the runner's journal are three stores *)
(* that no transaction joins.  What the authority is told of an end is     *)
(* right because of what each of them holds of the others (Agreement) and  *)
(* because of what the supervisor may count on at each step (Control).     *)
(* The consumer of a diagnosis has its own DiagAgreement and DiagControl.  *)
(* The main thread of an LLM run is either Outside of the pool, with no    *)
(* worker and the invariant of a regression run, or InPool, where a worker *)
(* keeps what it was given (WorkersTrue); the two meet because the entries *)
(* of the plan leave their traces in its order (InOrder).                  *)
(***************************************************************************)
EXTENDS ResourceProofs, MCSupervisedRun

-----------------------------------------------------------------------------
(* What a request of the authority leaves alone.                           *)

\* No operation stops but those of S, and no run is closed but those of S.
StopsOnly(S) ==
  \A p \in DOMAIN ops' : ops'[p].stopped # Null =>
    p \in S \/ (p \in DOMAIN ops /\ ops[p].stopped # Null)
ClosesOnly(S) ==
  \A r \in DOMAIN runs' : runs'[r].closed => r \in S \/ (r \in DOMAIN runs /\ runs[r].closed)

\* What is new is an operation of the run r.
NewOnlyFor(r) == \A p \in DOMAIN ops' : p \in DOMAIN ops \/ ops'[p].run = r

\* Every request keeps the invariant of the authority, and is known for the rest.
Effects(stops, closes, r) ==
  /\ AuthInv' /\ Moves /\ grants \subseteq grants'
  /\ StopsOnly(stops) /\ ClosesOnly(closes) /\ NewOnlyFor(r)

Grant(r, o, e) == [run |-> r, owner |-> o, epoch |-> e]

\* The operations are not touched, or reservations are released.
LEMMA OpsRest ==
  ASSUME TypeOK, NEW r, ops' = ops \/ ops' = ReleasedOps(r), NEW x
  PROVE  StopsOnly({}) /\ NewOnlyFor(x)
<1>1. CASE ops' = ops
  BY <1>1 DEF StopsOnly, NewOnlyFor
<1>2. CASE ops' = ReleasedOps(r)
  <2>1. ASSUME NEW p \in DOMAIN ops PROVE ops'[p].stopped = ops[p].stopped
    <3>1. ops[p] \in OpRow
      BY RowTypes
    <3>2. CASE ops'[p] = ops[p]
      BY <3>2
    <3>3. CASE ops'[p] = [ops[p] EXCEPT !.released = TRUE]
      BY <3>1, <3>3 DEF OpRow
    <3> QED
      BY <1>2, <3>2, <3>3, Released, Zenon
  <2> QED
    BY <1>2, <2>1, Released DEF StopsOnly, NewOnlyFor
<1> QED
  BY <1>1, <1>2

LEMMA RunsRest ==
  ASSUME runs' = runs
  PROVE  ClosesOnly({})
BY DEF ClosesOnly

\* A claim writes the row of its run and keeps whether it is closed.
LEMMA ClaimedRest ==
  ASSUME TypeOK, NEW r \in DOMAIN runs, NEW o \in Owners, NEW now \in Nat, Claimable(r, o, now),
         NEW flag \in BOOLEAN, runs[r].cancelled => flag,
         runs' = [runs EXCEPT ![r] = ClaimedAs(r, o, now, flag)],
         grants' = Granted(r, o, ClaimEpoch(r, now))
  PROVE  /\ ClosesOnly({}) /\ grants \subseteq grants' /\ r \in DOMAIN runs'
         /\ runs'[r].cancelled = flag /\ Grant(r, o, runs'[r].epoch) \in grants'
<1>1. PICK row : row = ClaimedAs(r, o, now, flag)
  OBVIOUS
<1>2. row.closed = runs[r].closed /\ row.epoch = ClaimEpoch(r, now) /\ row.cancelled = flag
  BY <1>1, ClaimedRowFacts
<1>3. IsTable(runs, Runs, RunRow) /\ runs' = [runs EXCEPT ![r] = row]
  BY <1>1 DEF TypeOK
<1>4. DOMAIN runs' = DOMAIN runs /\ runs'[r] = row
  BY <1>3 DEF IsTable
<1>5. ClosesOnly({})
  BY <1>2, <1>3 DEF ClosesOnly, IsTable
<1> QED
  BY <1>2, <1>4, <1>5 DEF Granted, Grant

LEMMA BeginEffects ==
  ASSUME AuthInv, NEW now \in Times, NEW r \in Runs, NEW profile \in Profiles, NEW o \in Owners,
         NEW deadline \in Nat, run_begin(now, r, profile, o, deadline)
  PROVE  Effects({}, {}, r)
<1>1. AuthInv' /\ Moves
  BY BeginKept
<1>2. ops' = ops /\ grants \subseteq grants'
  BY DEF run_begin, create_run, Granted
<1>3. ClosesOnly({})
  <2>1. PICK row : /\ row = [profile |-> profile, created |-> now, deadline |-> deadline,
                             owner |-> o, epoch |-> 1,
                             lease |-> Smaller(MaxInteger, now + LeaseSeconds),
                             cancelled |-> FALSE, breached |-> FALSE, closed |-> FALSE]
                   /\ runs' = Insert(runs, r, row)
    BY DEF run_begin, create_run
  <2>2. ~row.closed
    BY <2>1
  <2> QED
    BY <2>1, <2>2 DEF ClosesOnly, Insert
<1> QED
  BY <1>1, <1>2, <1>3, OpsRest DEF Effects, AuthInv, BookInv

LEMMA ClaimEffects ==
  ASSUME AuthInv, NEW now \in Times, NEW r \in Runs, NEW o \in Owners, NEW recovery \in BOOLEAN,
         resource_claim(now, r, o, recovery)
  PROVE  Effects({}, {}, r) /\ Grant(r, o, runs'[r].epoch) \in grants' /\ runs'[r].epoch \in Nat
<1>1. AuthInv' /\ Moves
  BY ClaimKept
<1>2. /\ TypeOK /\ now \in Nat /\ r \in DOMAIN runs /\ Claimable(r, o, now) /\ ops' = ops
      /\ runs' = [runs EXCEPT ![r] = ClaimedRow(r, o, now)]
      /\ grants' = Granted(r, o, ClaimEpoch(r, now))
  BY TouchClock DEF AuthInv, BookInv, resource_claim, claim, Known
<1>3. PICK flag \in BOOLEAN : flag = runs[r].cancelled
  BY <1>2, RowTypes DEF RunRow
<1>4. ClaimedAs(r, o, now, flag) = ClaimedRow(r, o, now)
  BY <1>2, <1>3, RowTypes DEF RunRow, ClaimedRow, ClaimedAs
<1>5. ClosesOnly({}) /\ grants \subseteq grants' /\ Grant(r, o, runs'[r].epoch) \in grants'
        /\ r \in DOMAIN runs'
  BY <1>2, <1>3, <1>4, ClaimedRest
<1>6. runs'[r].epoch \in Nat
  BY <1>1, <1>5 DEF AuthInv, BookInv, TypeOK, IsTable, RunRow
<1> QED
  BY <1>1, <1>2, <1>5, <1>6, OpsRest DEF Effects

LEMMA CancelClaimEffects ==
  ASSUME AuthInv, NEW now \in Times, NEW r \in Runs, NEW o \in Owners,
         resource_cancel_claim(now, r, o)
  PROVE  /\ Effects({}, {}, r) /\ Grant(r, o, runs'[r].epoch) \in grants'
         /\ r \in DOMAIN runs' /\ runs'[r].cancelled /\ runs'[r].epoch \in Nat
<1>1. AuthInv' /\ Moves
  BY CancelClaimKept
<1>2. /\ TypeOK /\ now \in Nat /\ r \in DOMAIN runs /\ Claimable(r, o, now)
      /\ ops' = ReleasedOps(r)
      /\ runs' = [runs EXCEPT ![r] = [ClaimedRow(r, o, now) EXCEPT !.cancelled = TRUE]]
      /\ grants' = Granted(r, o, ClaimEpoch(r, now))
  BY TouchClock DEF AuthInv, BookInv, resource_cancel_claim, claim_for_cancel, Known
<1>3. PICK flag \in BOOLEAN : flag = TRUE
  OBVIOUS
<1>4. ClaimedAs(r, o, now, flag) = [ClaimedRow(r, o, now) EXCEPT !.cancelled = TRUE]
  BY <1>3 DEF ClaimedAs
<1>5. /\ ClosesOnly({}) /\ grants \subseteq grants' /\ Grant(r, o, runs'[r].epoch) \in grants'
      /\ r \in DOMAIN runs' /\ runs'[r].cancelled = flag
  BY <1>2, <1>3, <1>4, ClaimedRest
<1>6. runs'[r].epoch \in Nat
  BY <1>1, <1>5 DEF AuthInv, BookInv, TypeOK, IsTable, RunRow
<1> QED
  BY <1>1, <1>2, <1>3, <1>5, <1>6, OpsRest DEF Effects

LEMMA ReserveEffects ==
  ASSUME AuthInv, NEW now \in Times, NEW r, NEW o, NEW e, Grant(r, o, e) \in grants,
         NEW p \in Operations, NEW entry \in Entries, resource_reserve(now, r, o, e, p, entry)
  PROVE  Effects({}, {}, r) /\ p \in DOMAIN ops'
<1>1. PICK g \in grants : g.run = r /\ g.owner = o /\ g.epoch = e
  BY DEF Grant
<1>2. AuthInv' /\ Moves
  BY <1>1, ReserveKept
<1>3. runs' = runs /\ grants' = grants
  BY DEF resource_reserve, reserve
<1>4. CASE p \in DOMAIN ops /\ ops' = ops
  BY <1>2, <1>3, <1>4, OpsRest, RunsRest DEF Effects, AuthInv, BookInv
<1>5. CASE ops' = Insert(ops, p, NewOp(r, e, Fixture))
  <2>1. PICK op : op = NewOp(r, e, Fixture)
    OBVIOUS
  <2>2. op.stopped = Null /\ op.run = r
    BY <2>1 DEF NewOp
  <2>3. StopsOnly({}) /\ NewOnlyFor(r) /\ p \in DOMAIN ops'
    BY <1>5, <2>1, <2>2 DEF StopsOnly, NewOnlyFor, Insert
  <2> QED
    BY <1>2, <1>3, <2>3, RunsRest DEF Effects
<1> QED
  BY <1>4, <1>5 DEF resource_reserve, reserve

LEMMA DispatchEffects ==
  ASSUME AuthInv, NEW now \in Times, NEW r, NEW o, NEW e, Grant(r, o, e) \in grants,
         NEW p \in Operations, resource_dispatch(now, r, o, e, p)
  PROVE  Effects({}, {}, r) /\ p \in DOMAIN ops' /\ ops'[p].intended # Null
<1>1. PICK g \in grants : g.run = r /\ g.owner = o /\ g.epoch = e
  BY DEF Grant
<1>2. AuthInv' /\ Moves
  BY <1>1, DispatchKept
<1>3. /\ runs' = runs /\ grants' = grants /\ p \in DOMAIN ops /\ TypeOK /\ now \in Nat
      /\ ops' = [ops EXCEPT ![p].intended = now]
  BY TouchClock DEF resource_dispatch, dispatch_intent, OpsOf, AuthInv, BookInv
<1>4. PICK op : op = [ops[p] EXCEPT !.intended = now]
  OBVIOUS
<1>5. op.stopped = ops[p].stopped /\ op.intended = now
  BY <1>3, <1>4, RowTypes DEF OpRow
<1>6. ops' = [ops EXCEPT ![p] = op] /\ IsTable(ops, Operations, OpRow)
  BY <1>3, <1>4 DEF TypeOK
<1>7. StopsOnly({}) /\ NewOnlyFor(r) /\ p \in DOMAIN ops' /\ ops'[p].intended # Null
  BY <1>3, <1>5, <1>6 DEF StopsOnly, NewOnlyFor, IsTable, Null
<1> QED
  BY <1>2, <1>3, <1>7, RunsRest DEF Effects

\* An observation stops its own operation only, and closes no run.
LEMMA ObserveEffects ==
  ASSUME AuthInv, NEW now \in Times, NEW r, NEW p \in Operations, NEW v \in Events,
         NEW stopped \in BOOLEAN, NEW usage \in Usages \cup {NoUsage},
         resource_observe(now, p, v, stopped, usage)
  PROVE  Effects({p}, {}, r)
<1>1. PICK m : m = [op |-> p, stopped |-> stopped, usage |-> usage]
  OBVIOUS
<1>2. AuthInv' /\ Moves
  <2>1. m \in Reports /\ m.op = p /\ m.stopped = stopped /\ m.usage = usage
    BY <1>1 DEF Reports
  <2> QED
    BY <2>1, ObserveKept
<1>3. /\ observe(now, p, v, stopped, usage) /\ grants' = grants /\ p \in DOMAIN ops /\ now \in Nat
      /\ TypeOK /\ IsTable(ops, Operations, OpRow) /\ IsTable(runs, Runs, RunRow)
  BY TouchClock DEF resource_observe, observe, AuthInv, BookInv, TypeOK
<1>4. CASE EventConflict(p, v, stopped, usage)
  <2>1. DOMAIN ops' = DOMAIN ops /\ DOMAIN runs' = DOMAIN runs
    BY <1>4 DEF EventConflict
  <2>2. ASSUME NEW q \in DOMAIN ops PROVE ops'[q].stopped = ops[q].stopped
    <3>1. ops'[q] = Disputed(ops[q], usage) \/ ops'[q] = ops[q]
      BY <1>4, Zenon DEF EventConflict
    <3>2. CASE ops'[q] = Disputed(ops[q], usage)
      <4>1. PICK x : x = Exposure(ops[q], usage)
        OBVIOUS
      <4>2. ops'[q] = [ops[q] EXCEPT !.conflicted = TRUE, !.exposure = x]
        BY <3>2, <4>1, Zenon DEF Disputed
      <4>3. ops[q] \in OpRow
        BY <1>3, RowTypes
      <4> QED
        BY <4>2, <4>3 DEF OpRow
    <3> QED
      BY <3>1, <3>2
  <2>3. ASSUME NEW x \in DOMAIN runs PROVE runs'[x].closed = runs[x].closed
    <3>1. PICK b : b = (runs[x].breached \/ \E q \in Affected(p, v) : ops[q].run = x)
      OBVIOUS
    <3>2. runs'[x] = [runs[x] EXCEPT !.breached = b]
      BY <1>4, <3>1, Zenon DEF EventConflict
    <3>3. runs[x] \in RunRow
      BY <1>3, RowTypes
    <3> QED
      BY <3>2, <3>3 DEF RunRow
  <2> QED
    BY <1>2, <1>3, <2>1, <2>2, <2>3 DEF Effects, StopsOnly, ClosesOnly, NewOnlyFor
<1>5. CASE EventReplay(p, v, stopped, usage)
  BY <1>2, <1>3, <1>5, OpsRest, RunsRest DEF EventReplay, Effects, StopsOnly
<1>6. CASE EventNew(now, p, v, stopped, usage)
  <2>1. PICK row : row = SeenRow(ops[p], now, stopped, usage)
    OBVIOUS
  <2>2. ops' = [ops EXCEPT ![p] = row]
    BY <1>6, <2>1 DEF EventNew, SeenRow
  <2>3. StopsOnly({p}) /\ NewOnlyFor(r)
    BY <1>3, <2>2 DEF StopsOnly, NewOnlyFor, IsTable
  <2>4. PICK x, b : runs' = [runs EXCEPT ![x] = [runs[x] EXCEPT !.breached = b]]
    <3>1. PICK x : x = ops[p].run
      OBVIOUS
    <3>2. runs' = [runs EXCEPT ![x] = [runs[x] EXCEPT !.breached =
                     runs[x].breached \/ Conflict(ops[p], usage)
                       \/ Overrun(ops[p], runs[x].deadline, now, usage)]]
      BY <1>6, <3>1, Zenon DEF EventNew
    <3> QED
      BY <3>2, Zenon
  <2>5. PICK row2 : row2 = [runs[x] EXCEPT !.breached = b]
    OBVIOUS
  <2>6. runs' = [runs EXCEPT ![x] = row2] /\ DOMAIN runs' = DOMAIN runs
    BY <1>3, <2>4, <2>5 DEF IsTable
  <2>7. x \in DOMAIN runs => row2.closed = runs[x].closed
    BY <1>3, <2>5, RowTypes DEF RunRow
  <2>8. ClosesOnly({})
    BY <1>3, <2>6, <2>7 DEF ClosesOnly, IsTable
  <2> QED
    BY <1>2, <1>3, <2>3, <2>8 DEF Effects
<1> QED
  BY <1>3, <1>4, <1>5, <1>6 DEF observe

LEMMA CloseEffects ==
  ASSUME AuthInv, NEW now \in Times, NEW r, NEW o, NEW e, Grant(r, o, e) \in grants,
         resource_close(now, r, o, e)
  PROVE  Effects({}, {r}, r)
<1>1. PICK g \in grants : g.run = r /\ g.owner = o /\ g.epoch = e
  BY DEF Grant
<1>2. AuthInv' /\ Moves
  BY <1>1, CloseKept
<1>3. /\ runs' = [runs EXCEPT ![r].closed = TRUE] /\ TypeOK
      /\ ops' = ops /\ grants' = grants
  BY DEF resource_close, close, AuthInv, BookInv
<1>4. ClosesOnly({r})
  <2>1. PICK row : row = [runs[r] EXCEPT !.closed = TRUE]
    OBVIOUS
  <2>2. runs' = [runs EXCEPT ![r] = row] /\ IsTable(runs, Runs, RunRow)
    BY <1>3, <2>1 DEF TypeOK
  <2> QED
    BY <2>2 DEF ClosesOnly, IsTable
<1> QED
  BY <1>2, <1>3, <1>4, OpsRest DEF Effects

\* The rest of the requests write no row of the book.
LEMMA QuietEffects ==
  ASSUME AuthInv, NEW now \in Times, NEW r \in Runs, NEW x,
         \/ snapshot(now, r) /\ Rest
         \/ evidence_finalize(now, r)
         \/ run_cancel_finalize(now, r)
  PROVE  Effects({}, {}, x)
<1>1. ops' = ops /\ runs' = runs /\ grants' = grants /\ TypeOK
  BY DEF snapshot, evidence_finalize, run_cancel_finalize, AuthInv, BookInv
<1>2. AuthInv' /\ Moves
  <2>1. CASE snapshot(now, r) /\ Rest
    <3>1. BookInv' /\ Moves
      BY <2>1, SnapshotStep DEF AuthInv
    <3>2. NormalKept
      BY <1>1, NormalStays
    <3> QED
      BY <1>1, <2>1, <3>1, <3>2, RestKept DEF Rest, AuthInv
  <2> QED
    BY <2>1, FinalizeKept, CancelFinalizeKept
<1> QED
  BY <1>1, <1>2, OpsRest, RunsRest DEF Effects

LEMMA RestEffects ==
  ASSUME AuthInv, current' \subseteq Runs, UNCHANGED <<bookVars, bindings, receipts>>, NEW x
  PROVE  Effects({}, {}, x)
BY ConditionsKept, OpsRest, RunsRest DEF Effects, bookVars, AuthInv, BookInv

-----------------------------------------------------------------------------
(* The invariant of the supervisor.                                        *)

\* The steps before the try and within it, up to the request to close.
Forward == {"begin", "status", "open", "claim", "one", "reserve", "prepare", "dispatch", "start",
            "run", "running", "end", "observe", "record", "close", "send_close"}

AtEntry == {"one", "reserve", "prepare", "dispatch", "start", "run", "running", "end", "observe",
            "record", "sweep_observe"}

\* The requests that present an owner and an epoch are prepared or under way.
AsHolder == {"one", "reserve", "prepare", "dispatch", "close", "send_close", "sweep",
             "sweep_observe"}

\* The current operation is announced to the runner, and its end is known.
Executed == {"running", "end", "observe", "record", "sweep_observe"}
Ended == {"end", "observe", "record", "sweep_observe"}

Sweeping == {"sweep", "sweep_observe", "cancel_finalize"}

PCs == Forward \cup Sweeping
         \cup {"idle", "cancel_status", "finalize", "gate", "cancel", "cancel_claim"}

CpRow ==
  [prepared : BOOLEAN, cancel : BOOLEAN, close : Nat \cup {Null},
   reserve : [Operations -> Nat \cup {Null}], start : SUBSET Operations,
   end : [Operations -> Statuses \cup {Open}]]

RecordedRow == [opened : BOOLEAN, attempts : SUBSET Operations]

SupRow ==
  [pc : PCs, i : Nat \ {0}, epoch : Nat, pending : SUBSET Operations,
   then : {"next", "cancel", "nothing"}]

TablesTypeOK ==
  cp \in CpRow /\ recorded \in RecordedRow /\ intents \subseteq Operations /\ Runner!TypeOK

SuperTypeOK == TablesTypeOK /\ sup \in SupRow

OwnOperations == \A p \in DOMAIN ops : ops[p].run = Run

\* No other run is closed.
OwnClose == \A r \in DOMAIN runs : runs[r].closed => r = Run

\* Dispatched, delivered, and its end is saved.
EntryDone(p) == Dispatched(p) /\ p \in recorded.attempts /\ cp.end[p] # Open

PlanDone == \A j \in 1 .. Len(Plan) : EntryDone(Plan[j])

\* What the tables of authority, supervisor and runner say of each other.
Agreement ==
  /\ OwnOperations /\ OwnClose
  /\ \A p \in intents : Dispatched(p)
  /\ \A p \in DOMAIN ops : ops[p].stopped # Null => p \in intents /\ outcome[p] # Open
  /\ \A p \in Operations : cp.end[p] # Open => p \in intents /\ cp.end[p] = outcome[p]
  /\ Run \in DOMAIN runs /\ runs[Run].closed /\ ~runs[Run].cancelled => PlanDone

\* What the supervisor may count on at each of its steps.
Control ==
  /\ sup.pc \in Forward => \A j \in 1 .. Len(Plan) : j < sup.i => EntryDone(Plan[j])
  /\ sup.pc \in AtEntry => More
  /\ sup.pc \in {"close", "send_close"} => ~More
  /\ sup.pc \in AsHolder => [run |-> Run, owner |-> Tag, epoch |-> sup.epoch] \in grants
  /\ sup.pc = "prepare" => Op \in DOMAIN ops
  /\ sup.pc \in {"start", "run"} => Dispatched(Op)
  /\ sup.pc \in Executed => Op \in intents
  /\ sup.pc \in Ended => outcome[Op] # Open
  /\ sup.pc \in {"observe", "record"} /\ sup.then = "next" => cp.end[Op] # Open
  /\ sup.pc = "record" => sup.then # "nothing"
  /\ sup.pc \in Sweeping => Run \in DOMAIN runs /\ runs[Run].cancelled
  /\ cp.cancel => sup.pc \notin Guarded

SupInv == AuthInv /\ SuperTypeOK /\ Agreement /\ Control

LEMMA EndsGoal == AuthInv /\ Agreement => EndsAreReal
<1> SUFFICES ASSUME AuthInv, Agreement PROVE EndsAreReal
  OBVIOUS
<1>1. Terminal => receipts[Run].kind \in {"normal", "cancelled"}
  BY DEF AuthInv, IsTable, ReceiptRow, Terminal
<1>2. StopsAreReal
  <2>1. \A p \in intents : p \in OpsOf(Run) /\ ops[p].intended # Null
    BY DEF Agreement, OwnOperations, Dispatched, OpsOf
  <2>2. Terminal => \A p \in intents : ops[p].stopped # Null
    BY <1>1, <2>1 DEF AuthInv, ReceiptsSound, NormalReceiptSound, CancelReceiptReadable,
                      Terminal
  <2> QED
    BY <2>1, <2>2 DEF StopsAreReal, Agreement, OpsOf
<1>3. NormalReceiptComplete
  <2> SUFFICES ASSUME Terminal, receipts[Run].kind = "normal", NEW i \in 1 .. Len(Plan)
               PROVE  /\ Dispatched(Plan[i]) /\ Plan[i] \in recorded.attempts
                      /\ cp.end[Plan[i]] # Open /\ cp.end[Plan[i]] = outcome[Plan[i]]
    BY DEF NormalReceiptComplete
  <2>1. PlanDone
    BY DEF Agreement, AuthInv, ReceiptsSound, NormalReceiptSound, Terminal
  <2>2. Plan[i] \in Operations
    BY SupervisedAssumption
  <2> QED
    BY <2>1, <2>2 DEF PlanDone, EntryDone, Agreement
<1> QED
  BY <1>2, <1>3 DEF EndsAreReal

LEMMA SupGoal == SupInv => EndsAreReal
BY EndsGoal DEF SupInv

\* The current entry of the plan is an operation.
LEMMA OpType ==
  ASSUME sup \in SupRow, More
  PROVE  Op \in Operations /\ sup.i \in 1 .. Len(Plan)
BY SupervisedAssumption DEF SupRow, More, Op

\* The local variables after the three ways to go on.
LEMMA Fields ==
  ASSUME sup \in SupRow, NEW pc \in PCs, Goto(pc)
  PROVE  /\ sup' \in SupRow /\ sup'.pc = pc /\ sup'.i = sup.i /\ sup'.epoch = sup.epoch
         /\ sup'.then = sup.then /\ sup'.pending = sup.pending
BY DEF SupRow, Goto

LEMMA NextFields ==
  ASSUME sup \in SupRow, NEW pc \in PCs, Next_entry(pc)
  PROVE  /\ sup' \in SupRow /\ sup'.pc = pc /\ sup'.i = sup.i + 1 /\ sup'.epoch = sup.epoch
         /\ sup'.then = sup.then /\ sup'.pending = sup.pending
<1>1. PICK n \in Nat \ {0} : n = sup.i + 1
  BY DEF SupRow
<1>2. sup' = [sup EXCEPT !.i = n, !.pc = pc]
  BY <1>1 DEF Next_entry
<1> QED
  BY <1>1, <1>2 DEF SupRow

LEMMA IdleFields ==
  /\ Idle \in SupRow /\ Idle.pc = "idle" /\ Idle.i = 1
BY DEF SupRow, Idle, PCs

\* What was dispatched, announced and delivered stays so.
LEMMA EntriesStay ==
  ASSUME Moves, recorded.attempts \subseteq recorded'.attempts,
         \A p \in Operations : cp.end[p] # Open => cp'.end[p] # Open
  PROVE  /\ \A p \in Operations : Dispatched(p) => Dispatched(p)'
         /\ \A p \in Operations : EntryDone(p) => EntryDone(p)'
         /\ \A j \in 1 .. Len(Plan) : EntryDone(Plan[j]) => EntryDone(Plan[j])'
         /\ PlanDone => PlanDone'
<1>1. \A p \in Operations : Dispatched(p) => Dispatched(p)'
  BY DEF Moves, OpGrows, Dispatched
<1>2. \A p \in Operations : EntryDone(p) => EntryDone(p)'
  BY <1>1 DEF EntryDone
<1>3. \A j \in 1 .. Len(Plan) : Plan[j] \in Operations
  BY SupervisedAssumption
<1> QED
  BY <1>1, <1>2, <1>3 DEF PlanDone

\* A request of the authority: what may stop or be closed by it is known to the
\* runner and complete.
LEMMA TablesAsked ==
  ASSUME AuthInv, TablesTypeOK, Agreement, NEW stops, NEW closes \in SUBSET {Run},
         Effects(stops, closes, Run),
         \A p \in stops : p \in intents /\ outcome[p] # Open,
         Run \in closes => PlanDone \/ (Run \in DOMAIN runs /\ runs[Run].cancelled),
         UNCHANGED <<cp, intents, phase, outcome>>, recorded' \in RecordedRow,
         recorded.attempts \subseteq recorded'.attempts
  PROVE  AuthInv' /\ TablesTypeOK' /\ Agreement'
<1>1. TablesTypeOK'
  BY DEF TablesTypeOK, Runner!TypeOK
<1>2. Moves
  BY DEF Effects
<1>3. /\ \A p \in Operations : Dispatched(p) => Dispatched(p)'
      /\ PlanDone => PlanDone'
  BY <1>2, EntriesStay
<1>4. OwnOperations'
  BY DEF OwnOperations, Effects, NewOnlyFor, Moves, OpGrows, Agreement
<1>5. \A p \in intents' : Dispatched(p)'
  BY <1>3 DEF Agreement, TablesTypeOK
<1>6. \A p \in DOMAIN ops' : ops'[p].stopped # Null => p \in intents' /\ outcome'[p] # Open
  BY DEF Effects, StopsOnly, Agreement
<1>7. Run \in DOMAIN runs' /\ runs'[Run].closed /\ ~runs'[Run].cancelled => PlanDone'
  <2> SUFFICES ASSUME Run \in DOMAIN runs', runs'[Run].closed, ~runs'[Run].cancelled
               PROVE  PlanDone
    BY <1>3
  <2>1. Run \in DOMAIN runs => ~runs[Run].cancelled
    BY <1>2 DEF Moves, Grows
  <2> QED
    BY <2>1 DEF Effects, ClosesOnly, Agreement
<1>8. OwnClose'
  BY DEF OwnClose, Effects, ClosesOnly, Agreement
<1>9. Agreement'
  BY <1>4, <1>5, <1>6, <1>7, <1>8 DEF Agreement
<1> QED
  BY <1>1, <1>9 DEF Effects

LEMMA AuthorityKept ==
  ASSUME SupInv, NEW stops, NEW closes \in SUBSET {Run}, Effects(stops, closes, Run),
         \A p \in stops : p \in intents /\ outcome[p] # Open,
         Run \in closes => PlanDone \/ (Run \in DOMAIN runs /\ runs[Run].cancelled),
         UNCHANGED <<cp, recorded, intents, phase, outcome>>, sup' \in SupRow, Control'
  PROVE  SupInv'
<1>1. recorded' \in RecordedRow
  BY DEF SupInv, SuperTypeOK, TablesTypeOK
<1>2. AuthInv' /\ TablesTypeOK' /\ Agreement'
  BY <1>1, TablesAsked DEF SupInv, SuperTypeOK
<1> QED
  BY <1>2 DEF SupInv, SuperTypeOK

\* A step that asks the authority nothing: a checkpoint, a record, a row of the
\* runner's journal or the end of a fixture.
LEMMA TablesLocal ==
  ASSUME AuthInv, TablesTypeOK, Agreement, UNCHANGED vars,
         intents \subseteq intents', \A p \in intents' : Dispatched(p),
         recorded.attempts \subseteq recorded'.attempts,
         \A p \in Operations : outcome[p] # Open => outcome'[p] = outcome[p],
         \A p \in Operations : \/ cp'.end[p] = cp.end[p]
                               \/ p \in intents' /\ cp'.end[p] = outcome'[p]
  PROVE  AuthInv' /\ Agreement'
<1>1. AuthInv' /\ Moves
  BY ConditionsKept DEF AuthInv, vars, bookVars
<1>2. UNCHANGED <<runs, ops>>
  BY DEF vars
<1>3. \A p \in Operations : cp.end[p] # Open => p \in intents /\ cp.end[p] = outcome[p]
  BY DEF Agreement
<1>4. \A p \in Operations : cp.end[p] # Open => cp'.end[p] # Open
  BY <1>3
<1>5. PlanDone => PlanDone'
  BY <1>1, <1>4, EntriesStay
<1>6. \A p \in Operations : cp'.end[p] # Open => p \in intents' /\ cp'.end[p] = outcome'[p]
  BY <1>3
<1>7. \A p \in intents' : Dispatched(p)'
  BY <1>2 DEF Dispatched
<1>8. \A p \in DOMAIN ops' : ops'[p].stopped # Null => p \in intents' /\ outcome'[p] # Open
  <2>1. \A p \in DOMAIN ops : p \in Operations
    BY RowTypes DEF AuthInv, BookInv
  <2> QED
    BY <1>2, <2>1 DEF Agreement
<1>9. OwnOperations' /\ OwnClose'
  BY <1>2 DEF OwnOperations, OwnClose, Agreement
<1>10. Agreement'
  BY <1>2, <1>5, <1>6, <1>7, <1>8, <1>9 DEF Agreement
<1> QED
  BY <1>1, <1>10

LEMMA LocalKept ==
  ASSUME SupInv, UNCHANGED vars, SuperTypeOK', Control',
         intents \subseteq intents', \A p \in intents' : Dispatched(p),
         recorded.attempts \subseteq recorded'.attempts,
         \A p \in Operations : outcome[p] # Open => outcome'[p] = outcome[p],
         \A p \in Operations : \/ cp'.end[p] = cp.end[p]
                               \/ p \in intents' /\ cp'.end[p] = outcome'[p]
  PROVE  SupInv'
BY TablesLocal DEF SupInv, SuperTypeOK

\* A step of the supervisor alone.
LEMMA AloneKept ==
  ASSUME SupInv, UNCHANGED <<vars, cp, recorded, intents, phase, outcome>>,
         sup' \in SupRow, Control'
  PROVE  SupInv'
<1>1. SuperTypeOK'
  BY DEF SupInv, SuperTypeOK, TablesTypeOK, Runner!TypeOK
<1> QED
  BY <1>1, LocalKept DEF SupInv, Agreement

-----------------------------------------------------------------------------
(* execute, and the steps that only ask or go on.                          *)

LEMMA ExecuteKept ==
  ASSUME SupInv, NEW mode \in {"run", "resume", "cancel"}, execute(mode)
  PROVE  SupInv'
<1>1. PICK pc \in {"cancel_status", "begin"} : sup' = [Idle EXCEPT !.pc = pc]
  BY DEF execute
<1>2. sup' \in SupRow /\ sup'.pc = pc /\ sup'.i = 1
  BY <1>1 DEF SupRow, Idle, PCs, Forward
<1>3. /\ cp' = [cp EXCEPT !.prepared = TRUE] /\ cp \in CpRow
      /\ UNCHANGED <<vars, recorded, intents, phase, outcome>>
  BY DEF execute, OnlyCheckpoint, SupInv, SuperTypeOK, TablesTypeOK
<1>4. cp' \in CpRow /\ cp'.end = cp.end /\ cp'.cancel = cp.cancel
  BY <1>3 DEF CpRow
<1>5. Control'
  BY <1>2 DEF Control, Forward, AtEntry, AsHolder, Executed, Ended, Sweeping, Guarded
<1>6. SuperTypeOK'
  BY <1>2, <1>3, <1>4 DEF SuperTypeOK, TablesTypeOK, SupInv, Runner!TypeOK
<1> QED
  BY <1>3, <1>4, <1>5, <1>6, LocalKept DEF SupInv, Agreement

LEMMA BeginRunKept ==
  ASSUME SupInv, NEW now \in Times, begin_run(now)
  PROVE  SupInv'
<1>1. /\ sup \in SupRow /\ sup.pc = "begin" /\ Goto("status")
      /\ UNCHANGED <<cp, recorded, intents, phase, outcome>>
  BY DEF begin_run, At, OnlyAuthority, SupInv, SuperTypeOK, TablesTypeOK
<1>2. sup' \in SupRow /\ sup'.pc = "status" /\ sup'.i = sup.i
  BY <1>1, Fields DEF PCs, Forward
<1>3. Effects({}, {}, Run)
  <2>1. CASE UNCHANGED vars
    BY <2>1, RestEffects DEF SupInv, AuthInv, vars, bookVars
  <2>2. CASE run_begin(now, Run, Profile, Tag, Deadline)
    BY <2>2, BeginEffects, SupervisedAssumption, AuthorityAssumption DEF SupInv
  <2> QED
    BY <2>1, <2>2 DEF begin_run
<1>4. \A j \in 1 .. Len(Plan) : EntryDone(Plan[j]) => EntryDone(Plan[j])'
  BY <1>1, <1>3, EntriesStay DEF SupInv, Effects
<1>5. Control'
  BY <1>1, <1>2, <1>4 DEF SupInv, Control, Forward, AtEntry, AsHolder, Executed, Ended, Sweeping,
                         Guarded
<1> QED
  BY <1>1, <1>2, <1>3, <1>5, AuthorityKept

\* The facts that hold at a step that claims nothing of entry, grant or run.
LEMMA ControlFree ==
  ASSUME SupInv, sup'.pc \in PCs, sup'.pc \notin Forward \cup AtEntry \cup AsHolder \cup Sweeping,
         cp'.cancel => sup'.pc \notin Guarded
  PROVE  Control'
BY DEF Control, Forward, AtEntry, AsHolder, Executed, Ended, Sweeping

LEMMA StatusKept ==
  ASSUME SupInv, NEW now \in Times, status(now)
  PROVE  SupInv'
<1>1. /\ sup \in SupRow /\ sup.pc \in {"status", "cancel_status"}
      /\ snapshot(now, Run) /\ Rest
      /\ UNCHANGED <<cp, recorded, intents, phase, outcome>>
  BY DEF status, At, OnlyAuthority, SupInv, SuperTypeOK, TablesTypeOK
<1>2. Effects({}, {}, Run)
  BY <1>1, QuietEffects, SupervisedAssumption, AuthorityAssumption DEF SupInv
<1>3. sup' \in SupRow /\ Control'
  <2>1. CASE Goto("cancel")
    <3>1. sup' \in SupRow /\ sup'.pc = "cancel"
      BY <1>1, <2>1, Fields DEF PCs
    <3> QED
      BY <3>1, ControlFree DEF PCs, Forward, AtEntry, AsHolder, Sweeping, Guarded
  <2>2. CASE Exit
    <3>1. sup' \in SupRow /\ sup'.pc = "idle"
      BY <2>2, IdleFields DEF Exit
    <3> QED
      BY <3>1, ControlFree DEF PCs, Forward, AtEntry, AsHolder, Sweeping, Guarded
  <2>3. CASE ~CancelWanted /\ Goto("open")
    <3>1. /\ sup' \in SupRow /\ sup'.pc = "open" /\ sup'.i = sup.i
          /\ sup.pc = "status" /\ ~cp.cancel
      BY <1>1, <2>3, Fields DEF PCs, Forward, CancelWanted, At
    <3>2. \A j \in 1 .. Len(Plan) : EntryDone(Plan[j]) => EntryDone(Plan[j])'
      BY <1>1, <1>2, EntriesStay DEF SupInv, Effects
    <3> QED
      BY <1>1, <3>1, <3>2 DEF SupInv, Control, Forward, AtEntry, AsHolder, Executed, Ended,
                             Sweeping, Guarded
  <2> QED
    BY <2>1, <2>2, <2>3 DEF status
<1> QED
  BY <1>1, <1>2, <1>3, AuthorityKept

LEMMA OpenKept ==
  ASSUME SupInv, evidence_open
  PROVE  SupInv'
<1>1. PICK pc \in {"finalize", "claim"} : Goto(pc)
  BY DEF evidence_open
<1>2. /\ sup \in SupRow /\ sup.pc = "open" /\ recorded \in RecordedRow
      /\ recorded' = [recorded EXCEPT !.opened = TRUE]
      /\ UNCHANGED <<vars, cp, intents, phase, outcome>>
  BY DEF evidence_open, At, RunnerUnchanged, SupInv, SuperTypeOK, TablesTypeOK
<1>3. sup' \in SupRow /\ sup'.pc = pc /\ sup'.i = sup.i
  BY <1>1, <1>2, Fields DEF PCs, Forward
<1>4. recorded' \in RecordedRow /\ recorded'.attempts = recorded.attempts
  BY <1>2 DEF RecordedRow
<1>5. SuperTypeOK'
  BY <1>2, <1>3, <1>4 DEF SuperTypeOK, TablesTypeOK, SupInv, Runner!TypeOK
<1>6. Control'
  <2>1. \A p : EntryDone(p)' = EntryDone(p)
    BY <1>2, <1>4 DEF EntryDone, Dispatched, vars
  <2> QED
    BY <1>2, <1>3, <2>1 DEF SupInv, Control, Forward, AtEntry, AsHolder, Executed, Ended,
                           Sweeping, Guarded
<1> QED
  BY <1>2, <1>4, <1>5, <1>6, LocalKept DEF SupInv, Agreement

\* What leaves the try or the process claims nothing.
LEMMA LeaveKept ==
  ASSUME SupInv, UNCHANGED <<vars, cp, recorded, intents, phase, outcome>>,
         Goto("cancel") \/ Exit
  PROVE  SupInv'
<1>1. sup' \in SupRow /\ sup'.pc \in {"cancel", "idle"}
  <2>1. CASE Goto("cancel")
    BY <2>1, Fields DEF PCs, SupInv, SuperTypeOK, TablesTypeOK
  <2>2. CASE Exit
    BY <2>2, IdleFields DEF Exit
  <2> QED
    BY <2>1, <2>2
<1>2. Control'
  BY <1>1, ControlFree DEF PCs, Forward, AtEntry, AsHolder, Sweeping, Guarded
<1> QED
  BY <1>1, <1>2, AloneKept

-----------------------------------------------------------------------------
(* One entry of the plan.                                                  *)

LEMMA ClaimNextKept ==
  ASSUME SupInv, NEW now \in Times, claim_next(now)
  PROVE  SupInv'
<1>1. /\ sup \in SupRow /\ sup.pc = "claim" /\ resource_claim(now, Run, Tag, FALSE)
      /\ UNCHANGED <<cp, recorded, intents, phase, outcome>>
  BY DEF claim_next, At, OnlyAuthority, SupInv, SuperTypeOK, TablesTypeOK
<1>2. /\ Effects({}, {}, Run) /\ Grant(Run, Tag, runs'[Run].epoch) \in grants'
      /\ runs'[Run].epoch \in Nat
  BY <1>1, ClaimEffects, SupervisedAssumption, AuthorityAssumption DEF SupInv
<1>3. PICK e \in Nat : e = runs'[Run].epoch
  BY <1>2
<1>4. PICK pc \in {"one", "close"} : /\ pc = IF More THEN "one" ELSE "close"
                                     /\ sup' = [sup EXCEPT !.epoch = e, !.pc = pc]
  BY <1>3 DEF claim_next
<1>5. sup' \in SupRow /\ sup'.pc = pc /\ sup'.i = sup.i /\ sup'.epoch = e
  BY <1>1, <1>4 DEF SupRow, PCs, Forward
<1>6. \A j \in 1 .. Len(Plan) : EntryDone(Plan[j]) => EntryDone(Plan[j])'
  BY <1>1, <1>2, EntriesStay DEF SupInv, Effects
<1>7. More' = More
  BY <1>5 DEF More
<1>8. Control'
  BY <1>1, <1>2, <1>3, <1>4, <1>5, <1>6, <1>7
     DEF SupInv, Control, Forward, AtEntry, AsHolder, Executed, Ended, Sweeping, Guarded, Grant
<1> QED
  BY <1>1, <1>2, <1>5, <1>8, AuthorityKept

\* Within an entry the cancellation was not asked for, and the entries before
\* it are done.
LEMMA AtEntryFacts ==
  ASSUME SupInv, sup.pc \in AtEntry
  PROVE  /\ Op \in Operations /\ More /\ sup.i \in 1 .. Len(Plan)
         /\ sup.pc \in Guarded => ~cp.cancel
         /\ sup.pc \in Forward => \A j \in 1 .. Len(Plan) : j < sup.i => EntryDone(Plan[j])
BY OpType DEF SupInv, SuperTypeOK, TablesTypeOK, Control

\* The current entry stays the current one.
LEMMA SameEntry ==
  ASSUME sup'.i = sup.i
  PROVE  Op' = Op /\ More' = More
BY DEF Op, More

LEMMA OneKept ==
  ASSUME SupInv, one
  PROVE  SupInv'
<1>1. /\ sup \in SupRow /\ sup.pc = "one" /\ cp \in CpRow
      /\ UNCHANGED <<vars, recorded, intents, phase, outcome>>
  BY DEF one, At, OnlyCheckpoint, SupInv, SuperTypeOK, TablesTypeOK
<1>2. Op \in Operations /\ ~cp.cancel /\ \A j \in 1 .. Len(Plan) : j < sup.i => EntryDone(Plan[j])
  BY <1>1, AtEntryFacts DEF AtEntry, Guarded, Forward
<1>3. cp' \in CpRow /\ cp'.end = cp.end /\ cp'.cancel = cp.cancel
  <2>1. CASE cp' = [cp EXCEPT !.reserve[Op] = sup.epoch]
    BY <1>1, <1>2, <2>1 DEF CpRow, SupRow
  <2>2. CASE cp' = cp
    BY <1>1, <2>2
  <2> QED
    BY <2>1, <2>2 DEF one
<1>4. PICK pc \in {"reserve", "prepare"} : Goto(pc) /\ (pc = "prepare" => Op \in DOMAIN ops)
  BY DEF one
<1>5. /\ sup' \in SupRow /\ sup'.pc = pc /\ sup'.i = sup.i /\ sup'.epoch = sup.epoch
  BY <1>1, <1>4, Fields DEF PCs, Forward
<1>6. Op' = Op /\ More' = More /\ \A p : EntryDone(p)' = EntryDone(p)
  BY <1>1, <1>3, <1>5, SameEntry DEF EntryDone, Dispatched, vars
<1>7. grants' = grants /\ ops' = ops
  BY <1>1 DEF vars
<1>8. Control'
  BY <1>1, <1>2, <1>3, <1>4, <1>5, <1>6, <1>7
     DEF SupInv, Control, Forward, AtEntry, AsHolder, Executed, Ended, Sweeping, Guarded
<1>9. SuperTypeOK'
  BY <1>1, <1>3, <1>5 DEF SuperTypeOK, TablesTypeOK, SupInv, Runner!TypeOK
<1> QED
  BY <1>1, <1>3, <1>8, <1>9, LocalKept DEF SupInv, Agreement

LEMMA ReserveEntryKept ==
  ASSUME SupInv, NEW now \in Times, reserve_entry(now)
  PROVE  SupInv'
<1>1. /\ sup \in SupRow /\ sup.pc = "reserve" /\ Goto("prepare")
      /\ resource_reserve(now, Run, Tag, sup.epoch, Op, EntryOf[Op])
      /\ UNCHANGED <<cp, recorded, intents, phase, outcome>>
  BY DEF reserve_entry, At, OnlyAuthority, SupInv, SuperTypeOK, TablesTypeOK
<1>2. /\ Op \in Operations /\ More /\ ~cp.cancel
      /\ \A j \in 1 .. Len(Plan) : j < sup.i => EntryDone(Plan[j])
  BY <1>1, AtEntryFacts DEF AtEntry, Guarded, Forward
<1>3. Grant(Run, Tag, sup.epoch) \in grants
  BY <1>1 DEF SupInv, Control, AsHolder, Grant
<1>4. Effects({}, {}, Run) /\ Op \in DOMAIN ops'
  BY <1>1, <1>2, <1>3, ReserveEffects, SupervisedAssumption DEF SupInv
<1>5. sup' \in SupRow /\ sup'.pc = "prepare" /\ sup'.i = sup.i /\ sup'.epoch = sup.epoch
  BY <1>1, Fields DEF PCs, Forward
<1>6. \A j \in 1 .. Len(Plan) : EntryDone(Plan[j]) => EntryDone(Plan[j])'
  BY <1>1, <1>4, EntriesStay DEF SupInv, Effects
<1>7. Op' = Op /\ More' = More
  BY <1>5, SameEntry
<1>8. Control'
  BY <1>1, <1>2, <1>3, <1>4, <1>5, <1>6, <1>7
     DEF Control, Forward, AtEntry, AsHolder, Executed, Ended, Sweeping, Guarded, Grant, Effects
<1> QED
  BY <1>1, <1>4, <1>5, <1>8, AuthorityKept

LEMMA PrepareKept ==
  ASSUME SupInv, prepare_operation
  PROVE  SupInv'
<1>1. /\ sup \in SupRow /\ sup.pc = "prepare"
      /\ UNCHANGED <<vars, cp, recorded, intents, phase, outcome>>
  BY DEF prepare_operation, At, OnlySup, SupInv, SuperTypeOK, TablesTypeOK
<1>2. /\ Op \in Operations /\ More /\ ~cp.cancel
      /\ \A j \in 1 .. Len(Plan) : j < sup.i => EntryDone(Plan[j])
  BY <1>1, AtEntryFacts DEF AtEntry, Guarded, Forward
<1>3. PICK pc \in {"observe", "dispatch", "start"} :
        /\ Goto(pc)
        /\ pc = "observe" => cp.end[Op] # Open
        /\ pc = "start" => ops[Op].intended # Null
  BY DEF prepare_operation
<1>4. sup' \in SupRow /\ sup'.pc = pc /\ sup'.i = sup.i /\ sup'.epoch = sup.epoch
  BY <1>1, <1>3, Fields DEF PCs, Forward
<1>5. cp.end[Op] # Open => Op \in intents /\ outcome[Op] # Open
  BY <1>2 DEF SupInv, Agreement
<1>6. Op \in DOMAIN ops /\ Grant(Run, Tag, sup.epoch) \in grants
  BY <1>1 DEF SupInv, Control, AsHolder, Grant
<1>7. /\ Op' = Op /\ More' = More /\ \A p : EntryDone(p)' = EntryDone(p)
      /\ \A p : Dispatched(p)' = Dispatched(p)
      /\ grants' = grants
  BY <1>1, <1>4, SameEntry DEF EntryDone, Dispatched, vars
<1>8. pc = "start" => Dispatched(Op)
  BY <1>3, <1>6 DEF Dispatched
<1>9. Control'
  <2>1. CASE pc = "observe"
    BY <1>1, <1>2, <1>3, <1>4, <1>5, <1>7, <2>1
       DEF Control, Forward, AtEntry, AsHolder, Executed, Ended, Sweeping, Guarded
  <2>2. CASE pc = "dispatch"
    BY <1>1, <1>2, <1>4, <1>6, <1>7, <2>2
       DEF Control, Forward, AtEntry, AsHolder, Executed, Ended, Sweeping, Guarded, Grant
  <2>3. CASE pc = "start"
    BY <1>1, <1>2, <1>4, <1>7, <1>8, <2>3
       DEF Control, Forward, AtEntry, AsHolder, Executed, Ended, Sweeping, Guarded
  <2> QED
    BY <2>1, <2>2, <2>3
<1> QED
  BY <1>1, <1>4, <1>9, AloneKept

LEMMA DispatchKeptSup ==
  ASSUME SupInv, NEW now \in Times, dispatch(now)
  PROVE  SupInv'
<1>1. /\ sup \in SupRow /\ sup.pc = "dispatch" /\ Goto("start")
      /\ resource_dispatch(now, Run, Tag, sup.epoch, Op)
      /\ UNCHANGED <<cp, recorded, intents, phase, outcome>>
  BY DEF dispatch, At, OnlyAuthority, SupInv, SuperTypeOK, TablesTypeOK
<1>2. /\ Op \in Operations /\ More /\ ~cp.cancel
      /\ \A j \in 1 .. Len(Plan) : j < sup.i => EntryDone(Plan[j])
  BY <1>1, AtEntryFacts DEF AtEntry, Guarded, Forward
<1>3. Grant(Run, Tag, sup.epoch) \in grants
  BY <1>1 DEF SupInv, Control, AsHolder, Grant
<1>4. Effects({}, {}, Run) /\ Op \in DOMAIN ops' /\ ops'[Op].intended # Null
  BY <1>1, <1>2, <1>3, DispatchEffects DEF SupInv
<1>5. sup' \in SupRow /\ sup'.pc = "start" /\ sup'.i = sup.i
  BY <1>1, Fields DEF PCs, Forward
<1>6. \A j \in 1 .. Len(Plan) : EntryDone(Plan[j]) => EntryDone(Plan[j])'
  BY <1>1, <1>4, EntriesStay DEF SupInv, Effects
<1>7. Op' = Op /\ More' = More
  BY <1>5, SameEntry
<1>8. Dispatched(Op)'
  BY <1>4, <1>7 DEF Dispatched
<1>9. Control'
  BY <1>1, <1>2, <1>5, <1>6, <1>7, <1>8
     DEF Control, Forward, AtEntry, AsHolder, Executed, Ended, Sweeping, Guarded
<1> QED
  BY <1>1, <1>4, <1>5, <1>9, AuthorityKept

\* A checkpoint of the supervisor that neither ends an operation nor asks for
\* the cancellation.
LEMMA StartSavedKept ==
  ASSUME SupInv, start
  PROVE  SupInv'
<1>1. /\ sup \in SupRow /\ sup.pc = "start" /\ cp \in CpRow /\ Goto("run")
      /\ cp' = [cp EXCEPT !.start = @ \cup {Op}]
      /\ UNCHANGED <<vars, recorded, intents, phase, outcome>>
  BY DEF start, At, OnlyCheckpoint, SupInv, SuperTypeOK, TablesTypeOK
<1>2. /\ Op \in Operations /\ More /\ ~cp.cancel
      /\ \A j \in 1 .. Len(Plan) : j < sup.i => EntryDone(Plan[j])
  BY <1>1, AtEntryFacts DEF AtEntry, Guarded, Forward
<1>3. cp' \in CpRow /\ cp'.end = cp.end /\ cp'.cancel = cp.cancel
  BY <1>1, <1>2 DEF CpRow
<1>4. sup' \in SupRow /\ sup'.pc = "run" /\ sup'.i = sup.i
  BY <1>1, Fields DEF PCs, Forward
<1>5. /\ Op' = Op /\ More' = More /\ \A p : EntryDone(p)' = EntryDone(p)
      /\ \A p : Dispatched(p)' = Dispatched(p)
  BY <1>1, <1>3, <1>4, SameEntry DEF EntryDone, Dispatched, vars
<1>6. Dispatched(Op)
  BY <1>1 DEF SupInv, Control
<1>7. Control'
  BY <1>1, <1>2, <1>3, <1>4, <1>5, <1>6
     DEF Control, Forward, AtEntry, AsHolder, Executed, Ended, Sweeping, Guarded
<1>8. SuperTypeOK'
  BY <1>1, <1>3, <1>4 DEF SuperTypeOK, TablesTypeOK, SupInv, Runner!TypeOK
<1> QED
  BY <1>1, <1>3, <1>7, <1>8, LocalKept DEF SupInv, Agreement

LEMMA RunnerKept ==
  ASSUME SupInv, execute_runner
  PROVE  SupInv'
<1>1. /\ sup \in SupRow /\ sup.pc = "run" /\ Goto("running")
      /\ intents' = intents \cup {Op}
      /\ UNCHANGED <<vars, cp, recorded, phase, outcome>>
  BY DEF execute_runner, At, SupInv, SuperTypeOK, TablesTypeOK
<1>2. /\ Op \in Operations /\ More /\ ~cp.cancel
      /\ \A j \in 1 .. Len(Plan) : j < sup.i => EntryDone(Plan[j])
  BY <1>1, AtEntryFacts DEF AtEntry, Guarded, Forward
<1>3. sup' \in SupRow /\ sup'.pc = "running" /\ sup'.i = sup.i
  BY <1>1, Fields DEF PCs, Forward
<1>4. Op' = Op /\ More' = More /\ \A p : EntryDone(p)' = EntryDone(p)
  BY <1>1, <1>3, SameEntry DEF EntryDone, Dispatched, vars
<1>5. Dispatched(Op) /\ \A p \in intents : Dispatched(p)
  BY <1>1 DEF SupInv, Control, Agreement
<1>6. Control'
  BY <1>1, <1>2, <1>3, <1>4
     DEF Control, Forward, AtEntry, AsHolder, Executed, Ended, Sweeping, Guarded
<1>7. SuperTypeOK'
  BY <1>1, <1>2, <1>3 DEF SuperTypeOK, TablesTypeOK, SupInv, Runner!TypeOK
<1> QED
  BY <1>1, <1>5, <1>6, <1>7, LocalKept DEF SupInv, Agreement

\* The runner's receipt of an execution is written once.
LEMMA RunnerSettles ==
  ASSUME Runner!TypeOK, NEW p \in Operations, NEW s \in Statuses, Runner!Settle(p, s)
  PROVE  /\ Runner!TypeOK' /\ outcome'[p] # Open
         /\ \A q \in Operations : outcome[q] # Open => outcome'[q] = outcome[q]
BY DEF Runner!TypeOK, Runner!Settle, Statuses, Success, Open

LEMMA ReturnsKept ==
  ASSUME SupInv, runner_returns
  PROVE  SupInv'
<1>1. /\ sup \in SupRow /\ sup.pc = "running" /\ Goto("end")
      /\ UNCHANGED <<vars, cp, recorded, intents>>
  BY DEF runner_returns, At, SupInv, SuperTypeOK, TablesTypeOK
<1>2. /\ Op \in Operations /\ More /\ ~cp.cancel
      /\ \A j \in 1 .. Len(Plan) : j < sup.i => EntryDone(Plan[j])
  BY <1>1, AtEntryFacts DEF AtEntry, Guarded, Forward
<1>3. /\ Runner!TypeOK' /\ outcome'[Op] # Open
      /\ \A q \in Operations : outcome[q] # Open => outcome'[q] = outcome[q]
  BY <1>2, RunnerSettles DEF runner_returns, SupInv, SuperTypeOK, TablesTypeOK
<1>4. sup' \in SupRow /\ sup'.pc = "end" /\ sup'.i = sup.i
  BY <1>1, Fields DEF PCs, Forward
<1>5. Op' = Op /\ More' = More /\ \A p : EntryDone(p)' = EntryDone(p)
  BY <1>1, <1>4, SameEntry DEF EntryDone, Dispatched, vars
<1>6. Op \in intents
  BY <1>1 DEF SupInv, Control, Executed
<1>7. Control'
  BY <1>1, <1>2, <1>3, <1>4, <1>5, <1>6
     DEF Control, Forward, AtEntry, AsHolder, Executed, Ended, Sweeping, Guarded
<1>8. SuperTypeOK'
  BY <1>1, <1>3, <1>4 DEF SuperTypeOK, TablesTypeOK, SupInv
<1> QED
  BY <1>1, <1>3, <1>7, <1>8, LocalKept DEF SupInv, Agreement

LEMMA FinishKept ==
  ASSUME SupInv, finish_operation
  PROVE  SupInv'
<1>1. /\ sup \in SupRow /\ sup.pc = "end" /\ cp \in CpRow
      /\ cp' = [cp EXCEPT !.end[Op] = outcome[Op]]
      /\ UNCHANGED <<vars, recorded, intents, phase, outcome>>
  BY DEF finish_operation, At, OnlyCheckpoint, SupInv, SuperTypeOK, TablesTypeOK
<1>2. /\ Op \in Operations /\ More /\ ~cp.cancel
      /\ \A j \in 1 .. Len(Plan) : j < sup.i => EntryDone(Plan[j])
  BY <1>1, AtEntryFacts DEF AtEntry, Guarded, Forward
<1>3. Op \in intents /\ outcome[Op] # Open
  BY <1>1 DEF SupInv, Control, Executed, Ended
<1>4. PICK o \in Statuses : o = outcome[Op]
  BY <1>2, <1>3 DEF SupInv, SuperTypeOK, TablesTypeOK, Runner!TypeOK
<1>5. /\ cp' \in CpRow /\ cp'.cancel = cp.cancel
      /\ cp'.end = [cp.end EXCEPT ![Op] = o]
  BY <1>1, <1>2, <1>4 DEF CpRow
<1>6. /\ cp.end \in [Operations -> Statuses \cup {Open}] /\ o # Open
  BY <1>1, <1>3, <1>4 DEF CpRow
<1>7. /\ cp'.end[Op] = o
      /\ \A p \in Operations : cp'.end[p] = cp.end[p] \/ p = Op
      /\ \A p \in Operations : cp.end[p] # Open => cp'.end[p] # Open
  BY <1>2, <1>5, <1>6
<1>8. PICK t \in {"next", "cancel"} : sup' = [sup EXCEPT !.pc = "observe", !.then = t]
  BY DEF finish_operation
<1>9. sup' \in SupRow /\ sup'.pc = "observe" /\ sup'.i = sup.i
  BY <1>1, <1>8 DEF SupRow, PCs, Forward
<1>10. Op' = Op /\ More' = More
  BY <1>9, SameEntry
<1>11. \A p \in Operations : EntryDone(p) => EntryDone(p)'
  BY <1>1, <1>7 DEF EntryDone, Dispatched, vars
<1>12. \A j \in 1 .. Len(Plan) : Plan[j] \in Operations
  BY SupervisedAssumption
<1>13. Control'
  BY <1>1, <1>2, <1>3, <1>5, <1>6, <1>7, <1>9, <1>10, <1>11, <1>12
     DEF Control, Forward, AtEntry, AsHolder, Executed, Ended, Sweeping, Guarded
<1>14. SuperTypeOK'
  BY <1>1, <1>5, <1>9 DEF SuperTypeOK, TablesTypeOK, SupInv, Runner!TypeOK
<1> QED
  BY <1>1, <1>3, <1>4, <1>7, <1>13, <1>14, LocalKept DEF SupInv, Agreement

\* What runner.recover leaves: an end, of a row the journal has.
LEMMA RecoveredFacts ==
  ASSUME SuperTypeOK, Op \in Operations, Recovered, UNCHANGED <<cp, recorded, intents>>
  PROVE  /\ Runner!TypeOK' /\ Op \in intents /\ outcome'[Op] # Open
         /\ \A q \in Operations : outcome[q] # Open => outcome'[q] = outcome[q]
<1>1. CASE outcome[Op] # Open /\ UNCHANGED <<phase, outcome>>
  BY <1>1 DEF SuperTypeOK, TablesTypeOK, Runner!TypeOK, Recovered
<1>2. CASE Runner!Settle(Op, "FAILED")
  <2>1. "FAILED" \in Statuses
    BY DEF Statuses
  <2> QED
    BY <1>2, <2>1, RunnerSettles DEF SuperTypeOK, TablesTypeOK, Recovered
<1> QED
  BY <1>1, <1>2 DEF Recovered

LEMMA InterruptedKept ==
  ASSUME SupInv, recover_interrupted
  PROVE  SupInv'
<1>1. /\ sup \in SupRow /\ sup.pc = "start" /\ Recovered
      /\ sup' = [sup EXCEPT !.pc = "observe", !.then = "nothing"]
      /\ UNCHANGED <<vars, cp, recorded, intents>>
  BY DEF recover_interrupted, At, SupInv, SuperTypeOK, TablesTypeOK
<1>2. /\ Op \in Operations /\ More /\ ~cp.cancel
      /\ \A j \in 1 .. Len(Plan) : j < sup.i => EntryDone(Plan[j])
  BY <1>1, AtEntryFacts DEF AtEntry, Guarded, Forward
<1>3. /\ Runner!TypeOK' /\ Op \in intents /\ outcome'[Op] # Open
      /\ \A q \in Operations : outcome[q] # Open => outcome'[q] = outcome[q]
  BY <1>1, <1>2, RecoveredFacts DEF SupInv
<1>4. sup' \in SupRow /\ sup'.pc = "observe" /\ sup'.i = sup.i /\ sup'.then = "nothing"
  BY <1>1 DEF SupRow, PCs, Forward
<1>5. Op' = Op /\ More' = More /\ \A p : EntryDone(p)' = EntryDone(p)
  BY <1>1, <1>4, SameEntry DEF EntryDone, Dispatched, vars
<1>6. Control'
  BY <1>1, <1>2, <1>3, <1>4, <1>5
     DEF Control, Forward, AtEntry, AsHolder, Executed, Ended, Sweeping, Guarded
<1>7. SuperTypeOK'
  BY <1>1, <1>3, <1>4 DEF SuperTypeOK, TablesTypeOK, SupInv
<1> QED
  BY <1>1, <1>3, <1>6, <1>7, LocalKept DEF SupInv, Agreement

\* The report of a stop.
LEMMA ReportEffects ==
  ASSUME SupInv, NEW now \in Times, Op \in Operations, ReportStop(now)
  PROVE  Effects({Op}, {}, Run)
<1>1. StopEvent[Op] \in Events /\ ZeroUsage \in Usages \cup {NoUsage} /\ TRUE \in BOOLEAN
  BY SupervisedAssumption, AuthorityAssumption
<1> QED
  BY <1>1, ObserveEffects DEF SupInv, ReportStop

LEMMA ObserveStopKept ==
  ASSUME SupInv, NEW now \in Times, observe_stop(now)
  PROVE  SupInv'
<1>1. /\ sup \in SupRow /\ sup.pc = "observe" /\ ReportStop(now)
      /\ UNCHANGED <<cp, recorded, intents, phase, outcome>>
  BY DEF observe_stop, At, OnlyAuthority, SupInv, SuperTypeOK, TablesTypeOK
<1>2. /\ Op \in Operations /\ More /\ ~cp.cancel
      /\ \A j \in 1 .. Len(Plan) : j < sup.i => EntryDone(Plan[j])
  BY <1>1, AtEntryFacts DEF AtEntry, Guarded, Forward
<1>3. Op \in intents /\ outcome[Op] # Open /\ (sup.then = "next" => cp.end[Op] # Open)
  BY <1>1 DEF SupInv, Control, Executed, Ended
<1>4. Effects({Op}, {}, Run)
  BY <1>1, <1>2, ReportEffects
<1>5. PICK pc \in {"cancel", "record"} : Goto(pc) /\ (pc = "record" => sup.then # "nothing")
  BY DEF observe_stop
<1>6. /\ sup' \in SupRow /\ sup'.pc = pc /\ sup'.i = sup.i /\ sup'.then = sup.then
  BY <1>1, <1>5, Fields DEF PCs, Forward
<1>7. \A j \in 1 .. Len(Plan) : EntryDone(Plan[j]) => EntryDone(Plan[j])'
  BY <1>1, <1>4, EntriesStay DEF SupInv, Effects
<1>8. Op' = Op /\ More' = More
  BY <1>6, SameEntry
<1>9. Control'
  BY <1>1, <1>2, <1>3, <1>5, <1>6, <1>7, <1>8
     DEF Control, Forward, AtEntry, AsHolder, Executed, Ended, Sweeping, Guarded
<1> QED
  BY <1>1, <1>3, <1>4, <1>6, <1>9, AuthorityKept

\* The delivery of an attempt.
LEMMA RecordFacts ==
  ASSUME SuperTypeOK, Op \in Operations, Recorded, UNCHANGED <<vars, cp>>
  PROVE  /\ recorded' \in RecordedRow /\ Op \in recorded'.attempts
         /\ recorded.attempts \subseteq recorded'.attempts
         /\ \A p : EntryDone(p) => EntryDone(p)'
<1>1. recorded \in RecordedRow /\ recorded' = [recorded EXCEPT !.attempts = @ \cup {Op}]
  BY DEF SuperTypeOK, TablesTypeOK, Recorded
<1>2. /\ recorded' \in RecordedRow /\ recorded'.attempts = recorded.attempts \cup {Op}
  BY <1>1 DEF RecordedRow
<1> QED
  BY <1>2 DEF EntryDone, Dispatched, vars

LEMMA RecordKept ==
  ASSUME SupInv, record_attempt
  PROVE  SupInv'
<1>1. /\ sup \in SupRow /\ sup.pc = "record" /\ Recorded
      /\ UNCHANGED <<vars, cp, intents, phase, outcome>>
  BY DEF record_attempt, At, RunnerUnchanged, SupInv, SuperTypeOK, TablesTypeOK
<1>2. /\ Op \in Operations /\ More /\ ~cp.cancel
      /\ \A j \in 1 .. Len(Plan) : j < sup.i => EntryDone(Plan[j])
  BY <1>1, AtEntryFacts DEF AtEntry, Guarded, Forward
<1>3. /\ recorded' \in RecordedRow /\ Op \in recorded'.attempts
      /\ recorded.attempts \subseteq recorded'.attempts
      /\ \A p : EntryDone(p) => EntryDone(p)'
  BY <1>1, <1>2, RecordFacts DEF SupInv
<1>4. /\ Op \in intents /\ Dispatched(Op) /\ sup.then \in {"next", "cancel"}
      /\ sup.then = "next" => cp.end[Op] # Open
  BY <1>1 DEF SupInv, Control, Agreement, Executed, SupRow
<1>5. sup' \in SupRow /\ Control'
  <2>1. CASE Goto("cancel")
    <3>1. sup' \in SupRow /\ sup'.pc = "cancel"
      BY <1>1, <2>1, Fields DEF PCs
    <3> QED
      BY <3>1, ControlFree DEF PCs, Forward, AtEntry, AsHolder, Sweeping, Guarded
  <2>2. CASE sup.then = "next" /\ Next_entry("claim")
    <3>1. sup' \in SupRow /\ sup'.pc = "claim" /\ sup'.i = sup.i + 1
      BY <1>1, <2>2, NextFields DEF PCs, Forward
    <3>2. \A j \in 1 .. Len(Plan) : j < sup.i + 1 => EntryDone(Plan[j])'
      <4> SUFFICES ASSUME NEW j \in 1 .. Len(Plan), j < sup.i + 1
                   PROVE  EntryDone(Plan[j])'
        OBVIOUS
      <4>1. j < sup.i \/ j = sup.i
        BY <1>1 DEF SupRow
      <4>2. CASE j < sup.i
        BY <1>2, <1>3, <4>2
      <4>3. CASE j = sup.i
        <5>1. PICK q : q = Op
          OBVIOUS
        <5>2. Plan[j] = q /\ EntryDone(q)'
          BY <1>1, <1>3, <1>4, <2>2, <4>3, <5>1 DEF EntryDone, Dispatched, vars, Op
        <5> QED
          BY <5>2
      <4> QED
        BY <4>1, <4>2, <4>3
    <3> QED
      BY <1>1, <1>2, <3>1, <3>2
         DEF Control, Forward, AtEntry, AsHolder, Executed, Ended, Sweeping, Guarded
  <2> QED
    BY <1>4, <2>1, <2>2 DEF record_attempt
<1>6. SuperTypeOK'
  BY <1>1, <1>3, <1>5 DEF SuperTypeOK, TablesTypeOK, SupInv, Runner!TypeOK
<1> QED
  BY <1>1, <1>3, <1>5, <1>6, LocalKept DEF SupInv, Agreement

-----------------------------------------------------------------------------
(* The end of a complete run.                                              *)

LEMMA CloseSavedKept ==
  ASSUME SupInv, close_saved
  PROVE  SupInv'
<1>1. /\ sup \in SupRow /\ sup.pc = "close" /\ cp \in CpRow /\ Goto("send_close")
      /\ cp' = [cp EXCEPT !.close = sup.epoch]
      /\ UNCHANGED <<vars, recorded, intents, phase, outcome>>
  BY DEF close_saved, At, OnlyCheckpoint, SupInv, SuperTypeOK, TablesTypeOK
<1>2. /\ ~More /\ Grant(Run, Tag, sup.epoch) \in grants /\ ~cp.cancel
      /\ \A j \in 1 .. Len(Plan) : j < sup.i => EntryDone(Plan[j])
  BY <1>1 DEF SupInv, Control, AsHolder, Forward, Guarded, Grant
<1>3. cp' \in CpRow /\ cp'.end = cp.end /\ cp'.cancel = cp.cancel
  BY <1>1 DEF CpRow, SupRow
<1>4. sup' \in SupRow /\ sup'.pc = "send_close" /\ sup'.i = sup.i /\ sup'.epoch = sup.epoch
  BY <1>1, Fields DEF PCs, Forward
<1>5. More' = More /\ \A p : EntryDone(p)' = EntryDone(p)
  BY <1>1, <1>3, <1>4, SameEntry DEF EntryDone, Dispatched, vars
<1>6. grants' = grants
  BY <1>1 DEF vars
<1>7. Control'
  BY <1>2, <1>3, <1>4, <1>5, <1>6
     DEF Control, Forward, AtEntry, AsHolder, Executed, Ended, Sweeping, Guarded, Grant
<1>8. SuperTypeOK'
  BY <1>1, <1>3, <1>4 DEF SuperTypeOK, TablesTypeOK, SupInv, Runner!TypeOK
<1> QED
  BY <1>1, <1>3, <1>7, <1>8, LocalKept DEF SupInv, Agreement

\* The run is closed after its last entry only.
LEMMA CloseRunKept ==
  ASSUME SupInv, NEW now \in Times, close_run(now)
  PROVE  SupInv'
<1>1. /\ sup \in SupRow /\ sup.pc = "send_close" /\ Goto("finalize")
      /\ resource_close(now, Run, Tag, sup.epoch)
      /\ UNCHANGED <<cp, recorded, intents, phase, outcome>>
  BY DEF close_run, At, OnlyAuthority, SupInv, SuperTypeOK, TablesTypeOK
<1>2. /\ ~More /\ Grant(Run, Tag, sup.epoch) \in grants /\ ~cp.cancel
      /\ \A j \in 1 .. Len(Plan) : j < sup.i => EntryDone(Plan[j])
  BY <1>1 DEF SupInv, Control, AsHolder, Forward, Guarded, Grant
<1>3. PlanDone
  BY <1>1, <1>2, SupervisedAssumption DEF PlanDone, More, SupRow
<1>4. Effects({}, {Run}, Run)
  BY <1>1, <1>2, CloseEffects DEF SupInv
<1>5. sup' \in SupRow /\ sup'.pc = "finalize"
  BY <1>1, Fields DEF PCs
<1>6. Control'
  BY <1>1, <1>2, <1>5, ControlFree DEF PCs, Forward, AtEntry, AsHolder, Sweeping
<1> QED
  BY <1>1, <1>3, <1>4, <1>5, <1>6, AuthorityKept

LEMMA FinalizeRunKept ==
  ASSUME SupInv, NEW now \in Times, finalize(now)
  PROVE  SupInv'
<1>1. /\ sup \in SupRow /\ sup.pc = "finalize" /\ Goto("gate") /\ evidence_finalize(now, Run)
      /\ UNCHANGED <<cp, recorded, intents, phase, outcome>>
  BY DEF finalize, At, OnlyAuthority, SupInv, SuperTypeOK, TablesTypeOK
<1>2. ~cp.cancel
  BY <1>1 DEF SupInv, Control, Guarded
<1>3. Effects({}, {}, Run)
  BY <1>1, QuietEffects, SupervisedAssumption, AuthorityAssumption DEF SupInv
<1>4. sup' \in SupRow /\ sup'.pc = "gate"
  BY <1>1, Fields DEF PCs
<1>5. Control'
  BY <1>1, <1>2, <1>4, ControlFree DEF PCs, Forward, AtEntry, AsHolder, Sweeping
<1> QED
  BY <1>1, <1>3, <1>4, <1>5, AuthorityKept

-----------------------------------------------------------------------------
(* The cancellation.                                                       *)

LEMMA CancelSavedKept ==
  ASSUME SupInv, cancel_saved
  PROVE  SupInv'
<1>1. /\ sup \in SupRow /\ sup.pc = "cancel" /\ cp \in CpRow
      /\ cp' = [cp EXCEPT !.cancel = TRUE]
      /\ UNCHANGED <<vars, recorded, intents, phase, outcome>>
  BY DEF cancel_saved, At, OnlyCheckpoint, SupInv, SuperTypeOK, TablesTypeOK
<1>2. cp' \in CpRow /\ cp'.end = cp.end
  BY <1>1 DEF CpRow
<1>3. sup' \in SupRow /\ sup'.pc \in {"idle", "cancel_claim"}
  <2>1. CASE Goto("cancel_claim")
    BY <1>1, <2>1, Fields DEF PCs
  <2>2. CASE Exit
    BY <2>2, IdleFields DEF Exit
  <2> QED
    BY <2>1, <2>2 DEF cancel_saved
<1>4. Control'
  BY <1>3, ControlFree DEF PCs, Forward, AtEntry, AsHolder, Sweeping, Guarded
<1>5. SuperTypeOK'
  BY <1>1, <1>2, <1>3 DEF SuperTypeOK, TablesTypeOK, SupInv, Runner!TypeOK
<1> QED
  BY <1>1, <1>2, <1>4, <1>5, LocalKept DEF SupInv, Agreement

LEMMA CancelClaimedKept ==
  ASSUME SupInv, NEW now \in Times, cancel_claim(now)
  PROVE  SupInv'
<1>1. /\ resource_cancel_claim(now, Run, Tag)
      /\ UNCHANGED <<cp, recorded, intents, phase, outcome>>
  BY DEF cancel_claim, OnlyAuthority
<1>2. /\ Effects({}, {}, Run) /\ Grant(Run, Tag, runs'[Run].epoch) \in grants'
      /\ Run \in DOMAIN runs' /\ runs'[Run].cancelled /\ runs'[Run].epoch \in Nat
  BY <1>1, CancelClaimEffects, SupervisedAssumption, AuthorityAssumption DEF SupInv
<1>3. PICK e \in Nat : e = runs'[Run].epoch
  BY <1>2
<1>4. sup' = [Idle EXCEPT !.pc = "sweep", !.epoch = e]
  BY <1>3 DEF cancel_claim
<1>5. sup' \in SupRow /\ sup'.pc = "sweep" /\ sup'.epoch = e
  BY <1>4, IdleFields DEF SupRow, PCs, Sweeping
<1>6. Control'
  BY <1>2, <1>3, <1>5
     DEF Control, Forward, AtEntry, AsHolder, Executed, Ended, Sweeping, Guarded, Grant
<1> QED
  BY <1>1, <1>2, <1>5, <1>6, AuthorityKept

\* During the sweep the run is cancelled and its grant was given.
LEMMA SweepFacts ==
  ASSUME SupInv, sup.pc \in {"sweep", "sweep_observe"}
  PROVE  /\ Grant(Run, Tag, sup.epoch) \in grants
         /\ Run \in DOMAIN runs /\ runs[Run].cancelled
BY DEF SupInv, Control, AsHolder, Sweeping, Grant

\* A sweep that goes on holds its grant, and its run stays cancelled.
LEMMA SweepGoesOn ==
  ASSUME SupInv, sup.pc \in {"sweep", "sweep_observe"}, Moves, grants \subseteq grants',
         sup'.pc = "sweep", sup'.epoch = sup.epoch
  PROVE  Control'
<1>1. Run \in DOMAIN runs' /\ runs'[Run].cancelled
  BY SweepFacts DEF Moves, Grows
<1> QED
  BY <1>1, SweepFacts
     DEF Control, Forward, AtEntry, AsHolder, Executed, Ended, Sweeping, Guarded, Grant

\* A request that is not sent moves nothing.
LEMMA NothingMoves ==
  ASSUME SupInv, UNCHANGED vars
  PROVE  Moves /\ grants' = grants /\ runs' = runs /\ ops' = ops
BY ConditionsKept DEF SupInv, AuthInv, vars, bookVars

LEMMA SweepSkipKept ==
  ASSUME SupInv, sweep_skip
  PROVE  SupInv'
<1>1. /\ sup \in SupRow /\ sup.pc = "sweep" /\ Next_entry("sweep")
      /\ UNCHANGED <<vars, cp, recorded, intents, phase, outcome>>
  BY DEF sweep_skip, At, OnlySup, SupInv, SuperTypeOK, TablesTypeOK
<1>2. sup' \in SupRow /\ sup'.pc = "sweep" /\ sup'.epoch = sup.epoch
  BY <1>1, NextFields DEF PCs, Sweeping
<1>3. Control'
  BY <1>1, <1>2, NothingMoves, SweepGoesOn
<1> QED
  BY <1>1, <1>2, <1>3, AloneKept

LEMMA SweepRecoverKept ==
  ASSUME SupInv, sweep_recover
  PROVE  SupInv'
<1>1. /\ sup \in SupRow /\ sup.pc = "sweep" /\ More /\ Recovered /\ Goto("sweep_observe")
      /\ UNCHANGED <<vars, cp, recorded, intents>>
  BY DEF sweep_recover, SweepRecovered, At, SupInv, SuperTypeOK, TablesTypeOK
<1>2. Op \in Operations
  BY <1>1, OpType
<1>3. /\ Runner!TypeOK' /\ Op \in intents /\ outcome'[Op] # Open
      /\ \A q \in Operations : outcome[q] # Open => outcome'[q] = outcome[q]
  BY <1>1, <1>2, RecoveredFacts DEF SupInv
<1>4. sup' \in SupRow /\ sup'.pc = "sweep_observe" /\ sup'.i = sup.i /\ sup'.epoch = sup.epoch
  BY <1>1, Fields DEF PCs, Sweeping
<1>5. Op' = Op /\ More' = More
  BY <1>4, SameEntry
<1>6. Control'
  BY <1>1, <1>3, <1>4, <1>5, SweepFacts, NothingMoves
     DEF Control, Forward, AtEntry, AsHolder, Executed, Ended, Sweeping, Guarded, Grant
<1>7. SuperTypeOK'
  BY <1>1, <1>3, <1>4 DEF SuperTypeOK, TablesTypeOK, SupInv
<1> QED
  BY <1>1, <1>3, <1>6, <1>7, LocalKept DEF SupInv, Agreement

LEMMA SweepObserveKept ==
  ASSUME SupInv, NEW now \in Times, sweep_observe(now)
  PROVE  SupInv'
<1>1. /\ sup \in SupRow /\ sup.pc = "sweep_observe" /\ ReportStop(now)
      /\ UNCHANGED <<cp, recorded, intents, phase, outcome>>
  BY DEF sweep_observe, At, OnlyAuthority, SupInv, SuperTypeOK, TablesTypeOK
<1>2. Op \in Operations /\ Op \in intents /\ outcome[Op] # Open
  BY <1>1, AtEntryFacts DEF SupInv, Control, AtEntry, Executed, Ended
<1>3. Effects({Op}, {}, Run)
  BY <1>1, <1>2, ReportEffects
<1>4. sup' \in SupRow /\ sup'.pc = "sweep" /\ sup'.epoch = sup.epoch
  <2>1. Goto("sweep") \/ Next_entry("sweep")
    BY DEF sweep_observe
  <2> QED
    BY <1>1, <2>1, Fields, NextFields DEF PCs, Sweeping
<1>5. Control'
  BY <1>1, <1>3, <1>4, SweepGoesOn DEF Effects
<1> QED
  BY <1>1, <1>2, <1>3, <1>4, <1>5, AuthorityKept

LEMMA SweepRecordKept ==
  ASSUME SupInv, sweep_record
  PROVE  SupInv'
<1>1. /\ sup \in SupRow /\ sup.pc = "sweep" /\ More /\ Recorded /\ Next_entry("sweep")
      /\ UNCHANGED <<vars, cp, intents, phase, outcome>>
  BY DEF sweep_record, At, RunnerUnchanged, SupInv, SuperTypeOK, TablesTypeOK
<1>2. Op \in Operations
  BY <1>1, OpType
<1>3. recorded' \in RecordedRow /\ recorded.attempts \subseteq recorded'.attempts
  BY <1>1, <1>2, RecordFacts DEF SupInv
<1>4. sup' \in SupRow /\ sup'.pc = "sweep" /\ sup'.epoch = sup.epoch
  BY <1>1, NextFields DEF PCs, Sweeping
<1>5. Control'
  BY <1>1, <1>4, NothingMoves, SweepGoesOn
<1>6. SuperTypeOK'
  BY <1>1, <1>3, <1>4 DEF SuperTypeOK, TablesTypeOK, SupInv, Runner!TypeOK
<1> QED
  BY <1>1, <1>3, <1>5, <1>6, LocalKept DEF SupInv, Agreement

LEMMA SweepPendingKept ==
  ASSUME SupInv, sweep_pending
  PROVE  SupInv'
<1>1. /\ sup \in SupRow /\ sup.pc \in {"sweep", "sweep_observe"} /\ More
      /\ UNCHANGED <<vars, cp, recorded, intents, phase, outcome>>
  BY DEF sweep_pending, SupInv, SuperTypeOK, TablesTypeOK
<1>2. Op \in Operations
  BY <1>1, OpType
<1>3. PICK n \in Nat \ {0} : n = sup.i + 1
  BY <1>1 DEF SupRow
<1>4. PICK m \in SUBSET Operations : m = sup.pending \cup {Op}
  BY <1>1, <1>2 DEF SupRow
<1>5. sup' = [sup EXCEPT !.pc = "sweep", !.i = n, !.pending = m]
  BY <1>3, <1>4 DEF sweep_pending
<1>6. sup' \in SupRow /\ sup'.pc = "sweep" /\ sup'.epoch = sup.epoch
  BY <1>1, <1>5 DEF SupRow, PCs, Sweeping
<1>7. Control'
  BY <1>1, <1>6, NothingMoves, SweepGoesOn
<1> QED
  BY <1>1, <1>6, <1>7, AloneKept

LEMMA CancelCloseKept ==
  ASSUME SupInv, NEW now \in Times, cancel_close(now)
  PROVE  SupInv'
<1>1. /\ sup \in SupRow /\ sup.pc = "sweep" /\ Goto("cancel_finalize")
      /\ UNCHANGED <<cp, recorded, intents, phase, outcome>>
  BY DEF cancel_close, Swept, At, OnlyAuthority, SupInv, SuperTypeOK, TablesTypeOK
<1>2. Grant(Run, Tag, sup.epoch) \in grants /\ Run \in DOMAIN runs /\ runs[Run].cancelled
  BY <1>1, SweepFacts
<1>3. Effects({}, {}, Run) \/ Effects({}, {Run}, Run)
  <2>1. CASE snapshot(now, Run) /\ Rest
    BY <2>1, QuietEffects, SupervisedAssumption, AuthorityAssumption DEF SupInv
  <2>2. CASE resource_close(now, Run, Tag, sup.epoch)
    BY <1>2, <2>2, CloseEffects DEF SupInv
  <2> QED
    BY <2>1, <2>2 DEF cancel_close
<1>4. sup' \in SupRow /\ sup'.pc = "cancel_finalize"
  BY <1>1, Fields DEF PCs, Sweeping
<1>5. Run \in DOMAIN runs' /\ runs'[Run].cancelled
  BY <1>2, <1>3 DEF Effects, Moves, Grows
<1>6. Control'
  BY <1>4, <1>5 DEF Control, Forward, AtEntry, AsHolder, Executed, Ended, Sweeping, Guarded
<1> QED
  BY <1>1, <1>2, <1>3, <1>4, <1>6, AuthorityKept

LEMMA CancelEndKept ==
  ASSUME SupInv, NEW now \in Times, cancel_finalize(now)
  PROVE  SupInv'
<1>1. /\ Exit /\ run_cancel_finalize(now, Run)
      /\ UNCHANGED <<cp, recorded, intents, phase, outcome>>
  BY DEF cancel_finalize, OnlyAuthority
<1>2. Effects({}, {}, Run)
  BY <1>1, QuietEffects, SupervisedAssumption, AuthorityAssumption DEF SupInv
<1>3. sup' \in SupRow /\ sup'.pc = "idle"
  BY <1>1, IdleFields DEF Exit
<1>4. Control'
  BY <1>3, ControlFree DEF PCs, Forward, AtEntry, AsHolder, Sweeping, Guarded
<1> QED
  BY <1>1, <1>2, <1>3, <1>4, AuthorityKept

-----------------------------------------------------------------------------
(* The fixtures and the adopted conditions.                                *)

\* A fixture starts or ends whatever the supervisor is doing.
LEMMA FixtureKept ==
  ASSUME SupInv, NEW p \in Operations, fixture_starts(p) \/ fixture_ends(p)
  PROVE  SupInv'
<1>1. UNCHANGED <<vars, cp, recorded, intents, outcome, sup>>
  BY DEF fixture_starts, fixture_ends, Runner!Start, Runner!End
<1>2. PICK f \in {"live", "ended"} : phase' = [phase EXCEPT ![p] = f]
  BY DEF fixture_starts, fixture_ends, Runner!Start, Runner!End
<1>3. SuperTypeOK'
  BY <1>1, <1>2 DEF SuperTypeOK, TablesTypeOK, SupInv, Runner!TypeOK
<1>4. /\ Op' = Op /\ More' = More /\ \A q : EntryDone(q)' = EntryDone(q)
      /\ \A q : Dispatched(q)' = Dispatched(q)
  BY <1>1, SameEntry DEF EntryDone, Dispatched, vars
<1>5. grants' = grants /\ ops' = ops /\ runs' = runs
  BY <1>1 DEF vars
<1>6. Control'
  BY <1>1, <1>4, <1>5 DEF SupInv, Control
<1> QED
  BY <1>1, <1>3, <1>6, LocalKept DEF SupInv, Agreement

LEMMA ConditionsSupKept ==
  ASSUME SupInv, ChangeConditions, UNCHANGED superVars
  PROVE  SupInv'
<1>1. /\ UNCHANGED <<cp, recorded, intents, phase, outcome, sup>>
      /\ Effects({}, {}, Run)
  BY RestEffects DEF ChangeConditions, superVars, SupInv
<1>2. /\ Op' = Op /\ More' = More /\ \A q : EntryDone(q)' = EntryDone(q)
      /\ \A q : Dispatched(q)' = Dispatched(q)
  BY <1>1, SameEntry DEF EntryDone, Dispatched, ChangeConditions, bookVars
<1>3. grants' = grants /\ ops' = ops /\ runs' = runs
  BY DEF ChangeConditions, bookVars
<1>4. Control'
  BY <1>1, <1>2, <1>3 DEF SupInv, Control
<1> QED
  BY <1>1, <1>4, AuthorityKept DEF SupInv, SuperTypeOK, TablesTypeOK

LEMMA NothingChangesKept ==
  ASSUME SupInv, UNCHANGED allVars
  PROVE  SupInv'
<1>1. /\ UNCHANGED <<vars, cp, recorded, intents, phase, outcome, sup>>
      /\ UNCHANGED <<runs, ops, grants>>
  BY DEF allVars, superVars, vars
<1>2. /\ Op' = Op /\ More' = More /\ \A q : EntryDone(q)' = EntryDone(q)
      /\ \A q : Dispatched(q)' = Dispatched(q)
  BY <1>1, SameEntry DEF EntryDone, Dispatched
<1>3. Control'
  BY <1>1, <1>2 DEF SupInv, Control
<1> QED
  BY <1>1, <1>3, AloneKept DEF SupInv, SuperTypeOK, TablesTypeOK

-----------------------------------------------------------------------------
(* The theorems.                                                           *)

LEMMA SupInitial == SuperInit => SupInv
<1> SUFFICES ASSUME SuperInit PROVE SupInv
  OBVIOUS
<1>1. AuthInv
  BY AuthInitial DEF SuperInit, SuperTables
<1>2. DOMAIN ops = {} /\ DOMAIN runs = {}
  BY DEF SuperInit, SuperTables, Init, BookInit
<1>3. cp \in CpRow /\ cp.end = [p \in Operations |-> Open] /\ ~cp.cancel
  BY DEF SuperInit, SuperTables, CpRow
<1>4. SuperTypeOK
  BY <1>3, IdleFields
     DEF SuperTypeOK, TablesTypeOK, SuperInit, SuperTables, RecordedRow, Runner!Init, Runner!TypeOK
<1>5. Agreement
  BY <1>2, <1>3 DEF Agreement, OwnOperations, OwnClose, SuperInit, SuperTables
<1>6. Control
  BY <1>3, IdleFields
     DEF Control, Forward, AtEntry, AsHolder, Executed, Ended, Sweeping, Guarded, SuperInit
<1> QED
  BY <1>1, <1>4, <1>5, <1>6 DEF SupInv

LEMMA SupSteps == SupInv /\ [SuperNext]_allVars => SupInv'
<1> SUFFICES ASSUME SupInv, [SuperNext]_allVars PROVE SupInv'
  OBVIOUS
<1>1. ASSUME NEW mode \in {"run", "resume", "cancel"}, execute(mode) PROVE SupInv'
  BY <1>1, ExecuteKept
<1>2. CASE RunStep
  <2>1. ASSUME NEW now \in Times,
               \/ begin_run(now) \/ status(now) \/ claim_next(now)
               \/ reserve_entry(now) \/ dispatch(now) \/ observe_stop(now)
               \/ close_run(now) \/ finalize(now)
        PROVE  SupInv'
    BY <2>1, BeginRunKept, StatusKept, ClaimNextKept, ReserveEntryKept, DispatchKeptSup,
       ObserveStopKept, CloseRunKept, FinalizeRunKept
  <2>2. CASE close_conflict \/ gate \/ raised
    <3>1. UNCHANGED <<vars, cp, recorded, intents, phase, outcome>> /\ (Goto("cancel") \/ Exit)
      BY <2>2 DEF close_conflict, gate, raised, OnlySup
    <3> QED
      BY <3>1, LeaveKept
  <2> QED
    BY <1>2, <2>1, <2>2, OpenKept, OneKept, PrepareKept, StartSavedKept, RunnerKept, ReturnsKept,
       FinishKept, InterruptedKept, RecordKept, CloseSavedKept DEF RunStep
<1>3. CASE CancelStep
  <2>1. ASSUME NEW now \in Times,
               \/ cancel_claim(now) \/ sweep_observe(now) \/ cancel_close(now)
               \/ cancel_finalize(now)
        PROVE  SupInv'
    BY <2>1, CancelClaimedKept, SweepObserveKept, CancelCloseKept, CancelEndKept
  <2> QED
    BY <1>3, <2>1, CancelSavedKept, SweepSkipKept, SweepRecoverKept, SweepRecordKept,
       SweepPendingKept DEF CancelStep
<1>4. CASE refused \/ die
  <2>1. UNCHANGED <<vars, cp, recorded, intents, phase, outcome>> /\ Exit
    BY <1>4 DEF refused, die, OnlySup
  <2> QED
    BY <2>1, LeaveKept
<1>5. ASSUME NEW p \in Operations, fixture_starts(p) \/ fixture_ends(p) PROVE SupInv'
  BY <1>5, FixtureKept
<1>6. CASE ChangeConditions /\ UNCHANGED superVars
  BY <1>6, ConditionsSupKept
<1>7. CASE UNCHANGED allVars
  BY <1>7, NothingChangesKept
<1> QED
  BY <1>1, <1>2, <1>3, <1>4, <1>5, <1>6, <1>7 DEF SuperNext

LEMMA SupAlways == SuperSpec => []SupInv
BY SupInitial, SupSteps, PTL DEF SuperSpec

\* What the authority holds about the ends of a supervised run's operations is
\* what happened to its fixtures, however often the supervisor died and was
\* started again (execute and cancel of supervised_run.py between the authority,
\* the checkpoints and the runner): a stop is reported only of a fixture with a
\* final receipt, no receipt of the run is issued while an announced fixture may
\* still start, and a normal receipt means the whole plan was executed.
THEOREM SupervisorEndsReal == SuperSpec => []EndsAreReal
BY SupAlways, SupGoal, PTL

\* After the request to cancel is saved (Checkpoint.put in cancel), no step of
\* the supervisor announces an execution to the runner, in whatever mode it is
\* started again.
LEMMA NoBeginStep == SupInv /\ [SuperNext]_allVars => [NoBeginAfterCancelStep]_allVars
<1> SUFFICES ASSUME SupInv, SuperNext, cp.cancel PROVE intents' = intents
  BY DEF NoBeginAfterCancelStep
<1>1. ~execute_runner
  BY DEF execute_runner, At, SupInv, Control, Guarded
<1>2. ASSUME NEW mode \in {"run", "resume", "cancel"}, execute(mode) PROVE intents' = intents
  BY <1>2 DEF execute, OnlyCheckpoint
<1>3. CASE RunStep
  <2>1. ASSUME NEW now \in Times,
               \/ begin_run(now) \/ status(now) \/ claim_next(now)
               \/ reserve_entry(now) \/ dispatch(now) \/ observe_stop(now)
               \/ close_run(now) \/ finalize(now)
        PROVE  intents' = intents
    BY <2>1 DEF begin_run, status, claim_next, reserve_entry, dispatch, observe_stop, close_run,
                finalize, OnlyAuthority
  <2>2. CASE \/ evidence_open \/ one \/ prepare_operation \/ start \/ runner_returns
             \/ finish_operation \/ recover_interrupted \/ record_attempt \/ close_saved
             \/ close_conflict \/ gate \/ raised
    BY <2>2 DEF evidence_open, one, prepare_operation, start, runner_returns, finish_operation,
                recover_interrupted, record_attempt, close_saved, close_conflict, gate, raised,
                OnlySup, OnlyCheckpoint, RunnerUnchanged
  <2> QED
    BY <1>1, <1>3, <2>1, <2>2 DEF RunStep
<1>4. CASE CancelStep
  <2>1. ASSUME NEW now \in Times,
               \/ cancel_claim(now) \/ sweep_observe(now) \/ cancel_close(now)
               \/ cancel_finalize(now)
        PROVE  intents' = intents
    BY <2>1 DEF cancel_claim, sweep_observe, cancel_close, cancel_finalize, OnlyAuthority
  <2>2. CASE cancel_saved \/ sweep_skip \/ sweep_recover \/ sweep_record \/ sweep_pending
    BY <2>2 DEF cancel_saved, sweep_skip, sweep_recover, sweep_record, sweep_pending,
                OnlySup, OnlyCheckpoint, RunnerUnchanged
  <2> QED
    BY <1>4, <2>1, <2>2 DEF CancelStep
<1>5. CASE refused \/ die
  BY <1>5 DEF refused, die, OnlySup
<1>6. ASSUME NEW p \in Operations, fixture_starts(p) \/ fixture_ends(p) PROVE intents' = intents
  BY <1>6 DEF fixture_starts, fixture_ends
<1>7. CASE ChangeConditions /\ UNCHANGED superVars
  BY <1>7 DEF superVars
<1> QED
  BY <1>2, <1>3, <1>4, <1>5, <1>6, <1>7 DEF SuperNext

\* A cancellation that was asked for is never outrun: whatever mode the supervisor
\* is started in afterwards and wherever it dies, no execution is begun any more
\* (execute, cancel and _execute_with_recovery of supervised_run.py).
THEOREM SupervisorStopsBeginning == SuperSpec => NoBeginAfterCancel
BY SupAlways, NoBeginStep, PTL DEF SuperSpec, NoBeginAfterCancel

-----------------------------------------------------------------------------
(* The diagnosis of one entry.                                             *)

\* The execution was delivered to the end, or is being delivered.
Delivering == {"observe", "record", "attempt", "snapshot", "claim", "quiet_claim", "close",
               "quiet_close", "close_save"}
DeliveringAfter == Delivering \ {"observe", "record"}

Recovering == {"recover_claim", "recover_observe", "recover_close"}

\* A request that presents an epoch is under way.
ConsumerHolds == {"close", "quiet_close", "recover_observe", "recover_close"}

\* A call that finds everything saved executes no more than these.
Returning == {"away", "begin", "begun", "enter", "inspect"}

ConPCs == Returning \cup Delivering \cup Recovering
            \cup {"fresh", "start", "start_save", "announce", "run", "running", "end"}

ConRow == [pc : ConPCs, epoch : Nat, found : BOOLEAN]

DiagTypeOK ==
  /\ saved \subseteq Checkpoints /\ delivered \in BOOLEAN /\ con \in ConRow
  /\ intents \subseteq Operations /\ Runner!TypeOK

\* The run is closed with its account settled.
ClosedInFull == Known(DRun) /\ runs[DRun].closed /\ BudgetClosure(DRun)

\* What the authority, the consumer and the runner hold of each other.
DiagAgreement ==
  /\ Exists => ops[DOp].run = DRun /\ ops[DOp].intended # Null
  /\ DOp \in intents => Exists
  /\ Exists /\ ops[DOp].stopped # Null => outcome[DOp] # Open
  /\ phase[DOp] # "idle" => DOp \in intents
  /\ outcome[DOp] # Open => DOp \in intents /\ phase[DOp] # "live"
  /\ outcome[DOp] = Success => phase[DOp] = "ended"
  /\ Known(DRun) /\ runs[DRun].closed /\ Exists => StoppedAndSettled(DOp)
  /\ "end" \in saved => "started" \in saved /\ outcome[DOp] = Success
  /\ delivered => "end" \in saved
  /\ "close" \in saved => ClosedInFull /\ Accounted /\ delivered

\* What the consumer may count on at each of its steps.
DiagControl ==
  /\ con.found => outcome[DOp] # Open
  /\ con.pc \in {"start_save", "announce", "run", "end"} => Exists
  /\ con.pc \in {"run", "running", "end"} => "started" \in saved
  /\ con.pc = "running" => DOp \in intents
  /\ con.pc = "end" => outcome[DOp] = Success
  /\ con.pc = "fresh" /\ Exists => "end" \in saved
  /\ con.pc \in Delivering => Exists /\ "end" \in saved
  /\ con.pc \in DeliveringAfter => delivered
  /\ con.pc = "close_save" => ClosedInFull
  /\ con.pc \in Recovering => Exists /\ outcome[DOp] # Open
  /\ con.pc \in ConsumerHolds => [run |-> DRun, owner |-> Tag, epoch |-> con.epoch] \in grants
  /\ "close" \in saved => con.pc \in Returning

DiagInv == AuthInv /\ DiagTypeOK /\ DiagAgreement /\ DiagControl

LEMMA DiagGoal == DiagInv => DiagnosisHolds
<1> SUFFICES ASSUME DiagInv PROVE DiagnosisHolds
  OBVIOUS
<1>1. Known(DRun) /\ runs[DRun].closed => phase[DOp] # "live"
  <2> SUFFICES ASSUME Known(DRun), runs[DRun].closed, phase[DOp] = "live" PROVE FALSE
    OBVIOUS
  <2>1. Exists /\ outcome[DOp] = Open
    BY DEF DiagInv, DiagAgreement
  <2>2. ops[DOp].stopped # Null
    BY <2>1 DEF DiagInv, DiagAgreement, StoppedAndSettled
  <2> QED
    BY <2>1, <2>2 DEF DiagInv, DiagAgreement
<1>2. DiagnosedStopsAreReal
  BY <1>1 DEF DiagnosedStopsAreReal, DiagInv, DiagAgreement
<1>3. AttemptsAreSuccesses
  BY DEF AttemptsAreSuccesses, DiagInv, DiagAgreement
<1>4. ResultsAreClosed
  BY DEF ResultsAreClosed, DiagInv, DiagAgreement, ClosedInFull
<1> QED
  BY <1>2, <1>3, <1>4 DEF DiagnosisHolds

\* An operation that is started at once is dispatched under a fresh claim.
LEMMA StartEffects ==
  ASSUME AuthInv, NEW now \in Times, NEW r \in Runs, NEW o \in Owners, NEW p \in Operations,
         NEW entry \in Entries, resource_start(now, r, o, p, entry)
  PROVE  /\ Effects({}, {}, r) /\ p \in DOMAIN ops' /\ ops'[p].intended # Null
         /\ r \in DOMAIN runs' /\ ~runs'[r].closed
<1>1. AuthInv' /\ Moves
  BY StartKept
<1>2. /\ TypeOK /\ now \in Nat /\ r \in DOMAIN runs /\ ~runs[r].closed /\ Claimable(r, o, now)
      /\ runs' = [runs EXCEPT ![r] = ClaimedRow(r, o, now)]
      /\ grants' = Granted(r, o, ClaimEpoch(r, now))
  BY TouchClock DEF AuthInv, BookInv, resource_start, Known
<1>3. PICK flag \in BOOLEAN : flag = runs[r].cancelled
  BY <1>2, RowTypes DEF RunRow
<1>4. ClaimedAs(r, o, now, flag) = ClaimedRow(r, o, now)
  BY <1>2, <1>3, RowTypes DEF RunRow, ClaimedRow, ClaimedAs
<1>5. ClosesOnly({}) /\ grants \subseteq grants' /\ r \in DOMAIN runs'
  BY <1>2, <1>3, <1>4, ClaimedRest
<1>6. PICK op : op = [NewOp(r, ClaimEpoch(r, now), Fixture) EXCEPT !.intended = now]
  OBVIOUS
<1>7. ops' = Insert(ops, p, op) /\ op.run = r /\ op.stopped = Null /\ op.intended = now
  <2>1. ops' = Insert(ops, p, op)
    BY <1>6, Zenon DEF resource_start
  <2>2. op = [run |-> r, epoch |-> ClaimEpoch(r, now), reserved |-> Fixture, intended |-> now,
              stopped |-> Null, released |-> FALSE, usage |-> NoUsage,
              settledAt |-> Null, cost |-> Null, conflicted |-> FALSE, exposure |-> 0]
    BY <1>6 DEF NewOp
  <2> QED
    BY <2>1, <2>2
<1>8. StopsOnly({}) /\ NewOnlyFor(r) /\ p \in DOMAIN ops' /\ ops'[p].intended # Null
  BY <1>2, <1>7 DEF StopsOnly, NewOnlyFor, Insert, Null
<1> QED
  BY <1>1, <1>2, <1>5, <1>8 DEF Effects, ClosesOnly

\* The local variables after a move, a claim and the end of a call.
LEMMA ConMoved ==
  ASSUME con \in ConRow, NEW pc \in ConPCs, Move(pc)
  PROVE  con' \in ConRow /\ con'.pc = pc /\ con'.epoch = con.epoch /\ con'.found = con.found
BY DEF ConRow, Move

LEMMA ConClaimed ==
  ASSUME con \in ConRow, NEW pc \in ConPCs, NEW e \in Nat,
         con' = [con EXCEPT !.epoch = e, !.pc = pc]
  PROVE  con' \in ConRow /\ con'.pc = pc /\ con'.epoch = e /\ con'.found = con.found
BY DEF ConRow

LEMMA ConAway ==
  Absent \in ConRow /\ Absent.pc = "away" /\ Absent.epoch = 0 /\ Absent.found = FALSE
BY DEF ConRow, Absent, ConPCs, Returning

\* A call that has ended counts on nothing.
LEMMA LeftControl ==
  ASSUME Leave
  PROVE  con' \in ConRow /\ DiagControl'
BY ConAway DEF Leave, DiagControl, Returning, Delivering, DeliveringAfter, Recovering, ConsumerHolds

\* What is accounted for stays so, and the operation is not lost.
LEMMA AccountStays ==
  ASSUME DiagInv, Moves
  PROVE  (Exists => Exists') /\ (Accounted => Accounted')
BY DEF Moves, OpGrows, Exists, Accounted, StoppedAndSettled

LEMMA ClosedStays ==
  ASSUME UNCHANGED <<runs, ops>>
  PROVE  (Exists' <=> Exists) /\ (Accounted' <=> Accounted) /\ (ClosedInFull' <=> ClosedInFull)
BY DEF Exists, Accounted, StoppedAndSettled, ClosedInFull, Known, BudgetClosure, Slots, Unsettled,
       Counted, OpsOf, Settled

\* A run that may be closed has accounted for the operation.
LEMMA CloseAccounts ==
  ASSUME DiagInv, Exists, MayClose(DRun)
  PROVE  StoppedAndSettled(DOp)
<1>1. TypeOK /\ IsFiniteSet(DOMAIN ops) /\ OpSound(ops[DOp], runs[ops[DOp].run], lastClock)
  BY DEF DiagInv, AuthInv, BookInv, Exists
<1>2. ops[DOp].run = DRun /\ ops[DOp].intended # Null
  BY DEF DiagInv, DiagAgreement
<1>3. DOp \in Counted(DRun)
  BY <1>1, <1>2 DEF Counted, OpsOf, Exists, OpSound
<1>4. ops[DOp].stopped # Null
  BY <1>1, <1>3, SlotsCount DEF MayClose
<1>5. Settled(ops[DOp])
  BY <1>3 DEF MayClose, Unsettled
<1> QED
  BY <1>4, <1>5 DEF StoppedAndSettled, Settled

\* A request of the authority: what it may stop has a receipt, what it may close is
\* accounted for, and it starts nothing in a closed run.
LEMMA DiagRequest ==
  ASSUME DiagInv, NEW stops, NEW closes, Effects(stops, closes, DRun),
         DOp \in stops => outcome[DOp] # Open,
         DRun \in closes => Known(DRun) /\ (runs[DRun].closed \/ MayClose(DRun)),
         Exists' => Exists \/ (ops'[DOp].intended # Null /\ ~runs'[DRun].closed),
         "close" \in saved => UNCHANGED <<runs, ops>>,
         UNCHANGED <<intents, phase, outcome, saved>>,
         delivered' = delivered \/ (delivered' = TRUE /\ "end" \in saved),
         con' \in ConRow, DiagControl'
  PROVE  DiagInv'
<1>1. /\ Moves /\ (Exists => Exists') /\ (Accounted => Accounted')
  BY AccountStays DEF Effects
<1>2. DiagTypeOK'
  BY DEF DiagInv, DiagTypeOK, Runner!TypeOK
<1>3. Exists' => ops'[DOp].run = DRun /\ ops'[DOp].intended # Null
  BY <1>1 DEF Exists, DiagInv, DiagAgreement, Effects, NewOnlyFor, Moves, OpGrows
<1>4. Exists' /\ ops'[DOp].stopped # Null => outcome[DOp] # Open
  BY DEF Exists, DiagInv, DiagAgreement, Effects, StopsOnly
<1>5. Known(DRun)' /\ runs'[DRun].closed /\ Exists' => StoppedAndSettled(DOp)'
  <2> SUFFICES ASSUME Known(DRun)', runs'[DRun].closed, Exists' PROVE StoppedAndSettled(DOp)'
    OBVIOUS
  <2>1. Exists
    OBVIOUS
  <2>2. Known(DRun) /\ (runs[DRun].closed \/ MayClose(DRun))
    BY DEF Effects, ClosesOnly, Known
  <2>3. StoppedAndSettled(DOp)
    BY <2>1, <2>2, CloseAccounts DEF DiagInv, DiagAgreement
  <2> QED
    BY <1>1, <2>1, <2>3 DEF Accounted
<1>6. "close" \in saved => (ClosedInFull /\ Accounted)'
  BY ClosedStays DEF DiagInv, DiagAgreement
<1>7. delivered' => "end" \in saved
  BY DEF DiagInv, DiagAgreement
<1>8. "close" \in saved => delivered'
  BY DEF DiagInv, DiagAgreement
<1>9. DiagAgreement'
  BY <1>1, <1>3, <1>4, <1>5, <1>6, <1>7, <1>8 DEF DiagInv, DiagAgreement
<1> QED
  BY <1>2, <1>9 DEF DiagInv, Effects

\* A step that asks the authority nothing.
LEMMA DiagLocal ==
  ASSUME DiagInv, UNCHANGED vars
  PROVE  /\ AuthInv' /\ UNCHANGED <<runs, ops, grants>>
         /\ (Exists' <=> Exists) /\ (Accounted' <=> Accounted) /\ (ClosedInFull' <=> ClosedInFull)
<1>1. AuthInv'
  BY ConditionsKept DEF DiagInv, AuthInv, vars, bookVars
<1>2. UNCHANGED <<runs, ops, grants>>
  BY DEF vars
<1> QED
  BY <1>1, <1>2, ClosedStays

\* A step of the consumer alone, and one that saves a checkpoint.
LEMMA DiagSaving ==
  ASSUME DiagInv, UNCHANGED <<vars, intents, phase, outcome, delivered>>,
         saved' = saved \/ \E c \in Checkpoints : Save(c),
         "end" \in saved' => "end" \in saved \/ ("started" \in saved /\ outcome[DOp] = Success),
         "close" \in saved' => "close" \in saved \/ (ClosedInFull /\ Accounted /\ delivered),
         con' \in ConRow, DiagControl'
  PROVE  DiagInv'
<1>1. /\ AuthInv' /\ UNCHANGED <<runs, ops, grants>>
      /\ (Exists' <=> Exists) /\ (Accounted' <=> Accounted) /\ (ClosedInFull' <=> ClosedInFull)
  BY DiagLocal
<1>2. saved \subseteq saved' /\ saved' \subseteq Checkpoints
  BY DEF DiagInv, DiagTypeOK, Save
<1>3. DiagTypeOK'
  BY <1>2 DEF DiagInv, DiagTypeOK, Runner!TypeOK
<1>4. StoppedAndSettled(DOp)' <=> StoppedAndSettled(DOp)
  BY <1>1 DEF StoppedAndSettled
<1>5. Known(DRun)' <=> Known(DRun)
  BY <1>1 DEF Known
<1>6. DiagAgreement'
  BY <1>1, <1>2, <1>4, <1>5 DEF DiagInv, DiagAgreement
<1> QED
  BY <1>1, <1>3, <1>6 DEF DiagInv

-----------------------------------------------------------------------------
(* The steps of the diagnosis.                                             *)

\* What a step that saves nothing and a move keep for the next one.
LEMMA MovedControl ==
  ASSUME DiagInv, Moves, grants \subseteq grants', NEW pc \in ConPCs, Move(pc),
         UNCHANGED <<intents, outcome, saved>>, delivered => delivered',
         "close" \in saved => pc \in Returning,
         pc \in {"start_save", "announce", "run", "end"} => Exists',
         pc \in {"run", "running", "end"} => "started" \in saved,
         pc = "running" => DOp \in intents,
         pc = "end" => outcome[DOp] = Success,
         pc = "fresh" /\ Exists' => "end" \in saved,
         pc \in Delivering => Exists' /\ "end" \in saved,
         pc \in DeliveringAfter => delivered',
         pc = "close_save" => ClosedInFull',
         pc \in Recovering => Exists' /\ outcome[DOp] # Open,
         pc \in ConsumerHolds => con.pc \in ConsumerHolds
  PROVE  con' \in ConRow /\ DiagControl'
<1>1. con' \in ConRow /\ con'.pc = pc /\ con'.epoch = con.epoch /\ con'.found = con.found
  BY ConMoved DEF DiagInv, DiagTypeOK
<1>2. con'.found => outcome'[DOp] # Open
  BY <1>1 DEF DiagInv, DiagControl
<1>3. con'.pc \in ConsumerHolds => [run |-> DRun, owner |-> Tag, epoch |-> con'.epoch] \in grants'
  BY <1>1 DEF DiagInv, DiagControl
<1> QED
  BY <1>1, <1>2, <1>3 DEF DiagControl

LEMMA PCsAre ==
  /\ Returning \subseteq ConPCs /\ Delivering \subseteq ConPCs /\ Recovering \subseteq ConPCs
  /\ DeliveringAfter \subseteq Delivering /\ "observe" \notin DeliveringAfter
  /\ \A pc \in Returning : pc \notin Delivering /\ pc \notin Recovering /\ pc \notin ConsumerHolds
BY DEF ConPCs, Returning, Delivering, DeliveringAfter, Recovering, ConsumerHolds

LEMMA LaunchKept ==
  ASSUME DiagInv, launch \/ nothing_to_recover
  PROVE  DiagInv'
<1>1. UNCHANGED <<vars, intents, phase, outcome, saved, delivered>>
  BY DEF launch, nothing_to_recover, OnlyConsumer, allVars, superVars
<1>2. PICK pc \in {"begin", "enter", "inspect"} : Move(pc)
  BY DEF launch, nothing_to_recover
<1>3. pc \in ConPCs /\ pc \in Returning
  BY <1>2 DEF ConPCs, Returning
<1>4. Moves /\ grants \subseteq grants'
  BY <1>1, ConditionsKept DEF DiagInv, AuthInv, vars, bookVars
<1>5. con' \in ConRow /\ DiagControl'
  BY <1>1, <1>2, <1>3, <1>4, MovedControl, PCsAre
<1> QED
  BY <1>1, <1>5, DiagSaving

\* The end of a call, for whatever reason.
LEMMA LeaveKeptDiag ==
  ASSUME DiagInv, UNCHANGED <<vars, intents, phase, outcome, saved, delivered>>, Leave
  PROVE  DiagInv'
BY LeftControl, DiagSaving

LEMMA BeginV2Kept ==
  ASSUME DiagInv, NEW now \in Times, run_begin_v2(now)
  PROVE  DiagInv'
<1>1. /\ Move("begun") /\ UNCHANGED <<intents, phase, outcome, saved, delivered>>
      /\ DRun \in Runs /\ Tag \in Owners /\ Profile \in Profiles /\ Deadline \in Nat
  BY DiagnosticAssumption, SupervisedAssumption
     DEF run_begin_v2, OnlyRequest, NoRunner
<1>2. CASE Known(DRun)
  <2>1. snapshot(now, DRun) /\ Rest
    BY <1>2 DEF run_begin_v2
  <2>2. Effects({}, {}, DRun) /\ UNCHANGED <<runs, ops>>
    BY <1>1, <2>1, QuietEffects DEF DiagInv, snapshot
  <2>3. con' \in ConRow /\ DiagControl'
    BY <1>1, <2>2, MovedControl, PCsAre DEF Effects, Returning
  <2> QED
    BY <1>1, <2>2, <2>3, DiagRequest DEF Exists
<1>3. CASE ~Known(DRun)
  <2>1. run_begin(now, DRun, Profile, Tag, Deadline)
    BY <1>3 DEF run_begin_v2
  <2>2. Effects({}, {}, DRun) /\ ops' = ops
    BY <1>1, <2>1, BeginEffects DEF DiagInv, run_begin, create_run
  <2>3. "close" \notin saved
    BY <1>3 DEF DiagInv, DiagAgreement, ClosedInFull
  <2>4. con' \in ConRow /\ DiagControl'
    BY <1>1, <2>2, MovedControl, PCsAre DEF Effects, Returning
  <2> QED
    BY <1>1, <2>2, <2>3, <2>4, DiagRequest DEF Exists
<1> QED
  BY <1>2, <1>3

\* The four checkpoints that follow one another while the entry is executed.
LEMMA BeginSavedKept ==
  ASSUME DiagInv, begin_saved
  PROVE  DiagInv'
<1>1. /\ UNCHANGED <<vars, intents, phase, outcome, delivered>> /\ Save("begun") /\ Move("enter")
      /\ con \in ConRow
  BY DEF begin_saved, OnlySaved, allVars, superVars, DiagInv, DiagTypeOK
<1>2. con' \in ConRow /\ con'.pc = "enter" /\ con'.found = con.found
  BY <1>1, ConMoved, PCsAre DEF Returning
<1>3. DiagControl'
  BY <1>1, <1>2, PCsAre DEF DiagInv, DiagControl, Save, Returning
<1> QED
  BY <1>1, <1>2, <1>3, DiagSaving DEF Save, Checkpoints

LEMMA StartSavedKeptDiag ==
  ASSUME DiagInv, start_saved
  PROVE  DiagInv'
<1>1. /\ UNCHANGED <<vars, intents, phase, outcome, delivered>> /\ Save("start")
      /\ Move("announce") /\ con \in ConRow /\ con.pc = "start_save"
  BY DEF start_saved, OnlySaved, allVars, superVars, DiagInv, DiagTypeOK, In
<1>2. con' \in ConRow /\ con'.pc = "announce" /\ con'.found = con.found
  BY <1>1, ConMoved DEF ConPCs
<1>3. Exists' /\ "close" \notin saved
  BY <1>1, DiagLocal DEF DiagInv, DiagControl, Returning
<1>4. DiagControl'
  BY <1>1, <1>2, <1>3 DEF DiagInv, DiagControl, Save, Returning, Delivering, DeliveringAfter,
                          Recovering, ConsumerHolds
<1> QED
  BY <1>1, <1>2, <1>4, DiagSaving DEF Save, Checkpoints

LEMMA AnnounceKept ==
  ASSUME DiagInv, announce
  PROVE  DiagInv'
<1>1. /\ UNCHANGED <<vars, intents, phase, outcome, delivered>> /\ Save("started")
      /\ Move("run") /\ con \in ConRow /\ con.pc = "announce"
  BY DEF announce, OnlySaved, allVars, superVars, DiagInv, DiagTypeOK, In
<1>2. con' \in ConRow /\ con'.pc = "run" /\ con'.found = con.found
  BY <1>1, ConMoved DEF ConPCs
<1>3. Exists' /\ "close" \notin saved
  BY <1>1, DiagLocal DEF DiagInv, DiagControl, Returning
<1>4. DiagControl'
  BY <1>1, <1>2, <1>3 DEF DiagInv, DiagControl, Save, Returning, Delivering, DeliveringAfter,
                          Recovering, ConsumerHolds
<1> QED
  BY <1>1, <1>2, <1>4, DiagSaving DEF Save, Checkpoints

LEMMA EndSavedKept ==
  ASSUME DiagInv, end_saved
  PROVE  DiagInv'
<1>1. /\ UNCHANGED <<vars, intents, phase, outcome, delivered>> /\ Save("end")
      /\ Move("observe") /\ con \in ConRow /\ con.pc = "end"
  BY DEF end_saved, OnlySaved, allVars, superVars, DiagInv, DiagTypeOK, In
<1>2. con' \in ConRow /\ con'.pc = "observe" /\ con'.found = con.found
  BY <1>1, ConMoved DEF ConPCs, Delivering
<1>3. Exists' /\ "close" \notin saved /\ "started" \in saved /\ outcome[DOp] = Success
  BY <1>1, DiagLocal DEF DiagInv, DiagControl, Returning
<1>4. DiagControl'
  BY <1>1, <1>2, <1>3 DEF DiagInv, DiagControl, Save, Returning, Delivering, DeliveringAfter,
                          Recovering, ConsumerHolds
<1> QED
  BY <1>1, <1>2, <1>3, <1>4, DiagSaving DEF Save, Checkpoints

LEMMA AttemptSavedKept ==
  ASSUME DiagInv, attempt_saved
  PROVE  DiagInv'
<1>1. /\ UNCHANGED <<vars, intents, phase, outcome, delivered>> /\ Save("attempt")
      /\ Move("snapshot") /\ con \in ConRow /\ con.pc = "attempt"
  BY DEF attempt_saved, OnlySaved, allVars, superVars, DiagInv, DiagTypeOK, In
<1>2. con' \in ConRow /\ con'.pc = "snapshot" /\ con'.found = con.found
  BY <1>1, ConMoved DEF ConPCs, Delivering
<1>3. Exists' /\ "close" \notin saved /\ "end" \in saved /\ delivered
  BY <1>1, DiagLocal DEF DiagInv, DiagControl, Returning, Delivering, DeliveringAfter
<1>4. DiagControl'
  BY <1>1, <1>2, <1>3 DEF DiagInv, DiagControl, Save, Returning, Delivering, DeliveringAfter,
                          Recovering, ConsumerHolds
<1> QED
  BY <1>1, <1>2, <1>4, DiagSaving DEF Save, Checkpoints

\* The result is kept for a run that is closed with its account settled.
LEMMA CloseCheckpointKept ==
  ASSUME DiagInv, close_checkpoint
  PROVE  DiagInv'
<1>1. /\ UNCHANGED <<vars, intents, phase, outcome, delivered>> /\ Save("close") /\ Leave
      /\ con.pc = "close_save"
  BY DEF close_checkpoint, OnlySaved, allVars, superVars, In
<1>2. ClosedInFull /\ Accounted /\ delivered
  BY <1>1 DEF DiagInv, DiagControl, Delivering, DeliveringAfter, DiagAgreement, ClosedInFull,
              Accounted
<1> QED
  BY <1>1, <1>2, LeftControl, DiagSaving DEF Save, Checkpoints

\* The consumer moves on with what it has read, or a failure is passed on.
LEMMA ReadKept ==
  ASSUME DiagInv,
         \/ recovery_fails \/ read_stale \/ read_fails \/ already_observed
         \/ snapshot_stale \/ snapshot_fails
  PROVE  DiagInv'
<1>1. UNCHANGED <<vars, intents, phase, outcome, saved, delivered>>
  BY DEF recovery_fails, read_stale, read_fails, already_observed, snapshot_stale,
         snapshot_fails, OnlyConsumer, allVars, superVars
<1>2. Moves /\ grants \subseteq grants'
  BY <1>1, ConditionsKept DEF DiagInv, AuthInv, vars, bookVars
<1>3. (Exists' <=> Exists) /\ (Accounted' <=> Accounted) /\ (ClosedInFull' <=> ClosedInFull)
  BY <1>1, DiagLocal
<1>4. CASE recovery_fails
  <2>1. Move("inspect") /\ "inspect" \in Returning
    BY <1>4 DEF recovery_fails, Returning
  <2>2. con' \in ConRow /\ DiagControl'
    BY <1>1, <1>2, <2>1, MovedControl, PCsAre DEF Returning
  <2> QED
    BY <1>1, <2>2, DiagSaving
<1>5. CASE read_stale \/ read_fails
  <2>1. CASE Leave
    BY <1>1, <2>1, LeaveKeptDiag
  <2>2. CASE ~("end" \in saved /\ Exists)
    <3>1. Leave
      BY <1>5, <2>2 DEF read_stale, read_fails, AfterStale
    <3> QED
      BY <3>1, <2>1
  <2>3. CASE "end" \in saved /\ Exists
    <3>1. Move("recover_claim") /\ con.pc = "fresh"
      BY <1>5, <2>3 DEF read_stale, read_fails, AfterStale, In
    <3>2. outcome[DOp] # Open /\ "close" \notin saved
      BY <2>3, <3>1 DEF DiagInv, DiagAgreement, DiagControl, Returning, Success, Open
    <3>3. con' \in ConRow /\ DiagControl'
      BY <1>1, <1>2, <1>3, <2>3, <3>1, <3>2, MovedControl
         DEF ConPCs, Recovering, Returning, Delivering, DeliveringAfter, ConsumerHolds
    <3> QED
      BY <1>1, <3>3, DiagSaving
  <2> QED
    BY <2>2, <2>3
<1>6. CASE already_observed
  <2>1. Move("record") /\ con.pc = "observe"
    BY <1>6 DEF already_observed, In
  <2>2. Exists /\ "end" \in saved /\ "close" \notin saved
    BY <2>1 DEF DiagInv, DiagControl, Delivering, Returning
  <2>3. con' \in ConRow /\ DiagControl'
    BY <1>1, <1>2, <1>3, <2>1, <2>2, MovedControl
       DEF ConPCs, Recovering, Returning, Delivering, DeliveringAfter, ConsumerHolds
  <2> QED
    BY <1>1, <2>3, DiagSaving
<1>7. CASE snapshot_stale \/ snapshot_fails
  <2>1. Move("quiet_claim") /\ con.pc = "snapshot"
    BY <1>7 DEF snapshot_stale, snapshot_fails, In
  <2>2. Exists /\ delivered /\ "end" \in saved /\ "close" \notin saved
    BY <2>1 DEF DiagInv, DiagControl, Delivering, DeliveringAfter, Returning
  <2>3. con' \in ConRow /\ DiagControl'
    BY <1>1, <1>2, <1>3, <2>1, <2>2, MovedControl
       DEF ConPCs, Recovering, Returning, Delivering, DeliveringAfter, ConsumerHolds
  <2> QED
    BY <1>1, <2>3, DiagSaving
<1> QED
  BY <1>4, <1>5, <1>6, <1>7

-----------------------------------------------------------------------------
(* The requests.                                                           *)

\* A read of the authority: only its clock moves.
LEMMA ReadRequest ==
  ASSUME DiagInv, NEW now \in Times, snapshot(now, DRun), Rest
  PROVE  /\ Effects({}, {}, DRun) /\ UNCHANGED <<runs, ops, grants>> /\ Moves
         /\ (Exists' <=> Exists) /\ (Accounted' <=> Accounted) /\ (ClosedInFull' <=> ClosedInFull)
<1>1. Effects({}, {}, DRun) /\ UNCHANGED <<runs, ops, grants>>
  BY QuietEffects, DiagnosticAssumption DEF DiagInv, snapshot
<1> QED
  BY <1>1, ClosedStays DEF Effects

LEMMA InspectKept ==
  ASSUME DiagInv, NEW now \in Times, inspect(now)
  PROVE  DiagInv'
<1>1. /\ snapshot(now, DRun) /\ Rest /\ con.pc = "inspect"
      /\ UNCHANGED <<intents, phase, outcome, saved, delivered>>
  BY DEF inspect, In, OnlyRequest, NoRunner
<1>2. /\ Effects({}, {}, DRun) /\ UNCHANGED <<runs, ops, grants>> /\ Moves
      /\ (Exists' <=> Exists) /\ (Accounted' <=> Accounted) /\ (ClosedInFull' <=> ClosedInFull)
  BY <1>1, ReadRequest
<1>3. con' \in ConRow /\ DiagControl'
  <2>1. CASE Leave
    BY <2>1, LeftControl
  <2>2. CASE AfterInspection = "recover_claim" /\ Move("recover_claim")
    <3>1. Exists /\ "end" \notin saved /\ con.found
      BY <2>2 DEF AfterInspection
    <3>2. outcome[DOp] # Open /\ "close" \notin saved
      BY <3>1 DEF DiagInv, DiagAgreement, DiagControl
    <3> QED
      BY <1>1, <1>2, <2>2, <3>1, <3>2, MovedControl
         DEF ConPCs, Recovering, Returning, Delivering, DeliveringAfter, ConsumerHolds
  <2>3. CASE AfterInspection = "fresh" /\ Move("fresh")
    <3>1. (Exists => "end" \in saved) /\ "close" \notin saved
      BY <2>3 DEF AfterInspection, DiagInv, DiagAgreement, Accounted
    <3> QED
      BY <1>1, <1>2, <2>3, <3>1, MovedControl
         DEF ConPCs, Recovering, Returning, Delivering, DeliveringAfter, ConsumerHolds
  <2> QED
    BY <2>1, <2>2, <2>3 DEF inspect, AfterInspection
<1> QED
  BY <1>1, <1>2, <1>3, DiagRequest DEF Exists

LEMMA ReadFreshKept ==
  ASSUME DiagInv, NEW now \in Times, read_fresh(now)
  PROVE  DiagInv'
<1>1. /\ snapshot(now, DRun) /\ Rest /\ con.pc = "fresh"
      /\ UNCHANGED <<intents, phase, outcome, saved, delivered>>
  BY DEF read_fresh, In, OnlyRequest, NoRunner
<1>2. /\ Effects({}, {}, DRun) /\ UNCHANGED <<runs, ops, grants>> /\ Moves
      /\ (Exists' <=> Exists) /\ (Accounted' <=> Accounted) /\ (ClosedInFull' <=> ClosedInFull)
  BY <1>1, ReadRequest
<1>3. (Exists => "end" \in saved) /\ "close" \notin saved
  BY <1>1 DEF DiagInv, DiagControl, Returning
<1>4. con' \in ConRow /\ DiagControl'
  <2>1. CASE Exists /\ Move("observe")
    BY <1>1, <1>2, <1>3, <2>1, MovedControl
       DEF ConPCs, Recovering, Returning, Delivering, DeliveringAfter, ConsumerHolds
  <2>2. CASE ~Exists /\ Move("start")
    BY <1>1, <1>2, <1>3, <2>2, MovedControl
       DEF ConPCs, Recovering, Returning, Delivering, DeliveringAfter, ConsumerHolds
  <2> QED
    BY <2>1, <2>2 DEF read_fresh
<1> QED
  BY <1>1, <1>2, <1>4, DiagRequest DEF Exists

LEMMA StartOperationKept ==
  ASSUME DiagInv, NEW now \in Times, start_operation(now)
  PROVE  DiagInv'
<1>1. /\ resource_start(now, DRun, Tag, DOp, DEntry) /\ Move("start_save") /\ con.pc = "start"
      /\ UNCHANGED <<intents, phase, outcome, saved, delivered>>
  BY DEF start_operation, In, OnlyRequest, NoRunner
<1>2. /\ Effects({}, {}, DRun) /\ DOp \in DOMAIN ops' /\ ops'[DOp].intended # Null
      /\ ~runs'[DRun].closed
  BY <1>1, StartEffects, DiagnosticAssumption, SupervisedAssumption DEF DiagInv
<1>3. Exists' /\ "close" \notin saved
  BY <1>1, <1>2 DEF Exists, DiagInv, DiagControl, Returning
<1>4. con' \in ConRow /\ DiagControl'
  BY <1>1, <1>2, <1>3, MovedControl
     DEF Effects, ConPCs, Recovering, Returning, Delivering, DeliveringAfter, ConsumerHolds
<1> QED
  BY <1>1, <1>2, <1>3, <1>4, DiagRequest

\* A report of the stop of the operation, under whatever event identifier.
LEMMA ObserveRequest ==
  ASSUME DiagInv, NEW now \in Times, NEW v \in Events, Observe(now, v)
  PROVE  /\ Effects({DOp}, {}, DRun) /\ Moves /\ grants' = grants
         /\ Exists /\ Exists'
<1>1. resource_observe(now, DOp, v, TRUE, ZeroUsage) /\ ZeroUsage \in Usages /\ DOp \in Operations
  BY AuthorityAssumption, DiagnosticAssumption DEF Observe
<1>2. PICK usage \in Usages, stopped \in BOOLEAN : usage = ZeroUsage /\ stopped = TRUE
  BY <1>1
<1>3. Effects({DOp}, {}, DRun) /\ Moves /\ grants' = grants /\ DOp \in DOMAIN ops
  <2>1. resource_observe(now, DOp, v, stopped, usage)
    BY <1>1, <1>2
  <2> QED
    BY <1>1, <2>1, ObserveEffects DEF Effects, DiagInv, resource_observe, observe
<1> QED
  BY <1>3, AccountStays DEF Exists

\* The report of the end is followed by its record, that of the recovery by the close.
LEMMA ObservedKept ==
  ASSUME DiagInv, NEW now \in Times, observe_end(now) \/ recover_observe(now)
  PROVE  DiagInv'
<1>1. /\ UNCHANGED <<intents, phase, outcome, saved, delivered>>
      /\ outcome[DOp] # Open /\ "close" \notin saved
  BY DEF observe_end, recover_observe, In, OnlyRequest, NoRunner, DiagInv, DiagAgreement,
         DiagControl, Delivering, Recovering, Returning, Success, Open
<1>2. PICK v \in Events : Observe(now, v)
  BY DiagnosticAssumption, SupervisedAssumption DEF observe_end, recover_observe
<1>3. Effects({DOp}, {}, DRun) /\ Moves /\ grants' = grants /\ Exists /\ Exists'
  BY <1>2, ObserveRequest
<1>4. con' \in ConRow /\ DiagControl'
  <2>1. CASE observe_end(now)
    <3>1. Move("record") /\ con.pc = "observe"
      BY <2>1 DEF observe_end, In
    <3>2. "end" \in saved
      BY <3>1 DEF DiagInv, DiagControl, Delivering
    <3> QED
      BY <1>1, <1>3, <3>1, <3>2, MovedControl
         DEF ConPCs, Recovering, Returning, Delivering, DeliveringAfter, ConsumerHolds
  <2>2. CASE recover_observe(now)
    <3>1. Move("recover_close") /\ con.pc = "recover_observe"
      BY <2>2 DEF recover_observe, In
    <3> QED
      BY <1>1, <1>3, <3>1, MovedControl
         DEF ConPCs, Recovering, Returning, Delivering, DeliveringAfter, ConsumerHolds
  <2> QED
    BY <2>1, <2>2
<1> QED
  BY <1>1, <1>3, <1>4, DiagRequest

\* An attempt is delivered for an execution whose end is saved.
LEMMA EvidenceKept ==
  ASSUME DiagInv, NEW now \in Times, evidence_record_v2(now)
  PROVE  DiagInv'
<1>1. /\ snapshot(now, DRun) /\ Rest /\ con.pc = "record" /\ Move("attempt")
      /\ UNCHANGED <<intents, phase, outcome, saved>> /\ delivered' = TRUE
  BY DEF evidence_record_v2, In, NoRunner
<1>2. /\ Effects({}, {}, DRun) /\ UNCHANGED <<runs, ops, grants>> /\ Moves
      /\ (Exists' <=> Exists) /\ (ClosedInFull' <=> ClosedInFull)
  BY <1>1, ReadRequest
<1>3. Exists /\ "end" \in saved /\ "close" \notin saved
  BY <1>1 DEF DiagInv, DiagControl, Delivering, Returning
<1>4. con' \in ConRow /\ DiagControl'
  BY <1>1, <1>2, <1>3, MovedControl
     DEF ConPCs, Recovering, Returning, Delivering, DeliveringAfter, ConsumerHolds
<1> QED
  BY <1>1, <1>2, <1>3, <1>4, DiagRequest DEF Exists

LEMMA SnapshotKeptDiag ==
  ASSUME DiagInv, NEW now \in Times, begin_snapshot(now)
  PROVE  DiagInv'
<1>1. /\ snapshot(now, DRun) /\ Rest /\ con.pc = "snapshot"
      /\ UNCHANGED <<intents, phase, outcome, saved, delivered>>
  BY DEF begin_snapshot, In, OnlyRequest, NoRunner
<1>2. /\ Effects({}, {}, DRun) /\ UNCHANGED <<runs, ops, grants>> /\ Moves
      /\ (Exists' <=> Exists) /\ (ClosedInFull' <=> ClosedInFull)
  BY <1>1, ReadRequest
<1>3. Exists /\ "end" \in saved /\ "close" \notin saved /\ delivered
  BY <1>1 DEF DiagInv, DiagControl, Delivering, DeliveringAfter, Returning
<1>4. con' \in ConRow /\ DiagControl'
  <2>1. CASE Leave
    BY <2>1, LeftControl
  <2>2. CASE Move("claim")
    BY <1>1, <1>2, <1>3, <2>2, MovedControl
       DEF ConPCs, Recovering, Returning, Delivering, DeliveringAfter, ConsumerHolds
  <2>3. CASE Move("close_save") /\ runs[DRun].closed /\ BudgetClosure(DRun)
    <3>1. ClosedInFull
      BY <1>1, <2>3 DEF ClosedInFull, snapshot
    <3> QED
      BY <1>1, <1>2, <1>3, <2>3, <3>1, MovedControl
         DEF ConPCs, Recovering, Returning, Delivering, DeliveringAfter, ConsumerHolds
  <2> QED
    BY <2>1, <2>2, <2>3 DEF begin_snapshot
<1> QED
  BY <1>1, <1>2, <1>4, DiagRequest DEF Exists

\* A claim, to close or to recover, is presented by the requests that follow it.
LEMMA ClaimedKeptDiag ==
  ASSUME DiagInv, NEW now \in Times, claim_to_close(now) \/ recover_claim(now)
  PROVE  DiagInv'
<1>1. /\ UNCHANGED <<intents, phase, outcome, saved, delivered>> /\ con \in ConRow
      /\ DRun \in Runs /\ Tag \in Owners
  BY DiagnosticAssumption, SupervisedAssumption
     DEF claim_to_close, recover_claim, OnlyRequest, NoRunner, DiagInv, DiagTypeOK
<1>2. Effects({}, {}, DRun) /\ Grant(DRun, Tag, runs'[DRun].epoch) \in grants' /\ runs'[DRun].epoch \in Nat
  <2>1. CASE claim_to_close(now)
    <3>1. PICK recovery \in BOOLEAN : recovery = FALSE
      OBVIOUS
    <3>2. resource_claim(now, DRun, Tag, recovery)
      BY <2>1, <3>1 DEF claim_to_close
    <3> QED
      BY <1>1, <3>2, ClaimEffects DEF DiagInv
  <2>2. CASE recover_claim(now)
    <3>1. resource_cancel_claim(now, DRun, Tag)
      BY <2>2 DEF recover_claim
    <3> QED
      BY <1>1, <3>1, CancelClaimEffects DEF DiagInv
  <2> QED
    BY <2>1, <2>2
<1>3. PICK e \in Nat : e = runs'[DRun].epoch
  BY <1>2
<1>4. PICK pc \in {"close", "quiet_close", "recover_observe"} :
        con' = [con EXCEPT !.epoch = e, !.pc = pc]
        /\ (pc = "close" => con.pc = "claim") /\ (pc = "quiet_close" => con.pc = "quiet_claim")
        /\ (pc = "recover_observe" => con.pc = "recover_claim")
  BY <1>3 DEF claim_to_close, recover_claim, In
<1>5. con' \in ConRow /\ con'.pc = pc /\ con'.epoch = e /\ con'.found = con.found
  BY <1>1, <1>4, ConClaimed DEF ConPCs, Delivering, Recovering
<1>6. DOMAIN ops' = DOMAIN ops /\ (Exists => Exists')
  <2>1. Exists => Exists'
    BY <1>2, AccountStays DEF Effects
  <2>2. DOMAIN ops' = DOMAIN ops
    BY DEF claim_to_close, recover_claim, resource_claim, resource_cancel_claim, claim,
           claim_for_cancel, ReleasedOps
  <2> QED
    BY <2>1, <2>2
<1>7. Exists /\ "close" \notin saved
  BY <1>4 DEF DiagInv, DiagControl, Delivering, Recovering, Returning
<1>8. DiagControl'
  BY <1>1, <1>2, <1>3, <1>4, <1>5, <1>6, <1>7
     DEF DiagInv, DiagControl, Recovering, Returning, Delivering, DeliveringAfter, ConsumerHolds,
         Grant
<1> QED
  BY <1>1, <1>2, <1>5, <1>6, <1>7, <1>8, DiagRequest DEF Exists

\* The run is closed, or was: its account is settled, but it may be breached.
LEMMA ClosedKeptDiag ==
  ASSUME DiagInv, NEW now \in Times, close_diagnosis(now) \/ recover_close(now)
  PROVE  DiagInv'
<1>1. /\ resource_close(now, DRun, Tag, con.epoch)
      /\ UNCHANGED <<intents, phase, outcome, saved, delivered>>
      /\ con.pc \in {"close", "quiet_close", "recover_close"}
  BY DEF close_diagnosis, recover_close, In, OnlyRequest, NoRunner
<1>2. Grant(DRun, Tag, con.epoch) \in grants /\ "close" \notin saved
  BY <1>1 DEF DiagInv, DiagControl, ConsumerHolds, Returning, Grant
<1>3. /\ Effects({}, {DRun}, DRun) /\ ops' = ops /\ grants' = grants /\ DRun \in DOMAIN runs
      /\ runs' = [runs EXCEPT ![DRun].closed = TRUE]
      /\ runs[DRun].closed \/ MayClose(DRun)
  BY <1>1, <1>2, CloseEffects DEF DiagInv, resource_close, close, Known
<1>4. con' \in ConRow /\ DiagControl'
  <2>1. CASE Leave
    BY <2>1, LeftControl
  <2>2. CASE In("close") /\ BudgetClosure(DRun) /\ Move("close_save")
    <3>1. Exists /\ "end" \in saved /\ delivered
      BY <2>2 DEF DiagInv, DiagControl, Delivering, DeliveringAfter, In
    <3>2. Moves /\ Exists'
      BY <1>3, <3>1 DEF Effects, Exists
    <3>3. ClosedInFull'
      <4>1. PICK row : row = [runs[DRun] EXCEPT !.closed = TRUE]
        OBVIOUS
      <4>2. runs[DRun] \in RunRow /\ IsTable(runs, Runs, RunRow)
        BY <1>3, RowTypes DEF DiagInv, AuthInv, BookInv, TypeOK
      <4>3. row.closed /\ row.breached = runs[DRun].breached
        BY <4>1, <4>2 DEF RunRow
      <4>4. runs' = [runs EXCEPT ![DRun] = row]
        BY <1>3, <4>1
      <4>5. DRun \in DOMAIN runs' /\ runs'[DRun] = row
        BY <1>3, <4>2, <4>4 DEF IsTable
      <4> QED
        BY <1>3, <2>2, <4>3, <4>5
           DEF ClosedInFull, Known, BudgetClosure, Slots, Unsettled, Counted, OpsOf, Settled
    <3> QED
      BY <1>1, <1>2, <1>3, <2>2, <3>1, <3>2, <3>3, MovedControl
         DEF ConPCs, Recovering, Returning, Delivering, DeliveringAfter, ConsumerHolds
  <2> QED
    BY <2>1, <2>2 DEF close_diagnosis, recover_close
<1> QED
  BY <1>1, <1>2, <1>3, <1>4, DiagRequest DEF Exists, Known

-----------------------------------------------------------------------------
(* The runner.                                                             *)

\* A step of the runner or its journal: what it makes of the operation's row,
\* its receipt and its fixture.
LEMMA RunnerStepKept ==
  ASSUME DiagInv, UNCHANGED <<vars, saved, delivered>>, Runner!TypeOK',
         intents \subseteq intents', intents' \subseteq Operations, DOp \in intents' => Exists,
         outcome[DOp] # Open => outcome'[DOp] = outcome[DOp] /\ phase'[DOp] = phase[DOp],
         outcome[DOp] = Open => /\ phase'[DOp] # "idle" => DOp \in intents'
                                /\ outcome'[DOp] # Open => DOp \in intents' /\ phase'[DOp] # "live"
                                /\ outcome'[DOp] = Success => phase'[DOp] = "ended",
         con' \in ConRow, DiagControl'
  PROVE  DiagInv'
<1>1. /\ AuthInv' /\ UNCHANGED <<runs, ops, grants>>
      /\ (Exists' <=> Exists) /\ (Accounted' <=> Accounted) /\ (ClosedInFull' <=> ClosedInFull)
  BY DiagLocal
<1>2. DiagTypeOK'
  BY DEF DiagInv, DiagTypeOK
<1>3. (StoppedAndSettled(DOp)' <=> StoppedAndSettled(DOp)) /\ (Known(DRun)' <=> Known(DRun))
  BY <1>1 DEF StoppedAndSettled, Known
<1>4. outcome[DOp] = Success => outcome[DOp] # Open
  BY DEF Success, Open
<1>5. DiagAgreement'
  BY <1>1, <1>3, <1>4 DEF DiagInv, DiagAgreement
<1> QED
  BY <1>1, <1>2, <1>5 DEF DiagInv

LEMMA RunFixtureKept ==
  ASSUME DiagInv, run_fixture
  PROVE  DiagInv'
<1>1. /\ UNCHANGED <<vars, saved, delivered, phase, outcome>> /\ con.pc = "run"
      /\ intents' = intents \cup {DOp} /\ Move("running")
  BY DEF run_fixture, In, SuperRest
<1>2. con' \in ConRow /\ con'.pc = "running" /\ con'.found = con.found
  BY <1>1, ConMoved DEF ConPCs, DiagInv, DiagTypeOK
<1>3. Exists /\ "started" \in saved /\ "close" \notin saved /\ DOp \in Operations
  BY <1>1, DiagnosticAssumption DEF DiagInv, DiagControl, Returning
<1>4. DiagControl'
  BY <1>1, <1>2, <1>3
     DEF DiagInv, DiagControl, Recovering, Returning, Delivering, DeliveringAfter, ConsumerHolds
<1>5. Runner!TypeOK' /\ intents' \subseteq Operations
  BY <1>1, <1>3 DEF DiagInv, DiagTypeOK, Runner!TypeOK
<1> QED
  BY <1>1, <1>2, <1>3, <1>4, <1>5, RunnerStepKept DEF DiagInv, DiagAgreement

\* The receipt of the operation is settled.
LEMMA SettledReceipt ==
  ASSUME DiagInv, NEW s \in Statuses, Runner!Settle(DOp, s)
  PROVE  /\ Runner!TypeOK' /\ phase' = phase /\ outcome'[DOp] = s /\ s # Open
         /\ outcome[DOp] = Open /\ phase[DOp] # "live" /\ (s = Success => phase[DOp] = "ended")
BY DiagnosticAssumption DEF DiagInv, DiagTypeOK, Runner!TypeOK, Runner!Settle, Statuses, Open,
                            Success

LEMMA FixtureReturnsKept ==
  ASSUME DiagInv, fixture_returns
  PROVE  DiagInv'
<1>1. /\ UNCHANGED <<vars, saved, delivered, intents>> /\ con.pc = "running"
  BY DEF fixture_returns, In, SuperRest
<1>2. PICK s \in Statuses : Runner!Settle(DOp, s) /\ IF s = Success THEN Move("end") ELSE Leave
  BY DEF fixture_returns
<1>3. /\ Runner!TypeOK' /\ phase' = phase /\ outcome'[DOp] = s /\ s # Open
      /\ outcome[DOp] = Open /\ phase[DOp] # "live" /\ (s = Success => phase[DOp] = "ended")
  BY <1>2, SettledReceipt
<1>4. DOp \in intents /\ "started" \in saved /\ "close" \notin saved /\ Exists
  BY <1>1 DEF DiagInv, DiagControl, DiagAgreement, Returning
<1>5. con' \in ConRow /\ DiagControl'
  <2>1. CASE Leave
    BY <2>1, LeftControl
  <2>2. CASE s = Success /\ Move("end")
    <3>1. con' \in ConRow /\ con'.pc = "end" /\ con'.found = con.found
      BY <2>2, ConMoved DEF ConPCs, DiagInv, DiagTypeOK
    <3>2. Exists'
      BY <1>1, <1>4, DiagLocal
    <3> QED
      BY <1>1, <1>3, <1>4, <2>2, <3>1, <3>2
         DEF DiagInv, DiagControl, Recovering, Returning, Delivering, DeliveringAfter, ConsumerHolds
  <2> QED
    BY <1>2, <2>1, <2>2
<1> QED
  BY <1>1, <1>3, <1>4, <1>5, RunnerStepKept DEF DiagInv, DiagTypeOK

\* What an earlier call has announced is stopped and has a receipt.
LEMMA RecoverLocalKept ==
  ASSUME DiagInv, recover_local
  PROVE  DiagInv'
<1>1. /\ UNCHANGED <<vars, saved, delivered, intents>> /\ DOp \in intents /\ StoppedLocally
      /\ con' = [con EXCEPT !.found = TRUE, !.pc = "inspect"] /\ con \in ConRow
  BY DEF recover_local, SuperRest, DiagInv, DiagTypeOK
<1>2. /\ Runner!TypeOK' /\ phase' = phase /\ outcome'[DOp] # Open
      /\ outcome[DOp] # Open => outcome'[DOp] = outcome[DOp]
      /\ outcome[DOp] = Open => outcome'[DOp] # Success /\ phase[DOp] # "live"
  <2>1. CASE outcome[DOp] # Open /\ UNCHANGED <<phase, outcome>>
    BY <2>1 DEF DiagInv, DiagTypeOK, Runner!TypeOK
  <2>2. CASE Runner!Settle(DOp, "FAILED")
    <3>1. "FAILED" \in Statuses /\ "FAILED" # Success
      BY DEF Statuses, Success
    <3> QED
      BY <2>2, <3>1, SettledReceipt
  <2> QED
    BY <1>1, <2>1, <2>2 DEF StoppedLocally
<1>3. con' \in ConRow /\ con'.pc = "inspect" /\ con'.epoch = con.epoch
  BY <1>1 DEF ConRow, ConPCs, Returning
<1>4. DiagControl'
  BY <1>1, <1>2, <1>3
     DEF DiagInv, DiagControl, Recovering, Returning, Delivering, DeliveringAfter, ConsumerHolds
<1> QED
  BY <1>1, <1>2, <1>3, <1>4, RunnerStepKept DEF DiagInv, DiagTypeOK, DiagAgreement

\* The fixture runs on its own, also when its consumer is gone.
LEMMA FixtureKeptDiag ==
  ASSUME DiagInv, fixture_starts(DOp) \/ fixture_ends(DOp), UNCHANGED diagVars
  PROVE  DiagInv'
<1>1. /\ UNCHANGED <<vars, saved, delivered, con, intents>> /\ outcome' = outcome
      /\ con \in ConRow /\ DOp \in Operations
  BY DiagnosticAssumption
     DEF fixture_starts, fixture_ends, diagVars, DiagInv, DiagTypeOK, Runner!Start, Runner!End
<1>2. /\ Runner!TypeOK' /\ outcome[DOp] = Open
      /\ phase'[DOp] # "idle" => DOp \in intents
  BY <1>1 DEF fixture_starts, fixture_ends, Runner!Start, Runner!End, Runner!TypeOK, DiagInv,
              DiagTypeOK, DiagAgreement
<1>3. DiagControl'
  BY <1>1, DiagLocal DEF DiagInv, DiagControl
<1> QED
  BY <1>1, <1>2, <1>3, RunnerStepKept DEF DiagInv, DiagTypeOK, DiagAgreement, Success, Open

LEMMA ConditionsKeptDiag ==
  ASSUME DiagInv, ChangeConditions \/ UNCHANGED vars, UNCHANGED <<superVars, diagVars>>
  PROVE  DiagInv'
<1>1. /\ current' \subseteq Runs /\ UNCHANGED <<bookVars, bindings, receipts>>
      /\ UNCHANGED <<intents, phase, outcome, saved, delivered, con>> /\ con \in ConRow
  BY DEF ChangeConditions, superVars, diagVars, DiagInv, DiagTypeOK, AuthInv, vars, bookVars
<1>2. Effects({}, {}, DRun) /\ UNCHANGED <<runs, ops, grants>>
  BY <1>1, RestEffects DEF DiagInv, bookVars
<1>3. (Exists' <=> Exists) /\ (Accounted' <=> Accounted) /\ (ClosedInFull' <=> ClosedInFull)
  BY <1>2, ClosedStays
<1>4. DiagControl'
  BY <1>1, <1>2, <1>3 DEF DiagInv, DiagControl
<1> QED
  BY <1>1, <1>2, <1>3, <1>4, DiagRequest

LEMMA DiagInitial == SuperTables /\ DiagInit => DiagInv
<1> SUFFICES ASSUME SuperTables, DiagInit PROVE DiagInv
  OBVIOUS
<1>1. AuthInv
  BY AuthInitial DEF SuperTables
<1>2. DOMAIN ops = {} /\ DOMAIN runs = {}
  BY DEF SuperTables, Init, BookInit
<1>3. con \in ConRow /\ con.pc = "away" /\ con.found = FALSE
  BY ConAway DEF DiagInit
<1>4. saved = {} /\ delivered = FALSE /\ intents = {}
  BY DEF DiagInit, NothingSaved, SuperTables
<1>5. phase[DOp] = "idle" /\ outcome[DOp] = Open /\ Runner!TypeOK
  BY DiagnosticAssumption DEF SuperTables, Runner!Init, Runner!TypeOK
<1>6. DiagTypeOK
  BY <1>3, <1>4, <1>5 DEF DiagTypeOK
<1>7. DiagAgreement
  BY <1>2, <1>4, <1>5 DEF DiagAgreement, Exists, Known, Success, Open
<1>8. DiagControl
  BY <1>3, <1>4 DEF DiagControl, Recovering, Returning, Delivering, DeliveringAfter, ConsumerHolds
<1> QED
  BY <1>1, <1>6, <1>7, <1>8 DEF DiagInv

LEMMA DiagSteps == DiagInv /\ [DiagNext]_everything => DiagInv'
<1> SUFFICES ASSUME DiagInv, [DiagNext]_everything PROVE DiagInv'
  OBVIOUS
<1>1. CASE ConsumerStep
  <2>1. ASSUME NEW now \in Times,
               \/ run_begin_v2(now) \/ inspect(now) \/ read_fresh(now)
               \/ start_operation(now) \/ observe_end(now) \/ evidence_record_v2(now)
               \/ begin_snapshot(now) \/ claim_to_close(now) \/ close_diagnosis(now)
               \/ recover_claim(now) \/ recover_observe(now) \/ recover_close(now)
        PROVE  DiagInv'
    BY <2>1, BeginV2Kept, InspectKept, ReadFreshKept, StartOperationKept, ObservedKept, EvidenceKept,
       SnapshotKeptDiag, ClaimedKeptDiag, ClosedKeptDiag
  <2>2. CASE turned_away
    <3>1. UNCHANGED <<vars, intents, phase, outcome, saved, delivered>> /\ Leave
      BY <2>2 DEF turned_away, OnlyConsumer, allVars, superVars
    <3> QED
      BY <3>1, LeaveKeptDiag
  <2> QED
    BY <1>1, <2>1, <2>2, LaunchKept, BeginSavedKept, RecoverLocalKept, ReadKept, StartSavedKeptDiag,
       AnnounceKept, RunFixtureKept, FixtureReturnsKept, EndSavedKept, AttemptSavedKept,
       CloseCheckpointKept DEF ConsumerStep
<1>2. CASE recovery_fails \/ read_fails \/ snapshot_fails
  BY <1>2, ReadKept
<1>3. CASE consumer_dies
  <2>1. UNCHANGED <<vars, intents, phase, outcome, saved, delivered>> /\ Leave
    BY <1>3 DEF consumer_dies
  <2> QED
    BY <2>1, LeaveKeptDiag
<1>4. CASE (fixture_starts(DOp) \/ fixture_ends(DOp)) /\ UNCHANGED diagVars
  BY <1>4, FixtureKeptDiag
<1>5. CASE ChangeConditions /\ UNCHANGED <<superVars, diagVars>>
  BY <1>5, ConditionsKeptDiag
<1>6. CASE UNCHANGED everything
  BY <1>6, ConditionsKeptDiag DEF everything, allVars
<1> QED
  BY <1>1, <1>2, <1>3, <1>4, <1>5, <1>6 DEF DiagNext

\* What the diagnosis of an entry tells the authority and reports is what happened
\* (execute_one_entry and _recover_ledger of partitioned_diagnostic_run.py): a stop
\* is reported only of a fixture with a final receipt, an attempt stands for one that
\* succeeded, and a result for a run that is closed with its account settled, wherever
\* the consumer died and however often it was called again.
THEOREM DiagnosisCorrect == DiagSpec => []DiagnosisHolds
<1>1. DiagSpec => []DiagInv
  BY DiagInitial, DiagSteps, PTL DEF DiagSpec, SuperInit
<1> QED
  BY <1>1, DiagGoal, PTL

-----------------------------------------------------------------------------
(* The supervisor of an LLM run.                                           *)

\* The main thread is filling or leaving the pool.  Elsewhere it does what the
\* supervisor of a regression run does, and there is no worker.
PoolPCs == {"pool", "ask", "submit", "deliver", "drain"}

PoolSup ==
  [pc : PoolPCs, i : Nat \ {0}, epoch : Nat, pending : SUBSET Operations,
   then : {"next", "cancel", "nothing"}]

WorkerStates == {"none", "submitted", "begun", "done", "failed", "delivering"}

PoolRow == [worker : [Operations -> WorkerStates], batch : SUBSET Operations]

\* The main thread is at one entry of the plan, outside of the pool.
AtPlan == {"one", "reserve", "prepare", "dispatch", "start", "run", "running", "end", "observe"}

RunOpen == Known(Run) => ~runs[Run].closed

\* The entries of the plan leave their traces in its order.
InOrder ==
  \A j, k \in 1 .. Len(Plan) :
    k < j /\ has_previous_operation(Plan[j]) => has_previous_operation(Plan[k])

\* What is so of an operation while a worker has it.
WorkerTrue(p) ==
  /\ Working(p) => RunOpen /\ cp.end[p] = Open /\ Dispatched(p) /\ ops[p].stopped = Null
  /\ pool.worker[p] = "begun" => p \in intents
  /\ pool.worker[p] # "none" => p \in cp.start
  /\ pool.worker[p] \in {"done", "delivering"} => p \in intents /\ outcome[p] # Open
  /\ pool.worker[p] = "delivering" => cp.end[p] # Open

WorkersTrue == \A p \in Operations : WorkerTrue(p)

\* What the main thread may count on.  Entries with a trace come first, so the pool is
\* empty whenever it meets one.
PoolControl ==
  /\ ~cp.cancel
  /\ sup.pc # "drain" =>
       /\ RunOpen
       /\ \A j \in 1 .. Len(Plan) : j < sup.i => EntryDone(Plan[j]) \/ Plan[j] \in Pending
       /\ \A p \in Pending : \E j \in 1 .. Len(Plan) : j < sup.i /\ p = Plan[j]
  /\ sup.pc \in {"pool", "deliver"} /\ Pending # {} =>
       \A j \in 1 .. Len(Plan) : j >= sup.i => ~has_previous_operation(Plan[j])
  /\ sup.pc \in {"ask", "submit"} =>
       /\ More /\ cp.end[Op] = Open
       /\ \A j \in 1 .. Len(Plan) : j > sup.i => ~has_previous_operation(Plan[j])
  /\ sup.pc = "submit" => Dispatched(Op) /\ ops[Op].stopped = Null

Tables == AuthInv /\ TablesTypeOK /\ Agreement

InPool == Tables /\ sup \in PoolSup /\ WorkersTrue /\ PoolControl

Outside == SupInv /\ Pending = {} /\ (sup.pc \in AtPlan => RunOpen)

LlmInv == asked \subseteq Operations /\ pool \in PoolRow /\ InOrder /\ (Outside \/ InPool)

LEMMA LlmGoal == LlmInv => PoolHolds /\ EndsAreReal
<1> SUFFICES ASSUME LlmInv PROVE PoolHolds /\ EndsAreReal
  OBVIOUS
<1>1. AuthInv /\ Agreement
  BY DEF LlmInv, Outside, InPool, Tables, SupInv
<1>2. WorkersAreKnown
  <2> SUFFICES ASSUME NEW p \in Operations, Working(p)
               PROVE  /\ p \in cp.start /\ cp.end[p] = Open
                      /\ Dispatched(p) /\ ops[p].stopped = Null
                      /\ ~runs[Run].closed /\ ~Terminal
    BY DEF WorkersAreKnown
  <2>1. pool.worker[p] # "none" /\ p \in Pending
    BY DEF Working, Pending
  <2>2. WorkersTrue
    BY <2>1 DEF LlmInv, Outside, InPool
  <2>3. /\ p \in cp.start /\ cp.end[p] = Open
        /\ Dispatched(p) /\ ops[p].stopped = Null /\ RunOpen
    BY <2>1, <2>2 DEF WorkersTrue, WorkerTrue
  <2>4. p \in DOMAIN ops /\ ops[p].run = Run /\ ops[p].intended # Null
    BY <1>1, <2>3 DEF Dispatched, Agreement, OwnOperations
  <2>5. Known(Run)
    BY <1>1, <2>4 DEF AuthInv, BookInv, TypeOK, Known
  <2>6. ~Terminal
    <3>1. Terminal => receipts[Run].kind \in {"normal", "cancelled"}
      BY <1>1 DEF AuthInv, IsTable, ReceiptRow, Terminal
    <3>2. p \in OpsOf(Run)
      BY <2>4 DEF OpsOf
    <3> QED
      BY <1>1, <2>3, <2>4, <3>1, <3>2
         DEF AuthInv, ReceiptsSound, NormalReceiptSound, CancelReceiptReadable, Terminal
  <2> QED
    BY <2>3, <2>5, <2>6 DEF RunOpen
<1>3. NoWorkerLeft
  BY DEF NoWorkerLeft, LlmInv, Outside, InPool, PoolSup, PoolPCs
<1> QED
  BY <1>1, <1>2, <1>3, EndsGoal DEF PoolHolds

\* The local variables of the main thread on its way in, through and out of the pool.
LEMMA MainMoved ==
  ASSUME sup \in SupRow \/ sup \in PoolSup, NEW pc, Goto(pc)
  PROVE  /\ sup'.pc = pc /\ sup'.i = sup.i /\ sup'.epoch = sup.epoch
         /\ pc \in PCs => sup' \in SupRow
         /\ pc \in PoolPCs => sup' \in PoolSup
BY DEF SupRow, PoolSup, Goto

LEMMA MainNext ==
  ASSUME sup \in SupRow \/ sup \in PoolSup, Next_entry("pool")
  PROVE  sup'.pc = "pool" /\ sup'.i = sup.i + 1 /\ sup' \in PoolSup
<1>1. PICK n \in Nat \ {0} : n = sup.i + 1
  BY DEF SupRow, PoolSup
<1>2. sup' = [sup EXCEPT !.i = n, !.pc = "pool"]
  BY <1>1 DEF Next_entry
<1> QED
  BY <1>1, <1>2 DEF SupRow, PoolSup, PoolPCs

LEMMA PoolPCsApart ==
  ASSUME NEW pc \in PoolPCs
  PROVE  pc \notin PCs
BY DEF PoolPCs, PCs, Forward, Sweeping

\* A worker changes its state.
LEMMA WorkerSet ==
  ASSUME pool \in PoolRow, NEW p \in Operations, NEW state \in WorkerStates,
         pool' = [pool EXCEPT !.worker[p] = state]
  PROVE  /\ pool' \in PoolRow /\ pool'.worker[p] = state
         /\ \A q \in Operations : q # p => pool'.worker[q] = pool.worker[q]
BY DEF PoolRow

LEMMA NoWorkersRow ==
  /\ NoWorkers \in PoolRow /\ \A p \in Operations : NoWorkers.worker[p] = "none"
BY DEF NoWorkers, PoolRow, WorkerStates

LEMMA PlanTypes ==
  /\ \A j \in 1 .. Len(Plan) : Plan[j] \in Operations
  /\ Len(Plan) \in Nat
BY SupervisedAssumption

\* The current entry, while the main thread is at the pool.
LEMMA PoolOp ==
  ASSUME sup \in PoolSup, More
  PROVE  Op \in Operations /\ sup.i \in 1 .. Len(Plan)
BY PlanTypes DEF PoolSup, More, Op

LEMMA DoneTraced ==
  ASSUME NEW p, EntryDone(p)
  PROVE  has_previous_operation(p)
BY DEF EntryDone, has_previous_operation

\* The order of the traces is kept when only the current entry leaves one and those
\* before it have theirs.
LEMMA OrderKept ==
  ASSUME InOrder,
         \A p \in Operations : has_previous_operation(p) => has_previous_operation(p)',
         \/ \A p \in Operations : has_previous_operation(p)' => has_previous_operation(p)
         \/ /\ sup.i \in 1 .. Len(Plan)
            /\ \A p \in Operations :
                 has_previous_operation(p)' => has_previous_operation(p) \/ p = Op
            /\ \A j \in 1 .. Len(Plan) : j < sup.i => has_previous_operation(Plan[j])
  PROVE  InOrder'
<1> SUFFICES ASSUME NEW j \in 1 .. Len(Plan), NEW k \in 1 .. Len(Plan), k < j,
                    has_previous_operation(Plan[j])'
             PROVE  has_previous_operation(Plan[k])'
  BY DEF InOrder
<1>1. Plan[j] \in Operations /\ Plan[k] \in Operations
  BY PlanTypes
<1>2. CASE has_previous_operation(Plan[j])
  BY <1>1, <1>2 DEF InOrder
<1>3. CASE ~has_previous_operation(Plan[j])
  <2>1. Plan[j] = Plan[sup.i] /\ sup.i \in 1 .. Len(Plan)
    BY <1>1, <1>3 DEF Op
  <2>2. j = sup.i
    BY <2>1, LlmAssumption
  <2> QED
    BY <1>1, <1>3, <2>2
<1> QED
  BY <1>2, <1>3

\* Nothing leaves a trace.
LEMMA OrderSame ==
  ASSUME InOrder, asked' = asked, cp'.reserve = cp.reserve, cp'.start = cp.start,
         cp'.end = cp.end, intents' = intents
  PROVE  InOrder' /\ \A p : has_previous_operation(p)' <=> has_previous_operation(p)
<1>1. \A p : has_previous_operation(p)' <=> has_previous_operation(p)
  BY DEF has_previous_operation
<1> QED
  BY <1>1, OrderKept

\* The run stays open, and an operation that was not stopped is not, when nothing
\* else is closed or stopped.
LEMMA OpenStays ==
  ASSUME RunOpen, ClosesOnly({})
  PROVE  RunOpen'
BY DEF RunOpen, ClosesOnly, Known

LEMMA StillEffects ==
  ASSUME AuthInv, UNCHANGED vars
  PROVE  Effects({}, {}, Run)
BY RestEffects DEF vars, bookVars, AuthInv

LEMMA WorkerStays ==
  ASSUME NEW p \in Operations, WorkerTrue(p), pool'.worker[p] = pool.worker[p],
         NEW S, Effects(S, {}, Run), p \in S => ~Working(p),
         intents \subseteq intents', cp.start \subseteq cp'.start, cp'.end[p] = cp.end[p],
         outcome[p] # Open => outcome'[p] # Open
  PROVE  WorkerTrue(p)'
<1>1. ClosesOnly({}) /\ StopsOnly(S) /\ Moves
  BY DEF Effects
<1>2. Working(p) => RunOpen'
  BY <1>1, OpenStays DEF WorkerTrue
<1>3. Working(p) => Dispatched(p)' /\ ops'[p].stopped = Null
  BY <1>1 DEF WorkerTrue, Dispatched, Moves, OpGrows, StopsOnly
<1>4. Working(p)' <=> Working(p)
  BY DEF Working
<1> QED
  BY <1>2, <1>3, <1>4 DEF WorkerTrue

-----------------------------------------------------------------------------
(* The steps of the supervisor of a regression run.                        *)

\* Only the current entry leaves a trace, after those before it.
LEMMA OrderAtEntry ==
  ASSUME SupInv, InOrder, sup.pc \in AtEntry \cap Forward,
         \A p \in Operations : has_previous_operation(p) => has_previous_operation(p)',
         \A p \in Operations :
           has_previous_operation(p)' => has_previous_operation(p) \/ p = Op
  PROVE  InOrder'
<1>1. /\ sup.i \in 1 .. Len(Plan)
      /\ \A j \in 1 .. Len(Plan) : j < sup.i => EntryDone(Plan[j])
  BY AtEntryFacts
<1>2. \A j \in 1 .. Len(Plan) : j < sup.i => has_previous_operation(Plan[j])
  BY <1>1, DoneTraced
<1> QED
  BY <1>1, <1>2, OrderKept

LEMMA SavedOrder ==
  ASSUME SupInv, InOrder, PoolRests,
         one \/ start \/ execute_runner \/ finish_operation
  PROVE  InOrder'
<1>1. /\ sup.pc \in AtEntry \cap Forward /\ cp \in CpRow /\ sup \in SupRow /\ asked' = asked
  BY DEF one, start, execute_runner, finish_operation, At, AtEntry, Forward, SupInv, SuperTypeOK,
         TablesTypeOK, PoolRests, llmVars
<1>2. PICK q \in Operations : q = Op
  BY <1>1, AtEntryFacts
<1>3. CASE one
  <2>1. CASE cp' = [cp EXCEPT !.reserve[Op] = sup.epoch] /\ intents' = intents
    <3>1. /\ cp'.reserve = [cp.reserve EXCEPT ![q] = sup.epoch] /\ cp'.start = cp.start
          /\ cp'.end = cp.end /\ cp.reserve \in [Operations -> Nat \cup {Null}]
      BY <1>1, <1>2, <2>1 DEF CpRow
    <3>2. sup.epoch # Null
      BY <1>1 DEF SupRow, Null
    <3> QED
      BY <1>1, <1>2, <2>1, <3>1, <3>2, OrderAtEntry DEF has_previous_operation
  <2>2. CASE cp' = cp /\ intents' = intents
    BY <1>1, <2>2, OrderSame
  <2> QED
    BY <1>3, <2>1, <2>2 DEF one, OnlyCheckpoint
<1>4. CASE start
  <2>1. cp' = [cp EXCEPT !.start = cp.start \cup {q}] /\ intents' = intents
    BY <1>2, <1>4 DEF start, OnlyCheckpoint
  <2>2. /\ cp'.reserve = cp.reserve /\ cp'.start = cp.start \cup {q} /\ cp'.end = cp.end
    BY <1>1, <2>1 DEF CpRow
  <2> QED
    BY <1>1, <1>2, <2>1, <2>2, OrderAtEntry DEF has_previous_operation
<1>5. CASE execute_runner
  <2>1. cp' = cp /\ intents' = intents \cup {q}
    BY <1>2, <1>5 DEF execute_runner
  <2> QED
    BY <1>1, <1>2, <2>1, OrderAtEntry DEF has_previous_operation
<1>6. CASE finish_operation
  <2>1. PICK o : cp' = [cp EXCEPT !.end[q] = o] /\ o # Open /\ intents' = intents
    <3>1. outcome[q] # Open
      BY <1>2, <1>6 DEF SupInv, Control, Ended, finish_operation, At
    <3> QED
      BY <1>2, <1>6, <3>1 DEF finish_operation, OnlyCheckpoint
  <2>2. /\ cp'.reserve = cp.reserve /\ cp'.start = cp.start
        /\ cp'.end = [cp.end EXCEPT ![q] = o] /\ DOMAIN cp.end = Operations
    BY <1>1, <2>1 DEF CpRow
  <2> QED
    BY <1>1, <1>2, <2>1, <2>2, OrderAtEntry DEF has_previous_operation
<1> QED
  BY <1>3, <1>4, <1>5, <1>6

\* The steps that write other checkpoints than these leave no trace.
LEMMA SharedOrder ==
  ASSUME SupInv, InOrder, PoolRests,
         SharedStep \/ \E mode \in {"run", "resume", "cancel"} : execute(mode)
  PROVE  InOrder'
<1>1. cp \in CpRow /\ asked' = asked
  BY DEF SupInv, SuperTypeOK, TablesTypeOK, PoolRests, llmVars
<1>2. CASE cp' = cp /\ intents' = intents
  BY <1>1, <1>2, OrderSame
<1>3. ASSUME intents' = intents,
             \/ cp' = [cp EXCEPT !.prepared = TRUE]
             \/ cp' = [cp EXCEPT !.cancel = TRUE]
             \/ cp' = [cp EXCEPT !.close = sup.epoch]
      PROVE  InOrder'
  <2>1. cp'.reserve = cp.reserve /\ cp'.start = cp.start /\ cp'.end = cp.end
    BY <1>1, <1>3 DEF CpRow
  <2> QED
    BY <1>1, <1>3, <2>1, OrderSame
<1>4. ASSUME NEW mode \in {"run", "resume", "cancel"}, execute(mode) PROVE InOrder'
  BY <1>3, <1>4 DEF execute, OnlyCheckpoint
<1>5. ASSUME NEW now \in Times,
             \/ begin_run(now) \/ status(now) \/ claim_next(now) \/ reserve_entry(now)
             \/ dispatch(now) \/ close_run(now) \/ finalize(now)
      PROVE  InOrder'
  <2>1. cp' = cp /\ intents' = intents
    BY <1>5 DEF begin_run, status, claim_next, reserve_entry, dispatch, close_run, finalize,
                OnlyAuthority
  <2> QED
    BY <1>2, <2>1
<1>6. CASE one \/ start \/ execute_runner \/ finish_operation
  BY <1>6, SavedOrder
<1>7. CASE prepare_operation \/ runner_returns \/ recover_interrupted \/ close_conflict \/ gate
  <2>1. cp' = cp /\ intents' = intents
    BY <1>7 DEF prepare_operation, runner_returns, recover_interrupted, close_conflict, gate,
                OnlySup
  <2> QED
    BY <1>2, <2>1
<1>8. CASE close_saved
  BY <1>3, <1>8 DEF close_saved, OnlyCheckpoint
<1>9. CASE CancelStep \/ refused
  <2>1. ASSUME NEW now \in Times,
               \/ cancel_claim(now) \/ sweep_observe(now) \/ cancel_close(now)
               \/ cancel_finalize(now)
        PROVE  cp' = cp /\ intents' = intents
    BY <2>1 DEF cancel_claim, sweep_observe, cancel_close, cancel_finalize, OnlyAuthority
  <2>2. CASE sweep_skip \/ sweep_recover \/ sweep_record \/ sweep_pending \/ refused
    BY <1>2, <2>2 DEF sweep_skip, sweep_recover, sweep_record, sweep_pending, refused, OnlySup,
                      RunnerUnchanged
  <2>3. CASE cancel_saved
    BY <1>3, <2>3 DEF cancel_saved, OnlyCheckpoint
  <2> QED
    BY <1>2, <1>9, <2>1, <2>2, <2>3 DEF CancelStep
<1> QED
  BY <1>4, <1>5, <1>6, <1>7, <1>8, <1>9 DEF SharedStep

\* Where the supervisor is at an entry the run is open: the claim before found it so,
\* and only the requests after the last entry close it.
LEMMA SharedOpen ==
  ASSUME SupInv, sup.pc \in AtPlan => RunOpen, SharedStep, sup'.pc \in AtPlan
  PROVE  RunOpen'
<1>1. sup \in SupRow
  BY DEF SupInv, SuperTypeOK
<1>2. ASSUME NEW pc, Goto(pc) PROVE sup'.pc = pc
  BY <1>1, <1>2 DEF Goto, SupRow
<1>3. ~Exit
  BY IdleFields DEF Exit, AtPlan
<1>4. ASSUME Effects({}, {}, Run), RunOpen PROVE RunOpen'
  BY <1>4, OpenStays DEF Effects
<1>5. ASSUME sup.pc \in AtPlan, UNCHANGED vars PROVE RunOpen'
  BY <1>5, <1>4, StillEffects DEF SupInv
<1>6. ASSUME NEW now \in Times,
             begin_run(now) \/ status(now) \/ close_run(now) \/ finalize(now)
      PROVE  FALSE
  BY <1>2, <1>3, <1>6 DEF begin_run, status, close_run, finalize, AtPlan
<1>7. ASSUME NEW now \in Times, claim_next(now) PROVE RunOpen'
  <2>1. resource_claim(now, Run, Tag, FALSE)
    BY <1>7 DEF claim_next
  <2>2. Effects({}, {}, Run)
    BY <2>1, ClaimEffects, SupervisedAssumption, AuthorityAssumption DEF SupInv
  <2> QED
    BY <1>4, <2>1, <2>2 DEF resource_claim, claim, RunOpen
<1>8. ASSUME NEW now \in Times, reserve_entry(now) PROVE RunOpen'
  <2>1. /\ sup.pc = "reserve" /\ Grant(Run, Tag, sup.epoch) \in grants
        /\ Op \in Operations /\ EntryOf[Op] \in Entries
        /\ resource_reserve(now, Run, Tag, sup.epoch, Op, EntryOf[Op])
    BY <1>8, AtEntryFacts, SupervisedAssumption
       DEF reserve_entry, At, AtEntry, SupInv, Control, AsHolder, Grant
  <2>2. Effects({}, {}, Run)
    BY <2>1, ReserveEffects DEF SupInv
  <2> QED
    BY <1>4, <2>1, <2>2 DEF AtPlan
<1>9. ASSUME NEW now \in Times, dispatch(now) PROVE RunOpen'
  <2>1. /\ sup.pc = "dispatch" /\ Grant(Run, Tag, sup.epoch) \in grants /\ Op \in Operations
        /\ resource_dispatch(now, Run, Tag, sup.epoch, Op)
    BY <1>9, AtEntryFacts DEF dispatch, At, AtEntry, SupInv, Control, AsHolder, Grant
  <2>2. Effects({}, {}, Run)
    BY <2>1, DispatchEffects DEF SupInv
  <2> QED
    BY <1>4, <2>1, <2>2 DEF AtPlan
<1>10. CASE \/ one \/ prepare_operation \/ start \/ execute_runner \/ runner_returns
            \/ finish_operation \/ recover_interrupted
  BY <1>5, <1>10 DEF one, prepare_operation, start, execute_runner, runner_returns,
                     finish_operation, recover_interrupted, At, AtPlan, OnlySup, OnlyCheckpoint
<1>11. ~close_saved /\ ~close_conflict /\ ~gate /\ ~refused
  BY <1>2, <1>3 DEF close_saved, close_conflict, gate, refused, AtPlan
<1>12. ~CancelStep
  <2>1. ASSUME NEW now \in Times,
               \/ cancel_claim(now) \/ sweep_observe(now) \/ cancel_close(now)
               \/ cancel_finalize(now)
        PROVE  FALSE
    <3>1. ASSUME cancel_claim(now) PROVE FALSE
      <4>1. PICK e : e = runs'[Run].epoch
        OBVIOUS
      <4>2. sup' = [Idle EXCEPT !.pc = "sweep", !.epoch = e]
        BY <3>1, <4>1 DEF cancel_claim
      <4> QED
        BY <4>2 DEF Idle, AtPlan
    <3>2. ASSUME Next_entry("sweep") PROVE FALSE
      BY <1>1, <3>2, NextFields DEF PCs, Sweeping, AtPlan
    <3> QED
      BY <1>2, <1>3, <2>1, <3>1, <3>2 DEF sweep_observe, cancel_close, cancel_finalize, AtPlan
  <2>2. ~cancel_saved
    BY <1>2, <1>3 DEF cancel_saved, AtPlan
  <2>3. ASSUME Next_entry("sweep") PROVE FALSE
    BY <1>1, <2>3, NextFields DEF PCs, Sweeping, AtPlan
  <2>4. ~sweep_skip /\ ~sweep_recover /\ ~sweep_record
    BY <1>2, <2>3 DEF sweep_skip, sweep_recover, sweep_record, AtPlan
  <2>5. ~sweep_pending
    <3>1. ASSUME sweep_pending PROVE FALSE
      <4>1. PICK n, m : sup' = [sup EXCEPT !.pc = "sweep", !.i = n, !.pending = m]
        BY <3>1 DEF sweep_pending
      <4> QED
        BY <1>1, <4>1 DEF SupRow, AtPlan
    <3> QED
      BY <3>1
  <2> QED
    BY <2>1, <2>2, <2>4, <2>5 DEF CancelStep
<1> QED
  BY <1>6, <1>7, <1>8, <1>9, <1>10, <1>11, <1>12 DEF SharedStep

LEMMA SharedKept ==
  ASSUME Outside, InOrder, PoolRests,
         SharedStep \/ \E mode \in {"run", "resume", "cancel"} : execute(mode)
  PROVE  Outside' /\ InOrder'
<1>1. SuperNext
  BY DEF SharedStep, SuperNext, RunStep
<1>2. SupInv' /\ InOrder'
  BY <1>1, SupSteps, SharedOrder DEF Outside
<1>3. Pending' = {}
  BY DEF Pending, PoolRests, llmVars, Outside
<1>4. sup'.pc \in AtPlan => RunOpen'
  <2>1. ASSUME NEW mode \in {"run", "resume", "cancel"}, execute(mode) PROVE sup'.pc \notin AtPlan
    <3>1. PICK pc \in {"cancel_status", "begin"} : sup' = [Idle EXCEPT !.pc = pc]
      BY <2>1 DEF execute
    <3> QED
      BY <3>1 DEF Idle, AtPlan
  <2> QED
    BY <2>1, SharedOpen DEF Outside
<1> QED
  BY <1>2, <1>3, <1>4 DEF Outside

\* Within the pool no step of it is taken: the main thread is elsewhere.
LEMMA SharedAway ==
  ASSUME sup.pc \in PoolPCs
  PROVE  ~SharedStep /\ \A mode \in {"run", "resume", "cancel"} : ~execute(mode)
BY DEF PoolPCs, SharedStep, CancelStep, execute, begin_run, status, claim_next, reserve_entry,
       dispatch, close_run, finalize, one, prepare_operation, start, execute_runner,
       runner_returns, finish_operation, recover_interrupted, close_saved, close_conflict, gate,
       cancel_claim, sweep_observe, cancel_close, cancel_finalize, cancel_saved, sweep_skip,
       sweep_recover, sweep_record, sweep_pending, refused, Swept, At

-----------------------------------------------------------------------------
(* The fixtures and the adopted conditions, beside the pool.               *)

\* Neither the main thread nor a worker moves: what they count on stays.
LEMMA PoolRestsKept ==
  ASSUME InPool, Effects({}, {}, Run), TablesTypeOK', Agreement',
         UNCHANGED <<cp, intents, outcome, sup, pool, asked, recorded>>
  PROVE  InPool'
<1>1. WorkersTrue'
  <2> SUFFICES ASSUME NEW p \in Operations PROVE WorkerTrue(p)'
    BY DEF WorkersTrue
  <2> QED
    BY WorkerStays DEF InPool, WorkersTrue
<1>2. RunOpen => RunOpen'
  BY OpenStays DEF Effects
<1>3. \A j \in 1 .. Len(Plan) : EntryDone(Plan[j]) => EntryDone(Plan[j])'
  BY EntriesStay DEF Effects
<1>4. Pending' = Pending /\ \A p : has_previous_operation(p)' <=> has_previous_operation(p)
  BY DEF Pending, has_previous_operation
<1>5. PICK q : q = Op
  OBVIOUS
<1>6. Op' = q /\ More' = More
  BY <1>5, SameEntry
<1>7. sup.pc = "submit" => Dispatched(q)' /\ ops'[q].stopped = Null
  BY <1>5 DEF InPool, PoolControl, Effects, Moves, OpGrows, Dispatched, StopsOnly
<1>8. PoolControl'
  BY <1>2, <1>3, <1>4, <1>5, <1>6, <1>7 DEF InPool, PoolControl
<1> QED
  BY <1>1, <1>8 DEF InPool, Tables, Effects

LEMMA BesidePool ==
  ASSUME InPool, UNCHANGED <<asked, pool>>,
         \/ \E p \in Operations : fixture_starts(p) \/ fixture_ends(p)
         \/ ChangeConditions /\ UNCHANGED superVars
         \/ UNCHANGED allVars
  PROVE  InPool'
<1>1. AuthInv /\ TablesTypeOK /\ Agreement
  BY DEF InPool, Tables
<1>2. ASSUME NEW p \in Operations, fixture_starts(p) \/ fixture_ends(p) PROVE InPool'
  <2>1. UNCHANGED <<vars, cp, recorded, intents, outcome, sup>>
    BY <1>2 DEF fixture_starts, fixture_ends, Runner!Start, Runner!End
  <2>2. PICK f \in {"live", "ended"} : phase' = [phase EXCEPT ![p] = f]
    BY <1>2 DEF fixture_starts, fixture_ends, Runner!Start, Runner!End
  <2>3. TablesTypeOK'
    BY <1>1, <2>1, <2>2 DEF TablesTypeOK, Runner!TypeOK
  <2>4. Agreement'
    BY <1>1, <2>1, TablesLocal DEF Agreement
  <2> QED
    BY <1>1, <2>1, <2>3, <2>4, StillEffects, PoolRestsKept
<1>3. ASSUME Effects({}, {}, Run), UNCHANGED <<cp, recorded, intents, phase, outcome, sup>>
      PROVE  InPool'
  <2>1. TablesTypeOK' /\ Agreement'
    BY <1>1, <1>3, TablesAsked DEF TablesTypeOK
  <2> QED
    BY <1>3, <2>1, PoolRestsKept
<1>4. CASE ChangeConditions /\ UNCHANGED superVars
  BY <1>1, <1>3, <1>4, RestEffects DEF ChangeConditions, superVars
<1>5. CASE UNCHANGED allVars
  BY <1>1, <1>3, <1>5, StillEffects DEF allVars, superVars
<1> QED
  BY <1>2, <1>4, <1>5

\* The same outside of the pool.
LEMMA BesideMain ==
  ASSUME Outside, UNCHANGED <<asked, pool>>,
         \/ \E p \in Operations : fixture_starts(p) \/ fixture_ends(p)
         \/ ChangeConditions /\ UNCHANGED superVars
         \/ UNCHANGED allVars
  PROVE  Outside'
<1>1. SupInv'
  BY FixtureKept, ConditionsSupKept, NothingChangesKept DEF Outside
<1>2. UNCHANGED <<runs, sup>>
  BY DEF fixture_starts, fixture_ends, ChangeConditions, superVars, allVars, vars, bookVars
<1> QED
  BY <1>1, <1>2 DEF Outside, Pending, RunOpen, Known

\* They leave no trace either.
LEMMA BesideOrder ==
  ASSUME InOrder, UNCHANGED <<asked, pool>>,
         \/ \E p \in Operations : fixture_starts(p) \/ fixture_ends(p)
         \/ ChangeConditions /\ UNCHANGED superVars
         \/ UNCHANGED allVars
  PROVE  InOrder'
<1>1. UNCHANGED <<cp, intents>>
  BY DEF fixture_starts, fixture_ends, superVars, allVars
<1> QED
  BY <1>1, OrderSame

-----------------------------------------------------------------------------
(* Into the pool, and out of it.                                           *)

\* With no worker nothing is claimed of any.
LEMMA NoWorkersTrue ==
  ASSUME Pending = {}
  PROVE  WorkersTrue
BY DEF WorkersTrue, WorkerTrue, Working, Pending

LEMMA OpenMain ==
  ASSUME Outside, InOrder, llm_open
  PROVE  InOrder' /\ (Outside' \/ InPool')
<1>1. /\ sup \in SupRow /\ sup.pc = "open" /\ recorded \in RecordedRow /\ ~cp.cancel
      /\ recorded' = [recorded EXCEPT !.opened = TRUE]
      /\ UNCHANGED <<vars, cp, intents, phase, outcome, asked, pool>>
  BY DEF llm_open, At, RunnerUnchanged, PoolRests, llmVars, Outside, SupInv, SuperTypeOK,
         TablesTypeOK, Control, Guarded
<1>2. recorded' \in RecordedRow /\ recorded'.attempts = recorded.attempts
  BY <1>1 DEF RecordedRow
<1>3. TablesTypeOK'
  BY <1>1, <1>2 DEF TablesTypeOK, Outside, SupInv, SuperTypeOK, Runner!TypeOK
<1>4. AuthInv' /\ Agreement'
  BY <1>1, <1>2, TablesLocal DEF Outside, SupInv, SuperTypeOK, Agreement
<1>5. InOrder' /\ Pending' = {}
  BY <1>1, OrderSame DEF Pending, Outside
<1>6. CASE Goto("finalize")
  <2>1. sup' \in SupRow /\ sup'.pc = "finalize"
    BY <1>1, <1>6, Fields DEF PCs
  <2>2. Control'
    BY <1>1, <2>1, ControlFree DEF Outside, PCs, Forward, AtEntry, AsHolder, Sweeping
  <2> QED
    BY <1>3, <1>4, <1>5, <2>1, <2>2 DEF Outside, SupInv, SuperTypeOK, AtPlan
<1>7. CASE ~runs[Run].closed /\ Goto("pool")
  <2>1. sup' \in PoolSup /\ sup'.pc = "pool" /\ sup'.i = sup.i
    BY <1>1, <1>7, MainMoved DEF PoolPCs
  <2>2. RunOpen'
    BY <1>1, <1>7 DEF RunOpen, Known, vars
  <2>3. \A j \in 1 .. Len(Plan) : j < sup.i => EntryDone(Plan[j])'
    BY <1>1, <1>2 DEF Outside, SupInv, Control, Forward, EntryDone, Dispatched, vars
  <2>4. PoolControl'
    BY <1>1, <1>5, <2>1, <2>2, <2>3 DEF PoolControl
  <2>5. WorkersTrue'
    BY <1>5 DEF WorkersTrue, WorkerTrue, Working, Pending
  <2> QED
    BY <1>3, <1>4, <1>5, <2>1, <2>4, <2>5 DEF InPool, Tables
<1> QED
  BY <1>6, <1>7 DEF llm_open

\* The main thread alone goes on: the tables are as they were.
LEMMA MainAlone ==
  ASSUME Tables, InOrder, UNCHANGED <<vars, cp, recorded, intents, phase, outcome, asked>>
  PROVE  Tables' /\ InOrder' /\ ops' = ops /\ runs' = runs
<1>2. AuthInv' /\ Agreement'
  BY TablesLocal DEF Tables, Agreement
<1>3. TablesTypeOK'
  BY DEF Tables, TablesTypeOK, Runner!TypeOK
<1> QED
  BY <1>2, <1>3, OrderSame DEF Tables, vars

\* At the claim that follows, the pool is empty: either an entry with a trace is met,
\* and none after it has a worker, or every future is delivered.
LEMMA LeavePool ==
  ASSUME InPool, InOrder, resume_entry \/ all_delivered
  PROVE  InOrder' /\ Outside'
<1>1. /\ sup.pc = "pool" /\ Goto("claim") /\ sup \in PoolSup
      /\ UNCHANGED <<vars, cp, recorded, intents, phase, outcome, asked, pool>>
  BY DEF resume_entry, all_delivered, Fills, At, OnlySup, PoolRests, llmVars, InPool
<1>2. Pending = {}
  <2>1. CASE resume_entry
    <3>1. More /\ has_previous_operation(Op)
      BY <2>1 DEF resume_entry, Fills
    <3>2. sup.i \in 1 .. Len(Plan) /\ Plan[sup.i] = Op /\ sup.i >= sup.i
      BY <1>1, <3>1, PoolOp DEF Op, PoolSup
    <3> QED
      BY <1>1, <3>1, <3>2 DEF InPool, PoolControl
  <2>2. CASE all_delivered
    BY <2>2 DEF all_delivered
  <2> QED
    BY <2>1, <2>2
<1>3. Tables' /\ InOrder' /\ ops' = ops
  BY <1>1, MainAlone DEF InPool
<1>4. sup' \in SupRow /\ sup'.pc = "claim" /\ sup'.i = sup.i
  BY <1>1, MainMoved DEF PCs, Forward
<1>5. \A j \in 1 .. Len(Plan) : j < sup.i => EntryDone(Plan[j])'
  BY <1>1, <1>2, <1>3 DEF InPool, PoolControl, EntryDone, Dispatched
<1>6. ~cp.cancel
  BY DEF InPool, PoolControl
<1>7. Control'
  BY <1>1, <1>4, <1>5, <1>6
     DEF Control, Forward, AtEntry, AsHolder, Executed, Ended, Sweeping, Guarded
<1>8. Pending' = {}
  BY <1>1, <1>2 DEF Pending
<1> QED
  BY <1>3, <1>4, <1>7, <1>8 DEF Tables, Outside, SupInv, SuperTypeOK, AtPlan

\* An error in the main thread, of its own or of a worker, waits at the pool.
LEMMA RaisedMain ==
  ASSUME pool \in PoolRow, Outside \/ InPool, InOrder, llm_raised \/ worker_failed
  PROVE  InOrder' /\ InPool'
<1>1. /\ Goto("drain") /\ sup.pc \in LlmGuarded
      /\ UNCHANGED <<vars, cp, recorded, intents, phase, outcome, asked, pool>>
  BY DEF llm_raised, worker_failed, AfterRaise, LlmGuarded, At, OnlySup, PoolRests, llmVars
<1>2. Tables /\ (sup \in SupRow \/ sup \in PoolSup)
  BY DEF Outside, InPool, Tables, SupInv, SuperTypeOK
<1>3. ~cp.cancel
  <2>1. CASE Outside
    <3>1. sup.pc \in Guarded
      BY <1>1, <2>1 DEF LlmGuarded, Outside, SupInv, SuperTypeOK, SupRow, PCs, Forward, Sweeping
    <3> QED
      BY <2>1, <3>1 DEF Outside, SupInv, Control
  <2>2. CASE InPool
    BY <2>2 DEF InPool, PoolControl
  <2> QED
    BY <2>1, <2>2
<1>4. WorkersTrue
  BY NoWorkersTrue DEF Outside, InPool
<1>5. Tables' /\ InOrder' /\ ops' = ops /\ runs' = runs
  BY <1>1, <1>2, MainAlone
<1>6. sup' \in PoolSup /\ sup'.pc = "drain"
  BY <1>1, <1>2, MainMoved DEF PoolPCs
<1>7. WorkersTrue'
  BY <1>1, <1>4, <1>5 DEF WorkersTrue, WorkerTrue, Working, RunOpen, Known, Dispatched
<1>8. PoolControl'
  BY <1>1, <1>3, <1>6 DEF PoolControl
<1> QED
  BY <1>5, <1>6, <1>7, <1>8 DEF InPool

\* The pool is left when no worker is busy, or when the process dies.
LEMMA PoolLeft ==
  ASSUME Outside \/ InPool, InOrder, drained \/ llm_dies
  PROVE  InOrder' /\ Outside' /\ pool' \in PoolRow
<1>1. /\ pool' = NoWorkers
      /\ UNCHANGED <<vars, cp, recorded, intents, phase, outcome, asked>>
  BY DEF drained, llm_dies, die, OnlySup
<1>2. Tables /\ (sup \in SupRow \/ sup \in PoolSup)
  BY DEF Outside, InPool, Tables, SupInv, SuperTypeOK
<1>3. Tables' /\ InOrder'
  BY <1>1, <1>2, MainAlone
<1>4. sup' \in SupRow /\ sup'.pc \in {"cancel", "idle"}
  <2>1. CASE drained
    BY <1>2, <2>1, MainMoved DEF drained, PCs
  <2>2. CASE llm_dies
    BY <2>2, IdleFields DEF llm_dies, die, Exit
  <2> QED
    BY <2>1, <2>2
<1>5. Control'
  BY <1>4 DEF Control, Forward, AtEntry, AsHolder, Executed, Ended, Sweeping, Guarded
<1>6. Pending' = {} /\ pool' \in PoolRow
  BY <1>1, NoWorkersRow DEF Pending
<1> QED
  BY <1>3, <1>4, <1>5, <1>6 DEF Tables, Outside, SupInv, SuperTypeOK, AtPlan

-----------------------------------------------------------------------------
(* The main thread at the pool.                                            *)

\* The entries of a run that is filling the pool are done or under way, and all of
\* them have left their trace.
LEMMA BeforeTraced ==
  ASSUME WorkersTrue, NEW j \in 1 .. Len(Plan), EntryDone(Plan[j]) \/ Plan[j] \in Pending
  PROVE  has_previous_operation(Plan[j])
BY DoneTraced DEF Pending, WorkersTrue, WorkerTrue, has_previous_operation

LEMMA AskKept ==
  ASSUME InPool, InOrder, asked \subseteq Operations, ask_start
  PROVE  InOrder' /\ InPool' /\ asked' \subseteq Operations
<1>1. /\ sup.pc = "pool" /\ More /\ ~has_previous_operation(Op) /\ Goto("ask")
      /\ asked' = asked \cup {Op} /\ sup \in PoolSup
      /\ UNCHANGED <<vars, cp, recorded, intents, phase, outcome, pool>>
  BY DEF ask_start, Fills, At, OnlySup, InPool
<1>2. Op \in Operations /\ sup.i \in 1 .. Len(Plan)
  BY <1>1, PoolOp
<1>3. PICK q \in Operations : q = Op
  BY <1>2
<1>4. AuthInv' /\ Agreement' /\ TablesTypeOK' /\ ops' = ops /\ runs' = runs
  <2>1. AuthInv' /\ Agreement'
    BY <1>1, TablesLocal DEF InPool, Tables, Agreement
  <2> QED
    BY <1>1, <2>1 DEF InPool, Tables, TablesTypeOK, Runner!TypeOK, vars
<1>5. sup' \in PoolSup /\ sup'.pc = "ask" /\ sup'.i = sup.i
  BY <1>1, MainMoved DEF PoolPCs
<1>6. /\ \A p : has_previous_operation(p) => has_previous_operation(p)'
      /\ \A p : has_previous_operation(p)' => has_previous_operation(p) \/ p = q
  BY <1>1, <1>3 DEF has_previous_operation
<1>7. \A j \in 1 .. Len(Plan) : j < sup.i => EntryDone(Plan[j]) \/ Plan[j] \in Pending
  BY <1>1 DEF InPool, PoolControl
<1>8. InOrder'
  <2>1. \A j \in 1 .. Len(Plan) : j < sup.i => has_previous_operation(Plan[j])
    BY <1>7, BeforeTraced DEF InPool
  <2> QED
    BY <1>2, <1>3, <1>6, <2>1, OrderKept
<1>9. WorkersTrue' /\ Pending' = Pending
  BY <1>1, <1>4 DEF InPool, WorkersTrue, WorkerTrue, Working, RunOpen, Known, Dispatched, Pending
<1>10. \A j \in 1 .. Len(Plan) : j > sup.i => ~has_previous_operation(Plan[j])'
  <2> SUFFICES ASSUME NEW j \in 1 .. Len(Plan), j > sup.i, has_previous_operation(Plan[j])'
               PROVE  FALSE
    OBVIOUS
  <2>1. CASE has_previous_operation(Plan[j])
    BY <1>1, <1>2, <2>1 DEF InOrder, Op
  <2>2. CASE Plan[j] = q
    <3>1. j = sup.i
      BY <1>2, <1>3, <2>2, LlmAssumption DEF Op
    <3> QED
      BY <1>2, <3>1
  <2> QED
    BY <1>6, <2>1, <2>2
<1>11. Op' = q /\ More' /\ cp'.end[q] = Open
  BY <1>1, <1>3, <1>5, SameEntry DEF has_previous_operation
<1>12. \A p : EntryDone(p) => EntryDone(p)'
  BY <1>1, <1>4 DEF EntryDone, Dispatched
<1>13. RunOpen'
  BY <1>1, <1>4 DEF InPool, PoolControl, RunOpen, Known
<1>14. PoolControl'
  BY <1>1, <1>5, <1>7, <1>9, <1>10, <1>11, <1>12, <1>13 DEF InPool, PoolControl
<1> QED
  BY <1>1, <1>3, <1>4, <1>5, <1>8, <1>9, <1>14 DEF InPool, Tables

LEMMA BeginNewKept ==
  ASSUME InPool, InOrder, NEW now \in Times, begin_new_operation(now)
  PROVE  InOrder' /\ InPool'
<1>1. /\ sup.pc = "ask" /\ sup \in PoolSup
      /\ resource_start(now, Run, Tag, Op, EntryOf[Op])
      /\ sup' = [sup EXCEPT !.epoch = runs'[Run].epoch, !.pc = "submit"]
      /\ UNCHANGED <<cp, recorded, intents, phase, outcome, asked, pool>>
  BY DEF begin_new_operation, At, OnlyAuthority, PoolRests, llmVars, InPool
<1>2. More /\ cp.end[Op] = Open
      /\ \A j \in 1 .. Len(Plan) : j > sup.i => ~has_previous_operation(Plan[j])
  BY <1>1 DEF InPool, PoolControl
<1>3. PICK q \in Operations : q = Op
  BY <1>1, <1>2, PoolOp
<1>4. /\ Effects({}, {}, Run) /\ q \in DOMAIN ops' /\ ops'[q].intended # Null
      /\ Run \in DOMAIN runs' /\ ~runs'[Run].closed
  BY <1>1, <1>3, StartEffects, SupervisedAssumption, AuthorityAssumption DEF InPool, Tables
<1>5. ops'[q].stopped = Null /\ Dispatched(q)'
  BY <1>1, <1>3, <1>4 DEF resource_start, Effects, StopsOnly, Dispatched
<1>6. AuthInv' /\ TablesTypeOK' /\ Agreement'
  BY <1>1, <1>4, TablesAsked DEF InPool, Tables, TablesTypeOK
<1>7. PICK e \in Nat : e = runs'[Run].epoch
  BY <1>4, <1>6 DEF AuthInv, BookInv, TypeOK, IsTable, RunRow
<1>8. sup' = [sup EXCEPT !.epoch = e, !.pc = "submit"]
  BY <1>1, <1>7
<1>9. sup' \in PoolSup /\ sup'.pc = "submit" /\ sup'.i = sup.i
  BY <1>1, <1>8 DEF PoolSup, PoolPCs
<1>10. InOrder' /\ \A p : has_previous_operation(p)' <=> has_previous_operation(p)
  BY <1>1, OrderSame
<1>11. WorkersTrue' /\ Pending' = Pending
  <2>1. ASSUME NEW p \in Operations PROVE WorkerTrue(p)'
    BY <1>1, <1>4, WorkerStays DEF InPool, WorkersTrue
  <2> QED
    BY <1>1, <2>1 DEF WorkersTrue, Pending
<1>12. Op' = q /\ More' = More
  BY <1>3, <1>9, SameEntry
<1>13. \A j \in 1 .. Len(Plan) : EntryDone(Plan[j]) => EntryDone(Plan[j])'
  BY <1>1, <1>4, EntriesStay DEF Effects
<1>14. RunOpen'
  BY <1>4 DEF RunOpen
<1>15. PoolControl'
  BY <1>1, <1>2, <1>3, <1>5, <1>9, <1>10, <1>11, <1>12, <1>13, <1>14 DEF InPool, PoolControl
<1> QED
  BY <1>6, <1>9, <1>10, <1>11, <1>15 DEF InPool, Tables

LEMMA SubmitKept ==
  ASSUME InPool, InOrder, pool \in PoolRow, submit
  PROVE  InOrder' /\ InPool' /\ pool' \in PoolRow
<1>1. /\ sup.pc = "submit" /\ sup \in PoolSup /\ cp \in CpRow /\ Next_entry("pool")
      /\ cp' = [cp EXCEPT !.start = @ \cup {Op}] /\ Worker(Op, "submitted")
      /\ UNCHANGED <<vars, recorded, intents, phase, outcome, asked>>
  BY DEF submit, At, InPool, Tables, TablesTypeOK
<1>2. /\ More /\ cp.end[Op] = Open /\ Dispatched(Op) /\ ops[Op].stopped = Null /\ ~cp.cancel
      /\ RunOpen /\ \A j \in 1 .. Len(Plan) : j > sup.i => ~has_previous_operation(Plan[j])
      /\ \A j \in 1 .. Len(Plan) : j < sup.i => EntryDone(Plan[j]) \/ Plan[j] \in Pending
      /\ \A p \in Pending : \E j \in 1 .. Len(Plan) : j < sup.i /\ p = Plan[j]
  BY <1>1 DEF InPool, PoolControl
<1>3. sup.i \in 1 .. Len(Plan) /\ Op \in Operations
  BY <1>1, <1>2, PoolOp
<1>4. PICK q \in Operations : q = Op
  BY <1>3
<1>5. cp' = [cp EXCEPT !.start = cp.start \cup {q}]
  BY <1>1, <1>4
<1>6. /\ cp' \in CpRow /\ cp'.reserve = cp.reserve /\ cp'.start = cp.start \cup {q}
      /\ cp'.end = cp.end /\ cp'.cancel = cp.cancel
  BY <1>1, <1>5 DEF CpRow
<1>7. /\ pool' \in PoolRow /\ pool'.worker[q] = "submitted"
      /\ \A p \in Operations : p # q => pool'.worker[p] = pool.worker[p]
  BY <1>1, <1>4, WorkerSet DEF Worker, WorkerStates
<1>8. sup'.pc = "pool" /\ sup'.i = sup.i + 1 /\ sup' \in PoolSup
  BY <1>1, MainNext
<1>9. UNCHANGED <<ops, runs>> /\ Effects({}, {}, Run)
  BY <1>1, StillEffects DEF vars, InPool, Tables
<1>10. TablesTypeOK' /\ AuthInv' /\ Agreement'
  <2>1. AuthInv' /\ Agreement'
    BY <1>1, <1>6, TablesLocal DEF InPool, Tables, Agreement
  <2> QED
    BY <1>1, <1>6, <2>1 DEF TablesTypeOK, InPool, Tables, Runner!TypeOK
<1>11. /\ \A p : has_previous_operation(p) => has_previous_operation(p)'
       /\ \A p : has_previous_operation(p)' => has_previous_operation(p) \/ p = q
  BY <1>1, <1>6 DEF has_previous_operation
<1>12. InOrder'
  <2>1. \A j \in 1 .. Len(Plan) : j < sup.i => has_previous_operation(Plan[j])
    BY <1>2, BeforeTraced DEF InPool
  <2> QED
    BY <1>3, <1>4, <1>11, <2>1, OrderKept
<1>13. WorkersTrue'
  <2> SUFFICES ASSUME NEW p \in Operations PROVE WorkerTrue(p)'
    BY DEF WorkersTrue
  <2>1. CASE p = q
    BY <1>1, <1>2, <1>4, <1>6, <1>7, <1>9, <2>1
       DEF WorkerTrue, Working, RunOpen, Known, Dispatched
  <2>2. CASE p # q
    BY <1>1, <1>6, <1>7, <1>9, <2>2, WorkerStays DEF InPool, WorkersTrue
  <2> QED
    BY <2>1, <2>2
<1>14. Pending' = Pending \cup {q}
  BY <1>4, <1>7 DEF Pending
<1>15. RunOpen'
  BY <1>2, <1>9 DEF RunOpen, Known
<1>16. \A j \in 1 .. Len(Plan) : j < sup.i + 1 => EntryDone(Plan[j])' \/ Plan[j] \in Pending'
  <2> SUFFICES ASSUME NEW j \in 1 .. Len(Plan), j < sup.i + 1
               PROVE  EntryDone(Plan[j])' \/ Plan[j] \in Pending'
    OBVIOUS
  <2>1. j < sup.i \/ j = sup.i
    BY <1>3
  <2>2. EntryDone(Plan[j]) => EntryDone(Plan[j])'
    BY <1>1, <1>6, <1>9 DEF EntryDone, Dispatched
  <2> QED
    BY <1>2, <1>4, <1>14, <2>1, <2>2 DEF Op
<1>17. \A p \in Pending' : \E j \in 1 .. Len(Plan) : j < sup.i + 1 /\ p = Plan[j]
  <2> SUFFICES ASSUME NEW p \in Pending'
               PROVE  \E j \in 1 .. Len(Plan) : j < sup.i + 1 /\ p = Plan[j]
    OBVIOUS
  <2>1. CASE p = q
    BY <1>3, <1>4, <2>1 DEF Op
  <2>2. CASE p \in Pending
    BY <1>2, <1>3, <2>2
  <2> QED
    BY <1>14, <2>1, <2>2
<1>18. \A j \in 1 .. Len(Plan) : j >= sup.i + 1 => ~has_previous_operation(Plan[j])'
  <2> SUFFICES ASSUME NEW j \in 1 .. Len(Plan), j >= sup.i + 1
               PROVE  ~has_previous_operation(Plan[j])'
    OBVIOUS
  <2>1. j > sup.i /\ j # sup.i
    BY <1>3
  <2>2. Plan[j] # q
    BY <1>3, <1>4, <2>1, LlmAssumption DEF Op
  <2> QED
    BY <1>2, <1>11, <2>1, <2>2
<1>19. PoolControl'
  BY <1>2, <1>6, <1>8, <1>15, <1>16, <1>17, <1>18 DEF PoolControl
<1> QED
  BY <1>7, <1>8, <1>10, <1>12, <1>13, <1>19 DEF InPool, Tables

LEMMA CollectKept ==
  ASSUME InPool, InOrder, pool \in PoolRow, collect
  PROVE  InOrder' /\ InPool' /\ pool' \in PoolRow
<1>1. PICK b \in SUBSET Operations : pool' = [pool EXCEPT !.batch = b]
  BY DEF collect, Pending
<1>2. pool' \in PoolRow /\ pool'.worker = pool.worker
  BY <1>1 DEF PoolRow
<1>3. UNCHANGED <<vars, cp, recorded, intents, phase, outcome, sup, asked>>
  BY DEF collect, OnlyPool, allVars, superVars
<1>4. Tables' /\ InOrder' /\ ops' = ops /\ runs' = runs
  BY <1>3, MainAlone DEF InPool
<1>5. WorkersTrue' /\ Pending' = Pending
  BY <1>2, <1>3, <1>4
     DEF InPool, WorkersTrue, WorkerTrue, Working, RunOpen, Known, Dispatched, Pending
<1>6. \A p : has_previous_operation(p)' <=> has_previous_operation(p)
  BY <1>3 DEF has_previous_operation
<1>7. /\ Op' = Op /\ More' = More /\ RunOpen' = RunOpen
      /\ \A p : EntryDone(p)' = EntryDone(p) /\ Dispatched(p)' = Dispatched(p)
  BY <1>3, <1>4, SameEntry DEF RunOpen, Known, EntryDone, Dispatched
<1>8. PoolControl'
  BY <1>3, <1>4, <1>5, <1>6, <1>7 DEF InPool, PoolControl
<1> QED
  BY <1>2, <1>3, <1>4, <1>5, <1>8 DEF InPool

\* finish_operation writes the end that the runner gave.
LEMMA FinishWorkerKept ==
  ASSUME InPool, InOrder, pool \in PoolRow, NEW p \in Operations, finish_worker(p)
  PROVE  InOrder' /\ InPool' /\ pool' \in PoolRow
<1>1. /\ sup.pc = "pool" /\ sup \in PoolSup /\ cp \in CpRow /\ Goto("deliver")
      /\ pool.worker[p] = "done" /\ cp' = [cp EXCEPT !.end[p] = outcome[p]]
      /\ pool' = [pool EXCEPT !.batch = @ \ {p}, !.worker[p] = "delivering"]
      /\ UNCHANGED <<vars, recorded, intents, phase, outcome, asked>>
  BY DEF finish_worker, At, OnlyCheckpoint, InPool, Tables, TablesTypeOK
<1>2. p \in intents /\ outcome[p] # Open /\ p \in cp.start
  BY <1>1 DEF InPool, WorkersTrue, WorkerTrue
<1>3. PICK o \in Statuses : o = outcome[p]
  BY <1>2 DEF InPool, Tables, TablesTypeOK, Runner!TypeOK
<1>4. /\ cp' \in CpRow /\ cp'.cancel = cp.cancel /\ cp'.reserve = cp.reserve
      /\ cp'.start = cp.start /\ cp'.end = [cp.end EXCEPT ![p] = o]
      /\ cp.end \in [Operations -> Statuses \cup {Open}] /\ o # Open
  BY <1>1, <1>2, <1>3 DEF CpRow
<1>5. /\ cp'.end[p] = o /\ \A r \in Operations : r # p => cp'.end[r] = cp.end[r]
      /\ \A r \in Operations : cp.end[r] # Open => cp'.end[r] # Open
  BY <1>4
<1>6. /\ pool' \in PoolRow /\ pool'.worker[p] = "delivering"
      /\ \A r \in Operations : r # p => pool'.worker[r] = pool.worker[r]
  <2>1. PICK b \in SUBSET Operations : b = pool.batch \ {p}
    BY DEF PoolRow
  <2>2. pool' = [pool EXCEPT !.batch = b, !.worker[p] = "delivering"]
    BY <1>1, <2>1
  <2> QED
    BY <2>2 DEF PoolRow, WorkerStates
<1>7. sup'.pc = "deliver" /\ sup'.i = sup.i /\ sup' \in PoolSup
  BY <1>1, MainMoved DEF PoolPCs
<1>8. UNCHANGED <<ops, runs>> /\ Effects({}, {}, Run)
  BY <1>1, StillEffects DEF vars, InPool, Tables
<1>9. AuthInv' /\ TablesTypeOK' /\ Agreement'
  <2>1. AuthInv' /\ Agreement'
    BY <1>1, <1>2, <1>3, <1>5, TablesLocal DEF InPool, Tables, Agreement
  <2> QED
    BY <1>1, <1>4, <2>1 DEF TablesTypeOK, InPool, Tables, Runner!TypeOK
<1>10. \A r \in Operations : has_previous_operation(r)' <=> has_previous_operation(r)
  BY <1>1, <1>2, <1>4, <1>5 DEF has_previous_operation
<1>11. InOrder'
  BY <1>10, OrderKept
<1>12. WorkersTrue'
  <2> SUFFICES ASSUME NEW r \in Operations PROVE WorkerTrue(r)'
    BY DEF WorkersTrue
  <2>1. CASE r = p
    BY <1>1, <1>2, <1>4, <1>5, <1>6, <2>1 DEF WorkerTrue, Working
  <2>2. CASE r # p
    BY <1>1, <1>4, <1>5, <1>6, <1>8, <2>2, WorkerStays DEF InPool, WorkersTrue
  <2> QED
    BY <2>1, <2>2
<1>13. Pending' = Pending
  BY <1>1, <1>6 DEF Pending
<1>14. RunOpen' = RunOpen /\ \A j \in 1 .. Len(Plan) : EntryDone(Plan[j]) => EntryDone(Plan[j])'
  BY <1>1, <1>5, <1>8, PlanTypes DEF RunOpen, Known, EntryDone, Dispatched
<1>15. PoolControl'
  BY <1>1, <1>4, <1>7, <1>10, <1>13, <1>14, PlanTypes DEF InPool, PoolControl
<1> QED
  BY <1>6, <1>7, <1>9, <1>11, <1>12, <1>15 DEF InPool, Tables

\* evidence_complete: the stop is reported of an operation whose worker has returned.
LEMMA CompletionKept ==
  ASSUME InPool, InOrder, pool \in PoolRow, NEW now \in Times, NEW p \in Operations,
         record_completion(now, p)
  PROVE  InOrder' /\ InPool' /\ pool' \in PoolRow
<1>1. /\ sup.pc = "deliver" /\ sup \in PoolSup /\ pool.worker[p] = "delivering"
      /\ resource_observe(now, p, StopEvent[p], TRUE, ZeroUsage)
      /\ recorded' = [recorded EXCEPT !.attempts = @ \cup {p}] /\ Worker(p, "none")
      /\ UNCHANGED <<cp, intents, phase, outcome, asked>> /\ recorded \in RecordedRow
  BY DEF record_completion, At, RunnerUnchanged, InPool, Tables, TablesTypeOK
<1>2. p \in intents /\ outcome[p] # Open /\ cp.end[p] # Open
  BY <1>1 DEF InPool, WorkersTrue, WorkerTrue
<1>3. Effects({p}, {}, Run)
  <2>1. StopEvent[p] \in Events /\ ZeroUsage \in Usages \cup {NoUsage} /\ TRUE \in BOOLEAN
    BY SupervisedAssumption, AuthorityAssumption
  <2> QED
    BY <1>1, <2>1, ObserveEffects DEF InPool, Tables
<1>4. recorded' \in RecordedRow /\ recorded'.attempts = recorded.attempts \cup {p}
  BY <1>1 DEF RecordedRow
<1>5. AuthInv' /\ TablesTypeOK' /\ Agreement'
  BY <1>1, <1>2, <1>3, <1>4, TablesAsked DEF InPool, Tables
<1>6. /\ pool' \in PoolRow /\ pool'.worker[p] = "none"
      /\ \A r \in Operations : r # p => pool'.worker[r] = pool.worker[r]
  BY <1>1, WorkerSet DEF Worker, WorkerStates
<1>7. PICK pc \in {"pool", "drain"} : Goto(pc)
  BY DEF record_completion
<1>8. sup'.pc = pc /\ sup'.i = sup.i /\ sup' \in PoolSup
  BY <1>1, <1>7, MainMoved DEF PoolPCs
<1>9. InOrder' /\ \A r : has_previous_operation(r)' <=> has_previous_operation(r)
  BY <1>1, OrderSame
<1>10. WorkersTrue'
  <2> SUFFICES ASSUME NEW r \in Operations PROVE WorkerTrue(r)'
    BY DEF WorkersTrue
  <2>1. CASE r = p
    BY <1>6, <2>1 DEF WorkerTrue, Working
  <2>2. CASE r # p
    BY <1>1, <1>3, <1>6, <2>2, WorkerStays DEF InPool, WorkersTrue
  <2> QED
    BY <2>1, <2>2
<1>11. Pending' = Pending \ {p}
  BY <1>6 DEF Pending
<1>12. \A r \in Operations : EntryDone(r) => EntryDone(r)'
  BY <1>1, <1>3, <1>4, EntriesStay DEF Effects
<1>13. EntryDone(p)'
  BY <1>1, <1>2, <1>4, <1>5 DEF EntryDone, Agreement
<1>14. RunOpen => RunOpen'
  BY <1>3, OpenStays DEF Effects
<1>15. \A j \in 1 .. Len(Plan) :
         EntryDone(Plan[j]) \/ Plan[j] \in Pending => EntryDone(Plan[j])' \/ Plan[j] \in Pending'
  <2> SUFFICES ASSUME NEW j \in 1 .. Len(Plan), EntryDone(Plan[j]) \/ Plan[j] \in Pending
               PROVE  EntryDone(Plan[j])' \/ Plan[j] \in Pending'
    OBVIOUS
  <2>1. PICK r \in Operations : r = Plan[j]
    BY PlanTypes
  <2> QED
    BY <1>11, <1>12, <1>13, <2>1
<1>16. PoolControl'
  BY <1>1, <1>8, <1>9, <1>11, <1>14, <1>15 DEF InPool, PoolControl
<1> QED
  BY <1>5, <1>6, <1>8, <1>9, <1>10, <1>16 DEF InPool, Tables

\* An entry that the main thread has executed or recovered itself.
LEMMA RecordMainKept ==
  ASSUME Outside, InOrder, NEW now \in Times, record_in_main(now)
  PROVE  InOrder' /\ InPool'
<1>1. /\ sup.pc = "observe" /\ sup \in SupRow /\ ReportStop(now) /\ recorded \in RecordedRow
      /\ UNCHANGED <<cp, intents, phase, outcome, asked, pool>> /\ RunOpen /\ ~cp.cancel
  BY DEF record_in_main, At, RunnerUnchanged, PoolRests, llmVars, Outside, SupInv, SuperTypeOK,
         TablesTypeOK, AtPlan, Control, Guarded
<1>2. /\ Op \in Operations /\ More /\ sup.i \in 1 .. Len(Plan)
      /\ \A j \in 1 .. Len(Plan) : j < sup.i => EntryDone(Plan[j])
      /\ Op \in intents /\ outcome[Op] # Open /\ (sup.then = "next" => cp.end[Op] # Open)
  BY <1>1, AtEntryFacts DEF AtEntry, Forward, Outside, SupInv, Control, Executed, Ended
<1>3. PICK q \in Operations : q = Op
  BY <1>2
<1>4. Effects({q}, {}, Run)
  BY <1>1, <1>3, ReportEffects DEF Outside
<1>5. /\ recorded' \in RecordedRow /\ recorded.attempts \subseteq recorded'.attempts
      /\ sup.then # "nothing" => q \in recorded'.attempts
  <2>1. CASE recorded' = recorded /\ sup.then = "nothing"
    BY <1>1, <2>1
  <2>2. CASE Recorded
    <3>1. recorded' = [recorded EXCEPT !.attempts = recorded.attempts \cup {q}]
      BY <1>3, <2>2 DEF Recorded
    <3> QED
      BY <1>1, <3>1 DEF RecordedRow
  <2> QED
    BY <2>1, <2>2 DEF record_in_main
<1>6. AuthInv' /\ TablesTypeOK' /\ Agreement'
  BY <1>1, <1>2, <1>3, <1>4, <1>5, TablesAsked DEF Outside, SupInv, SuperTypeOK
<1>7. InOrder' /\ \A r : has_previous_operation(r)' <=> has_previous_operation(r)
  BY <1>1, OrderSame
<1>8. Pending' = {} /\ WorkersTrue'
  BY <1>1 DEF Outside, Pending, WorkersTrue, WorkerTrue, Working
<1>9. \A r \in Operations : EntryDone(r) => EntryDone(r)'
  BY <1>1, <1>4, <1>5, EntriesStay DEF Effects
<1>10. RunOpen'
  BY <1>1, <1>4, OpenStays DEF Effects
<1>11. sup' \in PoolSup /\ PoolControl'
  <2>1. CASE Goto("drain")
    <3>1. sup' \in PoolSup /\ sup'.pc = "drain"
      BY <1>1, <2>1, MainMoved DEF PoolPCs
    <3> QED
      BY <1>1, <3>1 DEF PoolControl
  <2>2. CASE sup.then = "next" /\ Next_entry("pool")
    <3>1. sup' \in PoolSup /\ sup'.pc = "pool" /\ sup'.i = sup.i + 1
      BY <1>1, <2>2, MainNext
    <3>2. EntryDone(q)'
      BY <1>1, <1>2, <1>3, <1>5, <1>6, <2>2 DEF EntryDone, Agreement
    <3>3. \A j \in 1 .. Len(Plan) : j < sup.i + 1 => EntryDone(Plan[j])'
      <4> SUFFICES ASSUME NEW j \in 1 .. Len(Plan), j < sup.i + 1
                   PROVE  EntryDone(Plan[j])'
        OBVIOUS
      <4>1. PICK r \in Operations : r = Plan[j]
        BY PlanTypes
      <4>2. j < sup.i \/ j = sup.i
        BY <1>2
      <4>3. EntryDone(r) \/ r = q
        BY <1>2, <1>3, <4>1, <4>2 DEF Op
      <4>4. EntryDone(r)'
        BY <1>9, <3>2, <4>3
      <4> QED
        BY <4>1, <4>4
    <3> QED
      BY <1>1, <1>8, <1>10, <3>1, <3>3 DEF PoolControl
  <2> QED
    BY <2>1, <2>2 DEF record_in_main
<1> QED
  BY <1>6, <1>7, <1>8, <1>11 DEF InPool, Tables

-----------------------------------------------------------------------------
(* The workers.                                                            *)

\* A worker goes on, while the main thread is wherever it is.
LEMMA WorkerMoved ==
  ASSUME InPool, InOrder, pool \in PoolRow, NEW p \in Operations, pool.worker[p] # "none",
         NEW state \in WorkerStates, state # "none", Worker(p, state),
         UNCHANGED <<vars, cp, recorded, sup, asked>>, TablesTypeOK',
         intents \subseteq intents', intents' \subseteq intents \cup {p},
         \A r \in intents' : Dispatched(r),
         \A r \in Operations : outcome[r] # Open => outcome'[r] = outcome[r],
         Working(p)' => Working(p), state = "begun" => p \in intents',
         state = "done" => p \in intents' /\ outcome'[p] # Open, state # "delivering"
  PROVE  InOrder' /\ InPool' /\ pool' \in PoolRow
<1>1. /\ pool' \in PoolRow /\ pool'.worker[p] = state
      /\ \A r \in Operations : r # p => pool'.worker[r] = pool.worker[r]
  BY WorkerSet DEF Worker
<1>2. WorkerTrue(p) /\ p \in cp.start
  BY DEF InPool, WorkersTrue, WorkerTrue
<1>3. UNCHANGED <<ops, runs>> /\ Effects({}, {}, Run)
  BY StillEffects DEF vars, InPool, Tables
<1>4. AuthInv' /\ Agreement'
  BY TablesLocal DEF InPool, Tables, Agreement
<1>5. \A r : has_previous_operation(r)' <=> has_previous_operation(r)
  BY <1>2 DEF has_previous_operation
<1>6. InOrder'
  BY <1>5, OrderKept
<1>7. WorkersTrue'
  <2> SUFFICES ASSUME NEW r \in Operations PROVE WorkerTrue(r)'
    BY DEF WorkersTrue
  <2>1. CASE r = p
    <3>1. Working(p)' => RunOpen' /\ cp'.end[p] = Open /\ Dispatched(p)' /\ ops'[p].stopped = Null
      BY <1>2, <1>3 DEF WorkerTrue, RunOpen, Known, Dispatched
    <3> QED
      BY <1>1, <1>2, <2>1, <3>1 DEF WorkerTrue
  <2>2. CASE r # p
    BY <1>1, <1>3, <2>2, WorkerStays DEF InPool, WorkersTrue
  <2> QED
    BY <2>1, <2>2
<1>8. Pending' = Pending
  BY <1>1 DEF Pending
<1>9. /\ Op' = Op /\ More' = More /\ RunOpen' = RunOpen
      /\ \A r : EntryDone(r)' = EntryDone(r) /\ Dispatched(r)' = Dispatched(r)
  BY <1>3, SameEntry DEF RunOpen, Known, EntryDone, Dispatched
<1>10. PoolControl'
  BY <1>3, <1>5, <1>8, <1>9 DEF InPool, PoolControl
<1> QED
  BY <1>1, <1>4, <1>6, <1>7, <1>10 DEF InPool, Tables

LEMMA WorkerStepKept ==
  ASSUME InPool, InOrder, pool \in PoolRow, NEW p \in Operations, WorkerStep(p)
  PROVE  InOrder' /\ InPool' /\ pool' \in PoolRow
<1>1. TablesTypeOK /\ WorkerTrue(p) /\ \A r \in intents : Dispatched(r)
  BY DEF InPool, Tables, WorkersTrue, Agreement
<1>2. CASE worker_begins(p)
  <2>1. /\ pool.worker[p] = "submitted" /\ intents' = intents \cup {p} /\ Worker(p, "begun")
        /\ UNCHANGED <<vars, cp, recorded, phase, outcome, sup, asked>>
    BY <1>2 DEF worker_begins
  <2>2. TablesTypeOK'
    BY <1>1, <2>1 DEF TablesTypeOK, Runner!TypeOK
  <2>3. Working(p) /\ Dispatched(p)
    BY <1>1, <2>1 DEF Working, WorkerTrue
  <2> QED
    BY <1>1, <2>1, <2>2, <2>3, WorkerMoved DEF WorkerStates
<1>3. CASE worker_returns(p)
  <2>1. /\ pool.worker[p] = "begun" /\ Worker(p, "done")
        /\ UNCHANGED <<vars, cp, recorded, intents, sup, asked>>
    BY <1>3 DEF worker_returns
  <2>2. PICK s \in Statuses : Runner!Settle(p, s)
    BY <1>3 DEF worker_returns
  <2>3. /\ Runner!TypeOK' /\ outcome'[p] # Open
        /\ \A r \in Operations : outcome[r] # Open => outcome'[r] = outcome[r]
    BY <1>1, <2>2, RunnerSettles DEF TablesTypeOK
  <2>4. TablesTypeOK' /\ p \in intents /\ Working(p)
    BY <1>1, <2>1, <2>3 DEF TablesTypeOK, WorkerTrue, Working
  <2> QED
    BY <1>1, <2>1, <2>3, <2>4, WorkerMoved DEF WorkerStates
<1>4. CASE worker_raises(p)
  <2>1. /\ Working(p) /\ Worker(p, "failed")
        /\ UNCHANGED <<vars, cp, recorded, intents, phase, outcome, sup, asked>>
    BY <1>4 DEF worker_raises, OnlyPool, allVars, superVars
  <2>2. TablesTypeOK' /\ pool.worker[p] # "none"
    BY <1>1, <2>1 DEF TablesTypeOK, Runner!TypeOK, Working
  <2> QED
    BY <1>1, <2>1, <2>2, WorkerMoved DEF WorkerStates
<1> QED
  BY <1>2, <1>3, <1>4 DEF WorkerStep

-----------------------------------------------------------------------------
(* The theorem.                                                            *)

LEMMA LlmInitial == LlmInit => LlmInv
<1> SUFFICES ASSUME LlmInit PROVE LlmInv
  OBVIOUS
<1>1. SupInv /\ asked = {} /\ pool = NoWorkers /\ sup = Idle
  BY SupInitial DEF LlmInit, PoolEmpty, SuperInit
<1>2. Pending = {} /\ pool \in PoolRow
  BY <1>1, NoWorkersRow DEF Pending
<1>3. \A p \in Operations : ~has_previous_operation(p)
  BY <1>1 DEF LlmInit, SuperInit, SuperTables, has_previous_operation
<1>4. InOrder
  BY <1>3, PlanTypes DEF InOrder
<1> QED
  BY <1>1, <1>2, <1>4, IdleFields DEF LlmInv, Outside, AtPlan

LEMMA MainSteps ==
  ASSUME LlmInv, MainStep
  PROVE  LlmInv'
<1>1. pool \in PoolRow /\ InOrder /\ asked \subseteq Operations
  BY DEF LlmInv
<1>2. sup.pc \in PoolPCs => InPool
  BY PoolPCsApart DEF LlmInv, Outside, SupInv, SuperTypeOK, SupRow
<1>3. sup.pc \in PCs => Outside
  BY PoolPCsApart DEF LlmInv, InPool, PoolSup
<1>4. CASE llm_open
  <2>1. Outside /\ UNCHANGED <<asked, pool>>
    BY <1>3, <1>4 DEF llm_open, At, PCs, Forward, PoolRests, llmVars
  <2> QED
    BY <1>1, <1>4, <2>1, OpenMain DEF LlmInv
<1>5. CASE resume_entry \/ all_delivered
  <2>1. InPool /\ UNCHANGED <<asked, pool>>
    BY <1>2, <1>5 DEF resume_entry, all_delivered, Fills, At, PoolPCs, PoolRests, llmVars
  <2> QED
    BY <1>1, <1>5, <2>1, LeavePool DEF LlmInv
<1>6. CASE ask_start
  <2>1. InPool /\ UNCHANGED pool
    BY <1>2, <1>6 DEF ask_start, Fills, At, PoolPCs
  <2> QED
    BY <1>1, <1>6, <2>1, AskKept DEF LlmInv
<1>7. CASE submit
  <2>1. InPool /\ UNCHANGED asked
    BY <1>2, <1>7 DEF submit, At, PoolPCs
  <2> QED
    BY <1>1, <1>7, <2>1, SubmitKept DEF LlmInv
<1>8. CASE collect
  <2>1. InPool /\ UNCHANGED asked
    BY <1>2, <1>8 DEF collect, At, PoolPCs, OnlyPool
  <2> QED
    BY <1>1, <1>8, <2>1, CollectKept DEF LlmInv
<1>9. CASE llm_raised \/ worker_failed
  <2>1. UNCHANGED <<asked, pool>>
    BY <1>9 DEF llm_raised, worker_failed, PoolRests, llmVars
  <2> QED
    BY <1>1, <1>9, <2>1, RaisedMain DEF LlmInv
<1>10. CASE drained
  <2>1. UNCHANGED asked
    BY <1>10 DEF drained
  <2> QED
    BY <1>1, <1>10, <2>1, PoolLeft DEF LlmInv
<1>11. ASSUME NEW p \in Operations, finish_worker(p) PROVE LlmInv'
  <2>1. InPool /\ UNCHANGED asked
    BY <1>2, <1>11 DEF finish_worker, At, PoolPCs
  <2> QED
    BY <1>1, <1>11, <2>1, FinishWorkerKept DEF LlmInv
<1>12. ASSUME NEW now \in Times, begin_new_operation(now) PROVE LlmInv'
  <2>1. InPool /\ UNCHANGED <<asked, pool>>
    BY <1>2, <1>12 DEF begin_new_operation, At, PoolPCs, PoolRests, llmVars
  <2> QED
    BY <1>1, <1>12, <2>1, BeginNewKept DEF LlmInv
<1>13. ASSUME NEW now \in Times, record_in_main(now) PROVE LlmInv'
  <2>1. Outside /\ UNCHANGED <<asked, pool>>
    BY <1>3, <1>13 DEF record_in_main, At, PCs, Forward, PoolRests, llmVars
  <2> QED
    BY <1>1, <1>13, <2>1, RecordMainKept DEF LlmInv
<1>14. ASSUME NEW now \in Times, NEW p \in Operations, record_completion(now, p) PROVE LlmInv'
  <2>1. InPool /\ UNCHANGED asked
    BY <1>2, <1>14 DEF record_completion, At, PoolPCs
  <2> QED
    BY <1>1, <1>14, <2>1, CompletionKept DEF LlmInv
<1> QED
  BY <1>4, <1>5, <1>6, <1>7, <1>8, <1>9, <1>10, <1>11, <1>12, <1>13, <1>14 DEF MainStep

LEMMA LlmSteps == LlmInv /\ [LlmNext]_<<allVars, llmVars>> => LlmInv'
<1> SUFFICES ASSUME LlmInv, [LlmNext]_<<allVars, llmVars>> PROVE LlmInv'
  OBVIOUS
<1>1. pool \in PoolRow /\ InOrder /\ asked \subseteq Operations
  BY DEF LlmInv
<1>2. CASE MainStep
  BY <1>2, MainSteps
<1>3. ASSUME NEW p \in Operations, WorkerStep(p) PROVE LlmInv'
  <2>1. pool.worker[p] # "none" /\ UNCHANGED asked
    BY <1>3 DEF WorkerStep, worker_begins, worker_returns, worker_raises, Working, OnlyPool
  <2>2. InPool
    BY <2>1 DEF LlmInv, Outside, Pending
  <2> QED
    BY <1>1, <1>3, <2>1, <2>2, WorkerStepKept DEF LlmInv
<1>4. CASE llm_dies
  <2>1. UNCHANGED asked
    BY <1>4 DEF llm_dies
  <2> QED
    BY <1>1, <1>4, <2>1, PoolLeft DEF LlmInv
<1>5. ASSUME PoolRests, SharedStep \/ \E mode \in {"run", "resume", "cancel"} : execute(mode)
      PROVE  LlmInv'
  <2>1. Outside
    BY <1>5, SharedAway DEF LlmInv, InPool, PoolSup
  <2> QED
    BY <1>1, <1>5, <2>1, SharedKept DEF LlmInv, PoolRests, llmVars
<1>6. ASSUME UNCHANGED <<asked, pool>>,
             \/ \E p \in Operations : fixture_starts(p) \/ fixture_ends(p)
             \/ ChangeConditions /\ UNCHANGED superVars
             \/ UNCHANGED allVars
      PROVE  LlmInv'
  <2>1. InOrder'
    BY <1>1, <1>6, BesideOrder
  <2>2. Outside' \/ InPool'
    BY <1>6, BesidePool, BesideMain DEF LlmInv
  <2> QED
    BY <1>1, <1>6, <2>1, <2>2 DEF LlmInv
<1> QED
  BY <1>2, <1>3, <1>4, <1>5, <1>6 DEF LlmNext, PoolRests, llmVars

LEMMA LlmAlways == LlmSpec => []LlmInv
BY LlmInitial, LlmSteps, PTL DEF LlmSpec

\* What the main thread and the authority believe of the pool of an LLM run is so
\* (run_entries and run_worker of llm_supervised_run.py): an operation a worker has is
\* dispatched and not reported as stopped, and its run neither closed nor given a
\* receipt; in the close and the cancellation no worker is left.  The ends that the
\* authority holds are real here too, with the executions of all workers.
THEOREM LlmPoolCorrect == LlmSpec => [](PoolHolds /\ EndsAreReal)
BY LlmAlways, LlmGoal, PTL

\* The same for the workers of a pool: while the cancellation is asked for there is
\* none, and what is left of the supervisor's steps announces nothing.
LEMMA LlmNoBeginStep ==
  LlmInv /\ [LlmNext]_<<allVars, llmVars>> => [NoBeginAfterCancelStep]_allVars
<1> SUFFICES ASSUME LlmInv, LlmNext, cp.cancel PROVE intents' = intents
  BY DEF NoBeginAfterCancelStep, allVars, superVars
<1>1. Outside
  BY DEF LlmInv, InPool, PoolControl
<1>2. CASE MainStep
  BY <1>2 DEF MainStep, llm_open, resume_entry, ask_start, submit, collect, worker_failed,
              all_delivered, llm_raised, drained, finish_worker, begin_new_operation,
              record_in_main, record_completion, OnlySup, OnlyAuthority, OnlyCheckpoint,
              OnlyPool, RunnerUnchanged, allVars, superVars
<1>3. ASSUME NEW p \in Operations, WorkerStep(p) PROVE intents' = intents
  BY <1>1, <1>3 DEF WorkerStep, worker_begins, worker_returns, worker_raises, Working, Outside,
                    Pending
<1>4. CASE llm_dies
  BY <1>4 DEF llm_dies, die
<1>5. ASSUME \/ SharedStep
             \/ \E mode \in {"run", "resume", "cancel"} : execute(mode)
             \/ \E p \in Operations : fixture_starts(p) \/ fixture_ends(p)
             \/ ChangeConditions /\ UNCHANGED superVars
      PROVE  intents' = intents
  <2>1. SuperNext
    BY <1>5 DEF SharedStep, SuperNext, RunStep
  <2> QED
    BY <1>1, <2>1, NoBeginStep DEF Outside, NoBeginAfterCancelStep, allVars, superVars
<1> QED
  BY <1>2, <1>3, <1>4, <1>5 DEF LlmNext

\* Once the cancellation of an LLM run is saved neither its main thread nor a worker
\* announces an execution, however often it is started again (run_entries, run_worker
\* and the cancellation that waits for the pool in llm_supervised_run.py).
THEOREM LlmStopsBeginning == LlmSpec => NoBeginAfterCancel
BY LlmAlways, LlmNoBeginStep, PTL DEF LlmSpec, NoBeginAfterCancel

-----------------------------------------------------------------------------
(* The scenes of the model-checked instance, for any instance.             *)

NoDiagnosis == saved = {} /\ delivered = FALSE

\* In each scene the invariant of its actor, and the others as they began.
SceneInv ==
  \/ In("off") /\ NoDiagnosis /\ PoolEmpty /\ SupInv
  \/ In("llm") /\ NoDiagnosis /\ LlmInv
  \/ At("off") /\ PoolEmpty /\ DiagInv

LEMMA SceneInitial == SceneInit => SceneInv
<1> SUFFICES ASSUME SceneInit PROVE SceneInv
  OBVIOUS
<1>1. SuperTables /\ NothingSaved /\ PoolEmpty
  BY DEF SceneInit
<1>2. CASE sup = Idle /\ In("off")
  BY <1>1, <1>2, SupInitial DEF SceneInv, NoDiagnosis, NothingSaved, SuperInit
<1>3. CASE sup = Idle /\ In("llm")
  BY <1>1, <1>3, LlmInitial DEF SceneInv, NoDiagnosis, NothingSaved, SuperInit, LlmInit
<1>4. CASE At("off") /\ con = Absent
  BY <1>1, <1>4, DiagInitial DEF SceneInv, NothingSaved, DiagInit
<1> QED
  BY <1>2, <1>3, <1>4, IdleFields DEF SceneInit, In, At, Absent, Idle

\* A diagnosis leaves the local variables of a supervisor alone.
LEMMA DiagSuperRests ==
  ASSUME DiagNext
  PROVE  sup' = sup
<1>1. ASSUME NEW now \in Times,
             \/ run_begin_v2(now) \/ inspect(now) \/ read_fresh(now)
             \/ start_operation(now) \/ observe_end(now) \/ evidence_record_v2(now)
             \/ begin_snapshot(now) \/ claim_to_close(now) \/ close_diagnosis(now)
             \/ recover_claim(now) \/ recover_observe(now) \/ recover_close(now)
      PROVE  sup' = sup
  BY <1>1 DEF run_begin_v2, inspect, read_fresh, start_operation, observe_end,
              evidence_record_v2, begin_snapshot, claim_to_close, close_diagnosis,
              recover_claim, recover_observe, recover_close, OnlyRequest, SuperRest
<1>2. CASE \/ launch \/ begin_saved \/ recover_local \/ nothing_to_recover \/ read_stale
           \/ start_saved \/ announce \/ run_fixture \/ fixture_returns \/ end_saved
           \/ already_observed \/ attempt_saved \/ snapshot_stale \/ close_checkpoint
           \/ turned_away
  BY <1>2 DEF launch, begin_saved, recover_local, nothing_to_recover, read_stale, start_saved,
              announce, run_fixture, fixture_returns, end_saved, already_observed, attempt_saved,
              snapshot_stale, close_checkpoint, turned_away, OnlyConsumer, OnlySaved, SuperRest,
              allVars, superVars
<1>3. CASE \/ recovery_fails \/ read_fails \/ snapshot_fails \/ consumer_dies
           \/ fixture_starts(DOp) \/ fixture_ends(DOp) \/ UNCHANGED superVars
  BY <1>3 DEF recovery_fails, read_fails, snapshot_fails, consumer_dies, fixture_starts,
              fixture_ends, SuperRest, superVars
<1> QED
  BY <1>1, <1>2, <1>3 DEF DiagNext, ConsumerStep

LEMMA SceneSteps == SceneInv /\ [SceneNext]_sceneVars => SceneInv'
<1> SUFFICES ASSUME SceneInv, [SceneNext]_sceneVars PROVE SceneInv'
  OBVIOUS
<1>1. SupInv \/ LlmInv => ~At("off")
  BY DEF SupInv, SuperTypeOK, SupRow, PCs, Forward, Sweeping, LlmInv, Outside, InPool, PoolSup,
         PoolPCs, At
<1>2. DiagInv => ~In("off") /\ ~In("llm")
  BY DEF DiagInv, DiagTypeOK, ConRow, ConPCs, Returning, Delivering, Recovering, In
<1>3. In("off") => ~In("llm")
  BY DEF In
<1>4. CASE In("off") /\ SuperNext /\ UNCHANGED <<diagVars, llmVars>>
  <2>1. SupInv /\ NoDiagnosis /\ PoolEmpty
    BY <1>2, <1>3, <1>4 DEF SceneInv
  <2>2. SupInv'
    BY <1>4, <2>1, SupSteps
  <2> QED
    BY <1>4, <2>1, <2>2 DEF SceneInv, In, NoDiagnosis, PoolEmpty, diagVars, llmVars
<1>5. CASE In("llm") /\ LlmNext /\ UNCHANGED diagVars
  <2>1. LlmInv /\ NoDiagnosis
    BY <1>2, <1>3, <1>5 DEF SceneInv
  <2>2. LlmInv'
    BY <1>5, <2>1, LlmSteps
  <2> QED
    BY <1>5, <2>1, <2>2 DEF SceneInv, In, NoDiagnosis, diagVars
<1>6. CASE At("off") /\ DiagNext /\ UNCHANGED llmVars
  <2>1. DiagInv /\ PoolEmpty
    BY <1>1, <1>6 DEF SceneInv
  <2>2. DiagInv'
    BY <1>6, <2>1, DiagSteps
  <2>3. sup' = sup
    BY <1>6, DiagSuperRests
  <2> QED
    BY <1>6, <2>1, <2>2, <2>3 DEF SceneInv, At, PoolEmpty, llmVars
<1>7. CASE UNCHANGED sceneVars
  <2>1. UNCHANGED everything /\ UNCHANGED llmVars /\ UNCHANGED allVars /\ UNCHANGED diagVars
    BY <1>7 DEF sceneVars, everything
  <2>2. SupInv => SupInv'
    BY <2>1, NothingChangesKept
  <2>3. LlmInv => LlmInv'
    BY <2>1, LlmSteps
  <2>4. DiagInv => DiagInv'
    BY <2>1, DiagSteps
  <2> QED
    BY <2>1, <2>2, <2>3, <2>4
       DEF SceneInv, In, At, NoDiagnosis, PoolEmpty, diagVars, llmVars, allVars, superVars
<1> QED
  BY <1>4, <1>5, <1>6, <1>7 DEF SceneNext

LEMMA SceneGoal == SceneInv => ActorsHold
<1> SUFFICES ASSUME SceneInv PROVE ActorsHold
  OBVIOUS
<1>1. ASSUME NoDiagnosis, AuthInv, Agreement PROVE DiagnosisHolds
  <2>1. Exists /\ ops[DOp].stopped # Null => outcome[DOp] # Open
    BY <1>1 DEF Agreement, Exists
  <2>2. ~(Known(DRun) /\ runs[DRun].closed)
    BY <1>1, DiagnosticAssumption, SupervisedAssumption DEF Agreement, OwnClose, Known
  <2> QED
    BY <1>1, <2>1, <2>2
       DEF DiagnosisHolds, DiagnosedStopsAreReal, AttemptsAreSuccesses, ResultsAreClosed,
           NoDiagnosis
<1>2. PoolEmpty => PoolHolds
  <2>1. PoolEmpty => Pending = {} /\ \A p \in Operations : ~Working(p)
    BY NoWorkersRow DEF PoolEmpty, Pending, Working
  <2> QED
    BY <2>1 DEF PoolHolds, WorkersAreKnown, NoWorkerLeft
<1>3. SupInv \/ LlmInv => AuthInv /\ Agreement
  BY DEF SupInv, LlmInv, Outside, InPool, Tables
<1> QED
  BY <1>1, <1>2, <1>3, LlmGoal, DiagGoal DEF SceneInv, ActorsHold

\* What the consumer of one entry (execute_one_entry of partitioned_diagnostic_run.py)
\* and the main thread of a pool (run_entries of llm_supervised_run.py) take for true of
\* their operations is true, whichever of the supervisors owns the tables, for any
\* plan and any constants of the scenes.
THEOREM ScenesCorrect == SceneSpec => []ActorsHold
BY SceneInitial, SceneSteps, SceneGoal, PTL DEF SceneSpec
=============================================================================
