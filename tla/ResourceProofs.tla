---------------------------- MODULE ResourceProofs ----------------------------
(***************************************************************************)
(* Proofs about the resource book, the requests of the authority to it and *)
(* the combined runs: for any number of runs, owners, operations, events   *)
(* and entries, and any limits.                                            *)
(*                                                                         *)
(* Every method of the book keeps the invariant of the book, whoever calls *)
(* it; the authority and the combined runs add to it what is bound, what   *)
(* has ended and what is to stop.                                          *)
(***************************************************************************)
EXTENDS CombinedRuns, FiniteSetTheorems, TLAPS

-----------------------------------------------------------------------------
(* The invariant of the book.                                              *)

\* Its operation was released, or has stopped and was settled.
AccountedFor(op) == op.released \/ (op.stopped # Null /\ Settled(op))

\* What holds of a row of an operation, given the row of its run and the clock.
OpSound(op, run, clock) ==
  /\ ValidReservation(op.reserved)
  /\ op.epoch \in 1 .. run.epoch
  /\ op.intended # Null => op.intended \in run.created .. clock
  /\ op.stopped # Null =>
       op.intended # Null /\ op.stopped >= op.intended /\ op.stopped <= clock
  /\ op.settledAt # Null =>
       op.intended # Null /\ op.settledAt >= op.intended /\ op.settledAt <= clock
  /\ op.released => op.intended = Null /\ run.cancelled
  /\ op.conflicted => op.intended # Null /\ run.breached
  /\ ~op.conflicted => op.exposure = 0
  /\ op.usage = NoUsage <=> op.settledAt = Null
  /\ op.usage = NoUsage <=> op.cost = Null
  /\ op.usage # NoUsage =>
       /\ op.cost = CostOf(op.usage)
       /\ op.cost = 0 => op.reserved.cost = 0
       /\ Exceeds(op, op.usage) => run.breached
  /\ run.closed /\ ~run.breached => AccountedFor(op)

\* What holds of the event v: its operation was dispatched and is charged.
EventSound(v) ==
  LET op == ops[events[v].op]
  IN /\ op.intended # Null
     /\ IF op.conflicted THEN Larger(op.reserved.cost, op.exposure) >= CostOf(events[v].usage)
        ELSE events[v].usage \in {NoUsage, op.usage}

\* No grant is ahead of its run, and those of the present epoch are its owner's.
GrantsSound ==
  \A g \in grants :
    /\ g.run \in DOMAIN runs /\ g.epoch <= runs[g.run].epoch
    /\ g.epoch = runs[g.run].epoch => g.owner = runs[g.run].owner

BreachHasReason(r) ==
  runs[r].breached => (\E p \in OpsOf(r) : Suspect(p)) \/ lastClock > runs[r].deadline

BookInv ==
  /\ TypeOK /\ IsFiniteSet(DOMAIN ops)
  /\ \A p \in DOMAIN ops : OpSound(ops[p], runs[ops[p].run], lastClock)
  /\ \A v \in DOMAIN events : EventSound(v)
  /\ \A r \in DOMAIN runs :
       /\ runs[r].created <= lastClock /\ runs[r].epoch >= 1
       /\ BreachHasReason(r)
  /\ GrantsSound /\ EpochFencing /\ SlotsBounded

-----------------------------------------------------------------------------
(* Facts about amounts and slots.                                          *)

LEMMA MicrosNat ==
  ASSUME NEW usd \in Nat
  PROVE  Micros(usd) \in Nat
BY BookAssumption DEF Micros

LEMMA CostOfNat ==
  ASSUME NEW usage \in Usages \cup {NoUsage}
  PROVE  CostOf(usage) \in Nat
BY MicrosNat, BookAssumption DEF CostOf, UsageRow

LEMMA SlotsCount ==
  ASSUME TypeOK, IsFiniteSet(DOMAIN ops), NEW r
  PROVE  /\ Slots(r) \in Nat
         /\ Slots(r) = 0 <=> \A p \in Counted(r) : ops[p].stopped # Null
<1> DEFINE S == {p \in Counted(r) : ops[p].stopped = Null}
<1>1. IsFiniteSet(S)
  <2>1. S \subseteq DOMAIN ops
    BY DEF Counted, OpsOf
  <2> QED
    BY <2>1, FS_Subset
<1>2. Cardinality(S) \in Nat /\ (Cardinality(S) = 0 <=> S = {})
  BY <1>1, FS_CardinalityType, FS_EmptySet
<1> QED
  BY <1>2 DEF Slots

\* The same of the state after a step.
LEMMA SlotsCountNext ==
  ASSUME TypeOK', IsFiniteSet(DOMAIN ops'), NEW r
  PROVE  Slots(r)' \in Nat
<1>1. PICK T : T = {p \in Counted(r)' : ops'[p].stopped = Null}
  OBVIOUS
<1>2. IsFiniteSet(T)
  <2>1. T \subseteq DOMAIN ops'
    BY <1>1 DEF Counted, OpsOf
  <2> QED
    BY <2>1, FS_Subset
<1>3. Cardinality(T) \in Nat /\ Slots(r)' = Cardinality(T)
  BY <1>1, <1>2, FS_CardinalityType DEF Slots
<1> QED
  BY <1>3

\* The invariant says what the users of the book rely on.
LEMMA BookGoal == BookInv => BookInOrder /\ DisputeCharged /\ SlotsBounded
<1> SUFFICES ASSUME BookInv PROVE BookInOrder /\ DisputeCharged /\ SlotsBounded
  OBVIOUS
<1>1. TypeOK /\ EpochFencing /\ SlotsBounded
  BY DEF BookInv
<1>2. Inspectable
  <2> SUFFICES ASSUME NEW p \in DOMAIN ops
               PROVE  LET op == ops[p]
                          run == runs[op.run]
                      IN /\ ValidReservation(op.reserved)
                         /\ op.epoch \in 1 .. run.epoch
                         /\ \A t \in {op.intended, op.stopped, op.settledAt} \ {Null} :
                              t \in run.created .. lastClock
                         /\ op.released => op.intended = Null
                         /\ op.stopped # Null => op.intended # Null /\ op.stopped >= op.intended
                         /\ op.settledAt # Null =>
                              op.intended # Null /\ op.settledAt >= op.intended
                         /\ op.conflicted => op.intended # Null
                         /\ ~op.conflicted => op.exposure = 0
                         /\ (op.usage = NoUsage) = (op.settledAt = Null)
                         /\ (op.usage = NoUsage) = (op.cost = Null)
                         /\ op.usage # NoUsage =>
                              /\ op.cost = Micros(op.usage.cost)
                              /\ op.cost = 0 => op.reserved.cost = 0
    BY DEF Inspectable
  <2>1. OpSound(ops[p], runs[ops[p].run], lastClock) /\ ops[p] \in OpRow
    BY <1>1 DEF BookInv, TypeOK, IsTable
  <2>2. runs[ops[p].run] \in RunRow /\ lastClock \in Int
    BY <1>1 DEF TypeOK, IsTable
  <2>3. ASSUME NEW t \in {ops[p].intended, ops[p].stopped, ops[p].settledAt} \ {Null}
        PROVE  t \in runs[ops[p].run].created .. lastClock
    BY <2>1, <2>2 DEF OpSound, OpRow, RunRow, Null
  <2> QED
    BY <2>1, <2>3 DEF OpSound, CostOf
<1>3. ClosedAccounted
  <2> SUFFICES ASSUME NEW r \in DOMAIN runs, runs[r].closed, ~runs[r].breached
               PROVE  Slots(r) = 0 /\ Unsettled(r) = {}
    BY DEF ClosedAccounted
  <2>1. \A p \in Counted(r) : ops[p].stopped # Null /\ Settled(ops[p])
    BY DEF BookInv, OpSound, AccountedFor, Counted, OpsOf
  <2> QED
    BY <1>1, <2>1, SlotsCount DEF BookInv, Unsettled
<1>4. BreachExplained
  <2> SUFFICES ASSUME NEW r \in DOMAIN runs
               PROVE  /\ (\E p \in OpsOf(r) : Suspect(p)) => runs[r].breached
                      /\ runs[r].breached =>
                           (\E p \in OpsOf(r) : Suspect(p)) \/ lastClock > runs[r].deadline
    BY DEF BreachExplained
  <2>1. ASSUME NEW p \in OpsOf(r), Suspect(p) PROVE runs[r].breached
    BY <2>1 DEF BookInv, OpSound, OpsOf, Suspect, Exceeds
  <2> QED
    BY <2>1 DEF BookInv, BreachHasReason
<1>5. DisputeCharged
  BY DEF BookInv, DisputeCharged, EventSound, Cost, Settled
<1> QED
  BY <1>1, <1>2, <1>3, <1>4, <1>5 DEF BookInOrder

-----------------------------------------------------------------------------
(* What every step keeps.                                                  *)

\* The row of a run after a step.
Grows(run, next) ==
  /\ next.profile = run.profile /\ next.created = run.created /\ next.deadline = run.deadline
  /\ run.epoch <= next.epoch
  /\ run.cancelled => next.cancelled
  /\ run.breached => next.breached
  /\ run.closed => next.closed

LEMMA GrowsItself ==
  ASSUME NEW run \in RunRow
  PROVE  Grows(run, run)
BY DEF Grows, RunRow

\* A row that is not written stays sound.
LEMMA SoundStays ==
  ASSUME NEW op \in OpRow, NEW run \in RunRow, NEW next \in RunRow, NEW c \in Int, NEW d \in Int,
         c <= d, OpSound(op, run, c), Grows(run, next),
         next.closed /\ ~next.breached => run.closed \/ AccountedFor(op)
  PROVE  OpSound(op, next, d)
<1>1. /\ op.epoch \in Nat /\ run.epoch \in Nat /\ next.epoch \in Nat /\ run.created \in Nat
      /\ op.intended \in Int /\ op.stopped \in Int /\ op.settledAt \in Int
  BY DEF OpRow, RunRow, Null
<1>2. op.epoch \in 1 .. next.epoch
  BY <1>1 DEF OpSound, Grows
<1>3. /\ op.intended # Null => op.intended \in next.created .. d
      /\ op.stopped # Null => op.stopped <= d
      /\ op.settledAt # Null => op.settledAt <= d
  BY <1>1 DEF OpSound, Grows
<1>4. next.closed /\ ~next.breached => AccountedFor(op)
  BY DEF OpSound, Grows
<1> QED
  BY <1>1, <1>2, <1>3, <1>4 DEF OpSound, Grows

\* No slot is taken by a step that adds no operation.
LEMMA SlotsFall ==
  ASSUME TypeOK, TypeOK', IsFiniteSet(DOMAIN ops), DOMAIN ops' \subseteq DOMAIN ops, NEW r,
         \A p \in DOMAIN ops' :
           /\ ops'[p].run = ops[p].run
           /\ ops[p].released => ops'[p].released
           /\ ops[p].stopped # Null => ops'[p].stopped # Null
  PROVE  Slots(r)' <= Slots(r)
<1> DEFINE S == {p \in Counted(r) : ops[p].stopped = Null}
<1>1. IsFiniteSet(S)
  <2>1. S \subseteq DOMAIN ops
    BY DEF Counted, OpsOf
  <2> QED
    BY <2>1, FS_Subset
<1>2. PICK T : T = {p \in Counted(r)' : ops'[p].stopped = Null}
  OBVIOUS
<1>3. T \subseteq S
  BY <1>2 DEF Counted, OpsOf
<1>4. Cardinality(T) <= Cardinality(S)
  BY <1>1, <1>3, FS_Subset
<1>5. Slots(r)' = Cardinality(T) /\ Slots(r) = Cardinality(S)
  BY <1>2 DEF Slots
<1> QED
  BY <1>4, <1>5

\* A claim takes the present epoch of its own or the next one.
LEMMA GrantsStay ==
  ASSUME BookInv, NEW r \in DOMAIN runs, NEW row \in RunRow, runs' = [runs EXCEPT ![r] = row],
         \/ grants' = grants /\ row.owner = runs[r].owner /\ row.epoch = runs[r].epoch
         \/ /\ grants' = Granted(r, row.owner, row.epoch)
            /\ \/ row.epoch = runs[r].epoch /\ row.owner = runs[r].owner
               \/ row.epoch = runs[r].epoch + 1
  PROVE  GrantsSound' /\ EpochFencing'
<1>1. TypeOK /\ GrantsSound /\ EpochFencing
  BY DEF BookInv
<1>2. /\ DOMAIN runs' = DOMAIN runs /\ runs'[r] = row
      /\ \A x \in DOMAIN runs : x # r => runs'[x] = runs[x]
  BY <1>1 DEF TypeOK, IsTable
<1>3. \A x \in DOMAIN runs : runs[x].epoch \in Nat
  BY <1>1 DEF TypeOK, IsTable, RunRow
<1>4. row.epoch \in Nat
  BY DEF RunRow
<1>5. \A g \in grants : g.epoch \in Nat
  BY <1>1 DEF TypeOK, GrantRow
<1>6. CASE grants' = grants /\ row.owner = runs[r].owner /\ row.epoch = runs[r].epoch
  BY <1>1, <1>2, <1>6 DEF GrantsSound, EpochFencing
<1>7. CASE /\ grants' = Granted(r, row.owner, row.epoch)
           /\ \/ row.epoch = runs[r].epoch /\ row.owner = runs[r].owner
              \/ row.epoch = runs[r].epoch + 1
  <2>1. PICK n : n = [run |-> r, owner |-> row.owner, epoch |-> row.epoch]
    OBVIOUS
  <2>2. grants' = grants \cup {n} /\ n.run = r /\ n.owner = row.owner /\ n.epoch = row.epoch
    BY <1>7, <2>1 DEF Granted
  <2>3. ASSUME NEW g \in grants
        PROVE  /\ g.run \in DOMAIN runs' /\ g.epoch <= runs'[g.run].epoch
               /\ g.epoch = runs'[g.run].epoch => g.owner = runs'[g.run].owner
               /\ g.run = n.run /\ g.epoch = n.epoch => g.owner = n.owner
    <3>1. /\ g.run \in DOMAIN runs /\ g.epoch <= runs[g.run].epoch
          /\ g.epoch = runs[g.run].epoch => g.owner = runs[g.run].owner
      BY <1>1 DEF GrantsSound
    <3>2. CASE g.run # r
      BY <1>2, <2>2, <3>1, <3>2
    <3>3. CASE g.run = r
      BY <1>2, <1>3, <1>4, <1>5, <1>7, <2>2, <3>1, <3>3
    <3> QED
      BY <3>2, <3>3
  <2>4. GrantsSound'
    BY <1>2, <1>4, <2>2, <2>3 DEF GrantsSound
  <2>5. EpochFencing'
    BY <1>1, <2>2, <2>3 DEF EpochFencing
  <2> QED
    BY <2>4, <2>5
<1> QED
  BY <1>6, <1>7

-----------------------------------------------------------------------------
(* How a step changes the tables.                                          *)

\* The row of an operation after a step.
OpGrows(op, next) ==
  /\ next.run = op.run /\ next.epoch = op.epoch /\ next.reserved = op.reserved
  /\ op.released => next.released
  /\ op.intended # Null => next.intended = op.intended
  /\ op.stopped # Null => next.stopped = op.stopped
  /\ op.usage # NoUsage => next.usage = op.usage

\* An operation is new, or is sent to execution.
Starts(p) == p \in DOMAIN ops => ops'[p].intended # ops[p].intended

\* Rows are neither lost nor taken back, and what starts may start.
Moves ==
  /\ lastClock <= lastClock'
  /\ \A r \in DOMAIN runs : r \in DOMAIN runs' /\ Grows(runs[r], runs'[r])
  /\ \A p \in DOMAIN ops : p \in DOMAIN ops' /\ OpGrows(ops[p], ops'[p])
  /\ \A p \in DOMAIN ops' : Starts(p) =>
       LET r == ops'[p].run
       IN /\ r \in DOMAIN runs /\ ~runs[r].closed /\ ~StartDenied(r, lastClock')
          /\ p \in DOMAIN ops => ops[p].intended = Null /\ ops[p].epoch = runs[r].epoch

LEMMA TouchClock ==
  ASSUME TypeOK, NEW now \in Times, Touch(now)
  PROVE  /\ now \in Nat /\ lastClock \in Int
         /\ lastClock' = now /\ lastClock <= now
BY BookAssumption DEF TypeOK, Times, Touch

LEMMA RowTypes ==
  ASSUME TypeOK
  PROVE  /\ \A r \in DOMAIN runs : runs[r] \in RunRow /\ r \in Runs
         /\ \A p \in DOMAIN ops : ops[p] \in OpRow /\ ops[p].run \in DOMAIN runs /\ p \in Operations
BY DEF TypeOK, IsTable

\* A step of which the book only learns the time.
LEMMA ClockStep ==
  ASSUME BookInv, lastClock' \in Nat, lastClock <= lastClock',
         UNCHANGED <<runs, ops, events, grants>>
  PROVE  BookInv' /\ Moves
<1>1. TypeOK /\ TypeOK' /\ lastClock \in Int /\ lastClock' \in Int
  BY DEF BookInv, TypeOK
<1>2. ASSUME NEW p \in DOMAIN ops'
      PROVE  OpSound(ops'[p], runs'[ops'[p].run], lastClock')
  <2>1. OpSound(ops[p], runs[ops[p].run], lastClock) /\ ops[p] \in OpRow /\ runs[ops[p].run] \in RunRow
    BY <1>1, RowTypes DEF BookInv
  <2>2. OpSound(ops[p], runs[ops[p].run], lastClock')
    BY <1>1, <2>1, GrowsItself, SoundStays DEF OpSound
  <2> QED
    BY <2>2
<1>3. \A v \in DOMAIN events' : EventSound(v)'
  BY DEF BookInv, EventSound
<1>4. ASSUME NEW r \in DOMAIN runs'
      PROVE  runs'[r].created <= lastClock' /\ runs'[r].epoch >= 1 /\ BreachHasReason(r)'
  <2>1. runs[r].created <= lastClock /\ runs[r].epoch >= 1 /\ BreachHasReason(r) /\ runs[r] \in RunRow
    BY <1>1, RowTypes DEF BookInv
  <2> QED
    BY <1>1, <2>1 DEF BreachHasReason, OpsOf, Suspect, RunRow
<1>5. (GrantsSound /\ EpochFencing /\ SlotsBounded)'
  BY DEF BookInv, GrantsSound, EpochFencing, SlotsBounded, Slots, Counted, OpsOf
<1>6. Moves
  BY <1>1, RowTypes, GrowsItself DEF Moves, OpGrows, Starts
<1> QED
  BY <1>1, <1>2, <1>3, <1>4, <1>5, <1>6 DEF BookInv

\* The slots of every run stay within its limit when none is taken.
LEMMA SlotsStay ==
  ASSUME BookInv, TypeOK', IsFiniteSet(DOMAIN ops'), DOMAIN ops' \subseteq DOMAIN ops,
         \A p \in DOMAIN ops' :
           /\ ops'[p].run = ops[p].run
           /\ ops[p].released => ops'[p].released
           /\ ops[p].stopped # Null => ops'[p].stopped # Null,
         DOMAIN runs' = DOMAIN runs, \A x \in DOMAIN runs : runs'[x].profile = runs[x].profile
  PROVE  SlotsBounded'
<1> SUFFICES ASSUME NEW x \in DOMAIN runs'
             PROVE  Slots(x)' <= Limits[runs'[x].profile].concurrent
  BY DEF SlotsBounded
<1>1. /\ x \in DOMAIN runs /\ runs[x] \in RunRow /\ runs'[x].profile = runs[x].profile
      /\ TypeOK /\ IsFiniteSet(DOMAIN ops)
  BY RowTypes DEF BookInv
<1>2. Slots(x) <= Limits[runs[x].profile].concurrent
  BY <1>1 DEF BookInv, SlotsBounded
<1>3. Slots(x)' <= Slots(x)
  BY <1>1, SlotsFall
<1>4. Slots(x) \in Int
  BY <1>1, SlotsCount
<1>5. Slots(x)' \in Int
  BY SlotsCountNext
<1>6. Limits[runs[x].profile].concurrent \in Int
  BY <1>1, BookAssumption DEF RunRow, LimitRow
<1> QED
  BY <1>1, <1>2, <1>3, <1>4, <1>5, <1>6

-----------------------------------------------------------------------------
(* One row of a run is written: a claim, a cancellation, a close.          *)

\* What may become of the row of the run r.
RowChange(r, row) ==
  /\ runs' = [runs EXCEPT ![r] = row]
  /\ Grows(runs[r], row) /\ row.breached = runs[r].breached

\* Who is granted what by it.
GrantChange(r, row) ==
  \/ grants' = grants /\ row.owner = runs[r].owner /\ row.epoch = runs[r].epoch
  \/ /\ grants' = Granted(r, row.owner, row.epoch)
     /\ \/ row.epoch = runs[r].epoch /\ row.owner = runs[r].owner
        \/ row.epoch = runs[r].epoch + 1

LEMMA GrantTypes ==
  ASSUME TypeOK, NEW r \in Runs, NEW row \in RunRow, GrantChange(r, row)
  PROVE  grants' \subseteq GrantRow
BY DEF TypeOK, GrantChange, Granted, GrantRow, RunRow

LEMMA RowWritten ==
  ASSUME TypeOK, NEW r \in DOMAIN runs, NEW row \in RunRow, RowChange(r, row)
  PROVE  /\ DOMAIN runs' = DOMAIN runs /\ runs'[r] = row
         /\ \A x \in DOMAIN runs : x # r => runs'[x] = runs[x]
         /\ \A x \in DOMAIN runs : /\ runs'[x] \in RunRow /\ Grows(runs[x], runs'[x])
                                   /\ runs'[x].breached = runs[x].breached
         /\ IsTable(runs', Runs, RunRow)
<1>1. IsTable(runs, Runs, RunRow)
  BY DEF TypeOK
<1>2. /\ DOMAIN runs' = DOMAIN runs /\ runs'[r] = row
      /\ \A x \in DOMAIN runs : x # r => runs'[x] = runs[x]
  BY <1>1 DEF RowChange, IsTable
<1>3. ASSUME NEW x \in DOMAIN runs
      PROVE  /\ runs'[x] \in RunRow /\ Grows(runs[x], runs'[x])
             /\ runs'[x].breached = runs[x].breached
  <2>1. runs[x] \in RunRow
    BY RowTypes
  <2> QED
    BY <1>2, <2>1, GrowsItself DEF RowChange
<1>4. runs' \in [DOMAIN runs -> RunRow]
  BY <1>1, <1>2, <1>3 DEF RowChange, IsTable
<1> QED
  BY <1>1, <1>2, <1>3, <1>4 DEF IsTable

LEMMA Released ==
  ASSUME TypeOK, NEW r, ops' = ReleasedOps(r)
  PROVE  /\ DOMAIN ops' = DOMAIN ops /\ IsTable(ops', Operations, OpRow)
         /\ \A p \in DOMAIN ops :
              \/ ops'[p] = ops[p]
              \/ ops'[p] = [ops[p] EXCEPT !.released = TRUE] /\ ops[p].run = r /\ ops[p].intended = Null
<1>1. /\ DOMAIN ops' = DOMAIN ops
      /\ \A p \in DOMAIN ops :
           \/ ops'[p] = ops[p]
           \/ ops'[p] = [ops[p] EXCEPT !.released = TRUE] /\ ops[p].run = r /\ ops[p].intended = Null
  BY Zenon DEF ReleasedOps, ReleasedByCancel
<1>2. \A p \in DOMAIN ops : ops'[p] \in OpRow
  <2> SUFFICES ASSUME NEW p \in DOMAIN ops PROVE ops'[p] \in OpRow
    OBVIOUS
  <2>1. ops[p] \in OpRow
    BY RowTypes
  <2>2. [ops[p] EXCEPT !.released = TRUE] \in OpRow
    BY <2>1 DEF OpRow
  <2> QED
    BY <1>1, <2>1, <2>2
<1>3. ops' = [p \in DOMAIN ops' |-> ops'[p]]
  BY DEF ReleasedOps
<1> QED
  BY <1>1, <1>2, <1>3 DEF IsTable, TypeOK

LEMMA ReleaseSound ==
  ASSUME NEW op \in OpRow, NEW run \in RunRow, NEW c \in Int, OpSound(op, run, c),
         op.intended = Null, run.cancelled
  PROVE  OpSound([op EXCEPT !.released = TRUE], run, c)
<1> DEFINE rel == [op EXCEPT !.released = TRUE]
<1>1. /\ rel.reserved = op.reserved /\ rel.epoch = op.epoch /\ rel.intended = op.intended
      /\ rel.stopped = op.stopped /\ rel.settledAt = op.settledAt /\ rel.released
      /\ rel.conflicted = op.conflicted /\ rel.exposure = op.exposure
      /\ rel.usage = op.usage /\ rel.cost = op.cost
  BY DEF OpRow
<1>2. AccountedFor(rel)
  BY <1>1 DEF AccountedFor
<1>3. Exceeds(rel, rel.usage) = Exceeds(op, op.usage)
  BY <1>1 DEF Exceeds
<1> HIDE DEF rel
<1>4. OpSound(rel, run, c)
  BY <1>1, <1>2, <1>3 DEF OpSound
<1> QED
  BY <1>4 DEF rel

LEMMA OneRun ==
  ASSUME BookInv, NEW now \in Times, Touch(now), NEW r \in DOMAIN runs, NEW row \in RunRow,
         RowChange(r, row), GrantChange(r, row), events' = events,
         row.closed => runs[r].closed \/ (\A p \in OpsOf(r) : AccountedFor(ops[p])),
         ops' = ops \/ (ops' = ReleasedOps(r) /\ row.cancelled)
  PROVE  BookInv' /\ Moves
<1>1. /\ TypeOK /\ now \in Nat /\ lastClock \in Int /\ lastClock' = now /\ lastClock <= now
      /\ r \in Runs
  BY TouchClock, RowTypes DEF BookInv
<1>2. /\ DOMAIN runs' = DOMAIN runs /\ runs'[r] = row
      /\ \A x \in DOMAIN runs : x # r => runs'[x] = runs[x]
      /\ \A x \in DOMAIN runs : /\ runs'[x] \in RunRow /\ Grows(runs[x], runs'[x])
                                /\ runs'[x].breached = runs[x].breached
      /\ IsTable(runs', Runs, RunRow)
  BY <1>1, RowWritten
<1>3. /\ DOMAIN ops' = DOMAIN ops /\ IsTable(ops', Operations, OpRow)
      /\ \A p \in DOMAIN ops :
           \/ ops'[p] = ops[p]
           \/ /\ ops'[p] = [ops[p] EXCEPT !.released = TRUE]
              /\ ops[p].run = r /\ ops[p].intended = Null /\ row.cancelled
  <2>1. CASE ops' = ops
    BY <1>1, <2>1 DEF TypeOK
  <2>2. CASE ops' = ReleasedOps(r) /\ row.cancelled
    BY <1>1, <2>2, Released, Zenon
  <2> QED
    BY <2>1, <2>2
<1>4. \A p \in DOMAIN ops :
        /\ OpGrows(ops[p], ops'[p])
        /\ ops'[p].intended = ops[p].intended /\ ops'[p].usage = ops[p].usage
        /\ ops'[p].conflicted = ops[p].conflicted /\ ops'[p].exposure = ops[p].exposure
  <2> SUFFICES ASSUME NEW p \in DOMAIN ops
               PROVE  /\ OpGrows(ops[p], ops'[p])
                      /\ ops'[p].intended = ops[p].intended /\ ops'[p].usage = ops[p].usage
                      /\ ops'[p].conflicted = ops[p].conflicted /\ ops'[p].exposure = ops[p].exposure
    OBVIOUS
  <2>1. ops[p] \in OpRow
    BY <1>1, RowTypes
  <2>2. CASE ops'[p] = ops[p]
    BY <2>2 DEF OpGrows
  <2>3. CASE ops'[p] = [ops[p] EXCEPT !.released = TRUE]
    BY <2>1, <2>3 DEF OpGrows, OpRow
  <2> QED
    BY <1>3, <2>2, <2>3
<1>5. TypeOK'
  <2>1. grants' \subseteq GrantRow
    BY <1>1, GrantTypes
  <2>2. \A p \in DOMAIN ops' : ops'[p].run \in DOMAIN runs'
    BY <1>1, <1>2, <1>3, <1>4, RowTypes DEF OpGrows
  <2>3. IsTable(events', Events, EventRow) /\ \A v \in DOMAIN events' : events'[v].op \in DOMAIN ops'
    BY <1>1, <1>3 DEF TypeOK
  <2> QED
    BY <1>1, <1>2, <1>3, <2>1, <2>2, <2>3 DEF TypeOK
<1>6. ASSUME NEW p \in DOMAIN ops'
      PROVE  OpSound(ops'[p], runs'[ops'[p].run], lastClock')
  <2>1. /\ p \in DOMAIN ops /\ ops[p] \in OpRow /\ ops[p].run \in DOMAIN runs
        /\ runs[ops[p].run] \in RunRow /\ ops'[p].run = ops[p].run
    BY <1>1, <1>3, <1>4, RowTypes DEF OpGrows
  <2>2. OpSound(ops[p], runs[ops[p].run], lastClock)
    BY <2>1 DEF BookInv
  <2>3. runs'[ops[p].run].closed => runs[ops[p].run].closed \/ AccountedFor(ops[p])
    BY <1>2, <2>1 DEF OpsOf
  <2>4. OpSound(ops[p], runs'[ops[p].run], lastClock')
    BY <1>1, <1>2, <2>1, <2>2, <2>3, SoundStays
  <2>5. CASE ops'[p] = ops[p]
    BY <2>4, <2>5
  <2>6. CASE /\ ops'[p] = [ops[p] EXCEPT !.released = TRUE]
             /\ ops[p].run = r /\ ops[p].intended = Null /\ row.cancelled
    <3>1. runs'[ops[p].run].cancelled /\ runs'[ops[p].run] \in RunRow /\ lastClock' \in Int
      BY <1>1, <1>2, <2>6
    <3>2. OpSound([ops[p] EXCEPT !.released = TRUE], runs'[ops[p].run], lastClock')
      BY <2>1, <2>4, <2>6, <3>1, ReleaseSound
    <3> QED
      BY <2>1, <2>6, <3>2, Zenon
  <2> QED
    BY <1>3, <2>1, <2>5, <2>6
<1>7. ASSUME NEW v \in DOMAIN events'
      PROVE  EventSound(v)'
  <2>1. v \in DOMAIN events /\ events' = events /\ events[v].op \in DOMAIN ops /\ EventSound(v)
    BY <1>1 DEF BookInv, TypeOK
  <2> QED
    BY <1>4, <2>1 DEF EventSound, OpGrows
<1>8. ASSUME NEW x \in DOMAIN runs'
      PROVE  runs'[x].created <= lastClock' /\ runs'[x].epoch >= 1 /\ BreachHasReason(x)'
  <2>1. /\ x \in DOMAIN runs /\ runs[x] \in RunRow /\ runs'[x] \in RunRow
        /\ runs[x].created <= lastClock /\ runs[x].epoch >= 1 /\ BreachHasReason(x)
        /\ Grows(runs[x], runs'[x]) /\ runs'[x].breached = runs[x].breached
    BY <1>1, <1>2, RowTypes DEF BookInv
  <2>2. ASSUME NEW p \in OpsOf(x), Suspect(p)
        PROVE  p \in OpsOf(x)' /\ Suspect(p)'
    BY <1>3, <1>4, <2>2 DEF OpsOf, Suspect, Exceeds, OpGrows
  <2> QED
    BY <1>1, <2>1, <2>2 DEF BreachHasReason, RunRow, Grows
<1>9. GrantsSound' /\ EpochFencing'
  BY GrantsStay DEF RowChange, GrantChange
<1>10. SlotsBounded'
  <2>1. IsFiniteSet(DOMAIN ops')
    BY <1>3 DEF BookInv
  <2> QED
    BY <1>2, <1>3, <1>4, <1>5, <2>1, SlotsStay DEF OpGrows, Grows
<1>11. Moves
  BY <1>1, <1>2, <1>3, <1>4 DEF Moves, Starts
<1>12. IsFiniteSet(DOMAIN ops')
  BY <1>3 DEF BookInv
<1> QED
  BY <1>5, <1>6, <1>7, <1>8, <1>9, <1>10, <1>11, <1>12 DEF BookInv

\* The row of a run that is claimed and perhaps cancelled with the claim.
ClaimedAs(r, o, now, flag) == [ClaimedRow(r, o, now) EXCEPT !.cancelled = flag]

LEMMA ClaimedRowFacts ==
  ASSUME TypeOK, NEW r \in DOMAIN runs, NEW o \in Owners, NEW now \in Nat, Claimable(r, o, now),
         NEW flag \in BOOLEAN, runs[r].cancelled => flag,
         NEW row, row = ClaimedAs(r, o, now, flag)
  PROVE  /\ row \in RunRow /\ Grows(runs[r], row)
         /\ row.owner = o /\ row.epoch = ClaimEpoch(r, now)
         /\ row.breached = runs[r].breached /\ row.closed = runs[r].closed
         /\ row.cancelled = flag
         /\ \/ row.epoch = runs[r].epoch /\ row.owner = runs[r].owner
            \/ row.epoch = runs[r].epoch + 1
<1>1. runs[r] \in RunRow /\ now + LeaseSeconds \in Nat
  BY RowTypes, BookAssumption
<1>2. /\ ClaimEpoch(r, now) \in Nat /\ runs[r].epoch <= ClaimEpoch(r, now)
      /\ \/ ClaimEpoch(r, now) = runs[r].epoch /\ o = runs[r].owner
         \/ ClaimEpoch(r, now) = runs[r].epoch + 1
  BY <1>1 DEF RunRow, ClaimEpoch, Claimable
<1>4. /\ row \in RunRow
      /\ row.profile = runs[r].profile /\ row.created = runs[r].created
      /\ row.deadline = runs[r].deadline
      /\ row.owner = o /\ row.epoch = ClaimEpoch(r, now)
      /\ row.breached = runs[r].breached /\ row.closed = runs[r].closed
      /\ row.cancelled = flag
  <2>1. PICK e \in Nat : e = ClaimEpoch(r, now)
    BY <1>2
  <2>2. row = [[runs[r] EXCEPT !.owner = o, !.epoch = e, !.lease = now + LeaseSeconds]
                 EXCEPT !.cancelled = flag]
    BY <2>1 DEF ClaimedRow, ClaimedAs
  <2> QED
    BY <1>1, <2>1, <2>2 DEF RunRow
<1>5. Grows(runs[r], row)
  BY <1>2, <1>4 DEF Grows
<1> QED
  BY <1>2, <1>4, <1>5

LEMMA ClaimStep ==
  ASSUME BookInv, NEW now \in Times, NEW r \in Runs, NEW o \in Owners, NEW recovery \in BOOLEAN,
         claim(now, r, o, recovery)
  PROVE  BookInv' /\ Moves
<1>1. TypeOK /\ Touch(now) /\ r \in DOMAIN runs /\ now \in Nat /\ Claimable(r, o, now)
  BY TouchClock DEF BookInv, claim, Known
<1>2. PICK row : row = ClaimedAs(r, o, now, runs[r].cancelled)
  OBVIOUS
<1>3. runs[r] \in RunRow /\ runs[r].cancelled \in BOOLEAN
  BY <1>1, RowTypes DEF RunRow
<1>4. row = ClaimedRow(r, o, now)
  BY <1>2, <1>3 DEF ClaimedRow, RunRow, ClaimedAs
<1>5. /\ row \in RunRow /\ Grows(runs[r], row)
      /\ row.owner = o /\ row.epoch = ClaimEpoch(r, now)
      /\ row.breached = runs[r].breached /\ row.closed = runs[r].closed
      /\ \/ row.epoch = runs[r].epoch /\ row.owner = runs[r].owner
         \/ row.epoch = runs[r].epoch + 1
  BY <1>1, <1>2, <1>3, ClaimedRowFacts
<1>6. RowChange(r, row) /\ GrantChange(r, row) /\ events' = events /\ ops' = ops
  BY <1>4, <1>5 DEF claim, RowChange, GrantChange
<1> QED
  BY <1>1, <1>5, <1>6, OneRun

LEMMA ClaimForCancelStep ==
  ASSUME BookInv, NEW now \in Times, NEW r \in Runs, NEW o \in Owners, NEW pending,
         claim_for_cancel(now, r, o, pending)
  PROVE  BookInv' /\ Moves
<1>1. TypeOK /\ Touch(now) /\ r \in DOMAIN runs /\ now \in Nat /\ Claimable(r, o, now)
  BY TouchClock DEF BookInv, claim_for_cancel, Known
<1>2. PICK flag \in BOOLEAN : flag = TRUE
  OBVIOUS
<1>3. PICK row : row = ClaimedAs(r, o, now, flag)
  OBVIOUS
<1>4. /\ row \in RunRow /\ Grows(runs[r], row)
      /\ row.owner = o /\ row.epoch = ClaimEpoch(r, now)
      /\ row.breached = runs[r].breached /\ row.closed = runs[r].closed /\ row.cancelled
      /\ \/ row.epoch = runs[r].epoch /\ row.owner = runs[r].owner
         \/ row.epoch = runs[r].epoch + 1
  <2>1. runs[r].cancelled => flag
    BY <1>2
  <2>2. /\ row \in RunRow /\ Grows(runs[r], row)
        /\ row.owner = o /\ row.epoch = ClaimEpoch(r, now)
        /\ row.breached = runs[r].breached /\ row.closed = runs[r].closed
        /\ row.cancelled = flag
        /\ \/ row.epoch = runs[r].epoch /\ row.owner = runs[r].owner
           \/ row.epoch = runs[r].epoch + 1
    BY <1>1, <1>3, <2>1, ClaimedRowFacts
  <2>3. row.cancelled
    BY <1>2, <2>2
  <2> QED
    BY <2>2, <2>3
<1>5. RowChange(r, row) /\ GrantChange(r, row) /\ events' = events /\ ops' = ReleasedOps(r)
  BY <1>2, <1>3, <1>4 DEF claim_for_cancel, RowChange, GrantChange, ClaimedAs
<1> QED
  BY <1>1, <1>4, <1>5, OneRun

LEMMA RunCancelStep ==
  ASSUME BookInv, NEW now \in Times, NEW g \in grants, NEW pending,
         cancel(now, g.run, g.owner, g.epoch, pending)
  PROVE  BookInv' /\ Moves
<1>1. PICK r : r = g.run
  OBVIOUS
<1>2. TypeOK /\ Touch(now) /\ r \in DOMAIN runs /\ runs[r] \in RunRow
  BY <1>1, RowTypes DEF BookInv, cancel, Known
<1>3. PICK row : row = [runs[r] EXCEPT !.cancelled = TRUE]
  OBVIOUS
<1>4. /\ row \in RunRow /\ row.cancelled
      /\ row.breached = runs[r].breached /\ row.closed = runs[r].closed
      /\ row.epoch = runs[r].epoch /\ row.owner = runs[r].owner /\ Grows(runs[r], row)
  <2>1. /\ row \in RunRow /\ row.cancelled
        /\ row.breached = runs[r].breached /\ row.closed = runs[r].closed
        /\ row.epoch = runs[r].epoch /\ row.owner = runs[r].owner
        /\ row.profile = runs[r].profile /\ row.created = runs[r].created
        /\ row.deadline = runs[r].deadline /\ runs[r].epoch \in Nat
    BY <1>2, <1>3 DEF RunRow
  <2> QED
    BY <2>1 DEF Grows
<1>5. RowChange(r, row) /\ GrantChange(r, row) /\ events' = events /\ ops' = ReleasedOps(r)
  BY <1>1, <1>3, <1>4 DEF cancel, RowChange, GrantChange
<1> QED
  BY <1>2, <1>4, <1>5, OneRun

LEMMA CloseStep ==
  ASSUME BookInv, NEW now \in Times, NEW g \in grants, close(now, g.run, g.owner, g.epoch)
  PROVE  BookInv' /\ Moves
<1>1. PICK r : r = g.run
  OBVIOUS
<1>2. TypeOK /\ Touch(now) /\ r \in DOMAIN runs /\ runs[r] \in RunRow
  BY <1>1, RowTypes DEF BookInv, close, Known
<1>3. PICK row : row = [runs[r] EXCEPT !.closed = TRUE]
  OBVIOUS
<1>4. /\ row \in RunRow /\ row.closed
      /\ row.breached = runs[r].breached
      /\ row.epoch = runs[r].epoch /\ row.owner = runs[r].owner /\ Grows(runs[r], row)
  <2>1. /\ row \in RunRow /\ row.closed
        /\ row.breached = runs[r].breached /\ row.cancelled = runs[r].cancelled
        /\ row.epoch = runs[r].epoch /\ row.owner = runs[r].owner
        /\ row.profile = runs[r].profile /\ row.created = runs[r].created
        /\ row.deadline = runs[r].deadline /\ runs[r].epoch \in Nat
    BY <1>2, <1>3 DEF RunRow
  <2> QED
    BY <2>1 DEF Grows
<1>5. RowChange(r, row) /\ GrantChange(r, row) /\ events' = events /\ ops' = ops
  BY <1>1, <1>3, <1>4 DEF close, RowChange, GrantChange
<1>6. runs[r].closed \/ \A p \in OpsOf(r) : AccountedFor(ops[p])
  <2>1. CASE MayClose(r)
    BY <1>2, <2>1, SlotsCount DEF BookInv, MayClose, Unsettled, AccountedFor, Counted
  <2> QED
    BY <1>1, <2>1 DEF close
<1> QED
  BY <1>2, <1>4, <1>5, <1>6, OneRun

-----------------------------------------------------------------------------
(* A run or an operation is added.                                         *)

LEMMA InsertFacts ==
  ASSUME NEW K, NEW Row, NEW t, IsTable(t, K, Row), NEW k \in K, NEW row \in Row
  PROVE  /\ DOMAIN Insert(t, k, row) = DOMAIN t \cup {k}
         /\ Insert(t, k, row)[k] = row
         /\ \A x \in DOMAIN t : x # k => Insert(t, k, row)[x] = t[x]
         /\ IsTable(Insert(t, k, row), K, Row)
<1>1. PICK u : u = Insert(t, k, row)
  OBVIOUS
<1>2. /\ u = [x \in DOMAIN t \cup {k} |-> IF x = k THEN row ELSE t[x]]
      /\ DOMAIN u = DOMAIN t \cup {k} /\ u[k] = row
      /\ \A x \in DOMAIN t : x # k => u[x] = t[x]
  BY <1>1 DEF Insert
<1>3. u \in [DOMAIN u -> Row]
  BY <1>2 DEF IsTable
<1>4. IsTable(u, K, Row)
  BY <1>2, <1>3 DEF IsTable
<1> QED
  BY <1>1, <1>2, <1>4

LEMMA CreateStep ==
  ASSUME BookInv, NEW now \in Times, NEW r \in Runs, NEW profile \in Profiles, NEW o \in Owners,
         NEW deadline \in Nat, create_run(now, r, profile, o, deadline)
  PROVE  BookInv' /\ Moves
<1>1. /\ TypeOK /\ now \in Nat /\ lastClock \in Int /\ lastClock' = now /\ lastClock <= now
      /\ r \notin DOMAIN runs /\ UNCHANGED <<ops, events>>
  BY TouchClock DEF BookInv, create_run, Known
<1>2. PICK row : row = [profile |-> profile, created |-> now, deadline |-> deadline,
                        owner |-> o, epoch |-> 1,
                        lease |-> Smaller(MaxInteger, now + LeaseSeconds),
                        cancelled |-> FALSE, breached |-> FALSE, closed |-> FALSE]
  OBVIOUS
<1>3. row \in RunRow /\ row.owner = o /\ row.epoch = 1 /\ row.created = now /\ ~row.breached
  <2>1. Smaller(MaxInteger, now + LeaseSeconds) \in Nat
    BY <1>1, BookAssumption DEF Smaller
  <2> QED
    BY <1>1, <1>2, <2>1 DEF RunRow
<1>4. runs' = Insert(runs, r, row) /\ grants' = Granted(r, o, 1)
  BY <1>2 DEF create_run
<1>5. IsTable(runs, Runs, RunRow)
  BY <1>1 DEF TypeOK
<1>6. /\ DOMAIN runs' = DOMAIN runs \cup {r} /\ runs'[r] = row
      /\ \A x \in DOMAIN runs : x # r /\ runs'[x] = runs[x]
      /\ IsTable(runs', Runs, RunRow)
  BY <1>1, <1>3, <1>4, <1>5, InsertFacts
<1>7. \A p \in DOMAIN ops : ops[p] \in OpRow /\ ops[p].run \in DOMAIN runs
  BY <1>1, RowTypes
<1>8. PICK n : n = [run |-> r, owner |-> o, epoch |-> 1]
  OBVIOUS
<1>9. grants' = grants \cup {n} /\ n \in GrantRow /\ n.run = r /\ n.owner = o /\ n.epoch = 1
  BY <1>4, <1>8 DEF Granted, GrantRow
<1>10. TypeOK'
  BY <1>1, <1>6, <1>7, <1>9 DEF TypeOK
<1>11. ASSUME NEW p \in DOMAIN ops'
       PROVE  OpSound(ops'[p], runs'[ops'[p].run], lastClock')
  <2>1. OpSound(ops[p], runs[ops[p].run], lastClock) /\ ops[p] \in OpRow /\ runs[ops[p].run] \in RunRow
    BY <1>1, RowTypes DEF BookInv
  <2>2. OpSound(ops[p], runs[ops[p].run], lastClock')
    BY <1>1, <2>1, GrowsItself, SoundStays DEF OpSound
  <2> QED
    BY <1>1, <1>6, <1>7, <2>2
<1>12. \A v \in DOMAIN events' : EventSound(v)'
  BY <1>1 DEF BookInv, EventSound
<1>13. ASSUME NEW x \in DOMAIN runs'
       PROVE  runs'[x].created <= lastClock' /\ runs'[x].epoch >= 1 /\ BreachHasReason(x)'
  <2>1. CASE x = r
    BY <1>1, <1>3, <1>6, <2>1 DEF BreachHasReason
  <2>2. CASE x # r
    <3>1. /\ x \in DOMAIN runs /\ runs'[x] = runs[x] /\ runs[x] \in RunRow
          /\ runs[x].created <= lastClock /\ runs[x].epoch >= 1 /\ BreachHasReason(x)
      BY <1>1, <1>6, <2>2, RowTypes DEF BookInv
    <3> QED
      BY <1>1, <3>1 DEF BreachHasReason, OpsOf, Suspect, RunRow
  <2> QED
    BY <2>1, <2>2
<1>14. GrantsSound'
  <2>1. \A g \in grants : g.run \in DOMAIN runs /\ GrantsSound
    BY DEF BookInv, GrantsSound
  <2> QED
    BY <1>3, <1>6, <1>9, <2>1 DEF GrantsSound
<1>15. EpochFencing'
  <2>1. EpochFencing /\ \A g \in grants : g.run # r
    BY <1>1 DEF BookInv, GrantsSound
  <2> QED
    BY <1>9, <2>1 DEF EpochFencing
<1>16. SlotsBounded'
  <2> SUFFICES ASSUME NEW x \in DOMAIN runs'
               PROVE  Slots(x)' <= Limits[runs'[x].profile].concurrent
    BY DEF SlotsBounded
  <2>1. Slots(x)' = Slots(x)
    BY <1>1 DEF Slots, Counted, OpsOf
  <2>2. CASE x = r
    <3>1. Slots(x) = 0
      BY <1>1, <1>7, <2>2, SlotsCount DEF BookInv, Counted, OpsOf
    <3>2. Limits[runs'[x].profile].concurrent \in Nat
      BY <1>3, <1>6, <2>2, BookAssumption DEF RunRow, LimitRow
    <3> QED
      BY <2>1, <3>1, <3>2
  <2>3. CASE x # r
    BY <1>6, <2>1, <2>3 DEF BookInv, SlotsBounded
  <2> QED
    BY <2>2, <2>3
<1>17. Moves
  BY <1>1, <1>5, <1>6, <1>7, RowTypes, GrowsItself DEF Moves, OpGrows, Starts
<1> QED
  BY <1>1, <1>10, <1>11, <1>12, <1>13, <1>14, <1>15, <1>16, <1>17 DEF BookInv

\* A row of an operation that was only reserved, and perhaps sent at once.
FreshOp(op, r, epoch, now) ==
  /\ op.run = r /\ op.epoch = epoch /\ ValidReservation(op.reserved)
  /\ op.intended \in {Null, now}
  /\ op.stopped = Null /\ op.settledAt = Null /\ op.cost = Null /\ op.usage = NoUsage
  /\ ~op.released /\ ~op.conflicted /\ op.exposure = 0

\* It takes one slot of its run, and none of another.
LEMMA SlotTaken ==
  ASSUME TypeOK, IsFiniteSet(DOMAIN ops), NEW p, p \notin DOMAIN ops, NEW op, NEW r,
         op.run = r, ~op.released, op.stopped = Null,
         DOMAIN ops' = DOMAIN ops \cup {p}, ops'[p] = op,
         \A q \in DOMAIN ops : ops'[q] = ops[q], NEW x
  PROVE  IF x = r THEN Slots(x)' = Slots(x) + 1 ELSE Slots(x)' = Slots(x)
<1>1. PICK S : S = {q \in Counted(x) : ops[q].stopped = Null}
  OBVIOUS
<1>2. PICK T : T = {q \in Counted(x)' : ops'[q].stopped = Null}
  OBVIOUS
<1>3. Slots(x) = Cardinality(S) /\ Slots(x)' = Cardinality(T)
  BY <1>1, <1>2 DEF Slots
<1>4. CASE x = r
  <2>1. T = S \cup {p} /\ p \notin S
    BY <1>1, <1>2, <1>4 DEF Counted, OpsOf
  <2>2. IsFiniteSet(S)
    <3>1. S \subseteq DOMAIN ops
      BY <1>1 DEF Counted, OpsOf
    <3> QED
      BY <3>1, FS_Subset
  <2>3. Cardinality(S \cup {p}) = Cardinality(S) + 1
    BY <2>1, <2>2, FS_AddElement
  <2> QED
    BY <1>3, <1>4, <2>1, <2>3
<1>5. CASE x # r
  <2>1. T = S
    BY <1>1, <1>2, <1>5 DEF Counted, OpsOf
  <2> QED
    BY <1>3, <1>5, <2>1
<1> QED
  BY <1>4, <1>5

LEMMA NewOperation ==
  ASSUME BookInv, NEW now \in Times, Touch(now), NEW r \in DOMAIN runs, NEW row \in RunRow,
         RowChange(r, row), GrantChange(r, row), events' = events,
         row.closed = runs[r].closed, ~runs[r].closed, ~StartDenied(r, now), HasSlot(r),
         NEW p \in Operations, p \notin DOMAIN ops, NEW op \in OpRow,
         ops' = Insert(ops, p, op), FreshOp(op, r, row.epoch, now)
  PROVE  BookInv' /\ Moves
<1>1. /\ TypeOK /\ now \in Nat /\ lastClock \in Int /\ lastClock' = now /\ lastClock <= now
      /\ r \in Runs /\ runs[r] \in RunRow
  BY TouchClock, RowTypes DEF BookInv
<1>2. /\ DOMAIN runs' = DOMAIN runs /\ runs'[r] = row
      /\ \A x \in DOMAIN runs : x # r => runs'[x] = runs[x]
      /\ \A x \in DOMAIN runs : /\ runs'[x] \in RunRow /\ Grows(runs[x], runs'[x])
                                /\ runs'[x].breached = runs[x].breached
      /\ IsTable(runs', Runs, RunRow)
  BY <1>1, RowWritten
<1>3. /\ DOMAIN ops' = DOMAIN ops \cup {p} /\ ops'[p] = op
      /\ \A q \in DOMAIN ops : q # p /\ ops'[q] = ops[q]
      /\ IsTable(ops', Operations, OpRow)
  <2>1. IsTable(ops, Operations, OpRow)
    BY <1>1 DEF TypeOK
  <2> QED
    BY <2>1, InsertFacts
<1>4. IsFiniteSet(DOMAIN ops) /\ IsFiniteSet(DOMAIN ops')
  BY <1>3, FS_AddElement DEF BookInv
<1>5. TypeOK'
  <2>1. grants' \subseteq GrantRow
    BY <1>1, GrantTypes
  <2>2. \A q \in DOMAIN ops' : ops'[q].run \in DOMAIN runs'
    BY <1>1, <1>2, <1>3, RowTypes DEF FreshOp
  <2>3. IsTable(events', Events, EventRow) /\ \A v \in DOMAIN events' : events'[v].op \in DOMAIN ops'
    BY <1>1, <1>3 DEF TypeOK
  <2> QED
    BY <1>1, <1>2, <1>3, <2>1, <2>2, <2>3 DEF TypeOK
<1>6. ASSUME NEW q \in DOMAIN ops'
      PROVE  OpSound(ops'[q], runs'[ops'[q].run], lastClock')
  <2>1. CASE q = p
    <3>1. runs'[op.run] = row /\ ops'[q] = op
      BY <1>2, <1>3, <2>1 DEF FreshOp
    <3>2. row.epoch \in Nat /\ row.epoch >= 1 /\ row.created \in Nat /\ row.created <= now
      <4>1. runs[r].epoch >= 1 /\ runs[r].created <= lastClock
        BY DEF BookInv
      <4> QED
        BY <1>1, <4>1 DEF RowChange, Grows, RunRow
    <3>3. OpSound(op, row, now)
      <4>1. op.epoch \in 1 .. row.epoch
        BY <3>2 DEF FreshOp
      <4>2. op.intended # Null => op.intended \in row.created .. now
        BY <1>1, <3>2 DEF FreshOp
      <4>3. ~row.closed
        OBVIOUS
      <4> QED
        BY <4>1, <4>2, <4>3 DEF FreshOp, OpSound
    <3> QED
      BY <1>1, <3>1, <3>3
  <2>2. CASE q # p
    <3>1. /\ q \in DOMAIN ops /\ ops[q] \in OpRow /\ ops[q].run \in DOMAIN runs
          /\ runs[ops[q].run] \in RunRow /\ ops'[q] = ops[q]
      BY <1>1, <1>3, <2>2, RowTypes
    <3>2. OpSound(ops[q], runs[ops[q].run], lastClock)
      BY <3>1 DEF BookInv
    <3>3. runs'[ops[q].run].closed => runs[ops[q].run].closed
      BY <1>2, <3>1
    <3>4. OpSound(ops[q], runs'[ops[q].run], lastClock')
      BY <1>1, <1>2, <3>1, <3>2, <3>3, SoundStays
    <3> QED
      BY <3>1, <3>4
  <2> QED
    BY <2>1, <2>2
<1>7. ASSUME NEW v \in DOMAIN events'
      PROVE  EventSound(v)'
  <2>1. v \in DOMAIN events /\ events' = events /\ events[v].op \in DOMAIN ops /\ EventSound(v)
    BY <1>1 DEF BookInv, TypeOK
  <2> QED
    BY <1>3, <2>1 DEF EventSound
<1>8. ASSUME NEW x \in DOMAIN runs'
      PROVE  runs'[x].created <= lastClock' /\ runs'[x].epoch >= 1 /\ BreachHasReason(x)'
  <2>1. /\ x \in DOMAIN runs /\ runs[x] \in RunRow /\ runs'[x] \in RunRow
        /\ runs[x].created <= lastClock /\ runs[x].epoch >= 1 /\ BreachHasReason(x)
        /\ Grows(runs[x], runs'[x]) /\ runs'[x].breached = runs[x].breached
    BY <1>1, <1>2, RowTypes DEF BookInv
  <2>2. ASSUME NEW q \in OpsOf(x), Suspect(q)
        PROVE  q \in OpsOf(x)' /\ Suspect(q)'
    BY <1>3, <2>2 DEF OpsOf, Suspect
  <2> QED
    BY <1>1, <2>1, <2>2 DEF BreachHasReason, RunRow, Grows
<1>9. GrantsSound' /\ EpochFencing'
  BY GrantsStay DEF RowChange, GrantChange
<1>10. SlotsBounded'
  <2> SUFFICES ASSUME NEW x \in DOMAIN runs'
               PROVE  Slots(x)' <= Limits[runs'[x].profile].concurrent
    BY DEF SlotsBounded
  <2>1. x \in DOMAIN runs /\ runs[x] \in RunRow /\ runs'[x].profile = runs[x].profile
    BY <1>1, <1>2, RowTypes DEF Grows
  <2>2. Limits[runs[x].profile].concurrent \in Int
    BY <2>1, BookAssumption DEF RunRow, LimitRow
  <2>3. IF x = r THEN Slots(x)' = Slots(x) + 1 ELSE Slots(x)' = Slots(x)
    <3>1. op.run = r /\ ~op.released /\ op.stopped = Null
      BY DEF FreshOp
    <3> QED
      BY <1>1, <1>3, <1>4, <3>1, SlotTaken
  <2>4. Slots(x) \in Int
    BY <1>1, <1>4, SlotsCount
  <2>5. CASE x = r
    BY <2>1, <2>2, <2>3, <2>4, <2>5 DEF HasSlot
  <2>6. CASE x # r
    BY <2>1, <2>3, <2>6 DEF BookInv, SlotsBounded
  <2> QED
    BY <2>5, <2>6
<1>11. Moves
  <2>1. \A q \in DOMAIN ops : OpGrows(ops[q], ops'[q])
    BY <1>3 DEF OpGrows
  <2>2. \A q \in DOMAIN ops' : Starts(q) => q = p
    BY <1>3 DEF Starts
  <2> QED
    BY <1>1, <1>2, <1>3, <2>1, <2>2 DEF Moves, FreshOp
<1> QED
  BY <1>4, <1>5, <1>6, <1>7, <1>8, <1>9, <1>10, <1>11 DEF BookInv

LEMMA ReserveStep ==
  ASSUME BookInv, NEW now \in Times, NEW g \in grants, NEW p \in Operations,
         NEW res \in Reservations, reserve(now, g.run, g.owner, g.epoch, p, res)
  PROVE  BookInv' /\ Moves
<1>1. PICK r : r = g.run
  OBVIOUS
<1>2. /\ TypeOK /\ Touch(now) /\ r \in DOMAIN runs /\ runs[r] \in RunRow /\ now \in Nat
      /\ OwnerStart(r, g.owner, g.epoch, now) /\ UNCHANGED <<runs, events, grants>>
  BY <1>1, RowTypes, TouchClock DEF BookInv, reserve, Known
<1>3. CASE UNCHANGED ops
  <2>1. lastClock' \in Nat /\ lastClock <= lastClock'
    BY <1>2, TouchClock
  <2> QED
    BY <1>2, <1>3, <2>1, ClockStep
<1>4. CASE p \notin DOMAIN ops /\ HasSlot(r) /\ ops' = Insert(ops, p, NewOp(r, g.epoch, res))
  <2>1. PICK row : row = runs[r]
    OBVIOUS
  <2>2. row \in RunRow /\ RowChange(r, row) /\ GrantChange(r, row) /\ row.closed = runs[r].closed
    <3>1. runs = [runs EXCEPT ![r] = runs[r]]
      BY <1>2 DEF TypeOK, IsTable
    <3> QED
      BY <1>2, <2>1, <3>1, GrowsItself DEF RowChange, GrantChange
  <2>3. PICK op : op = NewOp(r, g.epoch, res)
    OBVIOUS
  <2>4. ValidReservation(res) /\ g.epoch = row.epoch /\ row.epoch \in Nat /\ r \in Runs
    BY <1>1, <1>2, <2>1, RowTypes DEF reserve, OwnerStart, Owner, RunRow
  <2>5. op \in OpRow /\ FreshOp(op, r, row.epoch, now)
    BY <2>3, <2>4 DEF NewOp, OpRow, FreshOp
  <2>6. ~runs[r].closed /\ ~StartDenied(r, now)
    BY <1>2 DEF OwnerStart
  <2> QED
    BY <1>2, <1>4, <2>2, <2>3, <2>5, <2>6, NewOperation
<1> QED
  BY <1>1, <1>3, <1>4 DEF reserve

\* The steps of the book in resource_start.
LEMMA StartStep ==
  ASSUME BookInv, NEW now \in Times, NEW r \in Runs, NEW o \in Owners, NEW p \in Operations,
         NEW entry \in Entries, resource_start(now, r, o, p, entry)
  PROVE  BookInv' /\ Moves
<1>1. /\ TypeOK /\ Touch(now) /\ r \in DOMAIN runs /\ now \in Nat /\ Claimable(r, o, now)
      /\ runs[r] \in RunRow /\ runs[r].cancelled \in BOOLEAN /\ events' = events
      /\ ~runs[r].closed /\ ~StartDenied(r, now) /\ HasSlot(r) /\ p \notin DOMAIN ops
  BY TouchClock, RowTypes DEF BookInv, resource_start, Known, RunRow
<1>2. PICK row : row = ClaimedAs(r, o, now, runs[r].cancelled)
  OBVIOUS
<1>3. row = ClaimedRow(r, o, now)
  BY <1>1, <1>2 DEF ClaimedRow, RunRow, ClaimedAs
<1>4. /\ row \in RunRow /\ Grows(runs[r], row)
      /\ row.owner = o /\ row.epoch = ClaimEpoch(r, now)
      /\ row.breached = runs[r].breached /\ row.closed = runs[r].closed
      /\ \/ row.epoch = runs[r].epoch /\ row.owner = runs[r].owner
         \/ row.epoch = runs[r].epoch + 1
  BY <1>1, <1>2, ClaimedRowFacts
<1>5. RowChange(r, row) /\ GrantChange(r, row)
  BY <1>3, <1>4 DEF resource_start, RowChange, GrantChange
<1>6. PICK op : op = [NewOp(r, row.epoch, Fixture) EXCEPT !.intended = now]
  OBVIOUS
<1>7. ops' = Insert(ops, p, op)
  BY <1>4, <1>6 DEF resource_start
<1>8. op \in OpRow /\ FreshOp(op, r, row.epoch, now)
  <2>1. op = [run |-> r, epoch |-> row.epoch, reserved |-> Fixture, intended |-> now,
              stopped |-> Null, released |-> FALSE, usage |-> NoUsage,
              settledAt |-> Null, cost |-> Null, conflicted |-> FALSE, exposure |-> 0]
    BY <1>6 DEF NewOp
  <2>2. ValidReservation(Fixture) /\ Fixture \in Reservations
    BY BookAssumption, AuthorityAssumption DEF ValidReservation
  <2>3. row.epoch \in Nat
    BY <1>4 DEF RunRow
  <2> QED
    BY <1>1, <2>1, <2>2, <2>3 DEF OpRow, FreshOp
<1> QED
  BY <1>1, <1>4, <1>5, <1>7, <1>8, NewOperation

LEMMA DispatchIntentStep ==
  ASSUME BookInv, NEW now \in Times, NEW g \in grants, NEW p \in Operations,
         dispatch_intent(now, g.run, g.owner, g.epoch, p)
  PROVE  BookInv' /\ Moves
<1>1. /\ TypeOK /\ now \in Nat /\ lastClock \in Int /\ lastClock' = now /\ lastClock <= now
      /\ p \in DOMAIN ops /\ ops[p] \in OpRow /\ ops[p].run = g.run /\ g.run \in DOMAIN runs
      /\ runs[g.run] \in RunRow /\ ProvablyNew(ops[p], g.epoch)
      /\ OwnerStart(g.run, g.owner, g.epoch, now)
      /\ UNCHANGED <<runs, events, grants>>
  BY TouchClock, RowTypes DEF BookInv, dispatch_intent, Known, OpsOf
<1>2. PICK op : op = [ops[p] EXCEPT !.intended = now]
  OBVIOUS
<1>3. /\ op \in OpRow /\ op.run = ops[p].run /\ op.epoch = ops[p].epoch
      /\ op.reserved = ops[p].reserved /\ op.intended = now /\ op.stopped = ops[p].stopped
      /\ op.released = ops[p].released /\ op.usage = ops[p].usage
      /\ op.settledAt = ops[p].settledAt /\ op.cost = ops[p].cost
      /\ op.conflicted = ops[p].conflicted /\ op.exposure = ops[p].exposure
  BY <1>1, <1>2 DEF OpRow
<1>4. /\ IsTable(ops, Operations, OpRow) /\ ops' = [ops EXCEPT ![p] = op]
  BY <1>1, <1>2 DEF dispatch_intent, TypeOK
<1>5. /\ DOMAIN ops' = DOMAIN ops /\ ops'[p] = op /\ IsTable(ops', Operations, OpRow)
      /\ \A q \in DOMAIN ops : q # p => ops'[q] = ops[q]
  BY <1>1, <1>3, <1>4 DEF IsTable
<1>6. ASSUME NEW q \in DOMAIN ops PROVE OpGrows(ops[q], ops'[q]) /\ ops'[q].run = ops[q].run
  BY <1>1, <1>3, <1>5 DEF OpGrows, ProvablyNew
<1>7. TypeOK'
  <2>1. \A q \in DOMAIN ops' : ops'[q].run \in DOMAIN runs'
    BY <1>1, <1>5, <1>6, RowTypes
  <2> QED
    BY <1>1, <1>5, <2>1 DEF TypeOK
<1>8. ASSUME NEW q \in DOMAIN ops'
      PROVE  OpSound(ops'[q], runs'[ops'[q].run], lastClock')
  <2>1. q \in DOMAIN ops /\ ops[q] \in OpRow /\ runs[ops[q].run] \in RunRow
    BY <1>1, <1>5, RowTypes
  <2>2. OpSound(ops[q], runs[ops[q].run], lastClock')
    <3>1. OpSound(ops[q], runs[ops[q].run], lastClock)
      BY <2>1 DEF BookInv
    <3> QED
      BY <1>1, <2>1, <3>1, GrowsItself, SoundStays DEF OpSound
  <2>3. CASE q = p
    <3>1. PICK run \in RunRow : run = runs[g.run]
      BY <1>1
    <3>2. run.created \in Nat /\ run.created <= now
      <4>1. runs[g.run].created <= lastClock
        BY <1>1 DEF BookInv
      <4> QED
        BY <1>1, <3>1, <4>1 DEF RunRow
    <3>3. ops[p].intended = Null /\ ~ops[p].released /\ ~run.closed
      BY <1>1, <3>1 DEF ProvablyNew, OwnerStart
    <3>4. OpSound(ops[p], run, now)
      BY <1>1, <2>2, <2>3, <3>1
    <3>5. Exceeds(op, op.usage) = Exceeds(ops[p], ops[p].usage)
      BY <1>3 DEF Exceeds
    <3>6. now # Null /\ now \in run.created .. now
      BY <1>1, <3>2 DEF Null
    <3>7. OpSound(op, run, now)
      BY <1>3, <3>3, <3>4, <3>5, <3>6 DEF OpSound
    <3> QED
      BY <1>1, <1>3, <1>5, <2>3, <3>1, <3>7
  <2>4. CASE q # p
    BY <1>1, <1>5, <1>6, <2>1, <2>2, <2>4
  <2> QED
    BY <2>3, <2>4
<1>9. ASSUME NEW v \in DOMAIN events'
      PROVE  EventSound(v)'
  <2>1. v \in DOMAIN events /\ events' = events /\ events[v].op \in DOMAIN ops /\ EventSound(v)
    BY <1>1 DEF BookInv, TypeOK
  <2>2. events[v].op # p
    BY <1>1, <2>1 DEF EventSound, ProvablyNew
  <2> QED
    BY <1>5, <2>1, <2>2 DEF EventSound
<1>10. ASSUME NEW x \in DOMAIN runs'
       PROVE  runs'[x].created <= lastClock' /\ runs'[x].epoch >= 1 /\ BreachHasReason(x)'
  <2>1. /\ x \in DOMAIN runs /\ runs[x] \in RunRow /\ runs' = runs
        /\ runs[x].created <= lastClock /\ runs[x].epoch >= 1 /\ BreachHasReason(x)
    BY <1>1, RowTypes DEF BookInv
  <2>2. ASSUME NEW q \in OpsOf(x), Suspect(q)
        PROVE  q \in OpsOf(x)' /\ Suspect(q)'
    <3>1. /\ q \in DOMAIN ops' /\ ops'[q].run = x /\ ops'[q].reserved = ops[q].reserved
          /\ ops'[q].usage = ops[q].usage /\ ops'[q].conflicted = ops[q].conflicted
      BY <1>3, <1>5, <2>2 DEF OpsOf
    <3> QED
      BY <2>2, <3>1 DEF OpsOf, Suspect, Exceeds
  <2> QED
    BY <1>1, <2>1, <2>2 DEF BreachHasReason, RunRow
<1>11. GrantsSound' /\ EpochFencing'
  BY <1>1 DEF BookInv, GrantsSound, EpochFencing
<1>12. SlotsBounded'
  <2>1. IsFiniteSet(DOMAIN ops')
    BY <1>5 DEF BookInv
  <2> QED
    BY <1>1, <1>5, <1>6, <1>7, <2>1, SlotsStay DEF OpGrows
<1>13. Moves
  <2>1. \A q \in DOMAIN ops' : Starts(q) => q = p
    BY <1>5 DEF Starts
  <2>2. /\ ops[p].epoch = runs[g.run].epoch /\ ops[p].intended = Null
        /\ ~runs[g.run].closed /\ ~StartDenied(g.run, lastClock')
    BY <1>1 DEF OwnerStart, Owner, ProvablyNew
  <2>3. \A x \in DOMAIN runs : x \in DOMAIN runs' /\ Grows(runs[x], runs'[x])
    BY <1>1, RowTypes, GrowsItself
  <2> QED
    BY <1>1, <1>3, <1>5, <1>6, <2>1, <2>2, <2>3 DEF Moves
<1> QED
  BY <1>5, <1>7, <1>8, <1>9, <1>10, <1>11, <1>12, <1>13 DEF BookInv

-----------------------------------------------------------------------------
(* Observations.                                                           *)

LEMMA ExposureCovers ==
  ASSUME NEW op \in OpRow, NEW usage \in Usages \cup {NoUsage}
  PROVE  /\ Exposure(op, usage) \in Nat /\ op.exposure \in Nat /\ op.reserved.cost \in Nat
         /\ Exposure(op, usage) >= op.reserved.cost /\ Exposure(op, usage) >= op.exposure
         /\ Exposure(op, usage) >= CostOf(usage) /\ Exposure(op, usage) >= OrZero(op.cost)
<1>1. /\ op.exposure \in Nat /\ op.reserved.cost \in Nat /\ OrZero(op.cost) \in Nat
  BY BookAssumption DEF OpRow, ReservationRow, OrZero, Null
<1>2. CostOf(usage) \in Nat
  BY CostOfNat
<1>3. PICK x \in Nat, y \in Nat : x = CostOf(usage) /\ y = OrZero(op.cost)
  BY <1>1, <1>2
<1> QED
  BY <1>1, <1>3 DEF Exposure, Larger

\* A disputed row stays sound when its run is breached.
LEMMA DisputedSound ==
  ASSUME NEW op \in OpRow, NEW run \in RunRow, NEW c \in Int, NEW usage \in Usages \cup {NoUsage},
         OpSound(op, run, c), run.breached, op.intended # Null,
         NEW row, row = Disputed(op, usage)
  PROVE  /\ row \in OpRow /\ OpSound(row, run, c) /\ OpGrows(op, row)
         /\ row.conflicted /\ row.intended = op.intended /\ row.exposure = Exposure(op, usage)
         /\ row.usage = op.usage
<1>1. Exposure(op, usage) \in Nat
  BY ExposureCovers
<1>2. /\ row \in OpRow /\ row.run = op.run /\ row.epoch = op.epoch
      /\ row.reserved = op.reserved /\ row.intended = op.intended /\ row.stopped = op.stopped
      /\ row.released = op.released /\ row.usage = op.usage
      /\ row.settledAt = op.settledAt /\ row.cost = op.cost
      /\ row.conflicted /\ row.exposure = Exposure(op, usage)
  <2>1. PICK x \in Nat : x = Exposure(op, usage)
    BY <1>1
  <2>2. row = [op EXCEPT !.conflicted = TRUE, !.exposure = x]
    BY <2>1 DEF Disputed
  <2> QED
    BY <2>1, <2>2 DEF OpRow
<1>3. Exceeds(row, row.usage) = Exceeds(op, op.usage)
  BY <1>2 DEF Exceeds
<1>4. OpSound(row, run, c)
  BY <1>2, <1>3 DEF OpSound
<1>5. OpGrows(op, row)
  BY <1>2 DEF OpGrows
<1> QED
  BY <1>2, <1>4, <1>5

\* What is charged for a disputed row covers every event of it.
LEMMA ChargeGrows ==
  ASSUME NEW op \in OpRow, NEW run \in RunRow, NEW c \in Int, OpSound(op, run, c),
         NEW usage \in Usages \cup {NoUsage}, NEW seen \in Usages \cup {NoUsage},
         IF op.conflicted THEN Larger(op.reserved.cost, op.exposure) >= CostOf(seen)
                          ELSE seen \in {NoUsage, op.usage}
  PROVE  Larger(op.reserved.cost, Exposure(op, usage)) >= CostOf(seen)
<1>1. PICK x \in Nat : x = Exposure(op, usage)
  BY ExposureCovers
<1>2. PICK y \in Nat : y = CostOf(seen)
  BY CostOfNat
<1>3. /\ op.exposure \in Nat /\ op.reserved.cost \in Nat
      /\ x >= op.reserved.cost /\ x >= op.exposure /\ x >= OrZero(op.cost)
  BY <1>1, ExposureCovers
<1>4. CASE op.conflicted
  BY <1>1, <1>2, <1>3, <1>4 DEF Larger
<1>5. CASE ~op.conflicted /\ seen = NoUsage
  BY <1>1, <1>2, <1>3, <1>5 DEF Larger, CostOf
<1>6. CASE ~op.conflicted /\ seen # NoUsage
  <2>1. seen = op.usage /\ op.cost = y /\ op.cost # Null
    BY <1>2, <1>6 DEF OpSound
  <2> QED
    BY <1>1, <1>2, <1>3, <2>1 DEF Larger, OrZero
<1> QED
  BY <1>4, <1>5, <1>6

\* The two runs that a conflict may breach, and the rows it disputes.
LEMMA ConflictStep ==
  ASSUME BookInv, lastClock' \in Nat, lastClock <= lastClock',
         NEW p \in DOMAIN ops, NEW v \in DOMAIN events, NEW stopped \in BOOLEAN,
         NEW usage \in Usages \cup {NoUsage}, Observable(p, stopped, usage),
         EventConflict(p, v, stopped, usage), grants' = grants
  PROVE  BookInv' /\ Moves
<1>1. /\ TypeOK /\ lastClock \in Int /\ lastClock' \in Int /\ events' = events
      /\ events[v].op \in DOMAIN ops
  BY DEF BookInv, TypeOK, EventConflict
<1>2. PICK A : A = Affected(p, v)
  OBVIOUS
<1>3. A \subseteq DOMAIN ops /\ \A q \in A : ops[q].intended # Null
  <2>1. ops[events[v].op].intended # Null
    BY DEF BookInv, EventSound
  <2> QED
    BY <1>1, <1>2, <2>1 DEF Affected, Observable
<1>4. /\ ops' = [q \in DOMAIN ops |-> IF q \in A THEN Disputed(ops[q], usage) ELSE ops[q]]
      /\ runs' = [r \in DOMAIN runs |->
                   [runs[r] EXCEPT !.breached = @ \/ \E q \in A : ops[q].run = r]]
  BY <1>2 DEF EventConflict
<1>5. /\ DOMAIN ops' = DOMAIN ops
      /\ \A q \in DOMAIN ops : ops'[q] = IF q \in A THEN Disputed(ops[q], usage) ELSE ops[q]
  BY <1>4
<1>6. ASSUME NEW r \in DOMAIN runs
      PROVE  /\ runs'[r] \in RunRow /\ Grows(runs[r], runs'[r])
             /\ runs'[r].owner = runs[r].owner /\ runs'[r].epoch = runs[r].epoch
             /\ runs'[r].closed = runs[r].closed
             /\ runs'[r].breached <=> runs[r].breached \/ \E q \in A : ops[q].run = r
  <2>1. PICK b \in BOOLEAN : b <=> runs[r].breached \/ \E q \in A : ops[q].run = r
    OBVIOUS
  <2>2. runs[r] \in RunRow
    BY <1>1, RowTypes
  <2>3. runs[r].breached \in BOOLEAN
    BY <2>2 DEF RunRow
  <2>4. runs'[r] = [runs[r] EXCEPT !.breached = b]
    <3>1. b = (runs[r].breached \/ \E q \in A : ops[q].run = r)
      BY <2>1, <2>3, Zenon
    <3> QED
      BY <1>4, <3>1, Zenon
  <2>5. PICK next : next = runs'[r]
    OBVIOUS
  <2>6. /\ next \in RunRow /\ next.profile = runs[r].profile /\ next.created = runs[r].created
        /\ next.deadline = runs[r].deadline /\ next.owner = runs[r].owner
        /\ next.epoch = runs[r].epoch /\ next.cancelled = runs[r].cancelled
        /\ next.closed = runs[r].closed /\ next.breached = b /\ runs[r].epoch \in Nat
    BY <2>2, <2>4, <2>5 DEF RunRow
  <2>7. Grows(runs[r], next)
    BY <2>1, <2>6 DEF Grows
  <2> QED
    BY <2>1, <2>5, <2>6, <2>7
<1>7. DOMAIN runs' = DOMAIN runs /\ IsTable(runs', Runs, RunRow)
  <2>1. DOMAIN runs' = DOMAIN runs
    BY <1>4
  <2>2. runs' = [r \in DOMAIN runs' |-> runs'[r]]
    BY <1>4, Zenon
  <2> QED
    BY <1>1, <1>6, <2>1, <2>2 DEF IsTable, TypeOK
<1>8. ASSUME NEW q \in DOMAIN ops
      PROVE  /\ ops'[q] \in OpRow /\ OpGrows(ops[q], ops'[q])
             /\ OpSound(ops'[q], runs'[ops[q].run], lastClock')
             /\ ops'[q].intended = ops[q].intended /\ ops'[q].usage = ops[q].usage
             /\ IF q \in A THEN ops'[q].conflicted /\ ops'[q].exposure = Exposure(ops[q], usage)
                           ELSE ops'[q] = ops[q]
  <2>1. /\ ops[q] \in OpRow /\ ops[q].run \in DOMAIN runs /\ runs[ops[q].run] \in RunRow
        /\ OpSound(ops[q], runs[ops[q].run], lastClock)
    BY <1>1, RowTypes DEF BookInv
  <2>2. runs'[ops[q].run] \in RunRow
    BY <1>6, <2>1
  <2>3. OpSound(ops[q], runs'[ops[q].run], lastClock')
    BY <1>1, <1>6, <2>1, SoundStays
  <2>4. CASE q \in A
    <3>1. runs'[ops[q].run].breached /\ ops[q].intended # Null /\ ops'[q] = Disputed(ops[q], usage)
      BY <1>3, <1>5, <1>6, <2>1, <2>4
    <3> QED
      BY <1>1, <2>1, <2>2, <2>3, <2>4, <3>1, DisputedSound
  <2>5. CASE q \notin A
    BY <1>5, <2>1, <2>3, <2>5 DEF OpGrows
  <2> QED
    BY <2>4, <2>5
<1>9. IsTable(ops', Operations, OpRow)
  <2>1. ops' = [q \in DOMAIN ops' |-> ops'[q]]
    BY <1>4, Zenon
  <2> QED
    BY <1>1, <1>5, <1>8, <2>1 DEF IsTable, TypeOK
<1>10. TypeOK'
  <2>1. \A q \in DOMAIN ops' : ops'[q].run \in DOMAIN runs'
    BY <1>1, <1>5, <1>7, <1>8, RowTypes DEF OpGrows
  <2>2. IsTable(events', Events, EventRow) /\ \A w \in DOMAIN events' : events'[w].op \in DOMAIN ops'
    BY <1>1, <1>5 DEF TypeOK
  <2> QED
    BY <1>1, <1>7, <1>9, <2>1, <2>2 DEF TypeOK
<1>11. \A q \in DOMAIN ops' : OpSound(ops'[q], runs'[ops'[q].run], lastClock')
  BY <1>5, <1>8 DEF OpGrows
<1>12. ASSUME NEW w \in DOMAIN events'
       PROVE  EventSound(w)'
  <2>1. PICK q \in DOMAIN ops : q = events[w].op
    BY <1>1 DEF TypeOK
  <2>2. PICK seen \in Usages \cup {NoUsage} : seen = events[w].usage
    BY <1>1 DEF TypeOK, IsTable, EventRow
  <2>3. /\ ops[q].intended # Null
        /\ IF ops[q].conflicted THEN Larger(ops[q].reserved.cost, ops[q].exposure) >= CostOf(seen)
                                ELSE seen \in {NoUsage, ops[q].usage}
    BY <1>1, <2>1, <2>2 DEF BookInv, EventSound
  <2>4. /\ ops[q] \in OpRow /\ runs[ops[q].run] \in RunRow
        /\ OpSound(ops[q], runs[ops[q].run], lastClock)
    BY <1>1, RowTypes DEF BookInv
  <2>5. Larger(ops[q].reserved.cost, Exposure(ops[q], usage)) >= CostOf(seen)
    BY <1>1, <2>3, <2>4, ChargeGrows
  <2>6. /\ ops'[q].intended # Null
        /\ IF ops'[q].conflicted THEN Larger(ops'[q].reserved.cost, ops'[q].exposure) >= CostOf(seen)
                                 ELSE seen \in {NoUsage, ops'[q].usage}
    BY <1>8, <2>3, <2>5 DEF OpGrows
  <2> QED
    BY <1>1, <2>1, <2>2, <2>6 DEF EventSound
<1>13. ASSUME NEW x \in DOMAIN runs'
       PROVE  runs'[x].created <= lastClock' /\ runs'[x].epoch >= 1 /\ BreachHasReason(x)'
  <2>1. /\ x \in DOMAIN runs /\ runs[x] \in RunRow /\ runs'[x] \in RunRow
        /\ runs[x].created <= lastClock /\ runs[x].epoch >= 1 /\ BreachHasReason(x)
        /\ Grows(runs[x], runs'[x])
    BY <1>1, <1>6, <1>7, RowTypes DEF BookInv
  <2>2. ASSUME NEW q \in OpsOf(x), Suspect(q) \/ q \in A
        PROVE  q \in OpsOf(x)' /\ Suspect(q)'
    <3>1. /\ q \in DOMAIN ops /\ ops[q].run = x /\ ops'[q].run = x
          /\ ops'[q].reserved = ops[q].reserved /\ ops'[q].usage = ops[q].usage
          /\ q \in A => ops'[q].conflicted
          /\ q \notin A => ops'[q] = ops[q]
      BY <1>8 DEF OpsOf, OpGrows
    <3> QED
      BY <1>5, <2>2, <3>1 DEF OpsOf, Suspect, Exceeds
  <2>3. CASE runs[x].breached
    BY <1>1, <2>1, <2>2, <2>3 DEF BreachHasReason, RunRow, Grows
  <2>4. CASE ~runs[x].breached /\ runs'[x].breached
    <3>1. PICK q \in A : ops[q].run = x
      BY <1>6, <2>1, <2>4
    <3>2. q \in OpsOf(x)
      BY <1>3, <3>1 DEF OpsOf
    <3>3. BreachHasReason(x)'
      BY <2>2, <3>2 DEF BreachHasReason
    <3> QED
      BY <1>1, <2>1, <3>3 DEF RunRow, Grows
  <2>5. CASE ~runs'[x].breached
    BY <1>1, <2>1, <2>5 DEF BreachHasReason, RunRow, Grows
  <2> QED
    BY <2>3, <2>4, <2>5
<1>14. GrantsSound' /\ EpochFencing'
  BY <1>6, <1>7 DEF BookInv, GrantsSound, EpochFencing
<1>15. IsFiniteSet(DOMAIN ops')
  BY <1>5 DEF BookInv
<1>16. SlotsBounded'
  BY <1>5, <1>6, <1>7, <1>8, <1>10, <1>15, SlotsStay DEF OpGrows, Grows
<1>17. Moves
  BY <1>5, <1>6, <1>7, <1>8 DEF Moves, Starts
<1> QED
  BY <1>10, <1>11, <1>12, <1>13, <1>14, <1>15, <1>16, <1>17 DEF BookInv

\* The row of an operation and the row of its run after a new event.
SeenRow(op, now, stopped, usage) ==
  LET seen == WithStop(WithUsage(op, now, usage), now, stopped)
  IN IF Conflict(op, usage)
       THEN [seen EXCEPT !.conflicted = TRUE, !.exposure = Exposure(op, usage)]
       ELSE seen

FirstUsage(op, usage) == usage # NoUsage /\ op.usage = NoUsage

LEMMA SeenFields ==
  ASSUME NEW op \in OpRow, NEW now \in Nat, NEW stopped \in BOOLEAN,
         NEW usage \in Usages \cup {NoUsage}, NEW row, row = SeenRow(op, now, stopped, usage)
  PROVE  /\ row \in OpRow /\ row.run = op.run /\ row.epoch = op.epoch
         /\ row.reserved = op.reserved /\ row.intended = op.intended /\ row.released = op.released
         /\ row.stopped = IF stopped /\ op.stopped = Null THEN now ELSE op.stopped
         /\ row.usage = IF FirstUsage(op, usage) THEN usage ELSE op.usage
         /\ row.settledAt = IF FirstUsage(op, usage) THEN now ELSE op.settledAt
         /\ row.cost = IF FirstUsage(op, usage) THEN CostOf(usage) ELSE op.cost
         /\ row.conflicted <=> Conflict(op, usage)
         /\ row.exposure = IF Conflict(op, usage) THEN Exposure(op, usage) ELSE op.exposure
<1>1. PICK x \in Nat, y \in Nat : x = Exposure(op, usage) /\ y = CostOf(usage)
  BY ExposureCovers, CostOfNat
<1>2. PICK a : a = WithUsage(op, now, usage)
  OBVIOUS
<1>3. /\ a \in OpRow /\ a.run = op.run /\ a.epoch = op.epoch
      /\ a.reserved = op.reserved /\ a.intended = op.intended /\ a.released = op.released
      /\ a.stopped = op.stopped /\ a.conflicted = op.conflicted /\ a.exposure = op.exposure
      /\ a.usage = IF FirstUsage(op, usage) THEN usage ELSE op.usage
      /\ a.settledAt = IF FirstUsage(op, usage) THEN now ELSE op.settledAt
      /\ a.cost = IF FirstUsage(op, usage) THEN y ELSE op.cost
  <2>1. a = IF FirstUsage(op, usage)
              THEN [op EXCEPT !.usage = usage, !.settledAt = now, !.cost = y] ELSE op
    BY <1>1, <1>2 DEF WithUsage, FirstUsage
  <2>2. CASE FirstUsage(op, usage)
    BY <1>1, <2>1, <2>2 DEF OpRow
  <2>3. CASE ~FirstUsage(op, usage)
    BY <2>1, <2>3
  <2> QED
    BY <2>2, <2>3
<1>4. PICK b : b = WithStop(a, now, stopped)
  OBVIOUS
<1>5. /\ b \in OpRow /\ b.run = a.run /\ b.epoch = a.epoch
      /\ b.reserved = a.reserved /\ b.intended = a.intended /\ b.released = a.released
      /\ b.usage = a.usage /\ b.settledAt = a.settledAt /\ b.cost = a.cost
      /\ b.conflicted = a.conflicted /\ b.exposure = a.exposure
      /\ b.stopped = IF stopped /\ a.stopped = Null THEN now ELSE a.stopped
  <2>1. CASE stopped /\ a.stopped = Null
    BY <1>3, <1>4, <2>1 DEF WithStop, OpRow
  <2>2. CASE ~(stopped /\ a.stopped = Null)
    BY <1>3, <1>4, <2>2 DEF WithStop
  <2> QED
    BY <2>1, <2>2
<1>6. row = IF Conflict(op, usage) THEN [b EXCEPT !.conflicted = TRUE, !.exposure = x] ELSE b
  BY <1>1, <1>2, <1>4 DEF SeenRow
<1>7. CASE Conflict(op, usage)
  <2>1. /\ row \in OpRow /\ row.run = b.run /\ row.epoch = b.epoch
        /\ row.reserved = b.reserved /\ row.intended = b.intended /\ row.released = b.released
        /\ row.usage = b.usage /\ row.settledAt = b.settledAt /\ row.cost = b.cost
        /\ row.conflicted /\ row.exposure = x /\ row.stopped = b.stopped
    BY <1>1, <1>5, <1>6, <1>7 DEF OpRow
  <2> QED
    BY <1>1, <1>3, <1>5, <1>7, <2>1
<1>8. CASE ~Conflict(op, usage)
  <2>1. row = b /\ ~op.conflicted
    BY <1>6, <1>8 DEF Conflict
  <2> QED
    BY <1>1, <1>3, <1>5, <1>8, <2>1
<1> QED
  BY <1>7, <1>8

LEMMA SeenSound ==
  ASSUME NEW op \in OpRow, NEW run \in RunRow, NEW next \in RunRow, NEW c \in Int, NEW now \in Nat,
         c <= now, OpSound(op, run, c), run.created <= now, NEW stopped \in BOOLEAN,
         NEW usage \in Usages \cup {NoUsage},
         op.intended # Null, ~op.released,
         usage # NoUsage /\ CostOf(usage) = 0 => op.reserved.cost = 0,
         Grows(run, next), next.epoch = run.epoch, next.closed = run.closed,
         next.breached <=> run.breached \/ Conflict(op, usage) \/ Overrun(op, run.deadline, now, usage),
         NEW row, row = SeenRow(op, now, stopped, usage)
  PROVE  OpSound(row, next, now) /\ OpGrows(op, row)
<1>1. /\ row \in OpRow /\ row.run = op.run /\ row.epoch = op.epoch
      /\ row.reserved = op.reserved /\ row.intended = op.intended /\ row.released = op.released
      /\ row.stopped = IF stopped /\ op.stopped = Null THEN now ELSE op.stopped
      /\ row.usage = IF FirstUsage(op, usage) THEN usage ELSE op.usage
      /\ row.settledAt = IF FirstUsage(op, usage) THEN now ELSE op.settledAt
      /\ row.cost = IF FirstUsage(op, usage) THEN CostOf(usage) ELSE op.cost
      /\ row.conflicted <=> Conflict(op, usage)
      /\ row.exposure = IF Conflict(op, usage) THEN Exposure(op, usage) ELSE op.exposure
  BY SeenFields
<1>2. /\ now # Null /\ op.intended \in run.created .. c /\ op.intended \in Int /\ op.intended <= now
      /\ op.stopped \in Int /\ op.settledAt \in Int /\ run.created \in Int
  BY DEF OpSound, Null, OpRow, RunRow
<1>3. CostOf(usage) \in Nat /\ CostOf(usage) # Null
  BY CostOfNat DEF Null
<1>4. ValidReservation(row.reserved) /\ row.epoch \in 1 .. next.epoch
  BY <1>1 DEF OpSound
<1>5. row.intended # Null => row.intended \in next.created .. now
  BY <1>1, <1>2 DEF Grows
<1>6. row.stopped # Null =>
        row.intended # Null /\ row.stopped >= row.intended /\ row.stopped <= now
  <2>1. CASE row.stopped = now
    BY <1>1, <1>2, <2>1
  <2>2. CASE row.stopped = op.stopped
    BY <1>1, <1>2, <2>2 DEF OpSound
  <2> QED
    BY <1>1, <2>1, <2>2
<1>7. row.settledAt # Null =>
        row.intended # Null /\ row.settledAt >= row.intended /\ row.settledAt <= now
  <2>1. CASE row.settledAt = now
    BY <1>1, <1>2, <2>1
  <2>2. CASE row.settledAt = op.settledAt
    BY <1>1, <1>2, <2>2 DEF OpSound
  <2> QED
    BY <1>1, <2>1, <2>2
<1>8. /\ row.conflicted => row.intended # Null /\ next.breached
      /\ ~row.conflicted => row.exposure = 0
  BY <1>1 DEF OpSound, Conflict
<1>9. /\ row.usage = NoUsage <=> row.settledAt = Null
      /\ row.usage = NoUsage <=> row.cost = Null
  BY <1>1, <1>2, <1>3 DEF OpSound, FirstUsage
<1>10. row.usage # NoUsage =>
         /\ row.cost = CostOf(row.usage)
         /\ row.cost = 0 => row.reserved.cost = 0
         /\ Exceeds(row, row.usage) => next.breached
  <2>1. CASE FirstUsage(op, usage)
    <3>1. Exceeds(row, row.usage) => Exceeds(op, usage)
      BY <1>1, <2>1 DEF Exceeds
    <3> QED
      BY <1>1, <2>1, <3>1 DEF FirstUsage, Overrun
  <2>2. CASE ~FirstUsage(op, usage)
    <3>1. Exceeds(row, row.usage) => Exceeds(op, op.usage)
      BY <1>1, <2>2 DEF Exceeds
    <3> QED
      BY <1>1, <2>2, <3>1 DEF OpSound
  <2> QED
    BY <2>1, <2>2
<1>11. next.closed /\ ~next.breached => AccountedFor(row)
  <2> SUFFICES ASSUME next.closed, ~next.breached PROVE AccountedFor(row)
    OBVIOUS
  <2>1. AccountedFor(op) /\ ~Conflict(op, usage)
    BY DEF OpSound
  <2>2. op.stopped # Null /\ op.usage # NoUsage
    BY <2>1 DEF AccountedFor, Settled
  <2> QED
    BY <1>1, <2>1, <2>2 DEF AccountedFor, Settled, FirstUsage
<1>12. OpSound(row, next, now)
  BY <1>1, <1>4, <1>5, <1>6, <1>7, <1>8, <1>9, <1>10, <1>11 DEF OpSound
<1>13. OpGrows(op, row)
  BY <1>1 DEF OpGrows, FirstUsage
<1> QED
  BY <1>12, <1>13

\* What suspects a row before an event suspects it after, and a breach of its
\* run by the event leaves it suspect or comes after the deadline.
LEMMA SeenSuspect ==
  ASSUME NEW op \in OpRow, NEW now \in Nat, NEW stopped \in BOOLEAN, NEW deadline \in Nat,
         NEW usage \in Usages \cup {NoUsage}, NEW row, row = SeenRow(op, now, stopped, usage)
  PROVE  /\ op.conflicted \/ Exceeds(op, op.usage) => row.conflicted \/ Exceeds(row, row.usage)
         /\ Conflict(op, usage) \/ Overrun(op, deadline, now, usage) =>
              row.conflicted \/ Exceeds(row, row.usage) \/ now > deadline
<1>1. /\ row.reserved = op.reserved
      /\ row.usage = IF FirstUsage(op, usage) THEN usage ELSE op.usage
      /\ row.conflicted <=> Conflict(op, usage)
  BY SeenFields
<1>2. op.conflicted => row.conflicted
  BY <1>1 DEF Conflict
<1>3. Exceeds(op, op.usage) => Exceeds(row, row.usage)
  BY <1>1 DEF Exceeds, FirstUsage
<1>4. Exceeds(op, usage) /\ ~Conflict(op, usage) => Exceeds(row, row.usage)
  BY <1>1 DEF Exceeds, FirstUsage, Conflict
<1> QED
  BY <1>1, <1>2, <1>3, <1>4 DEF Overrun

LEMMA NewEventStep ==
  ASSUME BookInv, NEW now \in Nat, lastClock' = now, lastClock <= now,
         NEW p \in DOMAIN ops, NEW v \in Events, v \notin DOMAIN events, NEW stopped \in BOOLEAN,
         NEW usage \in Usages \cup {NoUsage}, Observable(p, stopped, usage),
         EventNew(now, p, v, stopped, usage), grants' = grants
  PROVE  BookInv' /\ Moves
<1>1. /\ TypeOK /\ lastClock \in Int /\ p \in Operations
      /\ IsTable(ops, Operations, OpRow) /\ IsTable(runs, Runs, RunRow)
      /\ IsTable(events, Events, EventRow)
  BY RowTypes DEF BookInv, TypeOK
<1>2. PICK op, r : op = ops[p] /\ r = op.run
  OBVIOUS
<1>3. PICK run : run = runs[r]
  OBVIOUS
<1>4. /\ op \in OpRow /\ r \in DOMAIN runs /\ run \in RunRow /\ OpSound(op, run, lastClock)
      /\ run.created <= lastClock /\ run.created \in Int /\ run.breached \in BOOLEAN
  BY <1>1, <1>2, <1>3, RowTypes DEF BookInv, RunRow
<1>5. PICK row : row = SeenRow(op, now, stopped, usage)
  OBVIOUS
<1>6. PICK b \in BOOLEAN :
        b <=> run.breached \/ Conflict(op, usage) \/ Overrun(op, run.deadline, now, usage)
  OBVIOUS
<1>7. PICK next : next = [run EXCEPT !.breached = b]
  OBVIOUS
<1>8. /\ next \in RunRow /\ next.owner = run.owner /\ next.epoch = run.epoch
      /\ next.closed = run.closed /\ next.breached = b /\ Grows(run, next)
      /\ next.deadline = run.deadline
  <2>1. /\ next \in RunRow /\ next.profile = run.profile /\ next.created = run.created
        /\ next.deadline = run.deadline /\ next.owner = run.owner
        /\ next.epoch = run.epoch /\ next.cancelled = run.cancelled
        /\ next.closed = run.closed /\ next.breached = b /\ run.epoch \in Nat
    BY <1>4, <1>7 DEF RunRow
  <2> QED
    BY <1>6, <2>1 DEF Grows
<1>9. ops' = [ops EXCEPT ![p] = row]
  BY <1>2, <1>5 DEF EventNew, SeenRow
<1>10. runs' = [runs EXCEPT ![r] = next]
  <2>1. Conflict(op, usage) \in BOOLEAN /\ Overrun(op, run.deadline, now, usage) \in BOOLEAN
    BY <1>4 DEF Conflict, Overrun, OpRow, Exceeds
  <2>2. b = (run.breached \/ Conflict(op, usage) \/ Overrun(op, run.deadline, now, usage))
    BY <1>4, <1>6, <2>1, Zenon
  <2>3. runs' = [runs EXCEPT ![r].breached =
                   @ \/ Conflict(op, usage) \/ Overrun(op, run.deadline, now, usage)]
    BY <1>2, <1>3, Zenon DEF EventNew
  <2>4. runs' = [runs EXCEPT ![r] = [run EXCEPT !.breached =
                   run.breached \/ Conflict(op, usage) \/ Overrun(op, run.deadline, now, usage)]]
    BY <1>3, <2>3, Zenon
  <2> QED
    BY <1>7, <2>2, <2>4, Zenon
<1>11. PICK e \in EventRow : e = [op |-> p, stopped |-> stopped, usage |-> usage]
  BY <1>1 DEF EventRow
<1>12. /\ DOMAIN events' = DOMAIN events \cup {v} /\ events'[v] = e
       /\ \A w \in DOMAIN events : w # v /\ events'[w] = events[w]
       /\ IsTable(events', Events, EventRow)
  <2>1. events' = Insert(events, v, e)
    BY <1>11 DEF EventNew
  <2> QED
    BY <1>1, <2>1, InsertFacts
<1>13. OpSound(row, next, now) /\ OpGrows(op, row)
  <2>1. op.intended # Null /\ ~op.released /\ (usage # NoUsage /\ CostOf(usage) = 0 => op.reserved.cost = 0)
    BY <1>2 DEF Observable
  <2>2. run.created <= now
    BY <1>1, <1>4
  <2> QED
    BY <1>1, <1>4, <1>5, <1>6, <1>8, <2>1, <2>2, SeenSound
<1>14. /\ row \in OpRow /\ row.run = r /\ row.intended = op.intended
       /\ row.reserved = op.reserved
       /\ row.usage = IF FirstUsage(op, usage) THEN usage ELSE op.usage
       /\ row.conflicted <=> Conflict(op, usage)
       /\ row.exposure = IF Conflict(op, usage) THEN Exposure(op, usage) ELSE op.exposure
  BY <1>2, <1>4, <1>5, SeenFields
<1>15. /\ DOMAIN ops' = DOMAIN ops /\ ops'[p] = row /\ IsTable(ops', Operations, OpRow)
       /\ \A q \in DOMAIN ops : q # p => ops'[q] = ops[q]
  BY <1>1, <1>9, <1>14 DEF IsTable
<1>16. /\ DOMAIN runs' = DOMAIN runs /\ runs'[r] = next /\ IsTable(runs', Runs, RunRow)
       /\ \A x \in DOMAIN runs : x # r => runs'[x] = runs[x]
  BY <1>1, <1>4, <1>8, <1>10 DEF IsTable
<1>17. ASSUME NEW x \in DOMAIN runs
       PROVE  /\ runs[x] \in RunRow /\ runs'[x] \in RunRow /\ Grows(runs[x], runs'[x])
              /\ runs'[x].owner = runs[x].owner /\ runs'[x].epoch = runs[x].epoch
              /\ runs'[x].closed = runs[x].closed
              /\ runs'[x].breached /\ ~runs[x].breached => x = r
  BY <1>1, <1>3, <1>8, <1>16, RowTypes, GrowsItself
<1>18. ASSUME NEW q \in DOMAIN ops
       PROVE  /\ OpGrows(ops[q], ops'[q]) /\ ops'[q].intended = ops[q].intended
              /\ OpSound(ops'[q], runs'[ops[q].run], lastClock')
  <2>1. CASE q = p
    BY <1>2, <1>13, <1>14, <1>15, <1>16, <2>1
  <2>2. CASE q # p
    <3>1. /\ ops[q] \in OpRow /\ ops[q].run \in DOMAIN runs
          /\ OpSound(ops[q], runs[ops[q].run], lastClock)
      BY <1>1, RowTypes DEF BookInv
    <3>2. OpSound(ops[q], runs'[ops[q].run], lastClock')
      BY <1>1, <1>17, <3>1, SoundStays
    <3> QED
      BY <1>15, <2>2, <3>2 DEF OpGrows
  <2> QED
    BY <2>1, <2>2
<1>19. TypeOK'
  <2>1. \A q \in DOMAIN ops' : ops'[q].run \in DOMAIN runs'
    BY <1>1, <1>15, <1>16, <1>18, RowTypes DEF OpGrows
  <2>2. \A w \in DOMAIN events' : events'[w].op \in DOMAIN ops'
    BY <1>1, <1>11, <1>12, <1>15 DEF TypeOK
  <2> QED
    BY <1>1, <1>12, <1>15, <1>16, <2>1, <2>2 DEF TypeOK
<1>20. \A q \in DOMAIN ops' : OpSound(ops'[q], runs'[ops'[q].run], lastClock')
  BY <1>15, <1>18 DEF OpGrows
<1>21. ASSUME NEW w \in DOMAIN events'
       PROVE  EventSound(w)'
  <2>1. CASE w = v
    <3>1. events'[w].op = p /\ events'[w].usage = usage
      BY <1>11, <1>12, <2>1
    <3>2. row.intended # Null
      BY <1>2, <1>14 DEF Observable
    <3>3. CASE Conflict(op, usage)
      <4>1. PICK x \in Nat, y \in Nat : x = Exposure(op, usage) /\ y = CostOf(usage)
        BY <1>4, ExposureCovers, CostOfNat
      <4>2. op.reserved.cost \in Nat /\ x >= op.reserved.cost /\ x >= y
        BY <1>4, <4>1, ExposureCovers
      <4>3. Larger(row.reserved.cost, row.exposure) >= CostOf(usage)
        BY <1>14, <3>3, <4>1, <4>2 DEF Larger
      <4> QED
        BY <1>14, <1>15, <3>1, <3>2, <3>3, <4>3 DEF EventSound
    <3>4. CASE ~Conflict(op, usage)
      <4>1. usage \in {NoUsage, row.usage}
        BY <1>14, <3>4 DEF Conflict, FirstUsage
      <4> QED
        BY <1>14, <1>15, <3>1, <3>2, <3>4, <4>1 DEF EventSound
    <3> QED
      BY <3>3, <3>4
  <2>2. CASE w # v
    <3>1. PICK q \in DOMAIN ops : q = events[w].op /\ events'[w] = events[w] /\ w \in DOMAIN events
      BY <1>1, <1>12, <2>2 DEF TypeOK
    <3>2. PICK seen \in Usages \cup {NoUsage} : seen = events[w].usage
      BY <1>1, <3>1 DEF IsTable, EventRow
    <3>3. /\ ops[q].intended # Null
          /\ IF ops[q].conflicted THEN Larger(ops[q].reserved.cost, ops[q].exposure) >= CostOf(seen)
                                  ELSE seen \in {NoUsage, ops[q].usage}
      BY <3>1, <3>2 DEF BookInv, EventSound
    <3>4. CASE q = p
      <4>1. Larger(op.reserved.cost, Exposure(op, usage)) >= CostOf(seen)
        BY <1>1, <1>2, <1>4, <3>3, <3>4, ChargeGrows
      <4>2. CASE Conflict(op, usage)
        BY <1>2, <1>14, <1>15, <3>1, <3>2, <3>3, <3>4, <4>1, <4>2 DEF EventSound
      <4>3. CASE ~Conflict(op, usage)
        <5>1. seen \in {NoUsage, row.usage}
          BY <1>2, <1>14, <3>3, <3>4, <4>3 DEF Conflict, FirstUsage
        <5> QED
          BY <1>2, <1>14, <1>15, <3>1, <3>2, <3>3, <3>4, <4>3, <5>1 DEF EventSound
      <4> QED
        BY <4>2, <4>3
    <3>5. CASE q # p
      BY <1>15, <3>1, <3>2, <3>3, <3>5 DEF EventSound
    <3> QED
      BY <3>4, <3>5
  <2> QED
    BY <2>1, <2>2
<1>22. ASSUME NEW x \in DOMAIN runs'
       PROVE  runs'[x].created <= lastClock' /\ runs'[x].epoch >= 1 /\ BreachHasReason(x)'
  <2>1. /\ x \in DOMAIN runs /\ runs[x] \in RunRow /\ runs'[x] \in RunRow
        /\ runs[x].created <= lastClock /\ runs[x].epoch >= 1 /\ BreachHasReason(x)
        /\ Grows(runs[x], runs'[x])
    BY <1>16, <1>17 DEF BookInv
  <2>2. ASSUME NEW q \in OpsOf(x), Suspect(q)
        PROVE  q \in OpsOf(x)' /\ Suspect(q)'
    <3>1. q \in DOMAIN ops' /\ ops'[q].run = x
      BY <1>15, <1>18 DEF OpsOf, OpGrows
    <3>2. CASE q = p
      <4>1. row.conflicted \/ Exceeds(row, row.usage)
        BY <1>2, <1>4, <1>5, <2>2, <3>2, SeenSuspect DEF Suspect, RunRow
      <4> QED
        BY <1>15, <3>1, <3>2, <4>1 DEF OpsOf, Suspect
    <3>3. CASE q # p
      BY <1>15, <2>2, <3>1, <3>3 DEF OpsOf, Suspect
    <3> QED
      BY <3>2, <3>3
  <2>3. CASE runs[x].breached
    BY <1>1, <2>1, <2>2, <2>3 DEF BreachHasReason, RunRow, Grows
  <2>4. CASE ~runs[x].breached /\ runs'[x].breached
    <3>1. x = r /\ (Conflict(op, usage) \/ Overrun(op, run.deadline, now, usage))
      BY <1>3, <1>6, <1>8, <1>16, <1>17, <2>1, <2>4
    <3>2. row.conflicted \/ Exceeds(row, row.usage) \/ now > run.deadline
      <4>1. run.deadline \in Nat
        BY <1>4 DEF RunRow
      <4> QED
        BY <1>4, <1>5, <3>1, <4>1, SeenSuspect
    <3>3. p \in OpsOf(x)' /\ runs'[x].deadline = run.deadline
      BY <1>8, <1>14, <1>15, <1>16, <3>1 DEF OpsOf
    <3>4. BreachHasReason(x)'
      BY <1>15, <3>2, <3>3 DEF BreachHasReason, Suspect
    <3> QED
      BY <1>1, <2>1, <3>4 DEF RunRow, Grows
  <2>5. CASE ~runs'[x].breached
    BY <1>1, <2>1, <2>5 DEF BreachHasReason, RunRow, Grows
  <2> QED
    BY <2>3, <2>4, <2>5
<1>23. GrantsSound' /\ EpochFencing'
  BY <1>16, <1>17 DEF BookInv, GrantsSound, EpochFencing
<1>24. IsFiniteSet(DOMAIN ops')
  BY <1>15 DEF BookInv
<1>25. SlotsBounded'
  BY <1>15, <1>16, <1>17, <1>18, <1>19, <1>24, SlotsStay DEF OpGrows, Grows
<1>26. Moves
  BY <1>15, <1>16, <1>17, <1>18 DEF Moves, Starts
<1> QED
  BY <1>19, <1>20, <1>21, <1>22, <1>23, <1>24, <1>25, <1>26 DEF BookInv

LEMMA ObserveStep ==
  ASSUME BookInv, NEW now \in Times, NEW v \in Events, NEW m \in Reports,
         observe(now, m.op, v, m.stopped, m.usage)
  PROVE  BookInv' /\ Moves
<1>1. /\ TypeOK /\ now \in Nat /\ lastClock' = now /\ lastClock <= now
      /\ m.op \in DOMAIN ops /\ Observable(m.op, m.stopped, m.usage) /\ grants' = grants
  BY TouchClock DEF BookInv, observe
<1>2. m.stopped \in BOOLEAN /\ m.usage \in Usages \cup {NoUsage}
  BY DEF Reports
<1>3. CASE v \in DOMAIN events /\ EventConflict(m.op, v, m.stopped, m.usage)
  BY <1>1, <1>2, <1>3, ConflictStep
<1>4. CASE v \in DOMAIN events /\ EventReplay(m.op, v, m.stopped, m.usage)
  BY <1>1, <1>4, ClockStep DEF EventReplay
<1>5. CASE v \notin DOMAIN events /\ EventNew(now, m.op, v, m.stopped, m.usage)
  BY <1>1, <1>2, <1>5, NewEventStep
<1> QED
  BY <1>3, <1>4, <1>5 DEF observe

LEMMA SnapshotStep ==
  ASSUME BookInv, NEW now \in Times, NEW r, snapshot(now, r)
  PROVE  BookInv' /\ Moves
BY TouchClock, ClockStep DEF BookInv, snapshot

\* Nothing is dispatched or started by these.
LEMMA Unchanged ==
  ASSUME BookInv, UNCHANGED <<lastClock, runs, ops, events, grants>>
  PROVE  BookInv' /\ Moves
<1>1. lastClock \in Nat \/ lastClock = -1
  BY DEF BookInv, TypeOK
<1>2. CASE lastClock \in Nat
  BY <1>2, ClockStep
<1>3. CASE lastClock = -1
  <2>1. BookInv'
    BY DEF BookInv, TypeOK, IsTable, EventSound, BreachHasReason, OpsOf, Suspect, GrantsSound,
           EpochFencing, SlotsBounded, Slots, Counted
  <2>2. Moves
    BY <1>3, RowTypes, GrowsItself DEF Moves, OpGrows, Starts, BookInv
  <2> QED
    BY <2>1, <2>2
<1> QED
  BY <1>1, <1>2, <1>3

LEMMA BookInitial == BookInit => BookInv
<1> SUFFICES ASSUME BookInit PROVE BookInv
  OBVIOUS
<1>1. /\ lastClock = -1 /\ runs = [r \in {} |-> {}] /\ ops = [p \in {} |-> {}]
      /\ events = [v \in {} |-> {}] /\ grants = {}
  BY DEF BookInit
<1>2. TypeOK
  BY <1>1 DEF TypeOK, IsTable
<1>3. IsFiniteSet(DOMAIN ops)
  BY <1>1, FS_EmptySet
<1> QED
  BY <1>1, <1>2, <1>3 DEF BookInv, GrantsSound, EpochFencing, SlotsBounded

\* Rows are never taken back: neither of the two ways to start anything is open
\* to a run that is closed, cancelled or breached, or to another owner's epoch.
LEMMA MovesGoal ==
  ASSUME TypeOK, TypeOK', Moves
  PROVE  DispatchStep /\ StoppedStep
<1>1. DispatchStep
  <2> SUFFICES ASSUME NEW p \in DOMAIN ops, ops'[p].intended # ops[p].intended
               PROVE  /\ ops[p].intended = Null
                      /\ ops[p].epoch = runs[ops[p].run].epoch
                      /\ ~StartDenied(ops[p].run, lastClock')
    BY DEF DispatchStep
  <2> QED
    BY DEF Moves, Starts, OpGrows
<1>2. StoppedStep
  <2> SUFFICES ASSUME NEW r \in DOMAIN runs,
                      runs[r].closed \/ runs[r].cancelled \/ runs[r].breached
               PROVE  /\ runs'[r].closed \/ runs'[r].cancelled \/ runs'[r].breached
                      /\ \A p \in DOMAIN ops' : ops'[p].run = r =>
                           p \in DOMAIN ops /\ ops'[p].intended = ops[p].intended
    BY DEF StoppedStep
  <2> QED
    BY DEF Moves, Grows, Starts, StartDenied
<1> QED
  BY <1>1, <1>2

-----------------------------------------------------------------------------
(* The book by itself, used by any owners and observers (resources.py).    *)

LEMMA BookSteps == BookInv /\ [BookNext]_bookVars => BookInv' /\ Moves
<1> SUFFICES ASSUME BookInv, [BookNext]_bookVars PROVE BookInv' /\ Moves
  OBVIOUS
<1>1. ASSUME NEW now \in Times, NEW r \in Runs, NEW o \in Owners, NEW profile \in Profiles,
             NEW deadline \in now .. now + MaxClock, create_run(now, r, profile, o, deadline)
      PROVE  BookInv' /\ Moves
  BY <1>1, CreateStep, BookAssumption DEF Times
<1>2. ASSUME NEW now \in Times, NEW r \in Runs, NEW o \in Owners, NEW recovery \in BOOLEAN,
             claim(now, r, o, recovery)
      PROVE  BookInv' /\ Moves
  BY <1>2, ClaimStep
<1>3. ASSUME NEW now \in Times, NEW r \in Runs, NEW o \in Owners, NEW pending \in BOOLEAN,
             claim_for_cancel(now, r, o, pending)
      PROVE  BookInv' /\ Moves
  BY <1>3, ClaimForCancelStep
<1>4. ASSUME NEW now \in Times, NEW g \in grants, NEW p \in Operations, NEW res \in Reservations,
             reserve(now, g.run, g.owner, g.epoch, p, res)
      PROVE  BookInv' /\ Moves
  BY <1>4, ReserveStep
<1>5. ASSUME NEW now \in Times, NEW g \in grants, NEW p \in Operations,
             dispatch_intent(now, g.run, g.owner, g.epoch, p)
      PROVE  BookInv' /\ Moves
  BY <1>5, DispatchIntentStep
<1>6. ASSUME NEW now \in Times, NEW g \in grants, NEW pending \in BOOLEAN,
             cancel(now, g.run, g.owner, g.epoch, pending)
      PROVE  BookInv' /\ Moves
  BY <1>6, RunCancelStep
<1>7. ASSUME NEW now \in Times, NEW g \in grants, close(now, g.run, g.owner, g.epoch)
      PROVE  BookInv' /\ Moves
  BY <1>7, CloseStep
<1>8. ASSUME NEW now \in Times, NEW v \in Events, NEW m \in Reports,
             observe(now, m.op, v, m.stopped, m.usage)
      PROVE  BookInv' /\ Moves
  BY <1>8, ObserveStep
<1>9. ASSUME NEW now \in Times, NEW r \in Runs, snapshot(now, r)
      PROVE  BookInv' /\ Moves
  BY <1>9, SnapshotStep
<1>10. CASE UNCHANGED bookVars
  BY <1>10, Unchanged DEF bookVars
<1> QED
  BY <1>1, <1>2, <1>3, <1>4, <1>5, <1>6, <1>7, <1>8, <1>9, <1>10 DEF BookNext

\* The rows of resources.py stay in order, whatever owners and observers do:
\* inspect_operation finds every row well formed, epochs tell owners apart, a
\* close and a breach are explained, a dispute is charged and the operations
\* that may be executing never outnumber the limit of their run.
THEOREM BookCorrect == BookSpec => [](BookInOrder /\ DisputeCharged /\ SlotsBounded)
<1>1. BookInit => BookInv
  BY BookInitial
<1>2. BookInv /\ [BookNext]_bookVars => BookInv'
  BY BookSteps
<1>3. BookInv => BookInOrder /\ DisputeCharged /\ SlotsBounded
  BY BookGoal
<1> QED
  BY <1>1, <1>2, <1>3, PTL DEF BookSpec

\* Of two owners, retried or overtaken (_owner, dispatch_intent), only the
\* present one dispatches, each operation once, and never in a run that is
\* closed, cancelled or breached.
THEOREM BookDispatches == BookSpec => [][DispatchStep /\ StoppedStep]_bookVars
<1>1. BookInit => BookInv
  BY BookInitial
<1>2. BookInv /\ [BookNext]_bookVars => BookInv'
  BY BookSteps
<1>3. BookInv /\ BookInv' /\ [BookNext]_bookVars => DispatchStep /\ StoppedStep
  BY BookSteps, MovesGoal DEF BookInv
<1>4. BookInv /\ BookInv' /\ [BookNext]_bookVars => [DispatchStep /\ StoppedStep]_bookVars
  BY <1>3
<1> QED
  BY <1>1, <1>2, <1>4, PTL DEF BookSpec

-----------------------------------------------------------------------------
(* The requests of the authority.                                          *)

\* What resource_authority.py adds to the book: an operation for every entry
\* that is bound, no entry twice, and receipts of known runs that are true.
AuthInv ==
  /\ BookInv
  /\ IsTable(bindings, Operations, BindingRow) /\ EveryOperationBound
  /\ \A p, q \in DOMAIN bindings : p # q => bindings[p] # bindings[q]
  /\ IsTable(receipts, Runs, ReceiptRow) /\ DOMAIN receipts \subseteq DOMAIN runs
  /\ ReceiptsSound
  /\ current \subseteq Runs

LEMMA AuthGoal == AuthInv => EntriesHold /\ ReceiptsSound /\ BookInOrder
<1> SUFFICES ASSUME AuthInv PROVE EntriesHold /\ ReceiptsSound /\ BookInOrder
  OBVIOUS
<1>1. AuthorityTypeOK
  BY DEF AuthInv, BookInv, AuthorityTypeOK
<1>2. EntryDispatchedOnce
  <2> SUFFICES ASSUME NEW p \in DOMAIN ops, NEW q \in DOMAIN ops, p # q,
                      bindings[p].run = bindings[q].run, bindings[p].entry = bindings[q].entry
               PROVE  FALSE
    BY DEF EntryDispatchedOnce
  <2>1. p \in DOMAIN bindings /\ q \in DOMAIN bindings
    BY DEF AuthInv, EveryOperationBound
  <2>2. bindings[p] \in BindingRow /\ bindings[q] \in BindingRow
    BY <2>1 DEF AuthInv, IsTable
  <2>3. bindings[p] = bindings[q]
    BY <2>2 DEF BindingRow
  <2> QED
    BY <2>1, <2>3 DEF AuthInv
<1> QED
  BY <1>1, <1>2, BookGoal DEF AuthInv, EntriesHold

\* A completed run is not cancelled by the step.
NormalKept == \A r \in DOMAIN receipts : receipts[r].kind = "normal" => ~runs'[r].cancelled

LEMMA ReceiptsKept ==
  ASSUME AuthInv, BookInv', Moves, receipts' = receipts, NormalKept
  PROVE  ReceiptsSound' /\ ReceiptStep /\ DOMAIN receipts' \subseteq DOMAIN runs'
<1>1. DOMAIN receipts' \subseteq DOMAIN runs'
  BY DEF AuthInv, Moves
<1>2. ReceiptStep
  BY DEF ReceiptStep
<1>3. ASSUME NEW r \in DOMAIN receipts, NEW p \in OpsOf(r)'
      PROVE  /\ p \in OpsOf(r) /\ OpGrows(ops[p], ops'[p]) /\ ops'[p].intended = ops[p].intended
  <2>1. r \in DOMAIN runs /\ (runs[r].closed \/ runs[r].cancelled)
    <3>1. receipts[r].kind \in {"normal", "cancelled"}
      BY DEF AuthInv, IsTable, ReceiptRow
    <3> QED
      BY <3>1 DEF AuthInv, ReceiptsSound, NormalReceiptSound, CancelReceiptReadable
  <2>2. p \in DOMAIN ops' /\ ops'[p].run = r
    BY DEF OpsOf
  <2>3. ~Starts(p)
    BY <2>1, <2>2 DEF Moves, StartDenied
  <2> QED
    BY <2>2, <2>3 DEF Moves, Starts, OpGrows, OpsOf
<1>4. NormalReceiptSound'
  <2> SUFFICES ASSUME NEW r \in DOMAIN receipts, receipts[r].kind = "normal"
               PROVE  /\ runs'[r].closed /\ ~runs'[r].cancelled
                      /\ \A p \in OpsOf(r)' : /\ ops'[p].intended # Null /\ ops'[p].stopped # Null
                                              /\ ops'[p].usage # NoUsage
    BY DEF NormalReceiptSound
  <2>1. /\ runs[r].closed /\ r \in DOMAIN runs
        /\ \A p \in OpsOf(r) : /\ ops[p].intended # Null /\ ops[p].stopped # Null
                               /\ ops[p].usage # NoUsage
    BY DEF AuthInv, ReceiptsSound, NormalReceiptSound
  <2>2. runs'[r].closed /\ ~runs'[r].cancelled
    BY <2>1 DEF Moves, Grows, NormalKept
  <2>3. \A p \in OpsOf(r)' : /\ ops'[p].intended # Null /\ ops'[p].stopped # Null
                             /\ ops'[p].usage # NoUsage
    BY <1>3, <2>1 DEF OpGrows
  <2> QED
    BY <2>2, <2>3
<1>5. CancelReceiptReadable'
  <2> SUFFICES ASSUME NEW r \in DOMAIN receipts, receipts[r].kind = "cancelled"
               PROVE  /\ r \in Regression /\ runs'[r].cancelled
                      /\ \A p \in OpsOf(r)' :
                           IF ops'[p].intended = Null THEN ops'[p].released
                                                      ELSE ops'[p].stopped # Null
    BY DEF CancelReceiptReadable
  <2>1. /\ r \in Regression /\ runs[r].cancelled /\ r \in DOMAIN runs
        /\ \A p \in OpsOf(r) : IF ops[p].intended = Null THEN ops[p].released
                                                         ELSE ops[p].stopped # Null
    BY DEF AuthInv, ReceiptsSound, CancelReceiptReadable
  <2>2. runs'[r].cancelled
    BY <2>1 DEF Moves, Grows
  <2>3. \A p \in OpsOf(r)' : IF ops'[p].intended = Null THEN ops'[p].released
                                                        ELSE ops'[p].stopped # Null
    BY <1>3, <2>1 DEF OpGrows
  <2> QED
    BY <2>1, <2>2, <2>3
<1> QED
  BY <1>1, <1>2, <1>4, <1>5 DEF ReceiptsSound

LEMMA RestKept ==
  ASSUME AuthInv, BookInv', Moves, DOMAIN ops' = DOMAIN ops, bindings' = bindings,
         receipts' = receipts, current' \subseteq Runs, NormalKept
  PROVE  AuthInv' /\ ReceiptStep
<1>1. EveryOperationBound'
  BY DEF AuthInv, EveryOperationBound, Moves, OpGrows
<1> QED
  BY <1>1, ReceiptsKept DEF AuthInv, IsTable

LEMMA BindKept ==
  ASSUME AuthInv, BookInv', Moves, NEW p \in Operations, p \notin DOMAIN ops,
         DOMAIN ops' = DOMAIN ops \cup {p}, NEW r \in Runs, ops'[p].run = r, NEW entry \in Entries,
         ~Taken(r, p, entry), Bind(r, p, entry), receipts' = receipts, current' \subseteq Runs,
         NormalKept
  PROVE  AuthInv' /\ ReceiptStep
<1>1. DOMAIN bindings = DOMAIN ops /\ IsTable(bindings, Operations, BindingRow)
  BY DEF AuthInv, EveryOperationBound
<1>2. PICK b \in BindingRow : b = [run |-> r, entry |-> entry]
  BY DEF BindingRow
<1>3. bindings' = Insert(bindings, p, b)
  BY <1>1, <1>2 DEF Bind
<1>4. /\ DOMAIN bindings' = DOMAIN bindings \cup {p} /\ bindings'[p] = b
      /\ \A q \in DOMAIN bindings : q # p /\ bindings'[q] = bindings[q]
      /\ IsTable(bindings', Operations, BindingRow)
  <2>1. /\ DOMAIN Insert(bindings, p, b) = DOMAIN bindings \cup {p}
        /\ Insert(bindings, p, b)[p] = b
        /\ \A q \in DOMAIN bindings : q # p => Insert(bindings, p, b)[q] = bindings[q]
        /\ IsTable(Insert(bindings, p, b), Operations, BindingRow)
    BY <1>1, InsertFacts, Zenon
  <2> QED
    BY <1>1, <1>3, <2>1
<1>5. \A q \in DOMAIN bindings : bindings[q] # b
  BY <1>1, <1>2 DEF Taken
<1>6. \A q, s \in DOMAIN bindings' : q # s => bindings'[q] # bindings'[s]
  BY <1>4, <1>5 DEF AuthInv
<1>7. EveryOperationBound'
  <2>1. b.run = r
    BY <1>2
  <2>2. \A q \in DOMAIN ops : bindings'[q].run = ops'[q].run
    BY <1>1, <1>4 DEF AuthInv, EveryOperationBound, Moves, OpGrows
  <2> QED
    BY <1>1, <1>4, <2>1, <2>2 DEF EveryOperationBound
<1> QED
  BY <1>4, <1>6, <1>7, ReceiptsKept DEF AuthInv, IsTable

\* The rows of the runs keep their flag, or only that of the run r changes.
LEMMA NormalStays ==
  ASSUME AuthInv, NEW x,
         \A r \in DOMAIN runs : r # x => runs'[r].cancelled = runs[r].cancelled,
         x \in DOMAIN receipts /\ receipts[x].kind = "normal" => runs'[x].cancelled = runs[x].cancelled
  PROVE  NormalKept
BY DEF AuthInv, NormalKept, ReceiptsSound, NormalReceiptSound

LEMMA BeginKept ==
  ASSUME AuthInv, NEW now \in Times, NEW r \in Runs, NEW profile \in Profiles, NEW o \in Owners,
         NEW deadline \in Nat, run_begin(now, r, profile, o, deadline)
  PROVE  AuthInv' /\ Moves /\ ReceiptStep
<1>1. create_run(now, r, profile, o, deadline) /\ Rest
  BY DEF run_begin
<1>2. BookInv' /\ Moves
  BY <1>1, CreateStep DEF AuthInv
<1>3. r \notin DOMAIN runs /\ \A x \in DOMAIN runs : runs'[x] = runs[x]
  BY <1>1 DEF create_run, Insert, Known
<1>4. NormalKept
  BY <1>3 DEF AuthInv, NormalKept, ReceiptsSound, NormalReceiptSound
<1>5. DOMAIN ops' = DOMAIN ops /\ UNCHANGED <<bindings, receipts, current>> /\ current \subseteq Runs
  BY <1>1 DEF create_run, Rest, AuthInv
<1> QED
  BY <1>2, <1>4, <1>5, RestKept

LEMMA ClaimKept ==
  ASSUME AuthInv, NEW now \in Times, NEW r \in Runs, NEW o \in Owners, NEW recovery \in BOOLEAN,
         resource_claim(now, r, o, recovery)
  PROVE  AuthInv' /\ Moves /\ ReceiptStep
<1>1. claim(now, r, o, recovery) /\ Rest
  BY DEF resource_claim
<1>2. BookInv' /\ Moves
  BY <1>1, ClaimStep DEF AuthInv
<1>3. r \in DOMAIN runs /\ ~runs[r].closed /\ IsTable(runs, Runs, RunRow)
  BY <1>1 DEF claim, Known, AuthInv, BookInv, TypeOK
<1>4. \A x \in DOMAIN runs : x # r => runs'[x] = runs[x]
  BY <1>1, <1>3 DEF claim, IsTable
<1>5. NormalKept
  BY <1>3, <1>4, NormalStays DEF AuthInv, ReceiptsSound, NormalReceiptSound
<1>6. DOMAIN ops' = DOMAIN ops /\ UNCHANGED <<bindings, receipts, current>> /\ current \subseteq Runs
  BY <1>1 DEF claim, Rest, AuthInv
<1> QED
  BY <1>2, <1>5, <1>6, RestKept

LEMMA StartKept ==
  ASSUME AuthInv, NEW now \in Times, NEW r \in Runs, NEW o \in Owners, NEW p \in Operations,
         NEW entry \in Entries, resource_start(now, r, o, p, entry)
  PROVE  AuthInv' /\ Moves /\ ReceiptStep
<1>1. BookInv' /\ Moves
  BY StartStep DEF AuthInv
<1>2. /\ r \in DOMAIN runs /\ ~runs[r].closed /\ IsTable(runs, Runs, RunRow)
      /\ runs' = [runs EXCEPT ![r] = ClaimedRow(r, o, now)]
      /\ p \notin DOMAIN ops /\ ~Taken(r, p, entry) /\ Bind(r, p, entry)
      /\ receipts' = receipts /\ current' = current /\ current \subseteq Runs
  BY DEF resource_start, Known, AuthInv, BookInv, TypeOK
<1>3. \A x \in DOMAIN runs : x # r => runs'[x] = runs[x]
  BY <1>2 DEF IsTable
<1>4. NormalKept
  BY <1>2, <1>3, NormalStays DEF AuthInv, ReceiptsSound, NormalReceiptSound
<1>5. PICK op : op = [NewOp(r, ClaimEpoch(r, now), Fixture) EXCEPT !.intended = now]
  OBVIOUS
<1>6. ops' = Insert(ops, p, op) /\ op.run = r
  <2>1. ops' = Insert(ops, p, op)
    BY <1>5, Zenon DEF resource_start
  <2>2. op = [run |-> r, epoch |-> ClaimEpoch(r, now), reserved |-> Fixture, intended |-> now,
              stopped |-> Null, released |-> FALSE, usage |-> NoUsage,
              settledAt |-> Null, cost |-> Null, conflicted |-> FALSE, exposure |-> 0]
    BY <1>5 DEF NewOp
  <2> QED
    BY <2>1, <2>2
<1>7. DOMAIN ops' = DOMAIN ops \cup {p} /\ ops'[p].run = r
  BY <1>6 DEF Insert
<1> QED
  BY <1>1, <1>2, <1>4, <1>7, BindKept

LEMMA ReserveKept ==
  ASSUME AuthInv, NEW now \in Times, NEW g \in grants, NEW p \in Operations,
         NEW entry \in Entries, resource_reserve(now, g.run, g.owner, g.epoch, p, entry)
  PROVE  AuthInv' /\ Moves /\ ReceiptStep
<1>1. PICK r : r = g.run
  OBVIOUS
<1>2. /\ reserve(now, r, g.owner, g.epoch, p, Fixture) /\ BoundEntry(r, p, entry)
      /\ Bind(r, p, entry) /\ receipts' = receipts /\ current' = current /\ current \subseteq Runs
  BY <1>1 DEF resource_reserve, AuthInv
<1>3. BookInv' /\ Moves
  BY <1>1, <1>2, ReserveStep, AuthorityAssumption DEF AuthInv
<1>4. runs' = runs /\ r \in Runs
  BY <1>2, RowTypes DEF reserve, Known, AuthInv, BookInv
<1>5. NormalKept
  BY <1>4, NormalStays DEF AuthInv, NormalKept
<1>6. CASE p \in DOMAIN ops /\ UNCHANGED ops
  <2>1. p \in DOMAIN bindings
    BY <1>6 DEF AuthInv, EveryOperationBound
  <2>2. bindings' = bindings
    BY <1>2, <2>1 DEF Bind
  <2> QED
    BY <1>2, <1>3, <1>5, <1>6, <2>2, RestKept
<1>7. CASE p \notin DOMAIN ops /\ ops' = Insert(ops, p, NewOp(r, g.epoch, Fixture))
  <2>1. DOMAIN ops' = DOMAIN ops \cup {p} /\ ops'[p].run = r
    BY <1>7 DEF Insert, NewOp
  <2> QED
    BY <1>2, <1>3, <1>4, <1>5, <1>7, <2>1, BindKept DEF BoundEntry
<1> QED
  BY <1>2, <1>6, <1>7 DEF reserve

LEMMA DispatchKept ==
  ASSUME AuthInv, NEW now \in Times, NEW g \in grants, NEW p \in Operations,
         resource_dispatch(now, g.run, g.owner, g.epoch, p)
  PROVE  AuthInv' /\ Moves /\ ReceiptStep
<1>1. dispatch_intent(now, g.run, g.owner, g.epoch, p) /\ Rest
  BY DEF resource_dispatch
<1>2. BookInv' /\ Moves
  BY <1>1, DispatchIntentStep DEF AuthInv
<1>3. runs' = runs
  BY <1>1 DEF dispatch_intent
<1>4. NormalKept
  BY <1>3, NormalStays
<1>5. DOMAIN ops' = DOMAIN ops /\ UNCHANGED <<bindings, receipts, current>> /\ current \subseteq Runs
  BY <1>1 DEF dispatch_intent, Rest, AuthInv
<1> QED
  BY <1>2, <1>4, <1>5, RestKept

LEMMA ObserveKept ==
  ASSUME AuthInv, NEW now \in Times, NEW v \in Events, NEW m \in Reports,
         resource_observe(now, m.op, v, m.stopped, m.usage)
  PROVE  AuthInv' /\ Moves /\ ReceiptStep
<1>1. observe(now, m.op, v, m.stopped, m.usage) /\ Rest
  BY DEF resource_observe
<1>2. BookInv' /\ Moves
  BY <1>1, ObserveStep DEF AuthInv
<1>3. TypeOK /\ IsTable(runs, Runs, RunRow)
  BY DEF AuthInv, BookInv, TypeOK
<1>4. \A x \in DOMAIN runs : runs'[x].cancelled = runs[x].cancelled
  <2> SUFFICES ASSUME NEW x \in DOMAIN runs PROVE runs'[x].cancelled = runs[x].cancelled
    OBVIOUS
  <2>1. runs[x] \in RunRow
    BY <1>3, RowTypes
  <2>2. CASE EventConflict(m.op, v, m.stopped, m.usage)
    <3>1. PICK b : b = (runs[x].breached \/ \E q \in Affected(m.op, v) : ops[q].run = x)
      OBVIOUS
    <3>2. runs'[x] = [runs[x] EXCEPT !.breached = b]
      BY <2>2, <3>1, Zenon DEF EventConflict
    <3> QED
      BY <2>1, <3>2 DEF RunRow
  <2>3. CASE EventReplay(m.op, v, m.stopped, m.usage)
    BY <2>3 DEF EventReplay
  <2>4. CASE EventNew(now, m.op, v, m.stopped, m.usage)
    <3>1. PICK r, b :
            runs' = [runs EXCEPT ![r] = [runs[r] EXCEPT !.breached = b]]
      <4>1. PICK r : r = ops[m.op].run
        OBVIOUS
      <4>2. runs' = [runs EXCEPT ![r] = [runs[r] EXCEPT !.breached =
                       runs[r].breached \/ Conflict(ops[m.op], m.usage)
                         \/ Overrun(ops[m.op], runs[r].deadline, now, m.usage)]]
        BY <2>4, <4>1, Zenon DEF EventNew
      <4> QED
        BY <4>2, Zenon
    <3>2. CASE x = r
      <4>1. runs'[x] = [runs[x] EXCEPT !.breached = b]
        BY <1>3, <3>1, <3>2 DEF IsTable
      <4> QED
        BY <2>1, <4>1 DEF RunRow
    <3>3. CASE x # r
      BY <1>3, <3>1, <3>3 DEF IsTable
    <3> QED
      BY <3>2, <3>3
  <2> QED
    BY <1>1, <2>2, <2>3, <2>4 DEF observe
<1>5. NormalKept
  BY <1>4, NormalStays DEF AuthInv, NormalKept
<1>6. DOMAIN ops' = DOMAIN ops
  BY <1>1 DEF observe, EventConflict, EventReplay, EventNew
<1>7. UNCHANGED <<bindings, receipts, current>> /\ current \subseteq Runs
  BY <1>1 DEF Rest, AuthInv
<1> QED
  BY <1>2, <1>5, <1>6, <1>7, RestKept

LEMMA CancelKept ==
  ASSUME AuthInv, NEW now \in Times, NEW g \in grants,
         resource_cancel(now, g.run, g.owner, g.epoch)
  PROVE  AuthInv' /\ Moves /\ ReceiptStep
<1>1. PICK r : r = g.run
  OBVIOUS
<1>2. cancel(now, r, g.owner, g.epoch, TerminalPending(r)) /\ Rest
  BY <1>1 DEF resource_cancel
<1>3. BookInv' /\ Moves
  BY <1>1, <1>2, RunCancelStep DEF AuthInv
<1>4. /\ runs' = [runs EXCEPT ![r].cancelled = TRUE] /\ IsTable(runs, Runs, RunRow)
      /\ ~runs[r].closed \/ r \notin DOMAIN receipts
  BY <1>2 DEF cancel, TerminalPending, AuthInv, BookInv, TypeOK
<1>5. \A x \in DOMAIN runs : x # r => runs'[x] = runs[x]
  BY <1>4 DEF IsTable
<1>6. NormalKept
  BY <1>4, <1>5, NormalStays DEF AuthInv, ReceiptsSound, NormalReceiptSound
<1>7. DOMAIN ops' = DOMAIN ops /\ UNCHANGED <<bindings, receipts, current>> /\ current \subseteq Runs
  BY <1>2 DEF cancel, ReleasedOps, Rest, AuthInv
<1> QED
  BY <1>3, <1>6, <1>7, RestKept

LEMMA CancelClaimKept ==
  ASSUME AuthInv, NEW now \in Times, NEW r \in Runs, NEW o \in Owners,
         resource_cancel_claim(now, r, o)
  PROVE  AuthInv' /\ Moves /\ ReceiptStep
<1>1. claim_for_cancel(now, r, o, TerminalPending(r)) /\ Rest
  BY DEF resource_cancel_claim
<1>2. BookInv' /\ Moves
  BY <1>1, ClaimForCancelStep DEF AuthInv
<1>3. /\ runs' = [runs EXCEPT ![r] = [ClaimedRow(r, o, now) EXCEPT !.cancelled = TRUE]]
      /\ IsTable(runs, Runs, RunRow)
      /\ ~runs[r].closed \/ r \notin DOMAIN receipts
  BY <1>1 DEF claim_for_cancel, TerminalPending, AuthInv, BookInv, TypeOK
<1>4. PICK row : runs' = [runs EXCEPT ![r] = row]
  BY <1>3, Zenon
<1>5. \A x \in DOMAIN runs : x # r => runs'[x] = runs[x]
  BY <1>3, <1>4 DEF IsTable
<1>6. NormalKept
  BY <1>3, <1>5, NormalStays DEF AuthInv, ReceiptsSound, NormalReceiptSound
<1>7. DOMAIN ops' = DOMAIN ops /\ UNCHANGED <<bindings, receipts, current>> /\ current \subseteq Runs
  BY <1>1 DEF claim_for_cancel, ReleasedOps, Rest, AuthInv
<1> QED
  BY <1>2, <1>6, <1>7, RestKept

LEMMA CloseKept ==
  ASSUME AuthInv, NEW now \in Times, NEW g \in grants,
         resource_close(now, g.run, g.owner, g.epoch)
  PROVE  AuthInv' /\ Moves /\ ReceiptStep
<1>1. close(now, g.run, g.owner, g.epoch) /\ Rest
  BY DEF resource_close
<1>2. BookInv' /\ Moves
  BY <1>1, CloseStep DEF AuthInv
<1>3. /\ runs' = [runs EXCEPT ![g.run].closed = TRUE] /\ IsTable(runs, Runs, RunRow)
  BY <1>1 DEF close, AuthInv, BookInv, TypeOK
<1>4. \A x \in DOMAIN runs : runs'[x].cancelled = runs[x].cancelled
  <2> SUFFICES ASSUME NEW x \in DOMAIN runs PROVE runs'[x].cancelled = runs[x].cancelled
    OBVIOUS
  <2>1. runs[x] \in RunRow
    BY <1>3 DEF IsTable
  <2>2. CASE x = g.run
    <3>1. runs'[x] = [runs[x] EXCEPT !.closed = TRUE]
      BY <1>3, <2>2 DEF IsTable
    <3> QED
      BY <2>1, <3>1 DEF RunRow
  <2>3. CASE x # g.run
    BY <1>3, <2>3 DEF IsTable
  <2> QED
    BY <2>2, <2>3
<1>5. NormalKept
  BY <1>4, NormalStays DEF AuthInv, NormalKept
<1>6. DOMAIN ops' = DOMAIN ops /\ UNCHANGED <<bindings, receipts, current>> /\ current \subseteq Runs
  BY <1>1 DEF close, Rest, AuthInv
<1> QED
  BY <1>2, <1>5, <1>6, RestKept

LEMMA AnsweredKept ==
  ASSUME AuthInv, NEW now \in Times, NEW r \in Runs, cancel_answered(now, r)
  PROVE  AuthInv' /\ Moves /\ ReceiptStep
<1>1. snapshot(now, r) /\ Rest
  BY DEF cancel_answered
<1>2. BookInv' /\ Moves
  BY <1>1, SnapshotStep DEF AuthInv
<1>3. /\ UNCHANGED <<runs, ops, bindings, receipts, current>> /\ current \subseteq Runs
  BY <1>1 DEF snapshot, Rest, AuthInv
<1>4. NormalKept
  BY <1>3, NormalStays
<1> QED
  BY <1>2, <1>3, <1>4, RestKept

\* A receipt is stored: of which kind, and what is true of its run.
LEMMA ReceiptStored ==
  ASSUME AuthInv, BookInv', Moves, UNCHANGED <<runs, ops, bindings, current>>,
         NEW r \in DOMAIN runs, NEW rec \in ReceiptRow, receipts' = Insert(receipts, r, rec),
         r \notin DOMAIN receipts,
         rec.kind = "normal" =>
           /\ runs[r].closed /\ ~runs[r].cancelled
           /\ \A p \in OpsOf(r) : /\ ops[p].intended # Null /\ ops[p].stopped # Null
                                  /\ ops[p].usage # NoUsage,
         rec.kind = "cancelled" =>
           /\ r \in Regression /\ runs[r].cancelled
           /\ \A p \in OpsOf(r) : IF ops[p].intended = Null THEN ops[p].released
                                                            ELSE ops[p].stopped # Null
  PROVE  AuthInv' /\ ReceiptStep
<1>1. r \in Runs /\ IsTable(receipts, Runs, ReceiptRow)
  BY RowTypes DEF AuthInv, BookInv
<1>2. /\ DOMAIN receipts' = DOMAIN receipts \cup {r} /\ receipts'[r] = rec
      /\ \A x \in DOMAIN receipts : x # r /\ receipts'[x] = receipts[x]
      /\ IsTable(receipts', Runs, ReceiptRow)
  <2>1. /\ DOMAIN Insert(receipts, r, rec) = DOMAIN receipts \cup {r}
        /\ Insert(receipts, r, rec)[r] = rec
        /\ \A x \in DOMAIN receipts : x # r => Insert(receipts, r, rec)[x] = receipts[x]
        /\ IsTable(Insert(receipts, r, rec), Runs, ReceiptRow)
    BY <1>1, InsertFacts, Zenon
  <2> QED
    BY <1>1, <2>1
<1>3. \A x : OpsOf(x)' = OpsOf(x)
  BY DEF OpsOf
<1>4. NormalReceiptSound' /\ CancelReceiptReadable'
  BY <1>2, <1>3 DEF AuthInv, ReceiptsSound, NormalReceiptSound, CancelReceiptReadable
<1>5. ReceiptStep /\ DOMAIN receipts' \subseteq DOMAIN runs'
  BY <1>2 DEF ReceiptStep, AuthInv
<1>6. EveryOperationBound'
  BY DEF AuthInv, EveryOperationBound
<1> QED
  BY <1>2, <1>4, <1>5, <1>6 DEF AuthInv, ReceiptsSound

LEMMA FinalizeKept ==
  ASSUME AuthInv, NEW now \in Times, NEW r \in Runs, evidence_finalize(now, r)
  PROVE  AuthInv' /\ Moves /\ ReceiptStep
<1>1. /\ UNCHANGED <<runs, ops, events, grants, bindings, current>> /\ r \in DOMAIN runs
      /\ current \subseteq Runs /\ TypeOK /\ IsFiniteSet(DOMAIN ops)
  BY DEF evidence_finalize, Known, AuthInv, BookInv
<1>2. NormalKept
  BY <1>1, NormalStays
<1>3. CASE UNCHANGED <<lastClock, receipts>>
  <2>1. BookInv' /\ Moves
    BY <1>1, <1>3, Unchanged DEF AuthInv
  <2> QED
    BY <1>1, <1>2, <1>3, <2>1, RestKept
<1>4. CASE /\ ~(r \in DOMAIN receipts /\ receipts[r].kind = "normal")
           /\ Touch(now) /\ ClosureVerified(r)
           /\ receipts' = Insert(receipts, r, [kind |-> "normal", closure |-> TRUE])
  <2>1. BookInv' /\ Moves
    BY <1>1, <1>4, TouchClock, ClockStep DEF AuthInv
  <2>2. r \notin DOMAIN receipts
    <3>1. r \in DOMAIN receipts => receipts[r].kind \in {"normal", "cancelled"}
      BY DEF AuthInv, IsTable, ReceiptRow
    <3> QED
      BY <1>4, <3>1 DEF ClosureVerified, AuthInv, ReceiptsSound, CancelReceiptReadable
  <2>3. PICK rec \in ReceiptRow : rec = [kind |-> "normal", closure |-> TRUE]
    BY DEF ReceiptRow
  <2>4. ASSUME NEW p \in OpsOf(r)
        PROVE  ops[p].intended # Null /\ ops[p].stopped # Null /\ ops[p].usage # NoUsage
    <3>1. p \in DOMAIN ops /\ OpSound(ops[p], runs[r], lastClock)
      BY DEF OpsOf, AuthInv, BookInv
    <3>2. ~ops[p].released
      BY <1>4, <3>1 DEF OpSound, ClosureVerified
    <3>3. p \in Counted(r)
      BY <3>2 DEF Counted
    <3>4. ops[p].stopped # Null /\ Settled(ops[p])
      BY <1>1, <1>4, <3>3, SlotsCount DEF ClosureVerified, BudgetClosure, Unsettled
    <3> QED
      BY <3>1, <3>4 DEF OpSound, Settled
  <2>5. runs[r].closed /\ ~runs[r].cancelled
    BY <1>4 DEF ClosureVerified
  <2>6. rec.kind = "normal" /\ rec.kind # "cancelled"
    BY <2>3
  <2> QED
    BY <1>1, <1>4, <2>1, <2>2, <2>3, <2>4, <2>5, <2>6, ReceiptStored
<1> QED
  BY <1>3, <1>4 DEF evidence_finalize

LEMMA CancelFinalizeKept ==
  ASSUME AuthInv, NEW now \in Times, NEW r \in Runs, run_cancel_finalize(now, r)
  PROVE  AuthInv' /\ Moves /\ ReceiptStep
<1>1. /\ UNCHANGED <<runs, ops, events, grants, bindings, current>> /\ r \in DOMAIN runs
      /\ current \subseteq Runs /\ Stopped(r, now) /\ r \in Regression
  BY DEF run_cancel_finalize, Known, AuthInv
<1>2. BookInv' /\ Moves
  BY TouchClock, ClockStep DEF AuthInv, BookInv, run_cancel_finalize
<1>3. NormalKept
  BY <1>1, NormalStays
<1>4. CASE r \in DOMAIN receipts
  BY <1>1, <1>2, <1>3, <1>4, RestKept DEF run_cancel_finalize
<1>5. CASE r \notin DOMAIN receipts
  <2>1. PICK b \in BOOLEAN : b = BudgetClosure(r)
    BY DEF BudgetClosure
  <2>2. PICK rec \in ReceiptRow : rec = [kind |-> "cancelled", closure |-> b]
    BY DEF ReceiptRow
  <2>3. receipts' = Insert(receipts, r, rec)
    BY <1>5, <2>1, <2>2 DEF run_cancel_finalize
  <2>4. rec.kind = "cancelled" /\ rec.kind # "normal"
    BY <2>2
  <2>5. /\ runs[r].cancelled
        /\ \A p \in OpsOf(r) : IF ops[p].intended = Null THEN ops[p].released
                                                         ELSE ops[p].stopped # Null
    BY <1>1 DEF Stopped
  <2> QED
    BY <1>1, <1>2, <1>5, <2>3, <2>4, <2>5, ReceiptStored
<1> QED
  BY <1>4, <1>5

LEMMA ConditionsKept ==
  ASSUME AuthInv, current' \subseteq Runs, UNCHANGED <<bookVars, bindings, receipts>>
  PROVE  AuthInv' /\ Moves /\ ReceiptStep
<1>1. BookInv' /\ Moves
  BY Unchanged DEF AuthInv, bookVars
<1>2. NormalKept
  BY NormalStays DEF bookVars
<1> QED
  BY <1>1, <1>2, RestKept DEF bookVars

-----------------------------------------------------------------------------
(* The specifications.                                                     *)

LEMMA AuthInitial == Init => AuthInv
<1> SUFFICES ASSUME Init PROVE AuthInv
  OBVIOUS
<1>1. /\ bindings = [p \in {} |-> {}] /\ receipts = [r \in {} |-> {}] /\ current = Runs
      /\ ops = [p \in {} |-> {}] /\ BookInv
  BY BookInitial DEF Init, BookInit
<1> QED
  BY <1>1 DEF AuthInv, EveryOperationBound, IsTable, ReceiptsSound, NormalReceiptSound,
             CancelReceiptReadable

LEMMA AuthSteps == AuthInv /\ [Next]_vars => AuthInv' /\ Moves /\ ReceiptStep
<1> SUFFICES ASSUME AuthInv, [Next]_vars PROVE AuthInv' /\ Moves /\ ReceiptStep
  OBVIOUS
<1>1. ASSUME NEW now \in Times, NEW r \in Runs, NEW o \in Owners, OwnerNext(now, r, o)
      PROVE  AuthInv' /\ Moves /\ ReceiptStep
  <2>1. \A deadline \in now .. now + MaxClock : deadline \in Nat
    BY BookAssumption DEF Times
  <2> QED
    BY <1>1, <2>1, BeginKept, ClaimKept, StartKept, CancelClaimKept DEF OwnerNext
<1>2. ASSUME NEW now \in Times, NEW g \in grants, HolderNext(now, g.run, g.owner, g.epoch)
      PROVE  AuthInv' /\ Moves /\ ReceiptStep
  BY <1>2, ReserveKept, DispatchKept, CancelKept, CloseKept DEF HolderNext
<1>3. ASSUME NEW now \in Times, NEW v \in Events, NEW m \in Reports,
             resource_observe(now, m.op, v, m.stopped, m.usage)
      PROVE  AuthInv' /\ Moves /\ ReceiptStep
  BY <1>3, ObserveKept
<1>4. ASSUME NEW now \in Times, NEW r \in Runs,
             cancel_answered(now, r) \/ evidence_finalize(now, r) \/ run_cancel_finalize(now, r)
      PROVE  AuthInv' /\ Moves /\ ReceiptStep
  BY <1>4, AnsweredKept, FinalizeKept, CancelFinalizeKept
<1>5. CASE ChangeConditions
  BY <1>5, ConditionsKept DEF ChangeConditions
<1>6. CASE UNCHANGED vars
  BY <1>6, ConditionsKept DEF vars, bookVars, AuthInv
<1> QED
  BY <1>1, <1>2, <1>3, <1>4, <1>5, <1>6 DEF Next

\* Through the requests of resource_authority.py: every reservation is bound to
\* an entry of its run's plan, no entry is sent twice, whoever takes the run over
\* or retries, and the receipt of a run (evidence_finalize, run_cancel_finalize)
\* stays true whatever is requested after it.
THEOREM AuthorityCorrect == Spec => [](EntriesHold /\ ReceiptsSound /\ BookInOrder)
<1>1. Init => AuthInv
  BY AuthInitial
<1>2. AuthInv /\ [Next]_vars => AuthInv'
  BY AuthSteps
<1>3. AuthInv => EntriesHold /\ ReceiptsSound /\ BookInOrder
  BY AuthGoal
<1> QED
  BY <1>1, <1>2, <1>3, PTL DEF Spec

\* A run ends in one way: its receipt is never replaced (_receipt, load).
THEOREM ReceiptsFinal == Spec => [][ReceiptStep]_vars
<1>1. Init => AuthInv
  BY AuthInitial
<1>2. AuthInv /\ [Next]_vars => AuthInv'
  BY AuthSteps
<1>3. AuthInv /\ [Next]_vars => [ReceiptStep]_vars
  BY AuthSteps
<1> QED
  BY <1>1, <1>2, <1>3, PTL DEF Spec

-----------------------------------------------------------------------------
(* Combined runs.                                                          *)

\* A combined run has ended only when it was cancelled or both children ended.
CombinedInv ==
  /\ AuthInv
  /\ combinedReceipt # Null => cancelRequest # Null \/ Children \subseteq DOMAIN receipts

\* Nothing is dispatched by the step.
Quiet == DOMAIN ops' = DOMAIN ops /\ \A p \in DOMAIN ops : ops'[p].intended = ops[p].intended

LEMMA QuietStops ==
  ASSUME Quiet
  PROVE  StopsTogether
BY DEF Quiet, StopsTogether

\* What check_start lets through starts before the end and before any stop.
LEMMA CheckedStops ==
  ASSUME CombinedInv, Moves, NEW r, NEW p, NEW now, CheckStart(r, p, now),
         \A q \in DOMAIN ops' : Starts(q) => q = p /\ ops'[q].run = r
  PROVE  StopsTogether
<1> SUFFICES ASSUME NEW q \in DOMAIN ops', combined # Null, ops'[q].run \in Children,
                    ops'[q].intended # Null, q \in DOMAIN ops => ops[q].intended = Null
             PROVE  /\ cancelRequest = Null /\ combinedReceipt = Null
                    /\ \A c \in BegunChildren : ~runs[c].cancelled /\ ~runs[c].breached
  BY DEF StopsTogether
<1>1. Starts(q)
  BY DEF Starts
<1>2. r \in Children /\ ops'[q].run = r
  BY <1>1
<1>3. NoStopRequired
  BY <1>2 DEF CheckStart, Child, Going
<1>4. r \in DOMAIN runs /\ ~runs[r].closed /\ ~runs[r].cancelled
  BY <1>1, <1>2 DEF Moves, StartDenied
<1>5. r \notin DOMAIN receipts
  <2>1. r \in DOMAIN receipts => receipts[r].kind \in {"normal", "cancelled"}
    BY DEF CombinedInv, AuthInv, IsTable, ReceiptRow
  <2> QED
    BY <1>4, <2>1 DEF CombinedInv, AuthInv, ReceiptsSound, NormalReceiptSound, CancelReceiptReadable
<1> QED
  BY <1>2, <1>3, <1>5 DEF CombinedInv, NoStopRequired

LEMMA ReleasedQuiet ==
  ASSUME TypeOK, NEW r, ops' = ReleasedOps(r)
  PROVE  Quiet
<1>1. ASSUME NEW p \in DOMAIN ops PROVE ops'[p].intended = ops[p].intended
  <2>1. ops[p] \in OpRow
    BY RowTypes
  <2>2. CASE ops'[p] = ops[p]
    BY <2>2
  <2>3. CASE ops'[p] = [ops[p] EXCEPT !.released = TRUE]
    BY <2>1, <2>3 DEF OpRow
  <2> QED
    BY <2>2, <2>3, Released, Zenon
<1> QED
  BY <1>1, Released DEF Quiet

LEMMA ObserveQuiet ==
  ASSUME BookInv, NEW now \in Times, NEW v \in Events, NEW m \in Reports,
         observe(now, m.op, v, m.stopped, m.usage)
  PROVE  Quiet
<1>1. TypeOK /\ IsTable(ops, Operations, OpRow) /\ m.op \in DOMAIN ops /\ now \in Nat
  BY TouchClock DEF BookInv, TypeOK, observe
<1>2. CASE EventConflict(m.op, v, m.stopped, m.usage)
  <2>1. DOMAIN ops' = DOMAIN ops
    BY <1>2 DEF EventConflict
  <2>2. ASSUME NEW q \in DOMAIN ops PROVE ops'[q].intended = ops[q].intended
    <3>1. ops'[q] = Disputed(ops[q], m.usage) \/ ops'[q] = ops[q]
      BY <1>2, Zenon DEF EventConflict
    <3>2. CASE ops'[q] = Disputed(ops[q], m.usage)
      <4>1. PICK x : x = Exposure(ops[q], m.usage)
        OBVIOUS
      <4>2. ops'[q] = [ops[q] EXCEPT !.conflicted = TRUE, !.exposure = x]
        BY <3>2, <4>1, Zenon DEF Disputed
      <4>3. ops[q] \in OpRow
        BY <1>1, RowTypes
      <4> QED
        BY <4>2, <4>3 DEF OpRow
    <3> QED
      BY <3>1, <3>2
  <2> QED
    BY <2>1, <2>2 DEF Quiet
<1>3. CASE EventReplay(m.op, v, m.stopped, m.usage)
  BY <1>3 DEF EventReplay, Quiet
<1>4. CASE EventNew(now, m.op, v, m.stopped, m.usage)
  <2>1. PICK row : row = SeenRow(ops[m.op], now, m.stopped, m.usage)
    OBVIOUS
  <2>2. ops[m.op] \in OpRow /\ m.stopped \in BOOLEAN /\ m.usage \in Usages \cup {NoUsage}
    BY <1>1, RowTypes DEF Reports
  <2>3. row.intended = ops[m.op].intended
    <3>1. PICK op \in OpRow, stopped \in BOOLEAN, usage \in Usages \cup {NoUsage} :
            op = ops[m.op] /\ stopped = m.stopped /\ usage = m.usage
      BY <2>2
    <3>2. row = SeenRow(op, now, stopped, usage)
      BY <2>1, <3>1
    <3>3. row.intended = op.intended
      BY <1>1, <3>2, SeenFields
    <3> QED
      BY <3>1, <3>3
  <2>4. ops' = [ops EXCEPT ![m.op] = row]
    BY <1>4, <2>1 DEF EventNew, SeenRow
  <2> QED
    BY <1>1, <2>3, <2>4 DEF Quiet, IsTable
<1> QED
  BY <1>2, <1>3, <1>4 DEF observe

\* The three requests that may start something start only their operation.
LEMMA StartsOnly ==
  ASSUME TypeOK, NEW p, NEW op, ops' = Insert(ops, p, op)
  PROVE  \A q \in DOMAIN ops' : Starts(q) => q = p /\ ops'[q].run = op.run
BY DEF Insert, Starts

LEMMA DispatchStartsOnly ==
  ASSUME TypeOK, NEW p \in DOMAIN ops, NEW now, ops' = [ops EXCEPT ![p].intended = now]
  PROVE  \A q \in DOMAIN ops' : Starts(q) => q = p /\ ops'[q].run = ops[p].run
<1>1. PICK op : op = [ops[p] EXCEPT !.intended = now]
  OBVIOUS
<1>2. op.run = ops[p].run
  BY <1>1, RowTypes DEF OpRow
<1>3. ops' = [ops EXCEPT ![p] = op] /\ IsTable(ops, Operations, OpRow)
  BY <1>1 DEF TypeOK
<1> QED
  BY <1>2, <1>3 DEF Starts, IsTable

LEMMA ChildSteps ==
  ASSUME CombinedInv, NEW now \in Times, ChildNext(now)
  PROVE  AuthInv' /\ Moves /\ ReceiptStep /\ StopsTogether
<1> USE DEF CombinedInv
<1>1. AuthInv /\ BookInv /\ TypeOK
  BY DEF AuthInv, BookInv
<1>2. ASSUME NEW r \in Runs, NEW o \in Owners, NEW profile \in Profiles,
             NEW deadline \in now .. now + MaxClock, run_begin(now, r, profile, o, deadline)
      PROVE  AuthInv' /\ Moves /\ ReceiptStep /\ StopsTogether
  <2>1. Quiet
    BY <1>2 DEF run_begin, create_run, Quiet
  <2>2. deadline \in Nat
    BY BookAssumption DEF Times
  <2> QED
    BY <1>2, <2>1, <2>2, BeginKept, QuietStops
<1>3. ASSUME NEW r \in Runs, NEW o \in Owners, NEW recovery \in BOOLEAN,
             resource_claim(now, r, o, recovery)
      PROVE  AuthInv' /\ Moves /\ ReceiptStep /\ StopsTogether
  <2>1. Quiet
    BY <1>3 DEF resource_claim, claim, Quiet
  <2> QED
    BY <1>3, <2>1, ClaimKept, QuietStops
<1>4. ASSUME NEW r \in Runs, NEW o \in Owners, NEW p \in Operations, NEW entry \in Entries,
             resource_start(now, r, o, p, entry), CheckStart(r, p, now)
      PROVE  AuthInv' /\ Moves /\ ReceiptStep /\ StopsTogether
  <2>1. AuthInv' /\ Moves /\ ReceiptStep
    BY <1>4, StartKept
  <2>2. PICK op : op = [NewOp(r, ClaimEpoch(r, now), Fixture) EXCEPT !.intended = now]
    OBVIOUS
  <2>3. ops' = Insert(ops, p, op)
    BY <1>4, <2>2, Zenon DEF resource_start
  <2>4. op.run = r
    <3>1. op = [run |-> r, epoch |-> ClaimEpoch(r, now), reserved |-> Fixture, intended |-> now,
                stopped |-> Null, released |-> FALSE, usage |-> NoUsage,
                settledAt |-> Null, cost |-> Null, conflicted |-> FALSE, exposure |-> 0]
      BY <2>2 DEF NewOp
    <3> QED
      BY <3>1
  <2>5. \A q \in DOMAIN ops' : Starts(q) => q = p /\ ops'[q].run = r
    BY <1>1, <2>3, <2>4, StartsOnly
  <2> QED
    BY <1>4, <2>1, <2>5, CheckedStops
<1>5. ASSUME NEW r \in Runs, NEW o \in Owners, resource_cancel_claim(now, r, o)
      PROVE  AuthInv' /\ Moves /\ ReceiptStep /\ StopsTogether
  <2>1. Quiet
    BY <1>1, <1>5, ReleasedQuiet DEF resource_cancel_claim, claim_for_cancel
  <2> QED
    BY <1>5, <2>1, CancelClaimKept, QuietStops
<1>6. ASSUME NEW g \in grants, NEW p \in Operations, NEW entry \in Entries,
             resource_reserve(now, g.run, g.owner, g.epoch, p, entry), CheckStart(g.run, p, now)
      PROVE  AuthInv' /\ Moves /\ ReceiptStep /\ StopsTogether
  <2>1. AuthInv' /\ Moves /\ ReceiptStep
    BY <1>6, ReserveKept
  <2>2. reserve(now, g.run, g.owner, g.epoch, p, Fixture)
    BY <1>6 DEF resource_reserve
  <2>3. CASE UNCHANGED ops
    BY <2>1, <2>3, QuietStops DEF Quiet
  <2>4. CASE ops' = Insert(ops, p, NewOp(g.run, g.epoch, Fixture))
    <3>1. NewOp(g.run, g.epoch, Fixture).run = g.run
      BY DEF NewOp
    <3>2. \A q \in DOMAIN ops' : Starts(q) => q = p /\ ops'[q].run = g.run
      BY <1>1, <2>4, <3>1, StartsOnly
    <3> QED
      BY <1>6, <2>1, <3>2, CheckedStops
  <2> QED
    BY <2>2, <2>3, <2>4 DEF reserve
<1>7. ASSUME NEW g \in grants, NEW p \in Operations,
             resource_dispatch(now, g.run, g.owner, g.epoch, p), CheckStart(g.run, p, now)
      PROVE  AuthInv' /\ Moves /\ ReceiptStep /\ StopsTogether
  <2>1. AuthInv' /\ Moves /\ ReceiptStep
    BY <1>7, DispatchKept
  <2>2. p \in DOMAIN ops /\ ops[p].run = g.run /\ ops' = [ops EXCEPT ![p].intended = now]
    BY <1>7 DEF resource_dispatch, dispatch_intent, OpsOf
  <2>3. \A q \in DOMAIN ops' : Starts(q) => q = p /\ ops'[q].run = g.run
    BY <1>1, <2>2, DispatchStartsOnly
  <2> QED
    BY <1>7, <2>1, <2>3, CheckedStops
<1>8. ASSUME NEW g \in grants, resource_cancel(now, g.run, g.owner, g.epoch)
      PROVE  AuthInv' /\ Moves /\ ReceiptStep /\ StopsTogether
  <2>1. Quiet
    BY <1>1, <1>8, ReleasedQuiet DEF resource_cancel, cancel
  <2> QED
    BY <1>8, <2>1, CancelKept, QuietStops
<1>9. ASSUME NEW g \in grants, resource_close(now, g.run, g.owner, g.epoch)
      PROVE  AuthInv' /\ Moves /\ ReceiptStep /\ StopsTogether
  <2>1. Quiet
    BY <1>9 DEF resource_close, close, Quiet
  <2> QED
    BY <1>9, <2>1, CloseKept, QuietStops
<1>10. ASSUME NEW v \in Events, NEW m \in Reports,
              resource_observe(now, m.op, v, m.stopped, m.usage)
       PROVE  AuthInv' /\ Moves /\ ReceiptStep /\ StopsTogether
  <2>1. Quiet
    BY <1>1, <1>10, ObserveQuiet DEF resource_observe
  <2> QED
    BY <1>10, <2>1, ObserveKept, QuietStops
<1>11. ASSUME NEW r \in Runs,
              cancel_answered(now, r) \/ evidence_finalize(now, r) \/ run_cancel_finalize(now, r)
       PROVE  AuthInv' /\ Moves /\ ReceiptStep /\ StopsTogether
  <2>1. Quiet
    BY <1>11 DEF cancel_answered, snapshot, evidence_finalize, run_cancel_finalize, Quiet
  <2> QED
    BY <1>11, <2>1, AnsweredKept, FinalizeKept, CancelFinalizeKept, QuietStops
<1> QED
  BY <1>2, <1>3, <1>4, <1>5, <1>6, <1>7, <1>8, <1>9, <1>10, <1>11 DEF ChildNext

LEMMA CombinedSteps ==
  CombinedInv /\ [CombinedNext]_combinedAll =>
    CombinedInv' /\ Moves /\ ReceiptStep /\ StopsTogether
<1> SUFFICES ASSUME CombinedInv, [CombinedNext]_combinedAll
             PROVE  CombinedInv' /\ Moves /\ ReceiptStep /\ StopsTogether
  OBVIOUS
<1>1. ASSUME ReceiptStep, combinedReceipt' = combinedReceipt, cancelRequest' = cancelRequest
      PROVE  combinedReceipt' # Null => cancelRequest' # Null \/ Children \subseteq DOMAIN receipts'
  BY <1>1 DEF CombinedInv, ReceiptStep
<1>2. ASSUME NEW now \in Times, ChildNext(now), UNCHANGED combinedVars
      PROVE  CombinedInv' /\ Moves /\ ReceiptStep /\ StopsTogether
  BY <1>1, <1>2, ChildSteps DEF CombinedInv, combinedVars
<1>3. ASSUME NEW now \in Times, Touch(now),
             UNCHANGED <<runs, ops, events, grants, bindings, receipts, current>>
      PROVE  AuthInv' /\ Moves /\ ReceiptStep /\ StopsTogether
  <2>1. BookInv' /\ Moves
    BY <1>3, TouchClock, ClockStep DEF CombinedInv, AuthInv, BookInv
  <2>2. NormalKept
    BY <1>3, NormalStays DEF CombinedInv
  <2>3. current' \subseteq Runs
    BY <1>3 DEF CombinedInv, AuthInv
  <2>4. StopsTogether
    BY <1>3, QuietStops DEF Quiet
  <2> QED
    BY <1>3, <2>1, <2>2, <2>3, <2>4, RestKept DEF CombinedInv
<1>4. ASSUME NEW now \in Times, combined_prepare(now)
      PROVE  CombinedInv' /\ Moves /\ ReceiptStep /\ StopsTogether
  BY <1>1, <1>3, <1>4 DEF combined_prepare, CombinedInv
<1>5. ASSUME NEW now \in Times, combined_cancel(now)
      PROVE  CombinedInv' /\ Moves /\ ReceiptStep /\ StopsTogether
  BY <1>3, <1>5 DEF combined_cancel, CombinedInv
<1>6. ASSUME NEW now \in Times, combined_finalize(now)
      PROVE  CombinedInv' /\ Moves /\ ReceiptStep /\ StopsTogether
  BY <1>3, <1>6 DEF combined_finalize, CombinedInv
<1>7. CASE ChangeConditions /\ UNCHANGED combinedVars
  <2>1. AuthInv' /\ Moves /\ ReceiptStep
    BY <1>7, ConditionsKept DEF ChangeConditions, CombinedInv
  <2>2. StopsTogether
    BY <1>7, QuietStops DEF ChangeConditions, bookVars, Quiet
  <2> QED
    BY <1>1, <1>7, <2>1, <2>2 DEF CombinedInv, combinedVars
<1>8. CASE UNCHANGED combinedAll
  <2>1. AuthInv' /\ Moves /\ ReceiptStep
    BY <1>8, ConditionsKept DEF combinedAll, vars, bookVars, AuthInv, CombinedInv
  <2>2. StopsTogether
    BY <1>8, QuietStops DEF combinedAll, vars, Quiet
  <2> QED
    BY <1>1, <1>8, <2>1, <2>2 DEF CombinedInv, combinedAll, combinedVars
<1> QED
  BY <1>2, <1>4, <1>5, <1>6, <1>7, <1>8 DEF CombinedNext

\* The invariants of the authority hold under the steps of combined runs too:
\* check_start and check_binding only refuse, and the requests about the combined
\* run (combined_prepare, combined_cancel, combined_finalize) leave them alone.
THEOREM CombinedReceipts == CombinedSpec => [](EntriesHold /\ ReceiptsSound /\ BookInOrder)
<1>1. CombinedInit => CombinedInv
  BY AuthInitial DEF CombinedInit, CombinedInv
<1>2. CombinedInv /\ [CombinedNext]_combinedAll => CombinedInv'
  BY CombinedSteps
<1>3. CombinedInv => EntriesHold /\ ReceiptsSound /\ BookInOrder
  BY AuthGoal DEF CombinedInv
<1> QED
  BY <1>1, <1>2, <1>3, PTL DEF CombinedSpec

\* With combined runs (combined_runs.py, check_start and check_binding) nothing
\* starts twice, for an earlier owner or after the end of its run; a stop of one
\* child, or of both, lets neither start anything, nor does the end of the
\* combined run; and a run's receipt is never replaced.
THEOREM CombinedCorrect == CombinedSpec => NothingStartsAgain
<1>1. CombinedInit => CombinedInv
  BY AuthInitial DEF CombinedInit, CombinedInv
<1>2. CombinedInv /\ [CombinedNext]_combinedAll => CombinedInv'
  BY CombinedSteps
<1>3. CombinedInv /\ CombinedInv' /\ [CombinedNext]_combinedAll =>
        [DispatchStep /\ StoppedStep /\ ReceiptStep /\ StopsTogether]_combinedAll
  BY CombinedSteps, MovesGoal DEF CombinedInv, AuthInv, BookInv
<1> QED
  BY <1>1, <1>2, <1>3, PTL DEF CombinedSpec, NothingStartsAgain
=============================================================================
