---------------------------- MODULE LedgerProofs ----------------------------
(* Proofs about the ledger, for every set of runs, owners and operations    *)
(* and every value of the limits.                                           *)
EXTENDS Ledger, TLAPS

-----------------------------------------------------------------------------
(* Tables and money.                                                        *)

\* Inserting a well-typed row under an allowed key keeps a table well typed,
\* and changes it at that key only (the SQL INSERTs of ledger.py).
LEMMA InsertTable ==
  ASSUME NEW t, NEW K, NEW Row, IsTable(t, K, Row),
         NEW k \in K, NEW row \in Row
  PROVE  /\ IsTable(Insert(t, k, row), K, Row)
         /\ DOMAIN Insert(t, k, row) = DOMAIN t \cup {k}
         /\ Insert(t, k, row)[k] = row
         /\ \A x \in DOMAIN t : x # k => Insert(t, k, row)[x] = t[x]
  BY DEF IsTable, Insert

\* Setting a flag of a stored run keeps the table well typed (the UPDATEs of
\* settle, request_cancel and confirm_stopped).
LEMMA FlagTable ==
  ASSUME NEW t, IsTable(t, Runs, RunRow), NEW r \in DOMAIN t
  PROVE  /\ IsTable([t EXCEPT ![r].hold = TRUE], Runs, RunRow)
         /\ IsTable([t EXCEPT ![r].cancel = TRUE], Runs, RunRow)
         /\ IsTable([t EXCEPT ![r].stop = TRUE], Runs, RunRow)
<1>1. IsTable([t EXCEPT ![r].hold = TRUE], Runs, RunRow)
  BY DEF IsTable, RunRow
<1>2. IsTable([t EXCEPT ![r].cancel = TRUE], Runs, RunRow)
  BY DEF IsTable, RunRow
<1>3. IsTable([t EXCEPT ![r].stop = TRUE], Runs, RunRow)
  BY DEF IsTable, RunRow
<1> QED
  BY <1>1, <1>2, <1>3

\* The rounded amount is an integer, and a natural number for a natural
\* amount (_parse_usd never yields a negative amount).
LEMMA MicrosType ==
  /\ \A u \in Amounts \cup {Null} : Micros(u) \in Int
  /\ \A u \in Amounts : Micros(u) \in Nat
<1>1. Scale \in Nat /\ Scale > 0 /\ Amounts \subseteq Nat
  BY LedgerAssumption
<1>2. ASSUME NEW a \in Int
      PROVE  a \div Scale \in Int /\ (a >= 0 => a \div Scale \in Nat)
  BY <1>1
<1>3. \A u \in Amounts \cup {Null} : u + Scale - 1 \in Int
  BY <1>1 DEF Null
<1>4. \A u \in Amounts : u + Scale - 1 >= 0
  BY <1>1
<1> QED
  BY <1>1, <1>2, <1>3, <1>4 DEF Micros

-----------------------------------------------------------------------------
(* Type correctness.                                                        *)

\* The tables always hold rows of their declared shape.
LEMMA TypeInit == Init => TypeOK
  BY DEF Init, TypeOK, IsTable

LEMMA TypeStep == TypeOK /\ [Next]_vars => TypeOK'
<1> SUFFICES ASSUME TypeOK, [Next]_vars PROVE TypeOK'
  OBVIOUS
<1> USE LedgerAssumption
<1>1. CASE UNCHANGED vars
  BY <1>1 DEF TypeOK, IsTable, vars
<1>2. ASSUME NEW now \in Times, NEW r \in Runs, NEW profile \in Profiles,
             create_run(now, r, profile)
      PROVE  TypeOK'
  <2> DEFINE row == [profile |-> profile, deadline |-> now + Durations[profile],
        owner |-> NoOwner, epoch |-> 0, lease |-> 0, kind |-> "execution",
        cancel |-> FALSE, stop |-> FALSE, hold |-> FALSE]
  <2>1. now \in Nat /\ now + Durations[profile] \in Nat
    BY DEF Times
  <2>2. row \in RunRow
    BY <2>1 DEF RunRow, Kinds
  <2>3. IsTable(Insert(runs, r, row), Runs, RunRow)
    BY <2>2, InsertTable DEF TypeOK
  <2> QED
    BY <1>2, <2>1, <2>3 DEF create_run, TypeOK, Clock, IsTable
<1>3. ASSUME NEW now \in Times, NEW r \in Runs, NEW o \in Owners,
             claim(now, r, o)
      PROVE  TypeOK'
  <2>1. now \in Nat /\ r \in DOMAIN runs /\ runs[r] \in RunRow
    BY <1>3 DEF claim, Known, TypeOK, IsTable, Times
  <2>2. /\ Smaller(runs[r].deadline, now + LeaseSeconds) \in Nat
        /\ ClaimEpoch(r, now) \in Nat
    BY <2>1 DEF RunRow, Smaller, ClaimEpoch
  <2>3. IsTable(runs', Runs, RunRow)
    BY <1>3, <2>1, <2>2 DEF claim, TypeOK, IsTable, RunRow
  <2>4. Grant("execution", r, o, ClaimEpoch(r, now)) \in ClaimRow
    BY <2>2 DEF Grant, ClaimRow, Kinds
  <2> QED
    BY <1>3, <2>1, <2>3, <2>4 DEF claim, TypeOK, Clock, IsTable
<1>4. ASSUME NEW now \in Times, NEW r \in Runs, NEW o \in Owners,
             claim_recovery(now, r, o)
      PROVE  TypeOK'
  <2>1. now \in Nat /\ r \in DOMAIN runs /\ runs[r] \in RunRow
    BY <1>4 DEF claim_recovery, Known, TypeOK, IsTable, Times
  <2>2. now + LeaseSeconds \in Nat /\ RecoveryEpoch(r, now) \in Nat
    BY <2>1 DEF RunRow, RecoveryEpoch
  <2>3. IsTable(runs', Runs, RunRow)
    BY <1>4, <2>1, <2>2 DEF claim_recovery, TypeOK, IsTable, RunRow, Kinds
  <2>4. Grant("recovery", r, o, RecoveryEpoch(r, now)) \in ClaimRow
    BY <2>2 DEF Grant, ClaimRow, Kinds
  <2> QED
    BY <1>4, <2>1, <2>3, <2>4 DEF claim_recovery, TypeOK, Clock, IsTable
<1>5. ASSUME NEW now \in Times, NEW r \in Runs, NEW o \in Owners,
             NEW e \in 1 .. MaxInt, NEW p \in Operations, NEW usd \in Amounts,
             reserve(now, r, o, e, p, usd)
      PROVE  TypeOK'
  <2> DEFINE row == [run |-> r, owner |-> o, epoch |-> e, reserved |-> usd,
        status |-> "reserved", settled |-> Null, settledAt |-> Null,
        exposure |-> Null, exposureMicros |-> Null]
  <2>1. now \in Nat
    BY DEF Times
  <2>2. row \in OpRow
    BY DEF OpRow
  <2>3. IsTable(Insert(ops, p, row), Operations, OpRow)
    BY <2>2, InsertTable DEF TypeOK
  <2>4. ops' = ops \/ ops' = Insert(ops, p, row)
    BY <1>5 DEF reserve
  <2> HIDE DEF row
  <2>5. IsTable(ops', Operations, OpRow)
    BY <2>3, <2>4 DEF TypeOK
  <2> QED
    BY <1>5, <2>1, <2>5 DEF reserve, TypeOK, Clock, IsTable
<1>6. ASSUME NEW now \in Times, NEW r \in Runs, NEW o \in Owners,
             NEW e \in 1 .. MaxInt, NEW p \in Operations, NEW usd \in Amounts,
             settle(now, r, o, e, p, usd)
      PROVE  TypeOK'
  <2>1. /\ now \in Nat /\ r \in DOMAIN runs /\ p \in DOMAIN ops
        /\ ops[p] \in OpRow /\ runs[r] \in RunRow
    BY <1>6 DEF settle, RequireLease, Known, OpsOf, TypeOK, IsTable, Times
  <2>2. /\ LargestClaim(ops[p], usd) \in Nat
        /\ ExposureText(ops[p], usd) \in Amounts \cup {Null}
    <3>1. /\ Micros(usd) \in Nat /\ Micros(ops[p].settled) \in Int
          /\ ops[p].settled \in Amounts \cup {Null}
          /\ ops[p].exposure \in Amounts \cup {Null}
          /\ OrZero(ops[p].exposureMicros) \in Nat
      BY <2>1, MicrosType DEF OpRow, OrZero
    <3> QED
      BY <3>1 DEF LargestClaim, Larger, ExposureText
  <2>3. IsTable(ops', Operations, OpRow)
    <3>1. CASE SettleFirst(now, r, p, usd)
      BY <2>1, <3>1 DEF SettleFirst, TypeOK, IsTable, OpRow
    <3>2. CASE SettleAgain(r, p, usd)
      BY <2>1, <2>2, <3>2 DEF SettleAgain, TypeOK, IsTable, OpRow
    <3> QED
      BY <1>6, <3>1, <3>2 DEF settle
  <2>4. IsTable(runs', Runs, RunRow)
    <3>1. runs' = runs \/ runs' = [runs EXCEPT ![r].hold = TRUE]
      BY <1>6 DEF settle, SettleFirst, SettleAgain
    <3>2. IsTable([runs EXCEPT ![r].hold = TRUE], Runs, RunRow)
      BY <2>1, FlagTable, Zenon DEF TypeOK
    <3>3. CASE runs' = runs
      BY <3>3 DEF TypeOK
    <3> QED
      BY <3>1, <3>2, <3>3
  <2> QED
    BY <1>6, <2>1, <2>3, <2>4 DEF settle, TypeOK, Clock, IsTable
<1>7. ASSUME NEW now \in Times, NEW r \in Runs, NEW o \in Owners,
             NEW e \in 1 .. MaxInt,
             \/ request_cancel(now, r, o, e)
             \/ confirm_stopped(now, r, o, e)
      PROVE  TypeOK'
  <2>1. now \in Nat /\ r \in DOMAIN runs /\ runs[r] \in RunRow
    BY <1>7 DEF request_cancel, confirm_stopped, RequireLease, Known,
                TypeOK, IsTable, Times
  <2>2. \/ runs' = runs
        \/ runs' = [runs EXCEPT ![r].cancel = TRUE]
        \/ runs' = [runs EXCEPT ![r].stop = TRUE]
    BY <1>7 DEF request_cancel, confirm_stopped
  <2>3. IsTable(runs', Runs, RunRow)
    <3>1. /\ IsTable([runs EXCEPT ![r].cancel = TRUE], Runs, RunRow)
          /\ IsTable([runs EXCEPT ![r].stop = TRUE], Runs, RunRow)
      BY <2>1, FlagTable, Zenon DEF TypeOK
    <3>2. CASE runs' = runs
      BY <3>2 DEF TypeOK
    <3> QED
      BY <2>2, <3>1, <3>2
  <2> QED
    BY <1>7, <2>1, <2>3 DEF request_cancel, confirm_stopped, TypeOK, Clock,
                            IsTable
<1>8. ASSUME NEW now \in Times, NEW r \in Runs, NEW o \in Owners,
             NEW e \in 1 .. MaxInt, NEW a \in Assurances,
             NEW w \in BOOLEAN, NEW f \in BOOLEAN,
             finalize(now, r, o, e, a, w, f)
      PROVE  TypeOK'
  <2> DEFINE status == DecideStatus(runs[r].cancel, runs[r].stop,
               now >= runs[r].deadline, w, f, BudgetClosed(r))
             row == [status |-> status,
               assurance |-> DecideAssurance(runs[r].stop, w, BudgetClosed(r),
                               IF runs[r].hold THEN "HOLD" ELSE a),
               hold |-> runs[r].hold, closed |-> BudgetClosed(r)]
  <2>1. now \in Nat /\ r \in DOMAIN runs /\ runs[r] \in RunRow
    BY <1>8 DEF finalize, RequireLease, Known, TypeOK, IsTable, Times
  <2>2. \/ terminal' = terminal
        \/ IsFinal(status) /\ terminal' = Insert(terminal, r, row)
    BY <1>8 DEF finalize
  <2>3. ASSUME IsFinal(status) PROVE row \in TerminalRow
    <3>1. status \in {"COMPLETED", "CANCELLED", "FAILED"}
      BY <2>1, <2>3 DEF RunRow, DecideStatus, IsFinal
    <3>2. BudgetClosed(r) \in BOOLEAN /\ runs[r].hold \in BOOLEAN
      BY <2>1 DEF BudgetClosed, RunRow
    <3>3. row.assurance \in Assurances
      BY DEF DecideAssurance, Assurances
    <3> QED
      BY <3>1, <3>2, <3>3 DEF TerminalRow
  <2>4. IsTable(terminal', Runs, TerminalRow)
    <3> HIDE DEF row, status
    <3>1. CASE terminal' = terminal
      BY <3>1 DEF TypeOK
    <3>2. CASE IsFinal(status) /\ terminal' = Insert(terminal, r, row)
      BY <2>3, <3>2, InsertTable DEF TypeOK
    <3> QED
      BY <2>2, <3>1, <3>2
  <2> QED
    BY <1>8, <2>1, <2>4 DEF finalize, TypeOK, Clock, IsTable
<1>9. ASSUME NEW now \in Times, NEW q \in Requests, NEW content \in Reports,
             store_report(now, q, content)
      PROVE  TypeOK'
  <2>1. now \in Nat
    BY DEF Times
  <2>2. IsTable(reports', Requests, Reports)
    <3>1. reports' = reports \/ reports' = Insert(reports, q, content)
      BY <1>9 DEF store_report
    <3>2. IsTable(Insert(reports, q, content), Requests, Reports)
      BY InsertTable DEF TypeOK
    <3> QED
      BY <3>1, <3>2 DEF TypeOK
  <2> QED
    BY <1>9, <2>1, <2>2 DEF store_report, TypeOK, Clock, IsTable
<1>10. ASSUME NEW now \in Times, Query(now)
       PROVE  TypeOK'
  BY <1>10 DEF Query, TypeOK, Clock, IsTable, Times
<1> QED
  BY <1>1, <1>2, <1>3, <1>4, <1>5, <1>6, <1>7, <1>8, <1>9, <1>10
     DEF Next, RunStep

\* Type correctness: every behaviour of the ledger keeps every table well
\* typed, for every choice of identifiers, amounts and limits.
THEOREM TypeCorrect == Spec => []TypeOK
  BY TypeInit, TypeStep, PTL DEF Spec

-----------------------------------------------------------------------------
(* What each operation does to the run table, field by field.               *)

\* A claim rewrites the lease of one run and nothing else of the table.
LEMMA ClaimEffect ==
  ASSUME TypeOK, NEW now, NEW r, NEW o, claim(now, r, o)
  PROVE  /\ r \in DOMAIN runs /\ DOMAIN runs' = DOMAIN runs
         /\ \A x \in DOMAIN runs : x # r => runs'[x] = runs[x]
         /\ runs'[r].owner = o /\ runs'[r].epoch = ClaimEpoch(r, now)
         /\ runs'[r].kind = "execution" /\ runs[r].kind = "execution"
         /\ runs'[r].hold = runs[r].hold /\ runs'[r].stop = runs[r].stop
         /\ runs'[r].cancel = runs[r].cancel
         /\ runs'[r].deadline = runs[r].deadline
<1>1. r \in DOMAIN runs /\ runs[r] \in RunRow /\ runs \in [DOMAIN runs -> RunRow]
  BY DEF claim, Known, TypeOK, IsTable
<1> QED
  BY <1>1 DEF claim, RunRow

\* A recovery claim does the same and makes the lease a recovery lease.
LEMMA RecoveryEffect ==
  ASSUME TypeOK, NEW now, NEW r, NEW o, claim_recovery(now, r, o)
  PROVE  /\ r \in DOMAIN runs /\ DOMAIN runs' = DOMAIN runs
         /\ \A x \in DOMAIN runs : x # r => runs'[x] = runs[x]
         /\ runs'[r].owner = o /\ runs'[r].epoch = RecoveryEpoch(r, now)
         /\ runs'[r].kind = "recovery"
         /\ runs'[r].hold = runs[r].hold /\ runs'[r].stop = runs[r].stop
         /\ runs'[r].cancel = runs[r].cancel
         /\ runs'[r].deadline = runs[r].deadline
<1>1. r \in DOMAIN runs /\ runs[r] \in RunRow /\ runs \in [DOMAIN runs -> RunRow]
  BY DEF claim_recovery, Known, TypeOK, IsTable
<1> QED
  BY <1>1 DEF claim_recovery, RunRow

\* A flag update leaves the leases of all runs alone.
LEMMA FlagEffect ==
  ASSUME TypeOK, NEW r \in DOMAIN runs,
         \/ runs' = runs
         \/ runs' = [runs EXCEPT ![r].hold = TRUE]
         \/ runs' = [runs EXCEPT ![r].cancel = TRUE]
         \/ runs' = [runs EXCEPT ![r].stop = TRUE]
  PROVE  /\ DOMAIN runs' = DOMAIN runs
         /\ \A x \in DOMAIN runs :
              /\ runs'[x].owner = runs[x].owner
              /\ runs'[x].epoch = runs[x].epoch
              /\ runs'[x].kind = runs[x].kind
              /\ runs'[x].deadline = runs[x].deadline
              /\ x # r => runs'[x] = runs[x]
<1>1. runs \in [DOMAIN runs -> RunRow]
  BY DEF TypeOK, IsTable
<1>2. CASE runs' = [runs EXCEPT ![r].hold = TRUE]
  BY <1>1, <1>2 DEF RunRow
<1>3. CASE runs' = [runs EXCEPT ![r].cancel = TRUE]
  BY <1>1, <1>3 DEF RunRow
<1>4. CASE runs' = [runs EXCEPT ![r].stop = TRUE]
  BY <1>1, <1>4 DEF RunRow
<1> QED
  BY <1>2, <1>3, <1>4

\* settle, request_cancel and confirm_stopped only set flags; finalize,
\* reserve, the reports and the queries leave the run table alone.
LeaseFrame ==
  /\ claims' = claims
  /\ DOMAIN runs' = DOMAIN runs
  /\ \A x \in DOMAIN runs :
       /\ runs'[x].owner = runs[x].owner
       /\ runs'[x].epoch = runs[x].epoch
       /\ runs'[x].kind = runs[x].kind
       /\ runs'[x].deadline = runs[x].deadline

LEMMA LeaseSteps ==
  ASSUME TypeOK, [Next]_vars
  PROVE  \/ \E now \in Times, r \in Runs, profile \in Profiles :
              create_run(now, r, profile)
         \/ \E now \in Times, r \in Runs, o \in Owners :
              claim(now, r, o) \/ claim_recovery(now, r, o)
         \/ LeaseFrame
<1>1. ASSUME NEW now \in Times, NEW r \in Runs, NEW o \in Owners,
             NEW e \in 1 .. MaxInt, NEW p \in Operations, NEW usd \in Amounts,
             settle(now, r, o, e, p, usd)
      PROVE  LeaseFrame
  <2>1. r \in DOMAIN runs /\ claims' = claims
    BY <1>1 DEF settle, RequireLease, Known
  <2>2. runs' = runs \/ runs' = [runs EXCEPT ![r].hold = TRUE]
    BY <1>1 DEF settle, SettleFirst, SettleAgain
  <2> QED
    BY <2>1, <2>2, FlagEffect DEF LeaseFrame
<1>2. ASSUME NEW now \in Times, NEW r \in Runs, NEW o \in Owners,
             NEW e \in 1 .. MaxInt,
             request_cancel(now, r, o, e) \/ confirm_stopped(now, r, o, e)
      PROVE  LeaseFrame
  <2>1. r \in DOMAIN runs /\ claims' = claims
    BY <1>2 DEF request_cancel, confirm_stopped, RequireLease, Known
  <2>2. \/ runs' = runs
        \/ runs' = [runs EXCEPT ![r].cancel = TRUE]
        \/ runs' = [runs EXCEPT ![r].stop = TRUE]
    BY <1>2 DEF request_cancel, confirm_stopped
  <2> QED
    BY <2>1, <2>2, FlagEffect DEF LeaseFrame
<1>3. ASSUME runs' = runs, claims' = claims
      PROVE  LeaseFrame
  BY <1>3 DEF LeaseFrame
<1>4. ASSUME NEW now \in Times, NEW r \in Runs, NEW o \in Owners,
             NEW e \in 1 .. MaxInt,
             \/ \E p \in Operations, usd \in Amounts :
                  reserve(now, r, o, e, p, usd)
             \/ \E a \in Assurances, w, f \in BOOLEAN :
                  finalize(now, r, o, e, a, w, f)
      PROVE  LeaseFrame
  BY <1>3, <1>4 DEF reserve, finalize
<1>5. ASSUME NEW now \in Times,
             \/ \E q \in Requests, content \in Reports :
                  store_report(now, q, content)
             \/ Query(now)
      PROVE  LeaseFrame
  BY <1>3, <1>5 DEF store_report, Query
<1>6. ASSUME UNCHANGED vars
      PROVE  LeaseFrame
  BY <1>3, <1>6 DEF vars
<1> QED
  BY <1>1, <1>2, <1>4, <1>5, <1>6 DEF Next, RunStep

-----------------------------------------------------------------------------
(* Fencing.                                                                 *)

LEMMA FencingStep ==
  ASSUME TypeOK, TypeOK', EpochFencing, ClaimsTrackLease, [Next]_vars
  PROVE  EpochFencing' /\ ClaimsTrackLease'
<1> USE LedgerAssumption
<1>1. ASSUME LeaseFrame PROVE EpochFencing' /\ ClaimsTrackLease'
  <2>1. EpochFencing'
    BY <1>1 DEF LeaseFrame, EpochFencing
  <2>2. ClaimsTrackLease'
    BY <1>1 DEF LeaseFrame, ClaimsTrackLease, Grant
  <2> QED
    BY <2>1, <2>2
<1>2. ASSUME NEW now \in Times, NEW r \in Runs, NEW profile \in Profiles,
             create_run(now, r, profile)
      PROVE  EpochFencing' /\ ClaimsTrackLease'
  <2>1. /\ claims' = claims /\ r \notin DOMAIN runs
        /\ DOMAIN runs' = DOMAIN runs \cup {r}
        /\ runs'[r].owner = NoOwner
        /\ \A x \in DOMAIN runs : runs'[x] = runs[x]
    BY <1>2 DEF create_run, Insert, Known
  <2>2. EpochFencing'
    BY <2>1 DEF EpochFencing
  <2>3. ClaimsTrackLease'
    BY <2>1 DEF ClaimsTrackLease, Grant
  <2> QED
    BY <2>2, <2>3
\* Both claims: a new epoch is above every granted one, and a kept epoch is
\* the current lease again.
<1>3. ASSUME NEW r \in Runs, NEW o \in Owners, NEW k \in Kinds, NEW epoch,
             r \in DOMAIN runs, DOMAIN runs' = DOMAIN runs,
             \A x \in DOMAIN runs : x # r => runs'[x] = runs[x],
             runs'[r].owner = o, runs'[r].epoch = epoch, runs'[r].kind = k,
             claims' = claims \cup {Grant(k, r, o, epoch)},
             \/ epoch = runs[r].epoch + 1
             \/ /\ epoch = runs[r].epoch
                /\ runs[r].owner = o /\ runs[r].kind = k
      PROVE  EpochFencing' /\ ClaimsTrackLease'
  <2>1. runs[r].epoch \in Nat /\ \A c \in claims : c.epoch \in Nat
    BY <1>3 DEF TypeOK, IsTable, RunRow, ClaimRow
  <2> DEFINE g == Grant(k, r, o, epoch)
  <2>2. g.run = r /\ g.owner = o /\ g.kind = k /\ g.epoch = epoch
    BY DEF Grant
  <2>3. \A c \in claims : c.run = r /\ c.epoch = epoch =>
                            c.owner = o /\ c.kind = k
    BY <1>3, <2>1 DEF ClaimsTrackLease
  <2> HIDE DEF g
  <2>4. EpochFencing'
    BY <1>3, <2>2, <2>3 DEF EpochFencing, g
  <2>5. \A c \in claims' :
          /\ c.run \in DOMAIN runs'
          /\ c.epoch <= runs'[c.run].epoch
          /\ c.epoch = runs'[c.run].epoch =>
               c.owner = runs'[c.run].owner /\ c.kind = runs'[c.run].kind
    <3> SUFFICES ASSUME NEW c \in claims'
                 PROVE  /\ c.run \in DOMAIN runs'
                        /\ c.epoch <= runs'[c.run].epoch
                        /\ c.epoch = runs'[c.run].epoch =>
                             /\ c.owner = runs'[c.run].owner
                             /\ c.kind = runs'[c.run].kind
      OBVIOUS
    <3>1. CASE c = g
      BY <1>3, <2>1, <2>2, <3>1
    <3>2. CASE c \in claims /\ c.run # r
      BY <1>3, <3>2 DEF ClaimsTrackLease
    <3>3. CASE c \in claims /\ c.run = r
      BY <1>3, <2>1, <2>3, <3>3 DEF ClaimsTrackLease
    <3> QED
      BY <1>3, <3>1, <3>2, <3>3 DEF g
  <2>6. \A x \in DOMAIN runs' : runs'[x].owner # NoOwner =>
          Grant(runs'[x].kind, x, runs'[x].owner, runs'[x].epoch) \in claims'
    <3> SUFFICES ASSUME NEW x \in DOMAIN runs', runs'[x].owner # NoOwner
                 PROVE  Grant(runs'[x].kind, x, runs'[x].owner, runs'[x].epoch)
                          \in claims'
      OBVIOUS
    <3>1. CASE x = r
      BY <1>3, <3>1
    <3>2. CASE x # r
      BY <1>3, <3>2 DEF ClaimsTrackLease
    <3> QED
      BY <3>1, <3>2
  <2> QED
    BY <2>4, <2>5, <2>6 DEF ClaimsTrackLease
<1>4. ASSUME NEW now \in Times, NEW r \in Runs, NEW o \in Owners,
             claim(now, r, o)
      PROVE  EpochFencing' /\ ClaimsTrackLease'
  <2>1. claims' = claims \cup {Grant("execution", r, o, ClaimEpoch(r, now))}
    BY <1>4 DEF claim
  <2>2. \/ ClaimEpoch(r, now) = runs[r].epoch + 1
        \/ ClaimEpoch(r, now) = runs[r].epoch /\ runs[r].owner = o
    BY <1>4 DEF claim, ClaimEpoch
  <2>3. "execution" \in Kinds
    BY DEF Kinds
  <2> QED
    BY <1>3, <1>4, <2>1, <2>2, <2>3, ClaimEffect
<1>5. ASSUME NEW now \in Times, NEW r \in Runs, NEW o \in Owners,
             claim_recovery(now, r, o)
      PROVE  EpochFencing' /\ ClaimsTrackLease'
  <2>1. claims' = claims \cup {Grant("recovery", r, o, RecoveryEpoch(r, now))}
    BY <1>5 DEF claim_recovery
  <2>2. \/ RecoveryEpoch(r, now) = runs[r].epoch + 1
        \/ /\ RecoveryEpoch(r, now) = runs[r].epoch
           /\ runs[r].owner = o /\ runs[r].kind = "recovery"
    BY <1>5 DEF claim_recovery, RecoveryEpoch
  <2>3. "recovery" \in Kinds
    BY DEF Kinds
  <2> QED
    BY <1>3, <1>5, <2>1, <2>2, <2>3, RecoveryEffect
<1> QED
  BY <1>1, <1>2, <1>4, <1>5, LeaseSteps

-----------------------------------------------------------------------------
(* Settlements and holds.                                                   *)

\* A settlement rewrites one operation row, never its binding to a run, an
\* owner and an epoch, and touches at most the hold of that run.
SettleResult(now, r, p, usd) ==
  /\ r \in DOMAIN runs /\ p \in DOMAIN ops /\ ops[p].run = r
  /\ DOMAIN ops' = DOMAIN ops /\ DOMAIN runs' = DOMAIN runs
  /\ \A x \in DOMAIN ops : x # p => ops'[x] = ops[x]
  /\ \A x \in DOMAIN runs : x # r => runs'[x] = runs[x]
  /\ runs'[r].stop = runs[r].stop /\ runs'[r].cancel = runs[r].cancel
  /\ ops'[p].run = r /\ ops'[p].owner = ops[p].owner
  /\ ops'[p].epoch = ops[p].epoch /\ ops'[p].reserved = ops[p].reserved
  /\ ops'[p].status = "settled"
  /\ \/ /\ ops[p].status = "reserved"
        /\ ops'[p].settled = usd /\ ops'[p].settledAt = now
        /\ ops'[p].exposure = ops[p].exposure
        /\ ops'[p].exposureMicros = ops[p].exposureMicros
        /\ runs'[r].hold = (runs[r].hold \/ OverReservation(ops[p], usd))
     \/ ops' = ops /\ runs' = runs
     \/ /\ ops[p].status = "settled"
        /\ ops'[p].settled = ops[p].settled
        /\ ops'[p].settledAt = ops[p].settledAt
        /\ ops'[p].exposure = ExposureText(ops[p], usd)
        /\ ops'[p].exposureMicros = LargestClaim(ops[p], usd)
        /\ runs'[r].hold = TRUE

LEMMA SettleEffect ==
  ASSUME TypeOK, NEW now, NEW r, NEW o, NEW e, NEW p, NEW usd,
         settle(now, r, o, e, p, usd)
  PROVE  SettleResult(now, r, p, usd)
<1>1. /\ r \in DOMAIN runs /\ p \in DOMAIN ops /\ ops[p].run = r
      /\ ops \in [DOMAIN ops -> OpRow] /\ ops[p] \in OpRow
      /\ runs \in [DOMAIN runs -> RunRow] /\ runs[r] \in RunRow
  BY DEF settle, RequireLease, Known, OpsOf, TypeOK, IsTable
<1>2. CASE SettleFirst(now, r, p, usd)
  <2>1. /\ ops[p].status = "reserved"
        /\ ops' = [ops EXCEPT ![p].status = "settled", ![p].settled = usd,
                              ![p].settledAt = now]
    BY <1>2 DEF SettleFirst
  <2>2. /\ DOMAIN runs' = DOMAIN runs
        /\ \A x \in DOMAIN runs : x # r => runs'[x] = runs[x]
        /\ runs'[r].stop = runs[r].stop /\ runs'[r].cancel = runs[r].cancel
        /\ runs'[r].hold = (runs[r].hold \/ OverReservation(ops[p], usd))
    <3>1. CASE OverReservation(ops[p], usd)
      <4>1. runs' = [runs EXCEPT ![r].hold = TRUE]
        BY <1>2, <3>1 DEF SettleFirst
      <4>2. runs'[r].hold = TRUE
        BY <1>1, <4>1 DEF RunRow
      <4>3. /\ DOMAIN runs' = DOMAIN runs
            /\ \A x \in DOMAIN runs : x # r => runs'[x] = runs[x]
            /\ runs'[r].stop = runs[r].stop /\ runs'[r].cancel = runs[r].cancel
        BY <1>1, <4>1 DEF RunRow
      <4> QED
        BY <3>1, <4>2, <4>3
    <3>2. CASE ~OverReservation(ops[p], usd)
      <4>1. runs' = runs
        BY <1>2, <3>2 DEF SettleFirst
      <4>2. runs[r].hold \in BOOLEAN
        BY <1>1 DEF RunRow
      <4> QED
        BY <3>2, <4>1, <4>2
    <3> QED
      BY <3>1, <3>2
  <2>3. /\ DOMAIN ops' = DOMAIN ops
        /\ \A x \in DOMAIN ops : x # p => ops'[x] = ops[x]
        /\ ops'[p].run = ops[p].run /\ ops'[p].owner = ops[p].owner
        /\ ops'[p].epoch = ops[p].epoch /\ ops'[p].reserved = ops[p].reserved
        /\ ops'[p].status = "settled"
        /\ ops'[p].settled = usd /\ ops'[p].settledAt = now
        /\ ops'[p].exposure = ops[p].exposure
        /\ ops'[p].exposureMicros = ops[p].exposureMicros
    BY <1>1, <2>1 DEF OpRow
  <2> QED
    BY <1>1, <2>1, <2>2, <2>3 DEF SettleResult
<1>3. CASE SettleAgain(r, p, usd)
  <2>1. ops[p].status = "settled"
    BY <1>3 DEF SettleAgain
  <2>2. CASE ops' = ops /\ runs' = runs
    BY <1>1, <2>1, <2>2 DEF SettleResult
  <2>3. CASE /\ ops' = [ops EXCEPT
                   ![p].exposure = ExposureText(ops[p], usd),
                   ![p].exposureMicros = LargestClaim(ops[p], usd)]
             /\ runs' = [runs EXCEPT ![r].hold = TRUE]
    <3>1. /\ DOMAIN ops' = DOMAIN ops
          /\ \A x \in DOMAIN ops : x # p => ops'[x] = ops[x]
          /\ ops'[p].run = ops[p].run /\ ops'[p].owner = ops[p].owner
          /\ ops'[p].epoch = ops[p].epoch /\ ops'[p].reserved = ops[p].reserved
          /\ ops'[p].status = ops[p].status
          /\ ops'[p].settled = ops[p].settled
          /\ ops'[p].settledAt = ops[p].settledAt
          /\ ops'[p].exposure = ExposureText(ops[p], usd)
          /\ ops'[p].exposureMicros = LargestClaim(ops[p], usd)
      BY <1>1, <2>3 DEF OpRow
    <3>2. /\ DOMAIN runs' = DOMAIN runs
          /\ \A x \in DOMAIN runs : x # r => runs'[x] = runs[x]
          /\ runs'[r].stop = runs[r].stop /\ runs'[r].cancel = runs[r].cancel
      BY <1>1, <2>3 DEF RunRow
    <3>3. runs'[r].hold = TRUE
      BY <1>1, <2>3 DEF RunRow
    <3> QED
      BY <1>1, <2>1, <3>1, <3>2, <3>3 DEF SettleResult
  <2> QED
    BY <1>3, <2>2, <2>3 DEF SettleAgain
<1> QED
  BY <1>2, <1>3 DEF settle

\* A disputed amount is the rounding of the stored text and at least the
\* settled amount.
LEMMA DisputeSound ==
  ASSUME NEW op \in OpRow, NEW usd \in Amounts, op.settled # Null,
         op.exposure = Null <=> op.exposureMicros = Null,
         op.exposureMicros # Null => op.exposureMicros = Micros(op.exposure)
  PROVE  /\ LargestClaim(op, usd) = Micros(ExposureText(op, usd))
         /\ LargestClaim(op, usd) >= Micros(op.settled)
         /\ LargestClaim(op, usd) \in Nat
         /\ ExposureText(op, usd) # Null
<1>1. /\ Micros(usd) \in Nat /\ Micros(op.settled) \in Nat
      /\ OrZero(op.exposureMicros) \in Nat /\ op.settled \in Amounts
      /\ Null \notin Amounts
  <2>1. Null \notin Amounts
    BY LedgerAssumption DEF Null
  <2>2. op.settled \in Amounts /\ op.exposureMicros \in Nat \cup {Null}
    BY DEF OpRow
  <2>3. OrZero(op.exposureMicros) \in Nat
    BY <2>2 DEF OrZero
  <2> QED
    BY <2>1, <2>2, <2>3, MicrosType
<1> DEFINE largest == LargestClaim(op, usd)
<1>2. /\ largest \in Nat /\ largest >= Micros(op.settled)
      /\ largest \in {Micros(usd), Micros(op.settled), OrZero(op.exposureMicros)}
      /\ largest >= Micros(usd)
  BY <1>1 DEF LargestClaim, Larger
<1>3. CASE largest = Micros(usd)
  BY <1>1, <1>2, <1>3 DEF ExposureText
<1>4. CASE largest # Micros(usd) /\ largest = Micros(op.settled)
  <2>1. ExposureText(op, usd) = op.settled
    BY <1>4 DEF ExposureText
  <2> QED
    BY <1>1, <1>2, <1>4, <2>1
<1>5. CASE largest # Micros(usd) /\ largest # Micros(op.settled)
  <2>1. ExposureText(op, usd) = op.exposure
    BY <1>5 DEF ExposureText
  <2>2. largest = OrZero(op.exposureMicros) /\ op.exposureMicros # Null
    BY <1>1, <1>2, <1>5 DEF OrZero
  <2>3. largest = op.exposureMicros
    BY <2>2 DEF OrZero
  <2> QED
    BY <1>2, <2>1, <2>2, <2>3
<1> QED
  BY <1>3, <1>4, <1>5

\* The condition under which one operation puts its run on hold.
Disputed(op) ==
  \/ op.exposureMicros # Null
  \/ op.status = "settled" /\ Micros(op.settled) > Micros(op.reserved)

\* The steps that neither settle nor reserve leave the operations and the
\* holds of the stored runs alone.
MoneyFrame ==
  /\ ops' = ops
  /\ DOMAIN runs \subseteq DOMAIN runs'
  /\ \A x \in DOMAIN runs : runs'[x].hold = runs[x].hold
  /\ \A x \in DOMAIN runs' \ DOMAIN runs : runs'[x].hold = FALSE

LEMMA MoneySteps ==
  ASSUME TypeOK, [Next]_vars
  PROVE  \/ \E now \in Times, r \in Runs, o \in Owners, e \in 1 .. MaxInt,
              p \in Operations, usd \in Amounts :
                \/ reserve(now, r, o, e, p, usd)
                \/ settle(now, r, o, e, p, usd)
         \/ MoneyFrame
<1>1. ASSUME NEW now \in Times, NEW r \in Runs, NEW profile \in Profiles,
             create_run(now, r, profile)
      PROVE  MoneyFrame
  BY <1>1 DEF create_run, Insert, Known, MoneyFrame
<1>2. ASSUME NEW now \in Times, NEW r \in Runs, NEW o \in Owners,
             claim(now, r, o)
      PROVE  MoneyFrame
  <2>1. ops' = ops
    BY <1>2 DEF claim
  <2> QED
    BY <1>2, <2>1, ClaimEffect DEF MoneyFrame
<1>3. ASSUME NEW now \in Times, NEW r \in Runs, NEW o \in Owners,
             claim_recovery(now, r, o)
      PROVE  MoneyFrame
  <2>1. ops' = ops
    BY <1>3 DEF claim_recovery
  <2> QED
    BY <1>3, <2>1, RecoveryEffect DEF MoneyFrame
<1>4. ASSUME NEW now \in Times, NEW r \in Runs, NEW o \in Owners,
             NEW e \in 1 .. MaxInt,
             request_cancel(now, r, o, e) \/ confirm_stopped(now, r, o, e)
      PROVE  MoneyFrame
  <2>1. /\ r \in DOMAIN runs /\ ops' = ops
        /\ runs \in [DOMAIN runs -> RunRow]
    BY <1>4 DEF request_cancel, confirm_stopped, RequireLease, Known,
                TypeOK, IsTable
  <2>2. CASE runs' = runs
    BY <2>1, <2>2 DEF MoneyFrame
  <2>3. CASE runs' = [runs EXCEPT ![r].cancel = TRUE]
    BY <2>1, <2>3 DEF MoneyFrame, RunRow
  <2>4. CASE runs' = [runs EXCEPT ![r].stop = TRUE]
    BY <2>1, <2>4 DEF MoneyFrame, RunRow
  <2> QED
    BY <1>4, <2>2, <2>3, <2>4 DEF request_cancel, confirm_stopped
<1>5. ASSUME runs' = runs, ops' = ops PROVE MoneyFrame
  BY <1>5 DEF MoneyFrame
<1>6. ASSUME NEW now \in Times, NEW r \in Runs, NEW o \in Owners,
             NEW e \in 1 .. MaxInt, NEW a \in Assurances,
             NEW w \in BOOLEAN, NEW f \in BOOLEAN,
             finalize(now, r, o, e, a, w, f)
      PROVE  MoneyFrame
  BY <1>5, <1>6 DEF finalize
<1>7. ASSUME NEW now \in Times,
             \/ \E q \in Requests, content \in Reports :
                  store_report(now, q, content)
             \/ Query(now)
      PROVE  MoneyFrame
  BY <1>5, <1>7 DEF store_report, Query
<1>8. ASSUME UNCHANGED vars PROVE MoneyFrame
  BY <1>5, <1>8 DEF vars
<1> QED
  BY <1>1, <1>2, <1>3, <1>4, <1>6, <1>7, <1>8 DEF Next, RunStep

\* What a successful reserve does: a redelivery, or one fresh row of a run
\* that may still execute and is not on hold.
ReserveResult(now, r, o, e, p) ==
  /\ r \in DOMAIN runs /\ runs' = runs /\ claims' = claims
  /\ terminal' = terminal
  /\ runs[r].owner = o /\ runs[r].epoch = e
  /\ now < runs[r].deadline /\ lastClock' = now
  /\ MayReserve(r)
  /\ \/ ops' = ops
     \/ /\ p \notin DOMAIN ops /\ DOMAIN ops' = DOMAIN ops \cup {p}
        /\ \A x \in DOMAIN ops : ops'[x] = ops[x]
        /\ ops'[p].run = r /\ ops'[p].owner = o /\ ops'[p].epoch = e
        /\ ops'[p].status = "reserved" /\ ops'[p].settled = Null
        /\ ops'[p].settledAt = Null /\ ops'[p].exposure = Null
        /\ ops'[p].exposureMicros = Null
        /\ ~runs[r].hold

LEMMA ReserveEffect ==
  ASSUME TypeOK, NEW now \in Times, NEW r, NEW o, NEW e, NEW p, NEW usd,
         reserve(now, r, o, e, p, usd)
  PROVE  ReserveResult(now, r, o, e, p)
<1>1. /\ r \in DOMAIN runs /\ runs[r].deadline \in Nat /\ now \in Nat
  BY DEF reserve, RequireLease, Known, TypeOK, IsTable, RunRow, Times
<1>2. now < runs[r].deadline
  BY <1>1 DEF reserve, RequireLease
<1>3. /\ runs' = runs /\ claims' = claims /\ terminal' = terminal
      /\ runs[r].owner = o /\ runs[r].epoch = e
      /\ lastClock' = now /\ MayReserve(r)
  BY DEF reserve, RequireLease, Clock
<1>4. \/ ops' = ops
      \/ /\ p \notin DOMAIN ops /\ ~runs[r].hold
         /\ ops' = Insert(ops, p,
             [run |-> r, owner |-> o, epoch |-> e, reserved |-> usd,
              status |-> "reserved", settled |-> Null, settledAt |-> Null,
              exposure |-> Null, exposureMicros |-> Null])
  BY DEF reserve
<1> QED
  BY <1>1, <1>2, <1>3, <1>4 DEF Insert, ReserveResult

\* The rows stay readable, and a run is on hold exactly when one of its
\* operations is disputed.
LEMMA MoneyStep ==
  ASSUME TypeOK, TypeOK', [Next]_vars, ClaimsTrackLease,
         ReservedUnderExecution, RowsStayReadable, HoldIffDisputed
  PROVE  RowsStayReadable' /\ HoldIffDisputed'
<1>1. /\ \A p \in DOMAIN ops : ops[p] \in OpRow /\ ops[p].run \in DOMAIN runs
      /\ \A x \in DOMAIN runs : runs[x].hold \in BOOLEAN
  BY DEF TypeOK, IsTable, RunRow, ReservedUnderExecution, ClaimsTrackLease, Grant
<1>2. ASSUME NEW x \in DOMAIN runs
      PROVE  runs[x].hold <=> \E p \in DOMAIN ops :
                                ops[p].run = x /\ Disputed(ops[p])
  BY DEF HoldIffDisputed, OpsOf, Disputed
<1>3. ASSUME \A x \in DOMAIN runs' :
               runs'[x].hold <=> \E p \in DOMAIN ops' :
                                   ops'[p].run = x /\ Disputed(ops'[p])
      PROVE  HoldIffDisputed'
  BY <1>3 DEF HoldIffDisputed, OpsOf, Disputed
<1>4. ASSUME MoneyFrame PROVE RowsStayReadable' /\ HoldIffDisputed'
  <2>1. RowsStayReadable'
    BY <1>4 DEF MoneyFrame, RowsStayReadable
  <2>2. HoldIffDisputed'
    <3> SUFFICES ASSUME NEW x \in DOMAIN runs'
                 PROVE  runs'[x].hold <=> \E p \in DOMAIN ops' :
                                   ops'[p].run = x /\ Disputed(ops'[p])
      BY <1>3
    <3>1. CASE x \in DOMAIN runs
      BY <1>2, <1>4, <3>1 DEF MoneyFrame
    <3>2. CASE x \notin DOMAIN runs
      BY <1>1, <1>4, <3>2 DEF MoneyFrame
    <3> QED
      BY <3>1, <3>2
  <2> QED
    BY <2>1, <2>2
<1>5. ASSUME NEW now \in Times, NEW r \in Runs, NEW o \in Owners,
             NEW e \in 1 .. MaxInt, NEW p \in Operations, NEW usd \in Amounts,
             reserve(now, r, o, e, p, usd), ops' # ops
      PROVE  RowsStayReadable' /\ HoldIffDisputed'
  <2>1. /\ p \notin DOMAIN ops /\ DOMAIN ops' = DOMAIN ops \cup {p}
        /\ \A x \in DOMAIN ops : ops'[x] = ops[x]
        /\ ops'[p].status = "reserved" /\ ops'[p].settled = Null
        /\ ops'[p].settledAt = Null /\ ops'[p].exposure = Null
        /\ ops'[p].exposureMicros = Null /\ runs' = runs
    <3>1. ReserveResult(now, r, o, e, p)
      BY <1>5, ReserveEffect
    <3> QED
      BY <1>5, <3>1 DEF ReserveResult
  <2>2. RowsStayReadable'
    BY <2>1 DEF RowsStayReadable
  <2>3. ~Disputed(ops'[p])
    BY <2>1 DEF Disputed
  <2>4. HoldIffDisputed'
    <3> SUFFICES ASSUME NEW x \in DOMAIN runs'
                 PROVE  runs'[x].hold <=> \E q \in DOMAIN ops' :
                                   ops'[q].run = x /\ Disputed(ops'[q])
      BY <1>3
    <3> QED
      BY <1>2, <2>1, <2>3
  <2> QED
    BY <2>2, <2>4
<1>6. ASSUME NEW now \in Times, NEW r \in Runs, NEW o \in Owners,
             NEW e \in 1 .. MaxInt, NEW p \in Operations, NEW usd \in Amounts,
             settle(now, r, o, e, p, usd), ~(ops' = ops /\ runs' = runs)
      PROVE  RowsStayReadable' /\ HoldIffDisputed'
  <2>0. SettleResult(now, r, p, usd)
    BY <1>6, SettleEffect
  <2>1. /\ r \in DOMAIN runs /\ p \in DOMAIN ops /\ ops[p].run = r
        /\ DOMAIN ops' = DOMAIN ops /\ DOMAIN runs' = DOMAIN runs
        /\ \A x \in DOMAIN ops : x # p => ops'[x] = ops[x]
        /\ \A x \in DOMAIN runs : x # r => runs'[x] = runs[x]
        /\ ops'[p].run = r /\ ops'[p].reserved = ops[p].reserved
        /\ ops'[p].status = "settled" /\ ops[p] \in OpRow /\ now \in Nat
        /\ Null \notin Nat /\ Null \notin Amounts
    BY <1>1, <2>0, LedgerAssumption DEF Times, Null, SettleResult
  <2>2. CASE ops[p].status = "reserved"
    <3>1. /\ ops'[p].settled = usd /\ ops'[p].settledAt = now
          /\ ops'[p].exposure = ops[p].exposure
          /\ ops'[p].exposureMicros = ops[p].exposureMicros
          /\ runs'[r].hold = (runs[r].hold \/ OverReservation(ops[p], usd))
      BY <1>6, <2>0, <2>2 DEF SettleResult
    <3>2. ops[p].exposureMicros = Null /\ ops[p].exposure = Null
      BY <2>1, <2>2 DEF RowsStayReadable
    <3>3. RowsStayReadable'
      BY <2>1, <3>1, <3>2 DEF RowsStayReadable
    <3>4. Disputed(ops'[p]) <=> OverReservation(ops[p], usd)
      BY <2>1, <3>1, <3>2 DEF Disputed, OverReservation
    <3>5. ~Disputed(ops[p])
      BY <2>2, <3>2 DEF Disputed
    <3>6. HoldIffDisputed'
      <4> SUFFICES ASSUME NEW x \in DOMAIN runs'
                   PROVE  runs'[x].hold <=> \E q \in DOMAIN ops' :
                                   ops'[q].run = x /\ Disputed(ops'[q])
        BY <1>3
      <4>1. CASE x = r
        BY <1>2, <2>1, <3>1, <3>4, <3>5, <4>1, ZenonT(60)
      <4>2. CASE x # r
        BY <1>2, <2>1, <4>2
      <4> QED
        BY <4>1, <4>2
    <3> QED
      BY <3>3, <3>6
  <2>3. CASE ops[p].status = "settled"
    <3>1. /\ ops'[p].settled = ops[p].settled
          /\ ops'[p].settledAt = ops[p].settledAt
          /\ ops'[p].exposure = ExposureText(ops[p], usd)
          /\ ops'[p].exposureMicros = LargestClaim(ops[p], usd)
          /\ runs'[r].hold = TRUE
      BY <1>6, <2>0, <2>3 DEF SettleResult
    <3>2. /\ ops[p].settled # Null /\ ops[p].settledAt # Null
          /\ (ops[p].exposure = Null) <=> (ops[p].exposureMicros = Null)
          /\ ops[p].exposureMicros # Null =>
               ops[p].exposureMicros = Micros(ops[p].exposure)
      BY <2>1, <2>3 DEF RowsStayReadable
    <3>3. /\ LargestClaim(ops[p], usd) = Micros(ExposureText(ops[p], usd))
          /\ LargestClaim(ops[p], usd) >= Micros(ops[p].settled)
          /\ LargestClaim(ops[p], usd) # Null
          /\ ExposureText(ops[p], usd) # Null
      BY <2>1, <3>2, DisputeSound
    <3>4. RowsStayReadable'
      BY <2>1, <3>1, <3>2, <3>3 DEF RowsStayReadable
    <3>5. Disputed(ops'[p])
      BY <3>1, <3>3 DEF Disputed
    <3>6. HoldIffDisputed'
      <4> SUFFICES ASSUME NEW x \in DOMAIN runs'
                   PROVE  runs'[x].hold <=> \E q \in DOMAIN ops' :
                                   ops'[q].run = x /\ Disputed(ops'[q])
        BY <1>3
      <4>1. CASE x = r
        BY <2>1, <3>1, <3>5, <4>1
      <4>2. CASE x # r
        BY <1>2, <2>1, <4>2
      <4> QED
        BY <4>1, <4>2
    <3> QED
      BY <3>4, <3>6
  <2> QED
    BY <2>1, <2>2, <2>3 DEF OpRow
<1>7. ASSUME ops' = ops, runs' = runs PROVE RowsStayReadable' /\ HoldIffDisputed'
  BY <1>4, <1>7 DEF MoneyFrame
<1>8. ASSUME NEW now \in Times, NEW r \in Runs, NEW o \in Owners,
             NEW e \in 1 .. MaxInt, NEW p \in Operations, NEW usd \in Amounts,
             reserve(now, r, o, e, p, usd)
      PROVE  RowsStayReadable' /\ HoldIffDisputed'
  BY <1>5, <1>7, <1>8 DEF reserve
<1> QED
  BY <1>4, <1>6, <1>7, <1>8, MoneySteps

-----------------------------------------------------------------------------
(* Reservations and grants.                                                 *)

\* An operation stays bound to a lease that was granted for execution.
LEMMA ReservedStep ==
  ASSUME TypeOK, [Next]_vars, ClaimsTrackLease, ReservedUnderExecution
  PROVE  ReservedUnderExecution'
<1>1. claims \subseteq claims'
  <2>1. ASSUME NEW now, NEW r, NEW profile, create_run(now, r, profile)
        PROVE  claims \subseteq claims'
    BY <2>1 DEF create_run
  <2>2. ASSUME NEW now, NEW r, NEW o, claim(now, r, o)
        PROVE  claims \subseteq claims'
    BY <2>2 DEF claim
  <2>3. ASSUME NEW now, NEW r, NEW o, claim_recovery(now, r, o)
        PROVE  claims \subseteq claims'
    BY <2>3 DEF claim_recovery
  <2>4. ASSUME LeaseFrame PROVE claims \subseteq claims'
    BY <2>4 DEF LeaseFrame
  <2> QED
    BY <2>1, <2>2, <2>3, <2>4, LeaseSteps
<1>2. ASSUME MoneyFrame PROVE ReservedUnderExecution'
  BY <1>1, <1>2 DEF MoneyFrame, ReservedUnderExecution
<1>3. ASSUME NEW now \in Times, NEW r \in Runs, NEW o \in Owners,
             NEW e \in 1 .. MaxInt, NEW p \in Operations, NEW usd \in Amounts,
             settle(now, r, o, e, p, usd)
      PROVE  ReservedUnderExecution'
  <2>1. SettleResult(now, r, p, usd)
    BY <1>3, SettleEffect
  <2> QED
    BY <1>1, <2>1 DEF SettleResult, ReservedUnderExecution
<1>4. ASSUME NEW now \in Times, NEW r \in Runs, NEW o \in Owners,
             NEW e \in 1 .. MaxInt, NEW p \in Operations, NEW usd \in Amounts,
             reserve(now, r, o, e, p, usd)
      PROVE  ReservedUnderExecution'
  <2>1. ReserveResult(now, r, o, e, p)
    BY <1>4, ReserveEffect
  <2>2. Grant("execution", r, o, e) \in claims
    <3>1. /\ r \in DOMAIN runs /\ runs[r].owner = o /\ runs[r].epoch = e
          /\ runs[r].kind = "execution" /\ o # NoOwner
      BY <2>1, LedgerAssumption DEF ReserveResult, MayReserve
    <3> QED
      BY <3>1 DEF ClaimsTrackLease
  <2> QED
    BY <1>1, <2>1, <2>2 DEF ReserveResult, ReservedUnderExecution
<1> QED
  BY <1>2, <1>3, <1>4, MoneySteps

-----------------------------------------------------------------------------
(* Terminal records.                                                        *)

\* A step that stores no terminal record leaves the stop and cancel flags of
\* the finished runs alone, gives them no new operation and unsettles none.
TerminalFrame ==
  /\ terminal' = terminal
  /\ \A x \in DOMAIN terminal :
       /\ x \in DOMAIN runs'
       /\ runs'[x].stop = runs[x].stop /\ runs'[x].cancel = runs[x].cancel
       /\ \A q \in DOMAIN ops' : ops'[q].run = x =>
            /\ q \in DOMAIN ops /\ ops[q].run = x
            /\ ops[q].status = "settled" => ops'[q].status = "settled"

LEMMA TerminalSteps ==
  ASSUME TypeOK, [Next]_vars, TerminalFaithful
  PROVE  \/ TerminalFrame
         \/ \E now \in Times, r \in Runs, o \in Owners, e \in 1 .. MaxInt,
              a \in Assurances, w, f \in BOOLEAN : finalize(now, r, o, e, a, w, f)
<1>0. DOMAIN terminal \subseteq DOMAIN runs
  BY DEF TerminalFaithful
<1>1. ASSUME NEW now \in Times, NEW r \in Runs, NEW profile \in Profiles,
             create_run(now, r, profile)
      PROVE  TerminalFrame
  BY <1>0, <1>1 DEF create_run, Insert, Known, TerminalFrame
<1>2. ASSUME NEW now \in Times, NEW r \in Runs, NEW o \in Owners,
             claim(now, r, o)
      PROVE  TerminalFrame
  <2>1. ops' = ops /\ terminal' = terminal
    BY <1>2 DEF claim
  <2> QED
    BY <1>0, <1>2, <2>1, ClaimEffect DEF TerminalFrame
<1>3. ASSUME NEW now \in Times, NEW r \in Runs, NEW o \in Owners,
             claim_recovery(now, r, o)
      PROVE  TerminalFrame
  <2>1. ops' = ops /\ terminal' = terminal
    BY <1>3 DEF claim_recovery
  <2> QED
    BY <1>0, <1>3, <2>1, RecoveryEffect DEF TerminalFrame
<1>4. ASSUME NEW now \in Times, NEW r \in Runs, NEW o \in Owners,
             NEW e \in 1 .. MaxInt,
             request_cancel(now, r, o, e) \/ confirm_stopped(now, r, o, e)
      PROVE  TerminalFrame
  <2>1. /\ r \in DOMAIN runs /\ ops' = ops /\ terminal' = terminal
        /\ r \in DOMAIN terminal => runs' = runs
        /\ \/ runs' = runs
           \/ runs' = [runs EXCEPT ![r].cancel = TRUE]
           \/ runs' = [runs EXCEPT ![r].stop = TRUE]
    BY <1>4 DEF request_cancel, confirm_stopped, RequireLease, Known
  <2>2. DOMAIN runs' = DOMAIN runs /\
        \A x \in DOMAIN runs : x # r => runs'[x] = runs[x]
    BY <2>1, FlagEffect
  <2>3. \A x \in DOMAIN terminal : x \in DOMAIN runs' /\ runs'[x] = runs[x]
    BY <1>0, <2>1, <2>2
  <2> QED
    BY <2>1, <2>3 DEF TerminalFrame
<1>5. ASSUME NEW now \in Times, NEW r \in Runs, NEW o \in Owners,
             NEW e \in 1 .. MaxInt, NEW p \in Operations, NEW usd \in Amounts,
             settle(now, r, o, e, p, usd)
      PROVE  TerminalFrame
  <2>1. SettleResult(now, r, p, usd)
    BY <1>5, SettleEffect
  <2>2. terminal' = terminal
    BY <1>5 DEF settle
  <2> QED
    BY <1>0, <2>1, <2>2 DEF SettleResult, TerminalFrame
<1>6. ASSUME NEW now \in Times, NEW r \in Runs, NEW o \in Owners,
             NEW e \in 1 .. MaxInt, NEW p \in Operations, NEW usd \in Amounts,
             reserve(now, r, o, e, p, usd)
      PROVE  TerminalFrame
  <2>1. ReserveResult(now, r, o, e, p)
    BY <1>6, ReserveEffect
  <2> QED
    BY <1>0, <2>1 DEF ReserveResult, MayReserve, TerminalFrame
<1>7. ASSUME runs' = runs, ops' = ops, terminal' = terminal PROVE TerminalFrame
  BY <1>0, <1>7 DEF TerminalFrame
<1>8. ASSUME NEW now \in Times,
             \/ \E q \in Requests, content \in Reports :
                  store_report(now, q, content)
             \/ Query(now)
      PROVE  TerminalFrame
  BY <1>7, <1>8 DEF store_report, Query
<1>9. ASSUME UNCHANGED vars PROVE TerminalFrame
  BY <1>7, <1>9 DEF vars
<1> QED
  BY <1>1, <1>2, <1>3, <1>4, <1>5, <1>6, <1>8, <1>9 DEF Next, RunStep

\* A terminal record stays true of the tables it was derived from.
LEMMA TerminalStep ==
  ASSUME TypeOK, [Next]_vars, TerminalFaithful
  PROVE  TerminalFaithful'
<1>1. ASSUME TerminalFrame PROVE TerminalFaithful'
  BY <1>1 DEF TerminalFrame, TerminalFaithful, OpsOf
<1>2. ASSUME NEW now \in Times, NEW r \in Runs, NEW o \in Owners,
             NEW e \in 1 .. MaxInt, NEW a \in Assurances,
             NEW w \in BOOLEAN, NEW f \in BOOLEAN,
             finalize(now, r, o, e, a, w, f)
      PROVE  TerminalFaithful'
  <2> DEFINE status == DecideStatus(runs[r].cancel, runs[r].stop,
               now >= runs[r].deadline, w, f, BudgetClosed(r))
             assurance == DecideAssurance(runs[r].stop, w, BudgetClosed(r),
                            IF runs[r].hold THEN "HOLD" ELSE a)
             row == [status |-> status, assurance |-> assurance,
               hold |-> runs[r].hold, closed |-> BudgetClosed(r)]
  <2>1. /\ runs' = runs /\ ops' = ops /\ r \in DOMAIN runs
        /\ runs[r] \in RunRow
    BY <1>2 DEF finalize, RequireLease, Known, TypeOK, IsTable
  <2>2. \/ terminal' = terminal
        \/ r \notin DOMAIN terminal /\ terminal' = Insert(terminal, r, row)
    BY <1>2 DEF finalize
  <2>3. /\ status = "COMPLETED" =>
             runs[r].stop /\ ~runs[r].cancel /\ BudgetClosed(r)
        /\ status = "CANCELLED" => runs[r].cancel /\ runs[r].stop
    BY <2>1 DEF DecideStatus, RunRow
  <2>4. assurance \in {"HEALTHY", "WARNING"} =>
          runs[r].stop /\ BudgetClosed(r) /\ ~runs[r].hold
    BY DEF DecideAssurance
  <2>5. BudgetClosed(r) => \A p \in OpsOf(r) : ops[p].status = "settled"
    BY DEF BudgetClosed
  <2>6. CASE terminal' = terminal
    BY <2>1, <2>6 DEF TerminalFaithful, OpsOf
  <2>7. CASE r \notin DOMAIN terminal /\ terminal' = Insert(terminal, r, row)
    <3>1. /\ DOMAIN terminal' = DOMAIN terminal \cup {r}
          /\ \A x \in DOMAIN terminal : terminal'[x] = terminal[x]
          /\ terminal'[r].status = status
          /\ terminal'[r].assurance = assurance
          /\ terminal'[r].hold = runs[r].hold
          /\ terminal'[r].closed = BudgetClosed(r)
      BY <2>7 DEF Insert
    <3> HIDE DEF status, assurance, row
    <3> SUFFICES ASSUME NEW x \in DOMAIN terminal'
                 PROVE  /\ x \in DOMAIN runs
                        /\ terminal'[x].status = "COMPLETED" =>
                             /\ runs[x].stop /\ ~runs[x].cancel
                             /\ \A p \in OpsOf(x) : ops[p].status = "settled"
                        /\ terminal'[x].status = "CANCELLED" =>
                             runs[x].cancel /\ runs[x].stop
                        /\ terminal'[x].assurance \in {"HEALTHY", "WARNING"} =>
                             /\ runs[x].stop /\ terminal'[x].closed
                             /\ ~terminal'[x].hold
      BY <2>1 DEF TerminalFaithful, OpsOf
    <3>2. CASE x = r
      BY <2>1, <2>3, <2>4, <2>5, <3>1, <3>2
    <3>3. CASE x # r
      BY <3>1, <3>3 DEF TerminalFaithful
    <3> QED
      BY <3>2, <3>3
  <2> QED
    BY <2>2, <2>6, <2>7
<1> QED
  BY <1>1, <1>2, TerminalSteps

-----------------------------------------------------------------------------
(* The theorems.                                                            *)

LEMMA LedgerInvInit == Init => LedgerInv
<1> SUFFICES ASSUME Init PROVE LedgerInv
  OBVIOUS
<1>1. /\ DOMAIN runs = {} /\ DOMAIN ops = {} /\ DOMAIN terminal = {}
      /\ claims = {}
  BY DEF Init
<1> QED
  BY <1>1 DEF LedgerInv, RowsStayReadable, HoldIffDisputed, EpochFencing,
              ClaimsTrackLease, ReservedUnderExecution, TerminalFaithful

LEMMA LedgerInvStep ==
  TypeOK /\ TypeOK' /\ LedgerInv /\ [Next]_vars => LedgerInv'
  BY FencingStep, MoneyStep, ReservedStep, TerminalStep DEF LedgerInv

\* Every reachable ledger satisfies the inductive invariant: rows stay
\* readable, holds are exactly the disputed runs, epochs fence, operations
\* belong to execution leases and terminal records stay true.
THEOREM LedgerSafe == Spec => []LedgerInv
<1>1. Spec => []TypeOK
  BY TypeCorrect
<1> QED
  BY <1>1, LedgerInvInit, LedgerInvStep, PTL DEF Spec

\* The row checks of every accounting query (_validate_operation_row) never fail:
\* every table keeps its shape, what settle and its redeliveries write is whole,
\* and a disputed amount is the one its text rounds up to.
THEOREM RowsCorrect == Spec => []RowsSound
<1>1. TypeOK /\ LedgerInv => RowsSound
  BY DEF LedgerInv, RowsSound
<1> QED
  BY <1>1, TypeCorrect, LedgerSafe, PTL

\* An epoch of a run belongs to one owner and one kind of lease, whatever the
\* interleaving of claims, expiries and take-overs.
THEOREM FencingCorrect == Spec => []EpochFencing
<1>1. LedgerInv => EpochFencing
  BY DEF LedgerInv
<1> QED
  BY <1>1, LedgerSafe, PTL

\* A settlement error is never lost and never invented: a run is on hold
\* exactly when one of its operations is disputed or over its reservation.
THEOREM HoldCorrect == Spec => []HoldIffDisputed
<1>1. LedgerInv => HoldIffDisputed
  BY DEF LedgerInv
<1> QED
  BY <1>1, LedgerSafe, PTL

\* A terminal record remains true of the run after any later late settle,
\* cancel, stop or recovery.
THEOREM TerminalCorrect == Spec => []TerminalFaithful
<1>1. LedgerInv => TerminalFaithful
  BY DEF LedgerInv
<1> QED
  BY <1>1, LedgerSafe, PTL

-----------------------------------------------------------------------------
(* What no step may do.                                                     *)

\* The clock, the terminal records and the flags of every run only grow, and
\* a deadline is never moved.
Grows ==
  /\ lastClock' >= lastClock
  /\ DOMAIN runs \subseteq DOMAIN runs'
  /\ DOMAIN terminal \subseteq DOMAIN terminal'
  /\ \A x \in DOMAIN runs :
       /\ runs'[x].deadline = runs[x].deadline
       /\ runs[x].hold => runs'[x].hold
       /\ runs[x].cancel => runs'[x].cancel
       /\ runs[x].stop => runs'[x].stop

LEMMA GrowsStep ==
  ASSUME TypeOK, [Next]_vars
  PROVE  Grows
<1>1. lastClock \in Nat /\ lastClock >= lastClock
  BY DEF TypeOK
<1>2. ASSUME NEW now \in Times, NEW r \in Runs, NEW profile \in Profiles,
             create_run(now, r, profile)
      PROVE  Grows
  BY <1>2 DEF create_run, Clock, Insert, Known, Grows
<1>3. ASSUME NEW now \in Times, NEW r \in Runs, NEW o \in Owners,
             claim(now, r, o)
      PROVE  Grows
  <2>1. lastClock' >= lastClock /\ terminal' = terminal
    BY <1>3 DEF claim, Clock
  <2> QED
    BY <1>3, <2>1, ClaimEffect DEF Grows
<1>4. ASSUME NEW now \in Times, NEW r \in Runs, NEW o \in Owners,
             claim_recovery(now, r, o)
      PROVE  Grows
  <2>1. lastClock' >= lastClock /\ terminal' = terminal
    BY <1>4 DEF claim_recovery, Clock
  <2> QED
    BY <1>4, <2>1, RecoveryEffect DEF Grows
<1>5. ASSUME NEW r \in DOMAIN runs,
             \/ runs' = runs
             \/ runs' = [runs EXCEPT ![r].hold = TRUE]
             \/ runs' = [runs EXCEPT ![r].cancel = TRUE]
             \/ runs' = [runs EXCEPT ![r].stop = TRUE],
             lastClock' >= lastClock, terminal' = terminal
      PROVE  Grows
  <2>1. runs \in [DOMAIN runs -> RunRow]
    BY DEF TypeOK, IsTable
  <2>2. CASE runs' = runs
    BY <1>5, <2>2 DEF Grows
  <2>3. CASE runs' = [runs EXCEPT ![r].hold = TRUE]
    BY <1>5, <2>1, <2>3 DEF Grows, RunRow
  <2>4. CASE runs' = [runs EXCEPT ![r].cancel = TRUE]
    BY <1>5, <2>1, <2>4 DEF Grows, RunRow
  <2>5. CASE runs' = [runs EXCEPT ![r].stop = TRUE]
    BY <1>5, <2>1, <2>5 DEF Grows, RunRow
  <2> QED
    BY <1>5, <2>2, <2>3, <2>4, <2>5
<1>6. ASSUME NEW now \in Times, NEW r \in Runs, NEW o \in Owners,
             NEW e \in 1 .. MaxInt, NEW p \in Operations, NEW usd \in Amounts,
             settle(now, r, o, e, p, usd)
      PROVE  Grows
  <2>1. /\ r \in DOMAIN runs /\ lastClock' >= lastClock /\ terminal' = terminal
        /\ runs' = runs \/ runs' = [runs EXCEPT ![r].hold = TRUE]
    BY <1>6 DEF settle, SettleFirst, SettleAgain, RequireLease, Known, Clock
  <2> QED
    BY <1>5, <2>1
<1>7. ASSUME NEW now \in Times, NEW r \in Runs, NEW o \in Owners,
             NEW e \in 1 .. MaxInt,
             request_cancel(now, r, o, e) \/ confirm_stopped(now, r, o, e)
      PROVE  Grows
  <2>1. /\ r \in DOMAIN runs /\ lastClock' >= lastClock /\ terminal' = terminal
        /\ \/ runs' = runs
           \/ runs' = [runs EXCEPT ![r].cancel = TRUE]
           \/ runs' = [runs EXCEPT ![r].stop = TRUE]
    BY <1>7 DEF request_cancel, confirm_stopped, RequireLease, Known, Clock
  <2> QED
    BY <1>5, <2>1
<1>8. ASSUME runs' = runs, DOMAIN terminal \subseteq DOMAIN terminal',
             lastClock' >= lastClock
      PROVE  Grows
  BY <1>8 DEF Grows
<1>9. ASSUME NEW now \in Times, NEW r \in Runs, NEW o \in Owners,
             NEW e \in 1 .. MaxInt, NEW p \in Operations, NEW usd \in Amounts,
             reserve(now, r, o, e, p, usd)
      PROVE  Grows
  BY <1>8, <1>9 DEF reserve, Clock
<1>10. ASSUME NEW now \in Times, NEW r \in Runs, NEW o \in Owners,
              NEW e \in 1 .. MaxInt, NEW a \in Assurances,
              NEW w \in BOOLEAN, NEW f \in BOOLEAN,
              finalize(now, r, o, e, a, w, f)
       PROVE  Grows
  BY <1>8, <1>10 DEF finalize, Clock, Insert
<1>11. ASSUME NEW now \in Times,
              \/ \E q \in Requests, content \in Reports :
                   store_report(now, q, content)
              \/ Query(now)
       PROVE  Grows
  BY <1>8, <1>11 DEF store_report, Query, Clock
<1>12. ASSUME UNCHANGED vars PROVE Grows
  BY <1>1, <1>8, <1>12 DEF vars
<1> QED
  BY <1>2, <1>3, <1>4, <1>6, <1>7, <1>9, <1>10, <1>11, <1>12
     DEF Next, RunStep

LEMMA ClosedStepHolds ==
  ASSUME TypeOK, TypeOK', [Next]_vars
  PROVE  ClosedStep
<1> SUFFICES ASSUME NEW r \in DOMAIN runs,
                    Closed(r) \/ lastClock >= runs[r].deadline
             PROVE  /\ r \in DOMAIN runs'
                    /\ Closed(r)' \/ lastClock' >= runs'[r].deadline
                    /\ OpsOf(r)' = OpsOf(r)
                    /\ \A c \in claims' \ claims :
                         c.run = r => c.kind = "recovery"
  BY DEF ClosedStep
<1>1. Grows
  BY GrowsStep
<1>2. r \in DOMAIN runs' /\ (Closed(r)' \/ lastClock' >= runs'[r].deadline)
  <2>1. CASE Closed(r)
    BY <1>1, <2>1 DEF Grows, Closed
  <2>2. CASE lastClock >= runs[r].deadline
    <3>1. lastClock \in Nat /\ runs[r].deadline \in Nat
      BY DEF TypeOK, IsTable, RunRow
    <3>2. lastClock' \in Nat
      BY DEF TypeOK
    <3> QED
      BY <1>1, <2>2, <3>1, <3>2 DEF Grows
  <2> QED
    BY <2>1, <2>2
<1>3. OpsOf(r)' = OpsOf(r)
  <2>1. CASE MoneyFrame
    BY <2>1 DEF MoneyFrame, OpsOf
  <2>2. ASSUME NEW now \in Times, NEW x \in Runs, NEW o \in Owners,
               NEW e \in 1 .. MaxInt, NEW p \in Operations,
               NEW usd \in Amounts, settle(now, x, o, e, p, usd)
        PROVE  OpsOf(r)' = OpsOf(r)
    <3>1. SettleResult(now, x, p, usd)
      BY <2>2, SettleEffect
    <3> QED
      BY <3>1 DEF SettleResult, OpsOf
  <2>3. ASSUME NEW now \in Times, NEW x \in Runs, NEW o \in Owners,
               NEW e \in 1 .. MaxInt, NEW p \in Operations,
               NEW usd \in Amounts, reserve(now, x, o, e, p, usd)
        PROVE  OpsOf(r)' = OpsOf(r)
    <3>1. ReserveResult(now, x, o, e, p)
      BY <2>3, ReserveEffect
    <3>2. CASE ops' = ops
      BY <3>2 DEF OpsOf
    <3>3. CASE ops' # ops
      <4>1. ~Closed(x)
        BY <3>1, <3>3 DEF ReserveResult, MayReserve, Closed
      <4>2. lastClock < runs[x].deadline
        <5>1. lastClock \in Nat /\ runs[x].deadline \in Nat /\ now \in Nat
          BY <3>1 DEF ReserveResult, TypeOK, IsTable, RunRow, Times
        <5>2. now >= lastClock
          BY <2>3 DEF reserve, Clock
        <5> QED
          BY <3>1, <5>1, <5>2 DEF ReserveResult
      <4>3. x # r
        <5>1. runs[r].deadline \in Nat /\ lastClock \in Nat
          BY DEF TypeOK, IsTable, RunRow
        <5> QED
          BY <4>1, <4>2, <5>1
      <4> QED
        BY <3>1, <3>3, <4>3 DEF ReserveResult, OpsOf
    <3> QED
      BY <3>2, <3>3
  <2> QED
    BY <2>1, <2>2, <2>3, MoneySteps
<1>4. ASSUME NEW c \in claims' \ claims, c.run = r
      PROVE  c.kind = "recovery"
  <2>1. ASSUME NEW now \in Times, NEW x \in Runs, NEW o \in Owners,
               claim(now, x, o)
        PROVE  c.kind = "recovery"
    <3>1. /\ ~Closed(x) /\ now < runs[x].deadline /\ now >= lastClock
          /\ x \in DOMAIN runs
      BY <2>1 DEF claim, Clock, Known
    <3>2. c.run = x
      BY <1>4, <2>1 DEF claim, Grant
    <3>3. /\ runs[r].deadline \in Nat /\ lastClock \in Nat /\ now \in Nat
      BY DEF TypeOK, IsTable, RunRow, Times
    <3> QED
      BY <1>4, <3>1, <3>2, <3>3
  <2>2. ASSUME NEW now \in Times, NEW x \in Runs, NEW o \in Owners,
               claim_recovery(now, x, o)
        PROVE  c.kind = "recovery"
    BY <1>4, <2>2 DEF claim_recovery, Grant
  <2>3. ASSUME NEW now \in Times, NEW x \in Runs, NEW profile \in Profiles,
               create_run(now, x, profile)
        PROVE  c.kind = "recovery"
    BY <1>4, <2>3 DEF create_run
  <2>4. ASSUME LeaseFrame PROVE c.kind = "recovery"
    BY <1>4, <2>4 DEF LeaseFrame
  <2> QED
    BY <2>1, <2>2, <2>3, <2>4, LeaseSteps
<1> QED
  BY <1>2, <1>3, <1>4

\* Once execution of a run is over it is over for good: no later step
\* reserves for it or grants it an execution lease.
THEOREM ClosedForGood == Spec => ExecutionStaysClosed
<1>1. TypeOK /\ TypeOK' /\ [Next]_vars => [ClosedStep]_vars
  BY ClosedStepHolds
<1> QED
  BY <1>1, TypeCorrect, PTL DEF Spec, ExecutionStaysClosed

LEMMA RecordsStepHolds ==
  ASSUME [Next]_vars
  PROVE  RecordsStep
<1>1. CASE terminal' = terminal /\ reports' = reports
  BY <1>1 DEF RecordsStep
<1>2. ASSUME NEW now \in Times, NEW r \in Runs, NEW o \in Owners,
             NEW e \in 1 .. MaxInt, NEW a \in Assurances,
             NEW w \in BOOLEAN, NEW f \in BOOLEAN,
             finalize(now, r, o, e, a, w, f)
      PROVE  RecordsStep
  <2>1. reports' = reports
    BY <1>2 DEF finalize
  <2>2. \/ terminal' = terminal
        \/ r \notin DOMAIN terminal /\ \E row : terminal' = Insert(terminal, r, row)
    BY <1>2 DEF finalize
  <2> QED
    BY <2>1, <2>2 DEF Insert, RecordsStep
<1>3. ASSUME NEW now \in Times, NEW q \in Requests, NEW content \in Reports,
             store_report(now, q, content)
      PROVE  RecordsStep
  BY <1>3 DEF store_report, Insert, RecordsStep
<1>4. ASSUME NEW now \in Times, Query(now) PROVE RecordsStep
  BY <1>1, <1>4 DEF Query
<1>5. ASSUME NEW now \in Times, NEW r \in Runs,
             \/ \E profile \in Profiles : create_run(now, r, profile)
             \/ \E o \in Owners : claim(now, r, o) \/ claim_recovery(now, r, o)
             \/ \E o \in Owners, e \in 1 .. MaxInt :
                  \/ \E p \in Operations, usd \in Amounts :
                       \/ reserve(now, r, o, e, p, usd)
                       \/ settle(now, r, o, e, p, usd)
                  \/ request_cancel(now, r, o, e)
                  \/ confirm_stopped(now, r, o, e)
      PROVE  RecordsStep
  BY <1>1, <1>5, ZenonT(60) DEF create_run, claim, claim_recovery, reserve, settle,
                              request_cancel, confirm_stopped
<1>6. ASSUME UNCHANGED vars PROVE RecordsStep
  BY <1>1, <1>6 DEF vars
<1> QED
  BY <1>2, <1>3, <1>4, <1>5, <1>6 DEF Next, RunStep

\* Terminal records and reports are written once and never rewritten.
THEOREM RecordsWrittenOnce == Spec => RecordsImmutable
<1>1. [Next]_vars => [RecordsStep]_vars
  BY RecordsStepHolds
<1> QED
  BY <1>1, PTL DEF Spec, RecordsImmutable
=============================================================================
