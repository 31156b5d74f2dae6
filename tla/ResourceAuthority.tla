-------------------------- MODULE ResourceAuthority --------------------------
(***************************************************************************)
(* The authenticated entry to the resource book: resource_authority.py     *)
(* with the part of evaluation_authority.py that calls it, and the two     *)
(* terminal receipts of a run, the normal one of assurance_authority.py    *)
(* (evidence_finalize) and the one of run_cancellation.py.                 *)
(*                                                                         *)
(* Every request is one transaction on the management database, so a       *)
(* request that makes several calls of the book (resource_start) is one    *)
(* action.  An operation is bound to one entry of the run's fixed plan; in *)
(* this release it is a non-billed local fixture with a fixed reservation. *)
(*                                                                         *)
(* Whether the adopted conditions of a run are current (check_start) is    *)
(* the business of the adoption side.  Here they come and go at any time.  *)
(* The evidence book's part of the two finalizations can only refuse them. *)
(***************************************************************************)
EXTENDS ResourceBook

CONSTANTS
  Entries,      \* the entries of a run's plan
  Regression,   \* the runs whose manifest has the purpose "regression"
  Fixture,      \* _reservation: one trial, no call, no tokens, no cost
  ZeroUsage     \* the only usage validate_request lets through

ASSUME AuthorityAssumption ==
  /\ Regression \subseteq Runs
  /\ Fixture \in Reservations
  /\ Fixture = [trials |-> 1, calls |-> 0, input |-> 0, output |-> 0,
                cost |-> 0]
  /\ ZeroUsage \in Usages
  /\ ZeroUsage = [input |-> 0, output |-> 0, cost |-> 0]

VARIABLES
  bindings,     \* table resource_bindings
  receipts,     \* authority_run_receipts and the cancel receipts, by run
  current       \* the runs whose adopted conditions are current

vars == <<lastClock, runs, ops, events, grants, bindings, receipts, current>>

BindingRow == [run : Runs, entry : Entries]
ReceiptRow == [kind : {"normal", "cancelled"}, closure : BOOLEAN]

-----------------------------------------------------------------------------
Init ==
  /\ BookInit
  /\ bindings = [p \in {} |-> {}]
  /\ receipts = [r \in {} |-> {}]
  /\ current = Runs

\* The adoption side: contracts are adopted, replaced and revoked.
ChangeConditions ==
  /\ current' \in SUBSET Runs
  /\ UNCHANGED <<bookVars, bindings, receipts>>

Rest == UNCHANGED <<bindings, receipts, current>>

\* run_begin: the request's identifier becomes the first owner.
run_begin(now, r, profile, o, deadline) ==
  /\ r \in current
  /\ create_run(now, r, profile, o, deadline)
  /\ Rest

\* Mutant: an entry is free as long as its operation was not dispatched.
TakenDispatched(r, p, entry) ==
  \E q \in DOMAIN bindings \ {p} :
    /\ bindings[q] = [run |-> r, entry |-> entry]
    /\ q \in DOMAIN ops /\ ops[q].intended # Null

\* The entry belongs to another operation: ENTRY_ALREADY_RESERVED, and the
\* UNIQUE constraint of the table.
Taken(r, p, entry) ==
  \E q \in DOMAIN bindings \ {p} :
    bindings[q] = [run |-> r, entry |-> entry]

\* _bound_entry: the entry has no other operation, the operation no other
\* entry.
BoundEntry(r, p, entry) ==
  /\ ~Taken(r, p, entry)
  /\ p \in DOMAIN bindings => bindings[p] = [run |-> r, entry |-> entry]

\* INSERT OR IGNORE: nothing is stored for a known operation or an entry
\* that is taken.
Bind(r, p, entry) ==
  bindings' = IF p \in DOMAIN bindings \/ Taken(r, p, entry)
                THEN bindings
                ELSE Insert(bindings, p, [run |-> r, entry |-> entry])

resource_claim(now, r, o, recovery) ==
  /\ ~recovery => r \in current
  /\ claim(now, r, o, recovery)
  /\ Rest

resource_reserve(now, r, o, e, p, entry) ==
  /\ r \in current
  /\ BoundEntry(r, p, entry)
  /\ reserve(now, r, o, e, p, Fixture)
  /\ Bind(r, p, entry)
  /\ UNCHANGED <<receipts, current>>

\* An operation of this run's plan.
Bound(r, p) == p \in DOMAIN bindings /\ bindings[p].run = r

resource_dispatch(now, r, o, e, p) ==
  /\ r \in current
  /\ Bound(r, p)
  /\ dispatch_intent(now, r, o, e, p)
  /\ Rest

\* Claim, reserve, bind and dispatch in one transaction, for an operation
\* that nobody has reserved.
resource_start(now, r, o, p, entry) ==
  /\ r \in current
  /\ p \notin DOMAIN ops
  /\ BoundEntry(r, p, entry)
  /\ Touch(now)
  /\ Known(r) /\ ~runs[r].closed /\ ~StartDenied(r, now)
  /\ Claimable(r, o, now)
  /\ HasSlot(r) /\ FitsRun(r, Fixture) /\ FitsGlobal(r, Fixture, now)
  /\ runs' = [runs EXCEPT ![r] = ClaimedRow(r, o, now)]
  /\ grants' = Granted(r, o, ClaimEpoch(r, now))
  /\ ops' = Insert(ops, p, [NewOp(r, ClaimEpoch(r, now), Fixture)
                              EXCEPT !.intended = now])
  /\ p \notin DOMAIN bindings /\ ~Taken(r, p, entry)   \* plain INSERT
  /\ Bind(r, p, entry)
  /\ UNCHANGED <<events, receipts, current>>

resource_observe(now, p, v, stopped, usage) ==
  /\ p \in DOMAIN bindings /\ p \in DOMAIN ops /\ Bound(ops[p].run, p)
  /\ usage \in {ZeroUsage, NoUsage}
  /\ observe(now, p, v, stopped, usage)
  /\ Rest

\* Mutant: the receipts are not looked up before a cancellation.
TerminalPendingAlways(r) == r \in Regression

\* A regression run may be cancelled even after it was closed, until it has
\* a receipt; with one, the request is answered and changes nothing.
TerminalPending(r) == r \in Regression /\ r \notin DOMAIN receipts

AlreadyTerminal(r) ==
  r \in Regression /\ r \in DOMAIN receipts /\ ~TerminalPending(r)

resource_cancel(now, r, o, e) ==
  /\ ~AlreadyTerminal(r)
  /\ cancel(now, r, o, e, TerminalPending(r))
  /\ Rest

\* Mutant: stopping a run requires current conditions.
MayStopCurrent(r) == r \in current

\* Stopping does not depend on the adopted conditions.
MayStop(r) == TRUE

resource_cancel_claim(now, r, o) ==
  /\ MayStop(r)
  /\ ~AlreadyTerminal(r)
  /\ claim_for_cancel(now, r, o, TerminalPending(r))
  /\ Rest

\* A cancellation of a run with a receipt re-reads the receipt.
cancel_answered(now, r) ==
  /\ AlreadyTerminal(r)
  /\ snapshot(now, r)
  /\ Rest

resource_close(now, r, o, e) ==
  /\ close(now, r, o, e)
  /\ Rest

-----------------------------------------------------------------------------
(* Terminal receipts.                                                       *)

\* What evidence_finalize asks of the book.
ClosureVerified(r) ==
  runs[r].closed /\ BudgetClosure(r) /\ ~runs[r].cancelled

\* The first call stores the receipt, later ones read it back.
evidence_finalize(now, r) ==
  /\ Known(r)
  /\ \/ /\ r \in DOMAIN receipts /\ receipts[r].kind = "normal"
        /\ UNCHANGED <<lastClock, receipts>>
     \/ /\ ~(r \in DOMAIN receipts /\ receipts[r].kind = "normal")
        /\ Touch(now)
        /\ ClosureVerified(r)
        /\ receipts' = Insert(receipts, r,
             [kind |-> "normal", closure |-> TRUE])
  /\ UNCHANGED <<runs, ops, events, grants, bindings, current>>

\* Mutant: an operation still executing does not hold the receipt back.
StoppedSlots(r, now) == runs[r].cancelled

\* _stopped: cancelled, and every operation either released before it was
\* dispatched or dispatched and seen to stop.
Stopped(r, now) ==
  /\ runs[r].cancelled
  /\ Slots(r) = 0
  /\ \A p \in OpsOf(r) :
       IF ops[p].intended = Null
         THEN ops[p].released
         ELSE /\ ~ops[p].released /\ ops[p].stopped # Null
              /\ ops[p].intended <= ops[p].stopped /\ ops[p].stopped <= now

\* run_cancel_finalize; reservations may stay unsettled.
run_cancel_finalize(now, r) ==
  /\ Touch(now)
  /\ Known(r) /\ r \in Regression
  /\ r \in DOMAIN receipts => receipts[r].kind = "cancelled"
  /\ Stopped(r, now)
  /\ receipts' = IF r \in DOMAIN receipts THEN receipts
                 ELSE Insert(receipts, r, [kind |-> "cancelled",
                                           closure |-> BudgetClosure(r)])
  /\ UNCHANGED <<runs, ops, events, grants, bindings, current>>

-----------------------------------------------------------------------------
OwnerNext(now, r, o) ==
  \/ \E profile \in Profiles, deadline \in now .. now + MaxClock :
       run_begin(now, r, profile, o, deadline)
  \/ \E recovery \in BOOLEAN : resource_claim(now, r, o, recovery)
  \/ \E p \in Operations, entry \in Entries :
       resource_start(now, r, o, p, entry)
  \/ resource_cancel_claim(now, r, o)

HolderNext(now, r, o, e) ==
  \/ \E p \in Operations :
       \/ \E entry \in Entries : resource_reserve(now, r, o, e, p, entry)
       \/ resource_dispatch(now, r, o, e, p)
  \/ resource_cancel(now, r, o, e)
  \/ resource_close(now, r, o, e)

Next ==
  \/ \E now \in Times :
       \/ \E r \in Runs, o \in Owners : OwnerNext(now, r, o)
       \/ \E g \in grants : HolderNext(now, g.run, g.owner, g.epoch)
       \/ \E v \in Events, m \in Reports :
            resource_observe(now, m.op, v, m.stopped, m.usage)
       \/ \E r \in Runs : \/ cancel_answered(now, r)
                          \/ evidence_finalize(now, r)
                          \/ run_cancel_finalize(now, r)
  \/ ChangeConditions

Spec == Init /\ [][Next]_vars

-----------------------------------------------------------------------------
(* Properties.                                                              *)

\* The tables hold rows of their types: the resource book's, the binding of
\* operations to plan entries and the receipts of ended runs.
AuthorityTypeOK ==
  /\ TypeOK
  /\ IsTable(bindings, Operations, BindingRow)
  /\ IsTable(receipts, Runs, ReceiptRow)
  /\ current \subseteq Runs

\* Every reservation is bound to an entry of its own run's plan: none is
\* left where resource_dispatch and resource_observe cannot find it.
EveryOperationBound ==
  /\ DOMAIN bindings = DOMAIN ops
  /\ \A p \in DOMAIN ops : bindings[p].run = ops[p].run

\* An entry of the plan is sent to execution at most once, whatever owners
\* take the run over, retry a lost answer or start under a new identifier.
EntryDispatchedOnce ==
  \A p, q \in DOMAIN ops :
    /\ p # q /\ ops[p].intended # Null /\ ops[q].intended # Null
    /\ bindings[p].run = bindings[q].run
    => bindings[p].entry # bindings[q].entry

\* What is executed is bound to the plan, entry by entry and once.
EntriesHold == AuthorityTypeOK /\ EveryOperationBound /\ EntryDispatchedOnce

\* A completed run was closed, was not and will not be cancelled, and every
\* operation of it was sent, stopped and accounted for.
NormalReceiptSound ==
  \A r \in DOMAIN receipts : receipts[r].kind = "normal" =>
    /\ runs[r].closed /\ ~runs[r].cancelled
    /\ \A p \in OpsOf(r) :
         ops[p].intended # Null /\ ops[p].stopped # Null /\ ops[p].usage # NoUsage

\* The receipt of a cancelled run can always be read back: load repeats the
\* check that everything has stopped, and later calls never invalidate it.
CancelReceiptReadable ==
  \A r \in DOMAIN receipts : receipts[r].kind = "cancelled" =>
    /\ r \in Regression /\ runs[r].cancelled
    /\ \A p \in OpsOf(r) : IF ops[p].intended = Null
                            THEN ops[p].released ELSE ops[p].stopped # Null

\* A receipt, of either kind, stays true whatever is requested after it.
ReceiptsSound == NormalReceiptSound /\ CancelReceiptReadable

\* A run ends in one way: a receipt is never replaced by the other kind.
ReceiptStep ==
  \A r \in DOMAIN receipts :
    r \in DOMAIN receipts' /\ receipts'[r] = receipts[r]
=============================================================================
