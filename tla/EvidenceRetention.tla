-------------------------- MODULE EvidenceRetention --------------------------
(***************************************************************************)
(* The evidence of runs in the authority's database: how it comes about    *)
(* (assurance_authority.py), when it still counts, and how it is kept,     *)
(* held and deleted (evidence_retention.py), under permissions that are    *)
(* withdrawn (adoption.py).                                                *)
(*                                                                         *)
(* A request of the authority is one transaction, so an action is a whole  *)
(* request.  A run has one attempt here, whose resources are closed as     *)
(* soon as it is executed (ResourceAuthority has that part); a receipt     *)
(* tells only whether the run shows the problem that is followed up.       *)
(* Optimistic locking by expected_hold_ref is left out where the caller    *)
(* can simply read again; the plan keeps the reference it was made under.  *)
(***************************************************************************)
EXTENDS Integers, FiniteSets

CONSTANTS
  Runs,
  Finished,      \* the runs that have a receipt from the start
  Freshness,     \* FRESHNESS_SECONDS: how long evidence counts
  Retention,     \* RETENTION_SECONDS: how long it has to be kept
  PlanLife,      \* 3600 in the code
  Withdrawable,  \* bound: the actors that may be withdrawn
  Disturbed,     \* bound: the runs whose evidence is disputed, held, deleted
  MaxTime, MaxGeneration, MaxHolds, MaxPlans \* bounds

ASSUME RetentionAssumption ==
  /\ Finished \subseteq Runs /\ Disturbed \subseteq Runs
  /\ Freshness \in Nat /\ Retention \in Nat /\ PlanLife \in Nat
  /\ Freshness < Retention
  /\ MaxTime \in Nat /\ MaxGeneration \in Nat
  /\ MaxHolds \in Nat /\ MaxPlans \in Nat

Manager == "manager"
Validator == "validator"
Operator == "operator"

VARIABLES
  clock,
  generation,  \* adoption_meta.permission_generation
  withdrawn,   \* the actors in revocations
  adopted,     \* the contract a run is begun under is current and valid
  retired,     \* the target of the control is retired
  run,         \* eval_runs, attempts and their origins, receipts
  hold,        \* the hold state of a run's evidence
  plans,       \* deletion plans
  tombstone    \* run -> its tombstone, for the runs that have one

authority == <<clock, generation, withdrawn, adopted, retired>>
retention == <<hold, plans, tombstone>>
retentionVars == <<authority, run, retention>>

Absent == [phase |-> "absent", begun |-> 0, observed |-> 0, origin |-> 0,
           created |-> 0, granted |-> 0, clean |-> FALSE,
           revoked |-> FALSE, held |-> FALSE]

\* A run with the problem, its receipt written at time 0.
Found == [Absent EXCEPT !.phase = "final"]

NoHold == [active |-> FALSE, sequence |-> 0]

RetentionInit ==
  /\ clock = 0 /\ generation = 0 /\ withdrawn = {}
  /\ adopted = TRUE /\ retired = FALSE
  /\ run = [r \in Runs |-> IF r \in Finished THEN Found ELSE Absent]
  /\ hold = [r \in Runs |-> NoHold]
  /\ plans = {}
  /\ tombstone = [r \in {} |-> 0]

-----------------------------------------------------------------------------
(* What the requests check.                                                 *)

\* AdoptionStore.dispatch: a withdrawn actor gets nothing done.
Permitted(actor) == actor \notin withdrawn

Final(r) == run[r].phase = "final"
Deleted(r) == r \in DOMAIN tombstone

ValidUntil(r) == run[r].observed + Freshness
RetentionUntil(r) == run[r].observed + Retention

\* _check_start: a contract adopted under older permissions never becomes
\* valid again for the runs begun under it, a retired target never.
Startable(r) == adopted /\ ~retired /\ run[r].begun = generation

\* Mutant: an attempt that comes after the receipt is only kept.
NeverDisputed(r) == FALSE

\* The run ledger's view is HOLD.
Disputed(r) == run[r].held

OriginStale(r) ==
  run[r].granted # generation \/ Validator \in withdrawn

\* The "reasons" of evidence_current and _baseline_source.
Reasons(r) ==
  {reason \in {"REVOKED", "ORIGIN", "HOLD", "EXPIRED", "CONDITIONS"} :
     CASE reason = "REVOKED"    -> run[r].revoked
       [] reason = "ORIGIN"     -> OriginStale(r)
       [] reason = "HOLD"       -> Disputed(r)
       [] reason = "EXPIRED"    -> clock > ValidUntil(r)
       [] reason = "CONDITIONS" -> ~Startable(r)}

\* baseline_source answers for every receipt whose evidence is not deleted;
\* _check_source accepts the answer only without a reason.
Resolvable(r) == Final(r) /\ ~Deleted(r)
FreshSource(r) == Resolvable(r) /\ Reasons(r) = {}

-----------------------------------------------------------------------------
(* The life of a run.                                                       *)

OnlyRun == UNCHANGED <<authority, retention>>

run_begin(r) ==
  /\ Permitted(Operator) /\ run[r].phase = "absent"
  /\ adopted /\ ~retired
  /\ run' = [run EXCEPT ![r] =
       [@ EXCEPT !.phase = "begun", !.begun = generation]]
  /\ OnlyRun

\* resource_dispatch up to resource_observe.
Perform(r) ==
  /\ Permitted(Operator) /\ run[r].phase = "begun" /\ Startable(r)
  /\ run' = [run EXCEPT ![r] =
       [@ EXCEPT !.phase = "executed", !.observed = clock]]
  /\ OnlyRun

evidence_record(r) ==
  /\ Permitted(Validator) /\ run[r].phase = "executed"
  /\ run' = [run EXCEPT ![r] =
       [@ EXCEPT !.phase = "recorded", !.origin = generation]]
  /\ OnlyRun

\* An attempt that contradicts the recorded one, or comes after the receipt,
\* is kept as an event and puts the evidence on hold.
conflicting_record(r) ==
  /\ Permitted(Validator) /\ run[r].phase \in {"recorded", "final"}
  /\ ~run[r].held
  /\ run' = [run EXCEPT ![r].held = TRUE]
  /\ OnlyRun

\* Attempts recorded under older permissions are refused for good.
evidence_finalize(r) ==
  /\ Permitted(Operator) /\ Permitted(Validator)
  /\ run[r].phase = "recorded" /\ run[r].origin = generation
  /\ \E clean \in BOOLEAN :
       run' = [run EXCEPT ![r] =
         [@ EXCEPT !.phase = "final", !.created = clock,
                   !.granted = generation, !.clean = clean]]
  /\ OnlyRun

evidence_revoke(r) ==
  /\ Permitted(Operator) /\ Resolvable(r) /\ ~run[r].revoked
  /\ run' = [run EXCEPT ![r].revoked = TRUE]
  /\ OnlyRun

-----------------------------------------------------------------------------
(* Permissions, time and adopted conditions.                                *)

\* Both withdrawals start a new generation of permissions, under which
\* everything adopted has to be validated again.
Withdraw(actors) ==
  /\ Permitted(Operator) /\ generation < MaxGeneration
  /\ generation' = generation + 1
  /\ withdrawn' = withdrawn \cup actors
  /\ adopted' = FALSE
  /\ UNCHANGED <<clock, retired, run, retention>>

revoke_actor(actor) == actor \notin withdrawn /\ Withdraw({actor})
revoke_validation == Withdraw({})

\* The adopted contract expires, is replaced or validated again.
ConditionsChange ==
  /\ adopted' = ~adopted
  /\ UNCHANGED <<clock, generation, withdrawn, retired, run, retention>>

target_retire ==
  /\ Permitted(Manager) /\ adopted /\ ~retired
  /\ retired' = TRUE
  /\ UNCHANGED <<clock, generation, withdrawn, adopted, run, retention>>

Tick ==
  /\ clock < MaxTime
  /\ clock' = clock + 1
  /\ UNCHANGED <<generation, withdrawn, adopted, retired, run, retention>>

-----------------------------------------------------------------------------
(* Holds, deletion plans, deletion.                                         *)

evidence_retention_hold(r, active) ==
  /\ Permitted(Manager) /\ Resolvable(r) /\ hold[r].sequence < MaxHolds
  /\ hold' = [hold EXCEPT ![r] =
       [active |-> active, sequence |-> @.sequence + 1]]
  /\ UNCHANGED <<authority, run, plans, tombstone>>

Removable(r, reason) ==
  reason = "RETENTION_EXPIRED" => clock > RetentionUntil(r)

evidence_retention_plan(r, reason) ==
  /\ Permitted(Manager) /\ Resolvable(r) /\ ~hold[r].active
  /\ Removable(r, reason)
  /\ Cardinality(plans) < MaxPlans
  /\ plans' = plans \cup {[run |-> r, hold |-> hold[r], reason |-> reason,
                           granted |-> generation, recorded |-> clock]}
  /\ UNCHANGED <<authority, run, hold, tombstone>>

\* Mutant: a plan is good as long as no hold is active.
PlanValidUnlessHeld(plan) ==
  /\ plan.granted = generation /\ Permitted(Manager)
  /\ clock <= plan.recorded + PlanLife
  /\ Removable(plan.run, plan.reason)

PlanValid(plan) ==
  /\ plan.granted = generation /\ Permitted(Manager)
  /\ clock <= plan.recorded + PlanLife
  /\ plan.hold = hold[plan.run]
  /\ Removable(plan.run, plan.reason)

\* The tombstone is stored and the evidence deleted in one transaction.
evidence_retention_apply(plan) ==
  LET r == plan.run
  IN /\ Permitted(Operator) /\ Resolvable(r) /\ ~hold[r].active
     /\ PlanValid(plan)
     /\ tombstone' = [s \in DOMAIN tombstone \cup {r} |->
          IF s = r THEN [plan |-> plan, granted |-> generation,
                         recorded |-> clock]
                   ELSE tombstone[s]]
     /\ UNCHANGED <<authority, run, hold, plans>>

RetentionNext ==
  \/ Tick \/ revoke_validation \/ ConditionsChange \/ target_retire
  \/ \E actor \in Withdrawable : revoke_actor(actor)
  \/ \E r \in Runs :
       \/ run_begin(r) \/ Perform(r)
       \/ evidence_record(r) \/ evidence_finalize(r)
  \/ \E r \in Disturbed :
       \/ conflicting_record(r) \/ evidence_revoke(r)
       \/ \E active \in BOOLEAN : evidence_retention_hold(r, active)
       \/ \E reason \in {"RETENTION_EXPIRED", "EXPLICIT_REMOVAL"} :
            evidence_retention_plan(r, reason)
  \/ \E plan \in plans : evidence_retention_apply(plan)

-----------------------------------------------------------------------------
(* Properties.                                                              *)

\* Evidence is gone only by a decision that still stood: the plan was made
\* under the hold state that was in force at the deletion and has been since
\* (so no hold was placed in between, not even one that was released), under
\* the same permissions, within its life, and with an expired retention when
\* that was its reason.
DeletionAuthorized ==
  \A r \in DOMAIN tombstone :
    LET stone == tombstone[r]
        plan == stone.plan
    IN /\ plan.run = r /\ plan \in plans
       /\ ~hold[r].active /\ hold[r].sequence = plan.hold.sequence
       /\ stone.granted = plan.granted
       /\ stone.recorded \in plan.recorded .. plan.recorded + PlanLife
       /\ plan.reason = "RETENTION_EXPIRED" =>
            stone.recorded > run[r].observed + Retention
=============================================================================
